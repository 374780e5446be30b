---------------------------- MODULE PeersProofs ------------------------------
(***************************************************************************)
(* The programs of Peers, for any number of descriptors, bytes, questions  *)
(* and faults: what they count and print is right.                         *)
(***************************************************************************)
EXTENDS Peers, Sequences, FiniteSetTheorems, WellFoundedInduction, TLAPS

-----------------------------------------------------------------------------
(* read_data_and_count.  What epoll reported and is not processed yet is   *)
(* one event each of descriptors that have not been given up.              *)
CountTypes ==
  /\ loop \in {"add", "wait", "events", "returned"}
  /\ inbox \in [Count!Fds -> Nat] /\ written \in [Count!Fds -> Nat]
  /\ peer \in [Count!Fds -> {"open", "closed"}]
  /\ data \in [Count!Fds -> [count : Nat, done : BOOLEAN]]
  /\ events \subseteq [fd : Count!Fds, in : BOOLEAN]

EventsAreOpen ==
  loop = "events" =>
    /\ \A e \in events : ~data[e.fd].done
    /\ \A d, e \in events : d.fd = e.fd => d = e

CountInv == CountTypes /\ EventsAreOpen /\ CountsAll

(* Cardinality is the same operator inside the instance.                   *)
LEMMA SameCardinality == \A S : Count!Cardinality(S) = Cardinality(S)
BY DEF Count!Cardinality, Cardinality

LEMMA CountParts ==
  ASSUME CountsAll
  PROVE  Count!BytesKept /\ files_left = Cardinality(Count!Open) /\ Count!ResultIsSum
BY SameCardinality DEF CountsAll, Count!CountsAll

LEMMA CountWhole ==
  ASSUME Count!BytesKept', (files_left = Cardinality(Count!Open))', Count!ResultIsSum'
  PROVE  CountsAll'
BY SameCardinality DEF CountsAll, Count!CountsAll

LEMMA FdsFinite == N \in Nat /\ Count!Fds = 1..N /\ IsFiniteSet(Count!Fds) /\ Cardinality(Count!Fds) = N
<1>1. N \in Nat /\ Count!Fds = 1..N
  BY PeersAssumption DEF Count!CountAssumption, Count!Fds
<1>2. \A n \in Nat : IsFiniteSet(1..n) /\ Cardinality(1..n) = n
  BY FS_Interval
<1> QED
  BY <1>1, <1>2

LEMMA CountInit == ASSUME Count!Init \/ Count!Unmounted PROVE CountInv
<1>1. /\ loop = "add" /\ inbox = [f \in Count!Fds |-> 0] /\ written = inbox
      /\ peer = [f \in Count!Fds |-> "open"] /\ events = {} /\ files_left = N
      /\ data = [f \in Count!Fds |-> [count |-> 0, done |-> FALSE]]
  BY DEF Count!Init, Count!Unmounted, Count!Unused
<1>2. CountTypes /\ EventsAreOpen
  BY <1>1 DEF CountTypes, EventsAreOpen
<1>3. files_left = Cardinality(Count!Open)
  <2>1. Count!Open = Count!Fds
    BY <1>1 DEF Count!Open
  <2> QED
    BY <1>1, <2>1, FdsFinite
<1>4. Count!BytesKept /\ Count!ResultIsSum
  BY <1>1 DEF Count!BytesKept, Count!ResultIsSum
<1> QED
  BY <1>2, <1>3, <1>4, SameCardinality DEF CountInv, CountsAll, Count!CountsAll

(* A descriptor that was given up receives nothing any more.               *)
LEMMA CountPeers ==
  ASSUME CountInv, NEW f \in Count!Fds, Count!PeerWrites(f) \/ Count!PeerCloses(f)
  PROVE  CountInv'
<1>1. /\ UNCHANGED <<loop, data, events, files_left, result>> /\ peer[f] = "open"
      /\ \/ /\ peer' = peer
            /\ written' = [written EXCEPT ![f] = @ + 1] /\ inbox' = [inbox EXCEPT ![f] = @ + 1]
         \/ UNCHANGED <<written, inbox>> /\ peer' = [peer EXCEPT ![f] = "closed"]
  BY DEF Count!PeerWrites, Count!PeerCloses
<1>2. CountTypes'
  BY <1>1 DEF CountInv, CountTypes
<1>3. EventsAreOpen'
  BY <1>1 DEF CountInv, EventsAreOpen
<1>4. \A g \in Count!Fds : /\ written[g] = data[g].count + inbox[g]
                           /\ data[g].done => peer[g] = "closed" /\ inbox[g] = 0
  BY CountParts DEF CountInv, Count!BytesKept, Count!HungUp
<1>5. ~data[f].done
  BY <1>1, <1>4
<1>6. ASSUME NEW g \in Count!Fds
      PROVE  /\ written'[g] = data'[g].count + inbox'[g]
             /\ data'[g].done => peer'[g] = "closed" /\ inbox'[g] = 0
  <2>1. written[g] \in Nat /\ data[g].count \in Nat /\ inbox[g] \in Nat
    BY DEF CountInv, CountTypes
  <2> QED
    BY <1>1, <1>4, <1>5, <2>1 DEF CountInv, CountTypes
<1>7. Count!BytesKept'
  BY <1>6 DEF Count!BytesKept, Count!HungUp
<1>8. Count!ResultIsSum'
  BY <1>1, <1>5, CountParts DEF CountInv, Count!ResultIsSum
<1>9. (files_left = Cardinality(Count!Open))'
  <2>1. Count!Open' = Count!Open
    BY <1>1 DEF Count!Open
  <2> QED
    BY <1>1, <2>1, CountParts DEF CountInv
<1> QED
  BY <1>2, <1>3, <1>7, <1>8, <1>9, CountWhole DEF CountInv

(* Steps that read nothing and give up nothing.                            *)
LEMMA CountKept ==
  ASSUME CountInv, UNCHANGED <<inbox, written, peer, data, files_left>>, loop' # "returned"
  PROVE  CountsAll'
<1>1. Count!BytesKept'
  BY CountParts DEF CountInv, Count!BytesKept, Count!HungUp
<1>2. (files_left = Cardinality(Count!Open))'
  <2>1. Count!Open' = Count!Open
    BY DEF Count!Open
  <2> QED
    BY <2>1, CountParts DEF CountInv
<1>3. Count!ResultIsSum'
  BY DEF Count!ResultIsSum
<1> QED
  BY <1>1, <1>2, <1>3, CountWhole

LEMMA CountWait ==
  ASSUME CountInv, Count!Create \/ Count!EpollWait PROVE CountInv'
<1>1. /\ UNCHANGED <<kind, inbox, written, peer, data, files_left, result>>
      /\ \/ loop' = "wait" /\ events' = events
         \/ loop' = "events" /\ events' = {Count!Event(f) : f \in Count!ReadyFds}
  BY DEF Count!Create, Count!EpollWait, Count!outside
<1>2. \A f \in Count!ReadyFds :
        /\ Count!Event(f) \in [fd : Count!Fds, in : BOOLEAN] /\ Count!Event(f).fd = f
        /\ f \in Count!Fds /\ ~data[f].done
  BY DEF Count!ReadyFds, Count!Event, Count!HungUp
<1>3. CountTypes'
  BY <1>1, <1>2 DEF CountInv, CountTypes
<1>4. EventsAreOpen'
  BY <1>1, <1>2 DEF EventsAreOpen
<1>5. CountsAll'
  BY <1>1, CountKept
<1> QED
  BY <1>3, <1>4, <1>5 DEF CountInv

(* A descriptor is given up only when it has hung up, and only once.       *)
LEMMA CountProcess == ASSUME CountInv, Count!ProcessEvent PROVE CountInv'
<1>1. PICK e \in events :
        LET f == e.fd
            cnt == IF ~e.in THEN 0 ELSE IF inbox[f] < BufferSize THEN inbox[f] ELSE BufferSize
        IN /\ loop = "events" /\ events' = events \ {e}
           /\ inbox' = [inbox EXCEPT ![f] = @ - cnt]
           /\ data' = [data EXCEPT ![f] = Count!AfterRead(@, cnt, e.in /\ Count!HungUp(f))]
           /\ files_left' = IF data'[f].done THEN files_left - 1 ELSE files_left
           /\ loop' = IF events' = {} THEN "wait" ELSE loop
           /\ UNCHANGED <<kind, written, peer, result>>
  BY DEF Count!ProcessEvent
<1> DEFINE f == e.fd
           cnt == IF ~e.in THEN 0 ELSE IF inbox[f] < BufferSize THEN inbox[f] ELSE BufferSize
           d == Count!AfterRead(data[f], cnt, e.in /\ Count!HungUp(f))
<1>2. /\ f \in Count!Fds /\ inbox[f] \in Nat /\ BufferSize \in Nat /\ data[f].count \in Nat
      /\ data[f] \in [count : Nat, done : BOOLEAN] /\ ~data[f].done
  BY <1>1, PeersAssumption DEF CountInv, CountTypes, EventsAreOpen, Count!CountAssumption
<1>3. cnt \in Nat /\ cnt <= inbox[f]
  BY <1>2
<1>4. /\ events' = events \ {e} /\ inbox' = [inbox EXCEPT ![f] = @ - cnt]
      /\ data' = [data EXCEPT ![f] = d]
      /\ files_left' = IF data'[f].done THEN files_left - 1 ELSE files_left
      /\ loop' \in {"wait", "events"} /\ UNCHANGED <<kind, written, peer, result>>
  BY <1>1
<1>5. /\ d \in [count : Nat, done : BOOLEAN] /\ d.count = data[f].count + cnt
      /\ d.done => peer[f] = "closed" /\ inbox[f] = 0 /\ cnt = 0
  <2> HIDE DEF cnt
  <2>1. CASE cnt > 0
    BY <1>2, <1>3, <2>1 DEF Count!AfterRead, Count!CountWith
  <2>2. CASE cnt = 0 /\ e.in /\ Count!HungUp(f)
    <3>1. d = [data[f] EXCEPT !.done = TRUE] /\ peer[f] = "closed" /\ inbox[f] = 0
      BY <2>2 DEF Count!AfterRead, Count!HungUp
    <3> HIDE DEF d
    <3>2. d \in [count : Nat, done : BOOLEAN] /\ d.count = data[f].count
      BY <1>2, <3>1
    <3> QED
      BY <1>2, <2>2, <3>1, <3>2
  <2>3. CASE cnt = 0 /\ ~(e.in /\ Count!HungUp(f))
    BY <1>2, <2>3 DEF Count!AfterRead
  <2> QED
    BY <1>3, <2>1, <2>2, <2>3
<1> HIDE DEF f, cnt, d
<1>6. /\ inbox' \in [Count!Fds -> Nat] /\ data' \in [Count!Fds -> [count : Nat, done : BOOLEAN]]
      /\ inbox'[f] = inbox[f] - cnt /\ data'[f] = d
      /\ \A g \in Count!Fds : g # f => inbox'[g] = inbox[g] /\ data'[g] = data[g]
  BY <1>2, <1>3, <1>4, <1>5 DEF CountInv, CountTypes
<1>7. CountTypes'
  BY <1>4, <1>6 DEF CountInv, CountTypes
<1>8. EventsAreOpen'
  <2>1. \A a \in events : a # e => a.fd \in Count!Fds /\ a.fd # f
    BY <1>1 DEF CountInv, CountTypes, EventsAreOpen, f
  <2>2. \A a \in events' : ~data'[a.fd].done
    BY <1>1, <1>4, <1>6, <2>1 DEF CountInv, EventsAreOpen
  <2>3. \A a, b \in events' : a.fd = b.fd => a = b
    BY <1>1, <1>4 DEF CountInv, EventsAreOpen
  <2> QED
    BY <2>2, <2>3 DEF EventsAreOpen
<1>9. Count!BytesKept'
  <2>1. \A g \in Count!Fds : /\ written[g] = data[g].count + inbox[g]
                             /\ data[g].done => peer[g] = "closed" /\ inbox[g] = 0
    BY CountParts DEF CountInv, Count!BytesKept, Count!HungUp
  <2>2. ASSUME NEW g \in Count!Fds
        PROVE  /\ written'[g] = data'[g].count + inbox'[g]
               /\ data'[g].done => peer'[g] = "closed" /\ inbox'[g] = 0
    <3>1. CASE g = f
      BY <1>2, <1>3, <1>4, <1>5, <1>6, <2>1, <3>1
    <3>2. CASE g # f
      BY <1>4, <1>6, <2>1, <3>2
    <3> QED
      BY <3>1, <3>2
  <2> QED
    BY <2>2 DEF Count!BytesKept, Count!HungUp
<1>10. (files_left = Cardinality(Count!Open))'
  <2>1. /\ files_left = Cardinality(Count!Open) /\ f \in Count!Open
        /\ IsFiniteSet(Count!Open)
    BY <1>2, CountParts, FdsFinite, FS_Subset DEF CountInv, Count!Open
  <2>2. CASE d.done
    <3>1. Count!Open' = Count!Open \ {f}
      BY <1>6, <2>2 DEF Count!Open
    <3>2. Cardinality(Count!Open \ {f}) = Cardinality(Count!Open) - 1
      BY <2>1, FS_RemoveElement
    <3> QED
      BY <1>4, <1>6, <2>1, <2>2, <3>1, <3>2
  <2>3. CASE ~d.done
    <3>1. Count!Open' = Count!Open
      BY <1>2, <1>6, <2>3 DEF Count!Open
    <3> QED
      BY <1>4, <1>6, <2>1, <2>3, <3>1
  <2> QED
    BY <2>2, <2>3
<1>11. Count!ResultIsSum'
  BY <1>4 DEF Count!ResultIsSum
<1> QED
  BY <1>7, <1>8, <1>9, <1>10, <1>11, CountWhole DEF CountInv

(* With no descriptor left, all that was written has been counted.         *)
LEMMA CountReturn == ASSUME CountInv, Count!Return PROVE CountInv'
<1>1. /\ loop' = "returned" /\ files_left = 0
      /\ result' = Count!Total([f \in Count!Fds |-> data[f].count])
      /\ UNCHANGED <<kind, inbox, written, peer, data, events, files_left>>
  BY DEF Count!Return, Count!outside
<1>2. CountTypes' /\ EventsAreOpen'
  BY <1>1 DEF CountInv, CountTypes, EventsAreOpen
<1>3. Count!Open = {}
  <2>1. Cardinality(Count!Open) = 0 /\ IsFiniteSet(Count!Open)
    BY <1>1, CountParts, FdsFinite, FS_Subset DEF CountInv, Count!Open
  <2> QED
    BY <2>1, FS_EmptySet
<1>4. \A f \in Count!Fds : data[f].done
  BY <1>3 DEF Count!Open
<1>5. \A f \in Count!Fds : written[f] = data[f].count
  <2>1. \A f \in Count!Fds : written[f] = data[f].count + inbox[f] /\ inbox[f] = 0
    BY <1>4, CountParts DEF CountInv, Count!BytesKept, Count!HungUp
  <2> QED
    BY <2>1 DEF CountInv, CountTypes
<1>6. [f \in Count!Fds |-> data[f].count] = written
  BY <1>5 DEF CountInv, CountTypes
<1>7. Count!Total(written)' = Count!Total(written)
  BY <1>1
<1>8. Count!ResultIsSum'
  BY <1>1, <1>4, <1>6, <1>7 DEF Count!ResultIsSum
<1>9. Count!BytesKept'
  BY <1>1, CountParts DEF CountInv, Count!BytesKept, Count!HungUp
<1>10. (files_left = Cardinality(Count!Open))'
  BY <1>1, CountParts DEF CountInv, Count!Open
<1> QED
  BY <1>2, <1>8, <1>9, <1>10, CountWhole DEF CountInv

LEMMA CountStutter == ASSUME CountInv, UNCHANGED epoll PROVE CountInv'
<1>1. UNCHANGED <<loop, inbox, written, peer, data, events, files_left, result>>
  BY DEF epoll
<1>2. CountTypes' /\ EventsAreOpen'
  BY <1>1 DEF CountInv, CountTypes, EventsAreOpen
<1>3. Count!BytesKept'
  BY <1>1, CountParts DEF CountInv, Count!BytesKept, Count!HungUp
<1>4. (files_left = Cardinality(Count!Open))'
  BY <1>1, CountParts DEF CountInv, Count!Open
<1>5. Count!ResultIsSum'
  <2>1. Count!Total(written)' = Count!Total(written)
    BY <1>1
  <2> QED
    BY <1>1, <2>1, CountParts DEF CountInv, Count!ResultIsSum
<1> QED
  BY <1>2, <1>3, <1>4, <1>5, CountWhole DEF CountInv

(* The bytes that read_data_and_count returns are those that were written, *)
(* of any number of descriptors, however epoll reports them.               *)
THEOREM AllBytesCounted == Spec => []CountsAll
<1>1. Init => CountInv
  BY CountInit DEF Init
<1>2. CountInv /\ [Next]_vars => CountInv'
  <2> SUFFICES ASSUME CountInv, [Next]_vars PROVE CountInv'
    OBVIOUS
  <2>1. CASE Epoll /\ Count!Next
    BY <2>1, CountPeers, CountWait, CountProcess, CountReturn DEF Count!Next, Count!Program
  <2>2. CASE UNCHANGED epoll
    BY <2>2, CountStutter
  <2> QED
    BY <2>1, <2>2 DEF Next, vars, Signals, Datagrams, Streams, Family
<1>3. CountInv => CountsAll
  BY DEF CountInv
<1> QED
  BY <1>1, <1>2, <1>3, PTL DEF Spec

-----------------------------------------------------------------------------
(* The clients of 18_udp.  A datagram under way answers a request that was *)
(* asked; there are no more of them, and of answers that came before, than *)
(* requests not answered yet and datagrams doubled.                        *)
Datagram == [to : {"server", "client"}, of : Nat, copy : Nat, sound : BOOLEAN]

DgramTypes ==
  /\ at \in {"ask", "wait", "usleep", "ended"} /\ asked \in Nat
  /\ net \subseteq Datagram /\ IsFiniteSet(net)
  /\ received \in Seq(Datagram) /\ answers \in Seq(Datagram)
  /\ faults \in [lost : Nat, doubled : Nat, damaged : Nat]

OneAtATime ==
  /\ \A d \in net : d.of <= asked
  /\ \A k \in 1..Len(received) : received[k].of <= asked
  /\ at \in {"ask", "usleep"} => Len(answers) = asked
  /\ at = "wait" => Len(answers) + 1 = asked
  /\ Len(answers) <= asked
  /\ \A k \in 1..Len(answers) :
       answers[k].of <= k /\ (client = "ping" => answers[k].sound)

Of(s) == {s[k].of : k \in 1..Len(s)}
UnderWay == {d.of : d \in net} \cup Of(received)
Fresh == UnderWay \ Of(answers)
FewRepeated ==
  Cardinality(Dgram!Repeated) + Cardinality(net) + Len(received)
    <= Cardinality(Fresh) + faults.doubled

DgramInv == DgramTypes /\ OneAtATime /\ FewRepeated

LEMMA SameCardinalityThere == \A S : Dgram!Cardinality(S) = Cardinality(S)
BY DEF Dgram!Cardinality, Cardinality

LEMMA SeqOf ==
  ASSUME NEW T, NEW s \in Seq(T)
  PROVE  Len(s) \in Nat /\ DOMAIN s = 1..Len(s) /\ \A k \in 1..Len(s) : s[k] \in T
OBVIOUS

(* What the invariant says of the numbers of the requests.                 *)
LEMMA DgramNumbers ==
  ASSUME DgramTypes, OneAtATime
  PROVE  /\ asked \in Nat /\ \A d \in net : d.of \in 0..asked
         /\ Len(received) \in Nat /\ \A k \in 1..Len(received) : received[k].of \in 0..asked
         /\ Len(answers) \in Nat /\ \A k \in 1..Len(answers) : answers[k].of \in 0..asked
         /\ UnderWay \subseteq 0..asked /\ Of(answers) \subseteq 0..asked
<1>1. \A d \in Datagram : d.of \in Nat
  BY DEF Datagram
<1>2. asked \in Nat /\ \A d \in net : d.of \in 0..asked
  BY <1>1 DEF DgramTypes, OneAtATime
<1>3. Len(received) \in Nat /\ \A k \in 1..Len(received) : received[k].of \in 0..asked
  <2>1. Len(received) \in Nat /\ \A k \in 1..Len(received) : received[k] \in Datagram
    BY SeqOf DEF DgramTypes
  <2> QED
    BY <1>1, <1>2, <2>1 DEF OneAtATime
<1>4. Len(answers) \in Nat /\ \A k \in 1..Len(answers) : answers[k].of \in 0..asked
  <2>1. Len(answers) \in Nat /\ \A k \in 1..Len(answers) : answers[k] \in Datagram
    BY SeqOf DEF DgramTypes
  <2>2. \A k \in 1..Len(answers) : answers[k].of \in Nat /\ answers[k].of <= k
    BY <1>1, <2>1 DEF OneAtATime
  <2> QED
    BY <1>2, <2>1, <2>2 DEF OneAtATime
<1> QED
  BY <1>2, <1>3, <1>4 DEF UnderWay, Of

LEMMA DgramFinite ==
  ASSUME DgramTypes, OneAtATime
  PROVE  /\ IsFiniteSet(Fresh) /\ IsFiniteSet(Dgram!Repeated) /\ IsFiniteSet(net)
         /\ Cardinality(Fresh) \in Nat /\ Cardinality(Dgram!Repeated) \in Nat
         /\ Cardinality(net) \in Nat
         /\ Fresh \subseteq 0..asked /\ Dgram!Repeated \subseteq 1..Len(answers)
<1>1. \A n \in Nat : IsFiniteSet(0..n) /\ IsFiniteSet(1..n)
  BY FS_Interval
<1>2. asked \in Nat /\ Len(answers) \in Nat
  BY DgramNumbers
<1>5. Fresh \subseteq 0..asked
  BY DgramNumbers DEF Fresh
<1>6. Dgram!Repeated \subseteq 1..Len(answers)
  BY DEF Dgram!Repeated, DgramTypes
<1>7. IsFiniteSet(Fresh) /\ IsFiniteSet(Dgram!Repeated)
  BY <1>1, <1>2, <1>5, <1>6, FS_Subset
<1> QED
  BY <1>5, <1>6, <1>7, FS_CardinalityType DEF DgramTypes

(* The sum does not grow when nothing new is under way and one datagram    *)
(* less, or when of two sets the smaller one loses an element.             *)
LEMMA WithoutOne ==
  ASSUME NEW S, IsFiniteSet(S), NEW T, IsFiniteSet(T), NEW x, S \ {x} \subseteq T
  PROVE  Cardinality(S) \in Nat /\ Cardinality(T) \in Nat /\ Cardinality(S) <= Cardinality(T) + 1
<1>1. IsFiniteSet(S \ {x}) /\ Cardinality(S \ {x}) \in Nat /\ Cardinality(T) \in Nat
      /\ Cardinality(S) \in Nat
  BY FS_Subset, FS_CardinalityType
<1>2. Cardinality(S \ {x}) <= Cardinality(T)
  BY <1>1, FS_Subset
<1>3. Cardinality(S \ {x}) = Cardinality(S) \/ Cardinality(S \ {x}) = Cardinality(S) - 1
  <2>1. CASE x \in S
    BY <2>1, FS_RemoveElement
  <2>2. CASE x \notin S
    <3>1. S \ {x} = S
      BY <2>2
    <3> QED
      BY <3>1
  <2> QED
    BY <2>1, <2>2
<1> QED
  BY <1>1, <1>2, <1>3

LEMMA WithOne ==
  ASSUME NEW S, IsFiniteSet(S), NEW x
  PROVE  /\ IsFiniteSet(S \cup {x}) /\ Cardinality(S) \in Nat
         /\ Cardinality(S \cup {x}) \in Nat /\ Cardinality(S \cup {x}) <= Cardinality(S) + 1
         /\ x \notin S => Cardinality(S \cup {x}) = Cardinality(S) + 1
<1>1. Cardinality(S) \in Nat
  BY FS_CardinalityType
<1>2. /\ IsFiniteSet(S \cup {x})
      /\ Cardinality(S \cup {x}) = IF x \in S THEN Cardinality(S) ELSE Cardinality(S) + 1
  BY FS_AddElement
<1> QED
  BY <1>1, <1>2

LEMMA Replaced ==
  ASSUME NEW S, IsFiniteSet(S), NEW x \in S, NEW y
  PROVE  /\ IsFiniteSet((S \ {x}) \cup {y})
         /\ Cardinality((S \ {x}) \cup {y}) \in Nat
         /\ Cardinality((S \ {x}) \cup {y}) <= Cardinality(S)
<1>1. IsFiniteSet(S \ {x}) /\ Cardinality(S \ {x}) = Cardinality(S) - 1
  BY FS_RemoveElement
<1>2. Cardinality(S) \in Nat
  BY FS_CardinalityType
<1> QED
  <2> DEFINE R == S \ {x}
  <2>1. /\ IsFiniteSet(R \cup {y}) /\ Cardinality(R \cup {y}) \in Nat
        /\ Cardinality(R \cup {y}) <= Cardinality(R) + 1
    BY <1>1, WithOne
  <2> QED
    BY <1>1, <1>2, <2>1

(* A set has no more elements than there are numbers in it.                *)
LEMMA FewNumbers ==
  /\ IsFiniteSet(net) => IsFiniteSet({d.of : d \in net})
       /\ Cardinality({d.of : d \in net}) <= Cardinality(net)
  /\ Len(received) \in Nat => IsFiniteSet(Of(received)) /\ Cardinality(Of(received)) <= Len(received)
<1>1. ASSUME IsFiniteSet(net)
      PROVE  IsFiniteSet({d.of : d \in net}) /\ Cardinality({d.of : d \in net}) <= Cardinality(net)
  <2> DEFINE T == {d.of : d \in net}
             f == [d \in net |-> d.of]
  <2>1. f \in Surjection(net, T)
    BY DEF Surjection
  <2> HIDE DEF f, T
  <2>2. IsFiniteSet(T) /\ Cardinality(T) <= Cardinality(net)
    BY <1>1, <2>1, FS_Surjection
  <2> QED
    BY <2>2 DEF T
<1>2. ASSUME Len(received) \in Nat
      PROVE  IsFiniteSet(Of(received)) /\ Cardinality(Of(received)) <= Len(received)
  <2> DEFINE f == [k \in 1..Len(received) |-> received[k].of]
  <2>1. f \in Surjection(1..Len(received), Of(received))
    BY DEF Surjection, Of
  <2> HIDE DEF f
  <2>2. \A n \in Nat : IsFiniteSet(1..n) /\ Cardinality(1..n) = n
    BY FS_Interval
  <2>3. IsFiniteSet(1..Len(received)) /\ Cardinality(1..Len(received)) = Len(received)
    BY <1>2, <2>2
  <2>4. IsFiniteSet(Of(received)) /\ Cardinality(Of(received)) <= Cardinality(1..Len(received))
    BY <2>1, <2>3, FS_Surjection
  <2> QED
    BY <2>3, <2>4
<1> QED
  BY <1>1, <1>2

LEMMA FreshFew ==
  ASSUME DgramTypes, OneAtATime
  PROVE  Cardinality(Fresh) <= Cardinality(net) + Len(received)
<1> DEFINE S == {d.of : d \in net}
           T == Of(received)
<1>1. /\ IsFiniteSet(S) /\ IsFiniteSet(T) /\ Cardinality(S) <= Cardinality(net)
      /\ Cardinality(T) <= Len(received) /\ Len(received) \in Nat /\ Cardinality(net) \in Nat
  BY FewNumbers, DgramNumbers, DgramFinite DEF DgramTypes
<1>2. Fresh \subseteq S \cup T
  BY DEF Fresh, UnderWay
<1> HIDE DEF S, T
<1>3. IsFiniteSet(S \cup T) /\ Cardinality(S \cup T) = Cardinality(S) + Cardinality(T) - Cardinality(S \cap T)
  BY <1>1, FS_Union
<1>4. Cardinality(S) \in Nat /\ Cardinality(T) \in Nat /\ Cardinality(S \cap T) \in Nat
  <2>1. IsFiniteSet(S \cap T)
    BY <1>1, FS_Subset
  <2> QED
    BY <1>1, <2>1, FS_CardinalityType
<1>5. Cardinality(Fresh) <= Cardinality(S \cup T) /\ Cardinality(Fresh) \in Nat
  BY <1>2, <1>3, FS_Subset, DgramFinite
<1> QED
  BY <1>1, <1>3, <1>4, <1>5

(* What the steps of the network keep of the sum.                          *)
LEMMA Sums ==
  \A r, n, m, i, j, x, y, d, e \in Nat :
    r + n + i <= x + d /\ x + m + j + d <= y + n + i + e => r + m + j <= y + e
OBVIOUS

LEMMA DgramInit == ASSUME Dgram!Init \/ Dgram!Unmounted PROVE DgramInv
<1>1. /\ at = "ask" /\ asked = 0 /\ net = {} /\ received = <<>> /\ answers = <<>>
      /\ faults = [lost |-> 0, doubled |-> 0, damaged |-> 0]
  BY DEF Dgram!Init, Dgram!Unmounted, Dgram!InitWith, Dgram!NoFaults
<1>2. IsFiniteSet({}) /\ Cardinality({}) = 0
  BY FS_EmptySet
<1>3. DgramTypes
  BY <1>1, <1>2 DEF DgramTypes
<1>4. OneAtATime
  BY <1>1 DEF OneAtATime
<1>5. Fresh = {} /\ Dgram!Repeated = {}
  BY <1>1 DEF Fresh, UnderWay, Of, Dgram!Repeated
<1>6. FewRepeated
  BY <1>1, <1>2, <1>5 DEF FewRepeated
<1> QED
  BY <1>3, <1>4, <1>6 DEF DgramInv

LEMMA SendtoInv == ASSUME DgramInv, Dgram!Sendto PROVE DgramInv'
<1> DEFINE d == [to |-> "server", of |-> asked + 1, copy |-> 0, sound |-> TRUE]
<1>1. /\ at = "ask" /\ at' = "wait" /\ asked' = asked + 1 /\ net' = net \cup {d}
      /\ UNCHANGED <<client, received, answers, faults>>
  BY DEF Dgram!Sendto
<1>2. d \in Datagram /\ d.of = asked + 1 /\ asked \in Nat
  BY DEF Datagram, DgramInv, DgramTypes
<1> HIDE DEF d
<1>3. IsFiniteSet(net)
  BY DEF DgramInv, DgramTypes
<1>4. DgramTypes'
  BY <1>1, <1>2, <1>3, WithOne DEF DgramInv, DgramTypes
<1>5. OneAtATime'
  <2>1. \A e \in net : e.of \in 0..asked
    BY DgramNumbers DEF DgramInv
  <2>2. \A k \in 1..Len(received) : received[k].of \in 0..asked
    BY DgramNumbers DEF DgramInv
  <2>3. Len(answers) = asked
    BY <1>1 DEF DgramInv, OneAtATime
  <2>4. \A e \in net' : e.of <= asked'
    BY <1>1, <1>2, <2>1
  <2>5. \A k \in 1..Len(received') : received'[k].of <= asked'
    BY <1>1, <1>2, <2>2
  <2> QED
    BY <1>1, <1>2, <2>3, <2>4, <2>5 DEF DgramInv, OneAtATime
<1>6. FewRepeated'
  <2>1. Fresh \subseteq 0..asked /\ IsFiniteSet(Fresh) /\ Cardinality(net) \in Nat
        /\ Cardinality(Fresh) \in Nat /\ Cardinality(Dgram!Repeated) \in Nat
    BY DgramFinite DEF DgramInv
  <2>2. asked + 1 \notin Of(answers)
    BY <1>2, DgramNumbers DEF DgramInv
  <2>3. Fresh' = Fresh \cup {asked + 1}
    <3>1. Of(received)' = Of(received) /\ Of(answers)' = Of(answers)
      BY <1>1 DEF Of
    <3>2. {e.of : e \in net'} = {e.of : e \in net} \cup {asked + 1}
      BY <1>1, <1>2
    <3> QED
      BY <2>2, <3>1, <3>2 DEF Fresh, UnderWay
  <2>4. asked + 1 \notin Fresh
    BY <1>2, <2>1
  <2>5. Cardinality(Fresh') = Cardinality(Fresh) + 1
    BY <2>1, <2>3, <2>4, WithOne
  <2>6. Cardinality(net') <= Cardinality(net) + 1 /\ Cardinality(net') \in Nat
    BY <1>1, <1>3, WithOne
  <2>7. Dgram!Repeated' = Dgram!Repeated
    BY <1>1 DEF Dgram!Repeated
  <2>8. Len(received) \in Nat /\ faults.doubled \in Nat
    BY DEF DgramInv, DgramTypes
  <2> QED
    BY <1>1, <2>1, <2>5, <2>6, <2>7, <2>8 DEF DgramInv, FewRepeated
<1> QED
  BY <1>4, <1>5, <1>6 DEF DgramInv

(* Steps of the network.                                                   *)
LEMMA NetworkInv ==
  ASSUME DgramInv, UNCHANGED <<client, at, asked, answers>>,
         net' \subseteq Datagram, IsFiniteSet(net'), received' \in Seq(Datagram),
         faults' \in [lost : Nat, doubled : Nat, damaged : Nat],
         UnderWay' \subseteq UnderWay,
         Cardinality(Fresh) + Cardinality(net') + Len(received') + faults.doubled
           <= Cardinality(Fresh') + Cardinality(net) + Len(received) + faults'.doubled
  PROVE  DgramInv'
<1>1. DgramTypes'
  BY DEF DgramInv, DgramTypes
<1>2. OneAtATime'
  <2>1. \A x \in UnderWay : x <= asked
    BY DEF DgramInv, OneAtATime, UnderWay, Of
  <2>2. \A d \in net' : d.of <= asked
    BY <2>1 DEF UnderWay
  <2>3. \A k \in 1..Len(received') : received'[k].of <= asked
    BY <2>1 DEF UnderWay, Of
  <2> QED
    BY <2>2, <2>3 DEF DgramInv, OneAtATime
<1>3. FewRepeated'
  <2>1. /\ Cardinality(net') \in Nat /\ Len(received) \in Nat /\ Len(received') \in Nat
        /\ faults.doubled \in Nat /\ faults'.doubled \in Nat
    BY FS_CardinalityType DEF DgramInv, DgramTypes
  <2>2. /\ Cardinality(net) \in Nat /\ Cardinality(Fresh) \in Nat /\ IsFiniteSet(Fresh)
        /\ Cardinality(Dgram!Repeated) \in Nat
    BY DgramFinite DEF DgramInv
  <2>3. Cardinality(Fresh') \in Nat
    <3>1. Fresh' \subseteq Fresh
      BY DEF Fresh, Of
    <3> QED
      BY <2>2, <3>1, FS_Subset, FS_CardinalityType
  <2>4. Cardinality(Dgram!Repeated) + Cardinality(net) + Len(received)
          <= Cardinality(Fresh) + faults.doubled
    BY DEF DgramInv, FewRepeated
  <2>5. Cardinality(Dgram!Repeated)' = Cardinality(Dgram!Repeated)
    BY DEF Dgram!Repeated
  <2>6. Cardinality(Dgram!Repeated) + Cardinality(net') + Len(received')
          <= Cardinality(Fresh') + faults'.doubled
    <3> DEFINE Kept(r, n, m, i, j, x, y, d, e) ==
                 r + n + i <= x + d /\ x + m + j + d <= y + n + i + e => r + m + j <= y + e
    <3>1. \A r, n, m, i, j, x, y, d, e \in Nat : Kept(r, n, m, i, j, x, y, d, e)
      BY Sums
    <3> HIDE DEF Kept
    <3>2. Kept(Cardinality(Dgram!Repeated), Cardinality(net), Cardinality(net'), Len(received),
               Len(received'), Cardinality(Fresh), Cardinality(Fresh'), faults.doubled, faults'.doubled)
      BY <2>1, <2>2, <2>3, <3>1
    <3> QED
      BY <2>4, <3>2 DEF Kept
  <2> QED
    BY <2>5, <2>6 DEF FewRepeated
<1> QED
  BY <1>1, <1>2, <1>3 DEF DgramInv

LEMMA OfAppend ==
  ASSUME NEW s \in Seq(Datagram), NEW d \in Datagram
  PROVE  Of(Append(s, d)) = Of(s) \cup {d.of}
<1> DEFINE t == Append(s, d)
<1>1. /\ Len(s) \in Nat /\ Len(t) = Len(s) + 1 /\ t[Len(s) + 1] = d
      /\ \A k \in 1..Len(s) : t[k] = s[k]
  OBVIOUS
<1>2. 1..Len(t) = (1..Len(s)) \cup {Len(s) + 1}
  BY <1>1
<1> HIDE DEF t
<1>3. Of(t) = Of(s) \cup {d.of}
  BY <1>1, <1>2 DEF Of
<1> QED
  BY <1>3 DEF t

LEMMA OfTail ==
  ASSUME NEW s \in Seq(Datagram), s # <<>>
  PROVE  /\ Head(s) \in Datagram /\ Tail(s) \in Seq(Datagram) /\ Len(Tail(s)) = Len(s) - 1
         /\ Of(s) = Of(Tail(s)) \cup {Head(s).of}
<1> DEFINE t == Tail(s)
<1>1. /\ Head(s) \in Datagram /\ t \in Seq(Datagram) /\ Len(s) \in Nat /\ Len(t) \in Nat
      /\ Len(s) = Len(t) + 1 /\ s[1] = Head(s) /\ \A k \in 1..Len(t) : t[k] = s[k + 1]
  OBVIOUS
<1> HIDE DEF t
<1>2. Of(s) = Of(t) \cup {s[1].of}
  <2>1. ASSUME NEW x \in Of(s) PROVE x \in Of(t) \cup {s[1].of}
    <3>1. PICK k \in 1..Len(s) : x = s[k].of
      BY DEF Of
    <3>2. k = 1 \/ (k - 1 \in 1..Len(t) /\ t[k - 1] = s[k])
      BY <1>1
    <3> QED
      BY <3>1, <3>2 DEF Of
  <2>2. ASSUME NEW k \in 1..Len(t) PROVE t[k].of \in Of(s)
    <3>1. k + 1 \in 1..Len(s) /\ t[k] = s[k + 1]
      BY <1>1
    <3> QED
      BY <3>1 DEF Of
  <2>3. s[1].of \in Of(s)
    BY <1>1 DEF Of
  <2> QED
    BY <2>1, <2>2, <2>3 DEF Of
<1> QED
  BY <1>1, <1>2 DEF t

(* A datagram under way is served, or damaged.                             *)
LEMMA ChangedInv ==
  ASSUME DgramInv, UNCHANGED <<client, at, asked, answers, received>>,
         NEW d \in net, NEW e \in Datagram, e.of = d.of, net' = (net \ {d}) \cup {e},
         faults' \in [lost : Nat, doubled : Nat, damaged : Nat], faults'.doubled = faults.doubled
  PROVE  DgramInv'
<1>1. /\ net \subseteq Datagram /\ IsFiniteSet(net) /\ received \in Seq(Datagram)
      /\ Len(received) \in Nat /\ faults.doubled \in Nat /\ Cardinality(net) \in Nat
  BY FS_CardinalityType DEF DgramInv, DgramTypes
<1>2. /\ net' \subseteq Datagram /\ IsFiniteSet(net') /\ Cardinality(net') \in Nat
      /\ Cardinality(net') <= Cardinality(net)
  BY <1>1, Replaced
<1>3. {a.of : a \in net'} = {a.of : a \in net}
  OBVIOUS
<1>4. UnderWay' = UnderWay /\ Fresh' = Fresh
  BY <1>3 DEF UnderWay, Fresh, Of
<1>5. Cardinality(Fresh) + Cardinality(net') + Len(received') + faults.doubled
        <= Cardinality(Fresh') + Cardinality(net) + Len(received) + faults'.doubled
  BY <1>1, <1>2, <1>4, DgramFinite DEF DgramInv
<1> QED
  BY <1>1, <1>2, <1>4, <1>5, NetworkInv

LEMMA ServeInv == ASSUME DgramInv, Dgram!Serve PROVE DgramInv'
<1>1. PICK d \in net : net' = (net \ {d}) \cup {[d EXCEPT !.to = "client"]}
  BY DEF Dgram!Serve
<1>2. UNCHANGED <<client, at, asked, received, answers, faults>>
  BY DEF Dgram!Serve
<1>3. [d EXCEPT !.to = "client"] \in Datagram /\ [d EXCEPT !.to = "client"].of = d.of
  BY DEF DgramInv, DgramTypes, Datagram
<1>4. faults' \in [lost : Nat, doubled : Nat, damaged : Nat] /\ faults'.doubled = faults.doubled
  BY <1>2 DEF DgramInv, DgramTypes
<1> QED
  BY <1>1, <1>2, <1>3, <1>4, ChangedInv

LEMMA ArriveInv == ASSUME DgramInv, Dgram!Arrive PROVE DgramInv'
<1>1. PICK d \in net : net' = net \ {d} /\ received' = Append(received, d)
  BY DEF Dgram!Arrive
<1>2. UNCHANGED <<client, at, asked, answers, faults>>
  BY DEF Dgram!Arrive
<1>3. /\ net \subseteq Datagram /\ IsFiniteSet(net) /\ received \in Seq(Datagram)
      /\ faults \in [lost : Nat, doubled : Nat, damaged : Nat]
  BY DEF DgramInv, DgramTypes
<1>4. /\ net' \subseteq Datagram /\ IsFiniteSet(net') /\ Cardinality(net') = Cardinality(net) - 1
      /\ Cardinality(net) \in Nat
  BY <1>1, <1>3, FS_RemoveElement, FS_CardinalityType
<1>5. /\ received' \in Seq(Datagram) /\ Len(received') = Len(received) + 1
      /\ Len(received) \in Nat /\ Of(received') = Of(received) \cup {d.of}
  BY <1>1, <1>3, OfAppend
<1>6. UnderWay' = UnderWay /\ Fresh' = Fresh
  <2>1. {a.of : a \in net} = {a.of : a \in net'} \cup {d.of}
    BY <1>1
  <2>2. UnderWay' = {a.of : a \in net'} \cup Of(received') /\ Of(answers)' = Of(answers)
    BY <1>2 DEF UnderWay, Of
  <2> QED
    BY <1>5, <2>1, <2>2 DEF UnderWay, Fresh
<1>7. Cardinality(Fresh) + Cardinality(net') + Len(received') + faults.doubled
        <= Cardinality(Fresh') + Cardinality(net) + Len(received) + faults'.doubled
  <2>1. Cardinality(Fresh) \in Nat /\ faults.doubled \in Nat /\ faults'.doubled = faults.doubled
    BY <1>2, <1>3, DgramFinite DEF DgramInv
  <2> QED
    BY <1>4, <1>5, <1>6, <2>1
<1> QED
  BY <1>2, <1>3, <1>4, <1>5, <1>6, <1>7, NetworkInv

LEMMA FaultInv == ASSUME DgramInv, Dgram!Fault PROVE DgramInv'
<1>1. PICK d \in net :
        \/ net' = net \ {d} /\ faults' = [faults EXCEPT !.lost = @ + 1]
        \/ /\ net' = net \cup {[d EXCEPT !.copy = @ + 1]} /\ net' # net
           /\ faults' = [faults EXCEPT !.doubled = @ + 1]
        \/ /\ client = "ping" /\ d.sound
           /\ net' = (net \ {d}) \cup {[d EXCEPT !.sound = FALSE]}
           /\ faults' = [faults EXCEPT !.damaged = @ + 1]
  BY DEF Dgram!Fault
<1>2. UNCHANGED <<client, at, asked, received, answers>>
  BY DEF Dgram!Fault
<1>3. /\ net \subseteq Datagram /\ d \in Datagram /\ IsFiniteSet(net) /\ Cardinality(net) \in Nat
      /\ received \in Seq(Datagram) /\ Len(received) \in Nat
      /\ faults \in [lost : Nat, doubled : Nat, damaged : Nat]
  BY FS_CardinalityType DEF DgramInv, DgramTypes
<1>4. CASE net' = net \ {d} /\ faults' = [faults EXCEPT !.lost = @ + 1]
  <2>1. faults' \in [lost : Nat, doubled : Nat, damaged : Nat] /\ faults'.doubled = faults.doubled
    BY <1>3, <1>4
  <2>2. net' \subseteq Datagram /\ IsFiniteSet(net') /\ Cardinality(net') = Cardinality(net) - 1
    BY <1>3, <1>4, FS_RemoveElement
  <2>3. UnderWay' \subseteq UnderWay /\ Fresh \ {d.of} \subseteq Fresh'
    BY <1>2, <1>4 DEF UnderWay, Fresh, Of
  <2>4. Cardinality(Fresh) + Cardinality(net') + Len(received') + faults.doubled
          <= Cardinality(Fresh') + Cardinality(net) + Len(received) + faults'.doubled
    <3>1. IsFiniteSet(Fresh) /\ IsFiniteSet(Fresh')
      <4>1. Fresh' \subseteq Fresh
        BY <1>2, <2>3 DEF Fresh, Of
      <4> QED
        BY <4>1, DgramFinite, FS_Subset DEF DgramInv
    <3>2. /\ Cardinality(Fresh) \in Nat /\ Cardinality(Fresh') \in Nat
          /\ Cardinality(Fresh) <= Cardinality(Fresh') + 1
      BY <2>3, <3>1, WithoutOne
    <3> QED
      BY <1>2, <1>3, <2>1, <2>2, <3>2
  <2>5. received' \in Seq(Datagram)
    BY <1>2, <1>3
  <2> QED
    BY <1>2, <2>1, <2>2, <2>3, <2>4, <2>5, NetworkInv
<1>5. CASE /\ net' = net \cup {[d EXCEPT !.copy = @ + 1]}
           /\ faults' = [faults EXCEPT !.doubled = @ + 1]
  <2> DEFINE e == [d EXCEPT !.copy = @ + 1]
  <2>1. faults' \in [lost : Nat, doubled : Nat, damaged : Nat]
        /\ faults'.doubled = faults.doubled + 1 /\ faults.doubled \in Nat
    BY <1>3, <1>5
  <2>2. e \in Datagram /\ e.of = d.of
    BY <1>3 DEF Datagram
  <2> HIDE DEF e
  <2>3. net' = net \cup {e}
    BY <1>5 DEF e
  <2>4. /\ net' \subseteq Datagram /\ IsFiniteSet(net') /\ Cardinality(net') \in Nat
        /\ Cardinality(net') <= Cardinality(net) + 1
    BY <1>3, <2>2, <2>3, WithOne
  <2>5. UnderWay' = UnderWay /\ Fresh' = Fresh
    <3>1. {a.of : a \in net'} = {a.of : a \in net}
      BY <2>2, <2>3
    <3> QED
      BY <1>2, <3>1 DEF UnderWay, Fresh, Of
  <2>6. Cardinality(Fresh) + Cardinality(net') + Len(received') + faults.doubled
          <= Cardinality(Fresh') + Cardinality(net) + Len(received) + faults'.doubled
    BY <1>2, <1>3, <2>1, <2>4, <2>5, DgramFinite DEF DgramInv
  <2>7. received' \in Seq(Datagram)
    BY <1>2, <1>3
  <2> QED
    BY <1>2, <2>1, <2>4, <2>5, <2>6, <2>7, NetworkInv
<1>6. CASE /\ net' = (net \ {d}) \cup {[d EXCEPT !.sound = FALSE]}
           /\ faults' = [faults EXCEPT !.damaged = @ + 1]
  <2>1. faults' \in [lost : Nat, doubled : Nat, damaged : Nat] /\ faults'.doubled = faults.doubled
    BY <1>3, <1>6
  <2>2. [d EXCEPT !.sound = FALSE] \in Datagram /\ [d EXCEPT !.sound = FALSE].of = d.of
    BY <1>3 DEF Datagram
  <2> QED
    BY <1>2, <1>6, <2>1, <2>2, ChangedInv
<1> QED
  BY <1>1, <1>4, <1>5, <1>6

(* The program takes the datagram at the head of the queue.  If it answers *)
(* a request again, there is one repeated answer more and one datagram     *)
(* less; if not, one datagram less and at most one fresh answer less.      *)
LEMMA RecvfromInv == ASSUME DgramInv, Dgram!Recvfrom PROVE DgramInv'
<1> DEFINE d == Head(received)
<1>1. /\ at = "wait" /\ received # <<>> /\ received' = Tail(received)
      /\ \/ /\ answers' = Append(answers, d) /\ at' \in {"ask", "usleep"}
            /\ client = "ping" => d.sound
         \/ answers' = answers /\ at' = at
      /\ UNCHANGED <<client, asked, net, faults>>
  BY DEF Dgram!Recvfrom, Dgram!AfterAnswer, Dgram!CheckPackage
<1>2. received \in Seq(Datagram) /\ answers \in Seq(Datagram)
      /\ faults.doubled \in Nat /\ Len(answers) + 1 = asked
  BY <1>1 DEF DgramInv, DgramTypes, OneAtATime
<1>3. /\ d \in Datagram /\ received' \in Seq(Datagram) /\ Len(received') = Len(received) - 1
      /\ Len(received) \in Nat /\ Len(received') \in Nat
      /\ Of(received) = Of(received') \cup {d.of}
  BY <1>1, <1>2, OfTail
<1>4. d.of \in 0..asked /\ asked \in Nat /\ Len(answers) \in Nat
  BY <1>3, DgramNumbers DEF DgramInv, UnderWay
<1> HIDE DEF d
<1>5. \A k \in 1..Len(received') : received'[k].of <= asked
  <2>1. \A x \in Of(received') : x <= asked
    BY <1>3, <1>4, DgramNumbers DEF DgramInv, UnderWay
  <2> QED
    BY <2>1 DEF Of
<1>6. UnderWay = UnderWay' \cup {d.of}
  <2>1. {e.of : e \in net'} = {e.of : e \in net} /\ UnderWay' = {e.of : e \in net'} \cup Of(received')
    BY <1>1 DEF UnderWay, Of
  <2> QED
    BY <1>3, <2>1 DEF UnderWay
<1>7. /\ IsFiniteSet(Fresh) /\ IsFiniteSet(Dgram!Repeated) /\ Cardinality(net) \in Nat
      /\ Cardinality(Fresh) \in Nat /\ Cardinality(Dgram!Repeated) \in Nat
      /\ Dgram!Repeated \subseteq 1..Len(answers)
      /\ Cardinality(Dgram!Repeated) + Cardinality(net) + Len(received)
           <= Cardinality(Fresh) + faults.doubled
  BY DgramFinite DEF DgramInv, FewRepeated
<1>8. CASE answers' = answers /\ at' = at
  <2>1. DgramTypes'
    BY <1>1, <1>3, <1>8 DEF DgramInv, DgramTypes
  <2>2. OneAtATime'
    BY <1>1, <1>5, <1>8 DEF DgramInv, OneAtATime
  <2>3. Of(answers)' = Of(answers) /\ Dgram!Repeated' = Dgram!Repeated
    BY <1>8 DEF Of, Dgram!Repeated
  <2>4. Fresh \ {d.of} \subseteq Fresh' /\ Fresh' \subseteq Fresh
    BY <1>6, <2>3 DEF Fresh
  <2>5. /\ Cardinality(Fresh') \in Nat /\ Cardinality(Fresh) <= Cardinality(Fresh') + 1
    BY <1>7, <2>4, WithoutOne, FS_Subset
  <2>6. FewRepeated'
    BY <1>1, <1>2, <1>3, <1>7, <2>3, <2>5 DEF FewRepeated
  <2> QED
    BY <2>1, <2>2, <2>6 DEF DgramInv
<1>9. CASE answers' = Append(answers, d) /\ at' \in {"ask", "usleep"}
           /\ (client = "ping" => d.sound)
  <2>1. /\ answers' \in Seq(Datagram) /\ Len(answers') = Len(answers) + 1
        /\ answers'[Len(answers) + 1] = d
        /\ \A k \in 1..Len(answers) : answers'[k] = answers[k]
        /\ Of(answers') = Of(answers) \cup {d.of}
    BY <1>2, <1>3, <1>9, OfAppend
  <2>2. DgramTypes'
    BY <1>1, <1>3, <1>9, <2>1 DEF DgramInv, DgramTypes
  <2>3. OneAtATime'
    <3>1. \A e \in net' : e.of <= asked'
      BY <1>1 DEF DgramInv, OneAtATime
    <3>2. \A k \in 1..Len(answers') :
            answers'[k].of <= k /\ (client' = "ping" => answers'[k].sound)
      <4>1. 1..Len(answers') = (1..Len(answers)) \cup {asked}
        BY <1>2, <1>4, <2>1
      <4> QED
        BY <1>1, <1>2, <1>4, <1>9, <2>1, <4>1 DEF DgramInv, OneAtATime
    <3> QED
      BY <1>1, <1>2, <1>4, <1>5, <1>9, <2>1, <3>1, <3>2 DEF OneAtATime
  <2>4. Dgram!Repeated' = IF d.of \in Of(answers) THEN Dgram!Repeated \cup {asked} ELSE Dgram!Repeated
    <3>1. /\ DOMAIN answers = 1..Len(answers) /\ DOMAIN answers' = 1..Len(answers')
          /\ 1..Len(answers') = (1..Len(answers)) \cup {asked}
      BY <1>2, <1>4, <2>1
    <3>2. ASSUME NEW k \in 1..Len(answers)
          PROVE  (\E j \in 1..k - 1 : answers'[j].of = answers'[k].of)
                   <=> (\E j \in 1..k - 1 : answers[j].of = answers[k].of)
      <4>1. 1..k - 1 \subseteq 1..Len(answers)
        BY <1>4
      <4> QED
        BY <2>1, <4>1
    <3>3. (\E j \in 1..asked - 1 : answers'[j].of = answers'[asked].of) <=> d.of \in Of(answers)
      <4>1. asked - 1 = Len(answers) /\ answers'[asked] = d
        BY <1>2, <1>4, <2>1
      <4> QED
        BY <2>1, <4>1 DEF Of
    <3>4. Dgram!Repeated' = {k \in DOMAIN answers' : \E j \in 1..k - 1 : answers'[j].of = answers'[k].of}
      BY DEF Dgram!Repeated
    <3> QED
      BY <3>1, <3>2, <3>3, <3>4 DEF Dgram!Repeated
  <2>5. CASE d.of \in Of(answers)
    <3>1. Fresh' = Fresh
      BY <1>6, <2>1, <2>5 DEF Fresh
    <3>2. asked \notin Dgram!Repeated
      BY <1>2, <1>4, <1>7
    <3>3. Cardinality(Dgram!Repeated') = Cardinality(Dgram!Repeated) + 1
      BY <1>7, <2>4, <2>5, <3>2, WithOne
    <3>4. FewRepeated'
      BY <1>1, <1>2, <1>3, <1>7, <3>1, <3>3 DEF FewRepeated
    <3> QED
      BY <2>2, <2>3, <3>4 DEF DgramInv
  <2>6. CASE d.of \notin Of(answers)
    <3>1. Fresh \ {d.of} \subseteq Fresh' /\ Fresh' \subseteq Fresh
      BY <1>6, <2>1 DEF Fresh
    <3>2. Cardinality(Fresh') \in Nat /\ Cardinality(Fresh) <= Cardinality(Fresh') + 1
      BY <1>7, <3>1, WithoutOne, FS_Subset
    <3>3. Dgram!Repeated' = Dgram!Repeated
      BY <2>4, <2>6
    <3>4. FewRepeated'
      BY <1>1, <1>2, <1>3, <1>7, <3>2, <3>3 DEF FewRepeated
    <3> QED
      BY <2>2, <2>3, <3>4 DEF DgramInv
  <2> QED
    BY <2>5, <2>6
<1> QED
  BY <1>1, <1>8, <1>9

(* The input ends, a second passes, the alarm ends ping, or another part   *)
(* takes a step.                                                           *)
LEMMA DgramQuiet ==
  ASSUME DgramInv, UNCHANGED <<client, asked, net, received, answers, faults>>,
         at' \in {at, "ended"} \/ (at = "usleep" /\ at' = "ask")
  PROVE  DgramInv'
<1>1. DgramTypes'
  BY DEF DgramInv, DgramTypes
<1>2. OneAtATime'
  BY DEF DgramInv, OneAtATime
<1>3. Fresh' = Fresh /\ Dgram!Repeated' = Dgram!Repeated
  BY DEF Fresh, UnderWay, Of, Dgram!Repeated
<1>4. FewRepeated'
  BY <1>3 DEF DgramInv, FewRepeated
<1> QED
  BY <1>1, <1>2, <1>4 DEF DgramInv

(* The k-th answer is to none of the later requests, no more answers are   *)
(* repeated than datagrams were doubled, and ping counts only sound ones,  *)
(* for any number of requests and of datagrams lost, doubled and damaged.  *)
THEOREM AnswersMatch == Spec => []DatagramsMatch
<1>1. Init => DgramInv
  BY DgramInit DEF Init
<1>2. DgramInv /\ [Next]_vars => DgramInv'
  <2> SUFFICES ASSUME DgramInv, [Next]_vars PROVE DgramInv'
    OBVIOUS
  <2>1. CASE Datagrams /\ Dgram!Next
    <3>1. CASE Dgram!EndOfInput \/ Dgram!Usleep \/ Dgram!Alarm
      BY <3>1, DgramQuiet DEF Dgram!EndOfInput, Dgram!Usleep, Dgram!Alarm
    <3> QED
      BY <2>1, <3>1, SendtoInv, RecvfromInv, ServeInv, ArriveInv, FaultInv
      DEF Dgram!Next, Dgram!Program, Dgram!Network
  <2>2. CASE UNCHANGED datagrams
    BY <2>2, DgramQuiet DEF datagrams
  <2> QED
    BY <2>1, <2>2 DEF Next, vars, Signals, Streams, Epoll, Family
<1>3. DgramInv => DatagramsMatch
  <2> SUFFICES ASSUME DgramInv PROVE DatagramsMatch
    OBVIOUS
  <2>1. Cardinality(Dgram!Repeated) <= faults.doubled
    <3>1. /\ Cardinality(Fresh) <= Cardinality(net) + Len(received)
          /\ Cardinality(Dgram!Repeated) + Cardinality(net) + Len(received)
               <= Cardinality(Fresh) + faults.doubled
          /\ Len(received) \in Nat /\ faults.doubled \in Nat
      BY FreshFew, DgramNumbers DEF DgramInv, FewRepeated, DgramTypes
    <3>2. /\ Cardinality(Fresh) \in Nat /\ Cardinality(net) \in Nat
          /\ Cardinality(Dgram!Repeated) \in Nat
      BY DgramFinite DEF DgramInv
    <3> QED
      BY <3>1, <3>2
  <2>2. /\ Len(answers) <= asked
        /\ \A k \in DOMAIN answers :
             answers[k].of <= k /\ (client = "ping" => answers[k].sound)
    BY SeqOf DEF DgramInv, DgramTypes, OneAtATime
  <2>3. Dgram!Cardinality(Dgram!Repeated) <= faults.doubled
    BY <2>1, SameCardinalityThere
  <2> QED
    BY <2>2, <2>3 DEF DatagramsMatch, Dgram!DatagramsMatch
<1> QED
  BY <1>1, <1>2, <1>3, PTL DEF Spec

-----------------------------------------------------------------------------
(* The clients of TCP.  What a client has not read yet is the rest of what *)
(* the server sent: the second half of a number or all of it, or a page    *)
(* but for the cells consumed.                                             *)
Half == Nat \X Nat
Cell == {"status", "Content-Length", "other", "delimiter", "body"} \X Nat

TcpTypes ==
  /\ in \in Seq(Half) /\ segments \in Seq(Half) /\ get \in Half \X Half
  /\ output \in Seq(Half \X Half) /\ requests \in Nat /\ whole \in BOOLEAN
  /\ step \in {"scanf", "read", "ended", "killed"}
  /\ server \in {"open", "closed", "gone", "reset"}

OneAnswerLeft ==
  \/ in = <<>> /\ segments = <<>>
  \/ /\ Len(in) + Len(segments) = 2 /\ server # "gone"
     /\ \A j \in 1..Len(in) : in[j] = <<requests, j>>
     /\ \A j \in 1..Len(segments) : segments[j] = <<requests, Len(in) + j>>

TcpInv ==
  /\ TcpTypes
  /\ server # "open" => segments = <<>>
  /\ Len(output) <= requests
  /\ step = "scanf" => Len(output) = requests
  /\ step = "read" => Len(output) + 1 = requests
  /\ whole =>
       /\ \A k \in 1..Len(output) : output[k] = Tcp!Answer(k)
       /\ step = "scanf" => in = <<>> /\ segments = <<>> /\ server # "gone"
       /\ step = "read" => OneAnswerLeft
       /\ step # "killed"

SentAt(j) == IF j <= 4 THEN Tcp!Headers[j] ELSE <<"body", j - 4>>
Consumed == page[2] + 4 - Len(in) - Len(segments)

WebTypes ==
  /\ in \in Seq(Cell) /\ segments \in Seq(Cell) /\ output \in Seq(Cell)
  /\ page \in Lengths /\ whole \in BOOLEAN /\ Consumed >= 0
  /\ step \in {"response", "body", "ended", "killed"}

RestOfPage ==
  /\ \A j \in 1..Len(in) : in[j] = SentAt(Consumed + j)
  /\ \A j \in 1..Len(segments) : segments[j] = SentAt(Consumed + Len(in) + j)

PartOfPage ==
  reader = "post" \/ whole =>
    Len(output) <= page[2] /\ \A j \in 1..Len(output) : output[j] = <<"body", j>>

LengthLeft ==
  IF Len(output) <= page[1] THEN page[1] - Len(output) ELSE page[1] - Len(output) + Word

GetInv ==
  reader = "get" =>
    /\ step = "response" => output = <<>> /\ Consumed = 0
    /\ step \in {"body", "ended"} /\ whole => Len(output) = Consumed - 4
    /\ step = "body" /\ whole => content_length = LengthLeft
    /\ step = "ended" /\ whole => Len(output) = page[1]

PostInv ==
  reader = "post" =>
    /\ Consumed < 4 => output = <<>>
    /\ whole => \/ Consumed = 0 /\ output = <<>>
                \/ Consumed = page[2] + 4 /\ Len(output) = page[2]

WebInv == WebTypes /\ RestOfPage /\ PartOfPage /\ GetInv /\ PostInv

(* Before the request nothing was sent or printed.                         *)
AskInv ==
  /\ step \in {"request", "spins"} /\ page \in Lengths /\ whole = TRUE
  /\ in = <<>> /\ segments = <<>> /\ output = <<>> /\ posted = <<>>

FileInv == file \in Uploads /\ posted \in {<<>>, Tcp!Posted(file)}

StreamsInv ==
  /\ reader = "tcp" => TcpInv
  /\ reader \in {"get", "post"} => AskInv \/ WebInv
  /\ reader = "post" => FileInv

LEMMA TcpAssumptions ==
  /\ Numbers \in Nat /\ BUFSIZ \in Nat \ {0} /\ Word \in Nat /\ Uploads \subseteq Seq(Nat)
  /\ \A l \in Lengths : l[1] \in Nat \ {0} /\ l[2] \in Nat /\ l[1] + l[2] + 2 * BUFSIZ < Word
BY PeersAssumption DEF Tcp!StreamAssumption

LEMMA Part ==
  ASSUME NEW T, NEW s \in Seq(T), NEW m \in 1..Len(s) + 1, NEW n \in 0..Len(s), m <= n + 1
  PROVE  /\ SubSeq(s, m, n) \in Seq(T) /\ Len(SubSeq(s, m, n)) = n - m + 1
         /\ \A j \in 1..n - m + 1 : SubSeq(s, m, n)[j] = s[m + j - 1]
OBVIOUS

LEMMA Joined ==
  ASSUME NEW T, NEW s \in Seq(T), NEW t \in Seq(T)
  PROVE  /\ s \o t \in Seq(T) /\ Len(s \o t) = Len(s) + Len(t)
         /\ \A j \in 1..Len(s) : (s \o t)[j] = s[j]
         /\ \A j \in 1..Len(t) : (s \o t)[Len(s) + j] = t[j]
OBVIOUS

(* Segments only move from what was sent to what can be read.              *)
LEMMA SegmentMoves ==
  ASSUME NEW T, in \in Seq(T), segments \in Seq(T), Tcp!Segment
  PROVE  /\ in' \in Seq(T) /\ segments' \in Seq(T)
         /\ \E k \in 1..Len(segments) :
              /\ Len(in') = Len(in) + k /\ Len(segments') = Len(segments) - k
              /\ \A j \in 1..Len(in) : in'[j] = in[j]
              /\ \A j \in 1..k : in'[Len(in) + j] = segments[j]
              /\ \A j \in 1..Len(segments') : segments'[j] = segments[k + j]
<1>1. PICK k \in 1..Len(segments) :
        /\ in' = in \o SubSeq(segments, 1, k)
        /\ segments' = SubSeq(segments, k + 1, Len(segments))
  BY DEF Tcp!Segment
<1> DEFINE a == SubSeq(segments, 1, k)
           b == SubSeq(segments, k + 1, Len(segments))
<1>2. a \in Seq(T) /\ Len(a) = k /\ \A j \in 1..k : a[j] = segments[j]
  <2>1. 1 \in 1..Len(segments) + 1 /\ k \in 0..Len(segments) /\ k \in Nat
    OBVIOUS
  <2>2. a \in Seq(T) /\ Len(a) = k - 1 + 1 /\ \A j \in 1..k - 1 + 1 : a[j] = segments[1 + j - 1]
    BY <2>1, Part
  <2> HIDE DEF a
  <2> QED
    BY <2>1, <2>2
<1>3. b \in Seq(T) /\ Len(b) = Len(segments) - k /\ \A j \in 1..Len(segments) - k : b[j] = segments[k + j]
  <2> DEFINE n == Len(segments)
  <2>1. n \in Nat /\ k + 1 \in 1..n + 1 /\ n \in 0..n /\ k + 1 <= n + 1
    OBVIOUS
  <2>2. b \in Seq(T) /\ Len(b) = n - (k + 1) + 1
        /\ \A j \in 1..n - (k + 1) + 1 : b[j] = segments[k + 1 + j - 1]
    BY <2>1, Part
  <2> HIDE DEF b
  <2> QED
    BY <2>1, <2>2
<1> HIDE DEF a, b
<1>4. in' = in \o a /\ segments' = b
  BY <1>1 DEF a, b
<1>5. /\ in' \in Seq(T) /\ Len(in') = Len(in) + k
      /\ \A j \in 1..Len(in) : in'[j] = in[j]
      /\ \A j \in 1..k : in'[Len(in) + j] = a[j]
  <2>1. /\ in \o a \in Seq(T) /\ Len(in \o a) = Len(in) + Len(a)
        /\ \A j \in 1..Len(in) : (in \o a)[j] = in[j]
        /\ \A j \in 1..Len(a) : (in \o a)[Len(in) + j] = a[j]
    BY <1>2
  <2> QED
    BY <1>2, <1>4, <2>1
<1>6. segments' \in Seq(T) /\ Len(segments') = Len(segments) - k
      /\ \A j \in 1..Len(segments') : segments'[j] = segments[k + j]
  BY <1>3, <1>4
<1>7. \A j \in 1..k : in'[Len(in) + j] = segments[j]
  BY <1>2, <1>5
<1> QED
  BY <1>5, <1>6, <1>7

(* A read takes what is there, up to n cells, and leaves the rest.         *)
LEMMA ReadTakes ==
  ASSUME NEW T, in \in Seq(T), NEW n \in Nat
  PROVE  LET m == Len(Tcp!Taken(n)) IN
         /\ m = (IF Len(in) <= n THEN Len(in) ELSE n) /\ m \in 0..Len(in)
         /\ Tcp!Taken(n) \in Seq(T) /\ \A j \in 1..m : Tcp!Taken(n)[j] = in[j]
         /\ Tcp!Rest(n) \in Seq(T) /\ Len(Tcp!Rest(n)) = Len(in) - m
         /\ \A j \in 1..Len(in) - m : Tcp!Rest(n)[j] = in[m + j]
<1> DEFINE m == IF Len(in) <= n THEN Len(in) ELSE n
<1>1. m \in 0..Len(in)
  OBVIOUS
<1>2. /\ SubSeq(in, 1, m) \in Seq(T) /\ Len(SubSeq(in, 1, m)) = m
      /\ \A j \in 1..m : SubSeq(in, 1, m)[j] = in[j]
  <2>1. 1 \in 1..Len(in) + 1 /\ m \in Nat /\ 1 <= m + 1 /\ m - 1 + 1 = m
    BY <1>1
  <2> DEFINE a == SubSeq(in, 1, m)
  <2>2. a \in Seq(T) /\ Len(a) = m - 1 + 1 /\ \A j \in 1..m - 1 + 1 : a[j] = in[1 + j - 1]
    BY <1>1, <2>1, Part
  <2> HIDE DEF a, m
  <2>3. \A j \in 1..m : 1 + j - 1 = j
    OBVIOUS
  <2>4. a \in Seq(T) /\ Len(a) = m /\ \A j \in 1..m : a[j] = in[j]
    BY <2>1, <2>2, <2>3
  <2> QED
    BY <2>4 DEF a
<1>3. Tcp!Taken(n) = SubSeq(in, 1, m)
  BY DEF Tcp!Taken
<1>4. /\ SubSeq(in, m + 1, Len(in)) \in Seq(T) /\ Len(SubSeq(in, m + 1, Len(in))) = Len(in) - m
      /\ \A j \in 1..Len(in) - m : SubSeq(in, m + 1, Len(in))[j] = in[m + j]
  <2> DEFINE n1 == Len(in)
  <2>1. /\ n1 \in Nat /\ m + 1 \in 1..n1 + 1 /\ n1 \in 0..n1 /\ m + 1 <= n1 + 1
        /\ n1 - (m + 1) + 1 = n1 - m /\ m \in Nat
    BY <1>1
  <2> DEFINE a == SubSeq(in, m + 1, n1)
  <2>2. /\ a \in Seq(T) /\ Len(a) = n1 - (m + 1) + 1
        /\ \A j \in 1..n1 - (m + 1) + 1 : a[j] = in[m + 1 + j - 1]
    BY <2>1, Part
  <2> HIDE DEF a, m, n1
  <2>3. \A j \in 1..n1 - m : m + 1 + j - 1 = m + j
    BY <2>1
  <2>4. a \in Seq(T) /\ Len(a) = n1 - m /\ \A j \in 1..n1 - m : a[j] = in[m + j]
    BY <2>1, <2>2, <2>3
  <2> QED
    BY <2>4 DEF a, n1
<1>5. Tcp!Rest(n) = SubSeq(in, m + 1, Len(in))
  BY <1>2, <1>3 DEF Tcp!Rest
<1> QED
  BY <1>1, <1>2, <1>3, <1>4, <1>5

(* Unsigned numbers of Word values.                                        *)
LEMMA Wrapped ==
  ASSUME NEW W \in Nat, NEW x \in Int, -W < x, x < W
  PROVE  x % W = IF x < 0 THEN x + W ELSE x
OBVIOUS

(* The page a server sends.                                                *)
LEMMA PageCells ==
  ASSUME page \in Lengths
  PROVE  /\ page[2] \in Nat /\ Tcp!Page \in Seq(Cell) /\ Len(Tcp!Page) = page[2] + 4
         /\ \A j \in 1..page[2] + 4 : Tcp!Page[j] = SentAt(j)
<1> DEFINE h == Tcp!Headers
           b == Tcp!Body(page[2])
<1>1. page[2] \in Nat
  BY TcpAssumptions
<1>2. h \in Seq(Cell) /\ Len(h) = 4
  BY DEF Tcp!Headers, Cell
<1>3. b \in Seq(Cell) /\ Len(b) = page[2] /\ \A j \in 1..page[2] : b[j] = <<"body", j>>
  <2>1. \A k \in 1..page[2] : <<"body", k>> \in Cell
    BY <1>1 DEF Cell
  <2> QED
    BY <1>1, <2>1 DEF Tcp!Body
<1>4. Tcp!Page = h \o b
  BY DEF Tcp!Page
<1> HIDE DEF h, b
<1>5. /\ h \o b \in Seq(Cell) /\ Len(h \o b) = 4 + page[2]
      /\ \A j \in 1..4 : (h \o b)[j] = h[j]
      /\ \A j \in 1..page[2] : (h \o b)[4 + j] = b[j]
  <2>1. /\ h \o b \in Seq(Cell) /\ Len(h \o b) = Len(h) + Len(b)
        /\ \A j \in 1..Len(h) : (h \o b)[j] = h[j]
        /\ \A j \in 1..Len(b) : (h \o b)[Len(h) + j] = b[j]
    <3>1. \A s, t \in Seq(Cell) :
            /\ s \o t \in Seq(Cell) /\ Len(s \o t) = Len(s) + Len(t)
            /\ \A j \in 1..Len(s) : (s \o t)[j] = s[j]
            /\ \A j \in 1..Len(t) : (s \o t)[Len(s) + j] = t[j]
      BY Joined
    <3> QED
      BY <1>2, <1>3, <3>1
  <2> QED
    BY <1>2, <1>3, <2>1
<1>6. ASSUME NEW j \in 1..page[2] + 4 PROVE (h \o b)[j] = SentAt(j)
  <2>1. CASE j <= 4
    <3>1. j \in 1..4
      BY <1>1, <2>1
    <3> QED
      BY <1>5, <2>1, <3>1 DEF SentAt, h
  <2>2. CASE ~(j <= 4)
    <3>1. j - 4 \in 1..page[2] /\ 4 + (j - 4) = j
      BY <1>1, <2>2
    <3>2. (h \o b)[4 + (j - 4)] = b[j - 4] /\ b[j - 4] = <<"body", j - 4>>
      BY <1>3, <1>5, <3>1
    <3> QED
      BY <2>2, <3>1, <3>2 DEF SentAt
  <2> QED
    BY <2>1, <2>2
<1>7. 4 + page[2] = page[2] + 4
  BY <1>1
<1> QED
  BY <1>1, <1>4, <1>5, <1>6, <1>7

LEMMA StreamsInit == ASSUME Tcp!Init \/ Tcp!Unmounted PROVE StreamsInv
<1>1. /\ step = (IF reader = "tcp" THEN "scanf" ELSE "request") /\ page \in Lengths
      /\ requests = 0 /\ get = <<<<0, 1>>, <<0, 2>>>> /\ file \in Uploads /\ posted = <<>>
      /\ segments = <<>> /\ in = <<>> /\ server = "open" /\ output = <<>> /\ whole = TRUE
  BY DEF Tcp!Init, Tcp!Unmounted, Tcp!InitWith
<1>2. ASSUME reader = "tcp" PROVE TcpInv
  <2>1. TcpTypes
    BY <1>1, <1>2 DEF TcpTypes, Half
  <2> QED
    BY <1>1, <1>2, <2>1 DEF TcpInv
<1>3. ASSUME reader \in {"get", "post"} PROVE AskInv
  BY <1>1, <1>3 DEF AskInv
<1> QED
  BY <1>1, <1>2, <1>3 DEF StreamsInv, FileInv

(* The request, and the page that the server sends for it.                 *)
LEMMA RequestSent ==
  ASSUME AskInv, Tcp!GetRequest \/ Tcp!PostRequest PROVE AskInv' \/ WebInv'
<1>1. /\ UNCHANGED <<reader, page, content_length, in, output, whole>>
      /\ \/ step' = "spins" /\ UNCHANGED <<posted, segments>>
         \/ step' = "response" /\ segments' = Tcp!Page
  BY DEF Tcp!GetRequest, Tcp!PostRequest, Tcp!kept
<1>2. CASE step' = "spins" /\ UNCHANGED <<posted, segments>>
  BY <1>1, <1>2 DEF AskInv
<1>3. CASE step' = "response" /\ segments' = Tcp!Page
  <2>1. /\ page[2] \in Nat /\ segments' \in Seq(Cell) /\ Len(segments') = page[2] + 4
        /\ \A j \in 1..page[2] + 4 : segments'[j] = SentAt(j)
    BY <1>3, PageCells DEF AskInv
  <2>2. in' = <<>> /\ output' = <<>> /\ whole' = TRUE /\ page' = page /\ page \in Lengths
    BY <1>1 DEF AskInv
  <2>3. Len(in') = 0 /\ Consumed' = 0
    BY <2>1, <2>2 DEF Consumed
  <2>4. WebTypes'
    <3>1. in' \in Seq(Cell) /\ output' \in Seq(Cell)
      BY <2>2
    <3> QED
      BY <1>3, <2>1, <2>2, <2>3, <3>1 DEF WebTypes
  <2>5. RestOfPage'
    <3>1. \A j : SentAt(j)' = SentAt(j)
      BY DEF SentAt, Tcp!Headers
    <3>2. \A j \in 1..Len(segments') : segments'[j] = SentAt(0 + 0 + j)
      <4>1. \A j \in 1..page[2] + 4 : 0 + 0 + j = j
        BY <2>1
      <4> QED
        BY <2>1, <4>1
    <3> QED
      BY <2>3, <3>1, <3>2 DEF RestOfPage
  <2>6. PartOfPage' /\ GetInv' /\ PostInv'
    BY <1>3, <2>1, <2>2, <2>3 DEF PartOfPage, GetInv, PostInv
  <2> QED
    BY <2>4, <2>5, <2>6 DEF WebInv
<1> QED
  BY <1>1, <1>2, <1>3

(* A file without a NUL is copied to its end.                              *)
LEMMA PostedText ==
  ASSUME NEW f \in Seq(Nat)
  PROVE  /\ Len(Tcp!Posted(f)) = Len(f) + Len(Tcp!CrLfCrLf)
         /\ (\A k \in 1..Len(f) : f[k] # 0) => SubSeq(Tcp!Posted(f), 1, Len(f)) = f
<1> DEFINE n == Len(f)
           c == Tcp!CrLfCrLf
           query == Tcp!Text(f) \o c
           sent == Tcp!Posted(f)
<1>1. c \in Seq(Nat) /\ Len(c) = 4 /\ n \in Nat
  BY DEF Tcp!CrLfCrLf
<1>2. sent = [k \in 1..n + 4 |-> IF k <= Len(query) THEN query[k] ELSE 0]
  BY <1>1 DEF Tcp!Posted
<1> HIDE DEF c, query, sent
<1>3. Len(sent) = n + 4
  BY <1>1, <1>2
<1>4. ASSUME \A k \in 1..n : f[k] # 0 PROVE SubSeq(sent, 1, n) = f
  <2> DEFINE P(k) == (\A j \in 1..k : f[j] # 0) /\ (k < n => f[k + 1] = 0)
  <2>1. n \in 0..n /\ P(n)
    BY <1>1, <1>4
  <2>2. ASSUME NEW k \in 0..n, P(k) PROVE k = n
    <3>1. k < n => k + 1 \in 1..n
      BY <1>1
    <3> QED
      BY <1>1, <1>4, <2>2, <3>1
  <2>3. (CHOOSE k \in 0..n : P(k)) = n
    <3> HIDE DEF P
    <3> QED
      BY <2>1, <2>2
  <2>4. Tcp!Text(f) = SubSeq(f, 1, n)
    BY <2>3 DEF Tcp!Text
  <2>5. SubSeq(f, 1, n) = f
    BY <1>1
  <2>6. query = f \o c
    BY <2>4, <2>5 DEF query
  <2>7. /\ f \o c \in Seq(Nat) /\ Len(f \o c) = n + 4
        /\ \A k \in 1..n : (f \o c)[k] = f[k]
    <3>1. \A s, t \in Seq(Nat) :
            /\ s \o t \in Seq(Nat) /\ Len(s \o t) = Len(s) + Len(t)
            /\ \A k \in 1..Len(s) : (s \o t)[k] = s[k]
      BY Joined
    <3>2. /\ f \o c \in Seq(Nat) /\ Len(f \o c) = Len(f) + Len(c)
          /\ \A k \in 1..Len(f) : (f \o c)[k] = f[k]
      BY <1>1, <3>1
    <3> QED
      BY <1>1, <3>2
  <2>8. \A k \in 1..n : sent[k] = f[k]
    <3>1. \A k \in 1..n : k \in 1..n + 4 /\ k <= n + 4
      BY <1>1
    <3> QED
      BY <1>2, <2>6, <2>7, <3>1
  <2>9. SubSeq(sent, 1, n) = [k \in 1..n |-> f[k]]
    <3> DEFINE x == SubSeq(sent, 1, n)
    <3>1. sent \in Seq(Nat)
      <4>1. \A k \in 1..n + 4 : (f \o c)[k] \in Nat
        <5> DEFINE w == f \o c
        <5>1. w \in Seq(Nat) /\ Len(w) = n + 4
          BY <2>7
        <5> HIDE DEF w
        <5>2. \A k \in 1..n + 4 : w[k] \in Nat
          BY <5>1
        <5> QED
          BY <5>2 DEF w
      <4>2. \A k \in 1..n + 4 : (IF k <= Len(query) THEN query[k] ELSE 0) \in Nat
        BY <2>6, <4>1
      <4> QED
        BY <1>1, <1>2, <4>2
    <3>2. 1 \in 1..Len(sent) + 1 /\ n \in 0..Len(sent) /\ 1 <= n + 1 /\ n - 1 + 1 = n
      BY <1>1, <1>3
    <3>3. /\ x \in Seq(Nat) /\ Len(x) = n - 1 + 1
          /\ \A k \in 1..n - 1 + 1 : x[k] = sent[1 + k - 1]
      BY <3>1, <3>2, Part
    <3> HIDE DEF x
    <3>4. \A k \in 1..n : x[k] = f[k]
      <4>1. \A k \in 1..n : 1 + k - 1 = k
        BY <1>1
      <4> QED
        BY <2>8, <3>2, <3>3, <4>1
    <3>5. x = [k \in 1..n |-> f[k]]
      <4>1. x = [k \in 1..n |-> x[k]]
        BY <3>2, <3>3
      <4> QED
        BY <3>4, <4>1
    <3> QED
      BY <3>5 DEF x
  <2>10. f = [k \in 1..n |-> f[k]]
    OBVIOUS
  <2> QED
    BY <2>9, <2>10
<1> QED
  BY <1>1, <1>3, <1>4 DEF sent, c

-----------------------------------------------------------------------------
(* tcp-client.                                                             *)
LEMMA TcpSegment == ASSUME TcpInv, Tcp!Segment PROVE TcpInv'
<1>1. in \in Seq(Half) /\ segments \in Seq(Half)
  BY DEF TcpInv, TcpTypes
<1>2. UNCHANGED <<step, server, reader, page, requests, get, content_length, output, whole>>
  BY DEF Tcp!Segment, Tcp!kept
<1>3. in' \in Seq(Half) /\ segments' \in Seq(Half)
  BY <1>1, SegmentMoves
<1>4. PICK k \in 1..Len(segments) :
        /\ Len(in') = Len(in) + k /\ Len(segments') = Len(segments) - k
        /\ \A j \in 1..Len(in) : in'[j] = in[j]
        /\ \A j \in 1..k : in'[Len(in) + j] = segments[j]
        /\ \A j \in 1..Len(segments') : segments'[j] = segments[k + j]
  BY <1>1, SegmentMoves
<1>5. TcpTypes'
  BY <1>2, <1>3 DEF TcpInv, TcpTypes
<1>6. segments # <<>> /\ server = "open"
  BY <1>4 DEF TcpInv
<1>7. ASSUME whole, step = "read" PROVE OneAnswerLeft'
  <2>1. /\ Len(in) + Len(segments) = 2 /\ server # "gone"
        /\ \A j \in 1..Len(in) : in[j] = <<requests, j>>
        /\ \A j \in 1..Len(segments) : segments[j] = <<requests, Len(in) + j>>
    BY <1>6, <1>7 DEF TcpInv, OneAnswerLeft
  <2>2. Len(in) \in Nat /\ Len(segments) \in Nat
    BY <1>1
  <2>3. \A j \in 1..Len(in') : in'[j] = <<requests, j>>
    <3>1. ASSUME NEW j \in 1..Len(in') PROVE in'[j] = <<requests, j>>
      <4>1. CASE j <= Len(in)
        BY <1>4, <2>1, <2>2, <4>1
      <4>2. CASE ~(j <= Len(in))
        <5>1. j - Len(in) \in 1..k /\ j - Len(in) \in 1..Len(segments) /\ Len(in) + (j - Len(in)) = j
          BY <1>4, <2>2, <4>2
        <5> QED
          BY <1>4, <2>1, <5>1
      <4> QED
        BY <4>1, <4>2
    <3> QED
      BY <3>1
  <2>4. \A j \in 1..Len(segments') : segments'[j] = <<requests, Len(in') + j>>
    <3>1. ASSUME NEW j \in 1..Len(segments') PROVE segments'[j] = <<requests, Len(in') + j>>
      <4>1. k + j \in 1..Len(segments) /\ Len(in) + (k + j) = Len(in') + j
        BY <1>4, <2>2
      <4> QED
        BY <1>4, <2>1, <4>1
    <3> QED
      BY <3>1
  <2> QED
    BY <1>2, <1>4, <2>1, <2>2, <2>3, <2>4 DEF OneAnswerLeft
<1> QED
  BY <1>2, <1>5, <1>6, <1>7 DEF TcpInv

LEMMA TcpClose == ASSUME TcpInv, Tcp!Close PROVE TcpInv'
<1>1. /\ server = "open" /\ segments = <<>> /\ server' \in {"closed", "reset"}
      /\ UNCHANGED <<step, segments, in, reader, page, requests, get, content_length, output, whole>>
  BY DEF Tcp!Close, Tcp!kept
<1>2. TcpTypes'
  BY <1>1 DEF TcpInv, TcpTypes
<1>3. OneAnswerLeft => OneAnswerLeft'
  BY <1>1 DEF OneAnswerLeft
<1> QED
  BY <1>1, <1>2, <1>3 DEF TcpInv

(* A question goes to a server that is open, with nothing left to read.    *)
LEMMA TcpWrite == ASSUME TcpInv, Tcp!Write PROVE TcpInv'
<1>1. /\ step = "scanf"
      /\ step' = CASE requests = Numbers \/ server = "reset" -> "ended"
                   [] server = "gone" -> "killed"
                   [] OTHER -> "read"
      /\ requests' = IF step' = "read" THEN requests + 1 ELSE requests
      /\ segments' = IF step' = "read" /\ server = "open" THEN segments \o Tcp!Answer(requests') ELSE segments
      /\ server' \in IF step' = "read" /\ server = "closed" THEN {"closed", "gone"} ELSE {server}
      /\ UNCHANGED <<reader, page, get, content_length, in, output, whole>>
  BY DEF Tcp!Write
<1>2. TcpTypes /\ Len(output) = requests /\ requests \in Nat /\ segments \in Seq(Half)
  BY <1>1 DEF TcpInv, TcpTypes
<1>3. CASE step' = "read"
  <2>1. server \in {"open", "closed"} /\ requests' = requests + 1
    BY <1>1, <1>2, <1>3 DEF TcpTypes
  <2> DEFINE a == Tcp!Answer(requests')
  <2>2. a \in Seq(Half) /\ Len(a) = 2 /\ a[1] = <<requests', 1>> /\ a[2] = <<requests', 2>>
    BY <1>2, <2>1 DEF Tcp!Answer, Half
  <2> HIDE DEF a
  <2>3. segments' = IF server = "open" THEN segments \o a ELSE segments
    BY <1>1, <1>3 DEF a
  <2>4. segments' \in Seq(Half)
    BY <1>2, <2>2, <2>3
  <2>5. TcpTypes'
    BY <1>1, <1>2, <1>3, <2>1, <2>4 DEF TcpTypes
  <2>6. ASSUME whole PROVE OneAnswerLeft'
    <3>1. in = <<>> /\ segments = <<>>
      BY <1>1, <2>6 DEF TcpInv
    <3>2. CASE server = "open"
      <4>1. Len(segments') = 2 /\ segments'[1] = <<requests', 1>> /\ segments'[2] = <<requests', 2>>
        BY <1>2, <2>2, <2>3, <3>1, <3>2
      <4>2. in' = <<>> /\ Len(in') = 0 /\ server' = "open"
        BY <1>1, <3>1, <3>2
      <4>3. \A j \in 1..Len(segments') : segments'[j] = <<requests', Len(in') + j>>
        BY <4>1, <4>2
      <4> QED
        BY <4>1, <4>2, <4>3 DEF OneAnswerLeft
    <3>3. CASE server # "open"
      BY <1>1, <2>3, <3>1, <3>3 DEF OneAnswerLeft
    <3> QED
      BY <3>2, <3>3
  <2>7. server' # "open" => segments' = <<>>
    BY <1>1, <2>1, <2>3 DEF TcpInv
  <2> QED
    BY <1>1, <1>2, <1>3, <2>1, <2>5, <2>6, <2>7 DEF TcpInv
<1>4. CASE step' # "read"
  <2>1. step' \in {"ended", "killed"} /\ UNCHANGED <<requests, segments, server>>
    BY <1>1, <1>4
  <2>2. step' = "killed" => server = "gone"
    BY <1>1
  <2>3. TcpTypes'
    BY <1>1, <1>2, <2>1 DEF TcpTypes
  <2> QED
    BY <1>1, <1>2, <2>1, <2>2, <2>3 DEF TcpInv
<1> QED
  BY <1>3, <1>4

(* As long as both halves come together, they are those of the answer.     *)
LEMMA TcpReadNumber == ASSUME TcpInv, Tcp!ReadNumber PROVE TcpInv'
<1> DEFINE t == Tcp!Taken(2)
           m == Len(t)
           r == Tcp!Rest(2)
           n == Len(in)
<1>1. /\ step = "read" /\ in' = r
      /\ IF in = <<>> THEN step' = "ended" /\ UNCHANGED <<get, output, whole>>
         ELSE /\ get' = Tcp!Halves(t) /\ output' = Append(output, get')
              /\ step' = "scanf" /\ whole' = (whole /\ m = 2)
      /\ UNCHANGED <<reader, page, requests, content_length, segments, server>>
  BY DEF Tcp!ReadNumber
<1>2. TcpTypes /\ in \in Seq(Half)
  BY DEF TcpInv, TcpTypes
<1>3. Len(output) + 1 = requests
  BY <1>1 DEF TcpInv
<1>4. /\ m = (IF n <= 2 THEN n ELSE 2) /\ m \in 0..n
      /\ t \in Seq(Half) /\ \A j \in 1..m : t[j] = in[j]
      /\ r \in Seq(Half) /\ Len(r) = n - m
  <2>1. 2 \in Nat
    OBVIOUS
  <2> QED
    BY <1>2, <2>1, ReadTakes
<1>5. m = (IF n <= 2 THEN n ELSE 2)
  BY <1>4
<1>6. n \in Nat /\ (in # <<>> => n >= 1)
  BY <1>2
<1>7. t \in Seq(Half) /\ \A j \in 1..m : t[j] = in[j]
  BY <1>4
<1>8. r \in Seq(Half) /\ Len(r) = n - m
  BY <1>4
<1>9. Len(t) = m
  OBVIOUS
<1> HIDE DEF t, r, m, n
<1>10. CASE in = <<>>
  <2>1. TcpTypes'
    BY <1>1, <1>2, <1>8, <1>10 DEF TcpTypes
  <2>2. Len(output') <= requests'
    BY <1>1, <1>10 DEF TcpInv
  <2> QED
    BY <1>1, <1>10, <2>1, <2>2 DEF TcpInv
<1>11. CASE in # <<>>
  <2>1. m \in {1, 2} /\ m \in Nat
    BY <1>5, <1>6, <1>11
  <2>2. \A s \in Seq(Half) :
          /\ Len(s) = 1 => s[1] \in Half
          /\ Len(s) = 2 => s = <<s[1], s[2]>> /\ s[1] \in Half /\ s[2] \in Half
    OBVIOUS
  <2>3. t[1] \in Half /\ (m = 2 => t = <<t[1], t[2]>> /\ t[2] \in Half)
    BY <1>7, <1>9, <2>1, <2>2
  <2>4. get' = IF m = 2 THEN t ELSE <<t[1], get[2]>>
    BY <1>1, <1>9, <1>11 DEF Tcp!Halves
  <2>5. get' \in Half \X Half
    <3>1. get[2] \in Half
      BY <1>2 DEF TcpTypes
    <3> QED
      BY <2>3, <2>4, <3>1
  <2>6. /\ output' \in Seq(Half \X Half) /\ Len(output') = Len(output) + 1
        /\ output'[Len(output) + 1] = get' /\ \A k \in 1..Len(output) : output'[k] = output[k]
    <3>1. output' = Append(output, get') /\ output \in Seq(Half \X Half)
      BY <1>1, <1>2, <1>11 DEF TcpTypes
    <3>2. \A s \in Seq(Half \X Half), e \in Half \X Half :
            /\ Append(s, e) \in Seq(Half \X Half) /\ Len(Append(s, e)) = Len(s) + 1
            /\ Append(s, e)[Len(s) + 1] = e /\ \A k \in 1..Len(s) : Append(s, e)[k] = s[k]
      OBVIOUS
    <3> QED
      BY <2>5, <3>1, <3>2
  <2>7. Len(output') = requests /\ requests \in Nat /\ Len(output) \in Nat
    <3>1. Len(output) \in Nat /\ requests \in Nat
      BY <1>2 DEF TcpTypes
    <3> QED
      BY <1>3, <2>6, <3>1
  <2>8. step' = "scanf" /\ whole' = (whole /\ m = 2)
    BY <1>1, <1>11
  <2>9. TcpTypes'
    BY <1>1, <1>2, <1>8, <2>5, <2>6, <2>8 DEF TcpTypes
  <2>10. ASSUME whole'
         PROVE  /\ in' = <<>> /\ segments' = <<>> /\ server' # "gone"
                /\ \A k \in 1..Len(output') : output'[k] = Tcp!Answer(k)
    <3>1. whole /\ m = 2
      BY <2>8, <2>10
    <3>2. /\ n + Len(segments) = 2 /\ server # "gone"
          /\ \A j \in 1..n : in[j] = <<requests, j>>
      BY <1>1, <1>11, <3>1 DEF TcpInv, OneAnswerLeft, n
    <3>3. n = 2 /\ Len(segments) = 0
      <4>1. Len(segments) \in Nat
        BY <1>2 DEF TcpTypes
      <4>2. n + Len(segments) = 2
        BY <3>2
      <4> QED
        BY <1>5, <1>6, <3>1, <4>1, <4>2
    <3>4. segments' = <<>>
      BY <1>1, <1>2, <3>3 DEF TcpTypes
    <3>5. Len(r) = 0
      BY <1>8, <3>1, <3>3
    <3>6. in' = <<>>
      BY <1>1, <1>8, <3>5
    <3>7. get' = Tcp!Answer(requests)
      <4>1. t = <<t[1], t[2]>> /\ t[1] = in[1] /\ t[2] = in[2]
        BY <1>7, <2>3, <3>1
      <4>2. in[1] = <<requests, 1>> /\ in[2] = <<requests, 2>>
        BY <3>2, <3>3
      <4> QED
        BY <2>4, <3>1, <4>1, <4>2 DEF Tcp!Answer
    <3>8. \A k \in 1..Len(output) : output[k] = Tcp!Answer(k)
      BY <3>1 DEF TcpInv
    <3>9. \A k \in 1..Len(output') : output'[k] = Tcp!Answer(k)
      <4>1. 1..Len(output') = (1..Len(output)) \cup {requests}
        BY <1>3, <2>7
      <4> QED
        BY <1>3, <2>6, <3>7, <3>8, <4>1
    <3> QED
      BY <1>1, <3>2, <3>4, <3>6, <3>9
  <2>11. Len(output') <= requests' /\ Len(output') = requests'
    BY <1>1, <2>7
  <2>12. server' # "open" => segments' = <<>>
    BY <1>1 DEF TcpInv
  <2> QED
    BY <2>8, <2>9, <2>10, <2>11, <2>12 DEF TcpInv
<1> QED
  BY <1>10, <1>11

-----------------------------------------------------------------------------
(* http-get and http-post.  A step that neither reads nor prints.          *)
LEMMA WebQuiet ==
  ASSUME WebInv, UNCHANGED <<reader, page, content_length, output, whole, in, segments>>,
         step' = step \/ (reader = "post" /\ step' = "ended")
  PROVE  WebInv'
<1>1. Consumed' = Consumed
  BY DEF Consumed
<1>2. WebTypes'
  BY <1>1 DEF WebInv, WebTypes
<1>3. RestOfPage'
  <2>1. \A j : SentAt(j)' = SentAt(j)
    BY DEF SentAt, Tcp!Headers
  <2> QED
    BY <1>1, <2>1 DEF WebInv, RestOfPage
<1>4. PartOfPage'
  BY DEF WebInv, PartOfPage
<1>5. GetInv' /\ PostInv'
  BY <1>1 DEF WebInv, GetInv, PostInv, LengthLeft
<1> QED
  BY <1>2, <1>3, <1>4, <1>5 DEF WebInv

LEMMA WebNumbers ==
  ASSUME WebTypes
  PROVE  /\ page[1] \in Nat \ {0} /\ page[2] \in Nat /\ page[1] + page[2] + 2 * BUFSIZ < Word
         /\ Len(in) \in Nat /\ Len(segments) \in Nat /\ Len(output) \in Nat /\ Consumed \in Nat
         /\ Consumed + Len(in) + Len(segments) = page[2] + 4
<1>1. page[1] \in Nat \ {0} /\ page[2] \in Nat /\ page[1] + page[2] + 2 * BUFSIZ < Word
  BY TcpAssumptions DEF WebTypes
<1>2. Len(in) \in Nat /\ Len(segments) \in Nat /\ Len(output) \in Nat
  BY DEF WebTypes
<1>3. Consumed = page[2] + 4 - Len(in) - Len(segments) /\ Consumed >= 0
  BY DEF WebTypes, Consumed
<1> QED
  BY <1>1, <1>2, <1>3

LEMMA WebSegment == ASSUME WebInv, Tcp!Segment PROVE WebInv'
<1>1. in \in Seq(Cell) /\ segments \in Seq(Cell)
  BY DEF WebInv, WebTypes
<1>2. UNCHANGED <<step, server, reader, page, requests, get, content_length, output, whole>>
  BY DEF Tcp!Segment, Tcp!kept
<1>3. in' \in Seq(Cell) /\ segments' \in Seq(Cell)
  BY <1>1, SegmentMoves
<1>4. PICK k \in 1..Len(segments) :
        /\ Len(in') = Len(in) + k /\ Len(segments') = Len(segments) - k
        /\ \A j \in 1..Len(in) : in'[j] = in[j]
        /\ \A j \in 1..k : in'[Len(in) + j] = segments[j]
        /\ \A j \in 1..Len(segments') : segments'[j] = segments[k + j]
  BY <1>1, SegmentMoves
<1>5. /\ Len(in) \in Nat /\ Len(segments) \in Nat /\ page[2] \in Nat /\ Consumed \in Nat
  BY WebNumbers DEF WebInv
<1>6. Len(in') = Len(in) + k /\ Len(segments') = Len(segments) - k /\ k \in 1..Len(segments)
  BY <1>4
<1>7. Consumed' = Consumed
  <2>1. Consumed' = page[2] + 4 - Len(in') - Len(segments')
    BY <1>2 DEF Consumed
  <2>2. Consumed = page[2] + 4 - Len(in) - Len(segments)
    BY DEF Consumed
  <2> QED
    BY <1>5, <1>6, <2>1, <2>2
<1>8. WebTypes'
  BY <1>2, <1>3, <1>7 DEF WebInv, WebTypes
<1>9. RestOfPage'
  <2>1. /\ \A j \in 1..Len(in) : in[j] = SentAt(Consumed + j)
        /\ \A j \in 1..Len(segments) : segments[j] = SentAt(Consumed + Len(in) + j)
    BY DEF WebInv, RestOfPage
  <2>2. ASSUME NEW j \in 1..Len(in') PROVE in'[j] = SentAt(Consumed + j)
    <3>1. CASE j <= Len(in)
      <4>1. j \in 1..Len(in)
        BY <1>5, <1>6, <3>1
      <4> QED
        BY <1>4, <2>1, <4>1
    <3>2. CASE ~(j <= Len(in))
      <4>1. /\ j - Len(in) \in 1..k /\ j - Len(in) \in 1..Len(segments) /\ Len(in) + (j - Len(in)) = j
            /\ Consumed + Len(in) + (j - Len(in)) = Consumed + j
        BY <1>5, <1>6, <3>2
      <4>2. in'[Len(in) + (j - Len(in))] = segments[j - Len(in)]
        BY <1>4, <4>1
      <4>3. segments[j - Len(in)] = SentAt(Consumed + Len(in) + (j - Len(in)))
        BY <2>1, <4>1
      <4> QED
        BY <4>1, <4>2, <4>3
    <3> QED
      BY <3>1, <3>2
  <2>3. ASSUME NEW j \in 1..Len(segments') PROVE segments'[j] = SentAt(Consumed + Len(in') + j)
    <3>1. k + j \in 1..Len(segments) /\ Consumed + Len(in) + (k + j) = Consumed + Len(in') + j
      BY <1>5, <1>6
    <3>2. segments'[j] = segments[k + j]
      BY <1>4
    <3>3. segments[k + j] = SentAt(Consumed + Len(in) + (k + j))
      BY <2>1, <3>1
    <3> QED
      BY <3>1, <3>2, <3>3
  <2>4. \A j : SentAt(j)' = SentAt(j)
    BY DEF SentAt, Tcp!Headers
  <2> QED
    BY <1>7, <2>2, <2>3, <2>4 DEF RestOfPage
<1>10. PartOfPage'
  BY <1>2 DEF WebInv, PartOfPage
<1>11. GetInv' /\ PostInv'
  BY <1>2, <1>7 DEF WebInv, GetInv, PostInv, LengthLeft
<1> QED
  BY <1>8, <1>9, <1>10, <1>11 DEF WebInv

(* A read goes on where the one before ended.                              *)
LEMMA WebReads ==
  ASSUME WebInv, in' = Tcp!Rest(BUFSIZ), UNCHANGED <<segments, page>>
  PROVE  LET m == Len(Tcp!Taken(BUFSIZ)) IN
         /\ m \in Nat /\ m <= Len(in) /\ m <= BUFSIZ /\ Consumed' = Consumed + m
         /\ Consumed' \in Nat /\ Consumed' <= page[2] + 4
         /\ in' \in Seq(Cell) /\ RestOfPage'
         /\ Tcp!Taken(BUFSIZ) \in Seq(Cell)
         /\ \A j \in 1..m : Tcp!Taken(BUFSIZ)[j] = SentAt(Consumed + j)
<1> DEFINE t == Tcp!Taken(BUFSIZ)
           m == Len(t)
           n == Len(in)
<1>1. in \in Seq(Cell) /\ BUFSIZ \in Nat
  BY TcpAssumptions DEF WebInv, WebTypes
<1>2. /\ m = (IF n <= BUFSIZ THEN n ELSE BUFSIZ) /\ m \in 0..n
      /\ t \in Seq(Cell) /\ \A j \in 1..m : t[j] = in[j]
      /\ in' \in Seq(Cell) /\ Len(in') = n - m /\ \A j \in 1..n - m : in'[j] = in[m + j]
  BY <1>1, ReadTakes
<1>3. m = (IF n <= BUFSIZ THEN n ELSE BUFSIZ) /\ Len(in') = n - m
  BY <1>2
<1>4. \A j \in 1..m : t[j] = in[j]
  BY <1>2
<1>5. \A j \in 1..n - m : in'[j] = in[m + j]
  BY <1>2
<1>6. t \in Seq(Cell) /\ in' \in Seq(Cell)
  BY <1>2
<1>7. /\ n \in Nat /\ Len(segments) \in Nat /\ page[2] \in Nat /\ Consumed \in Nat /\ BUFSIZ \in Nat
      /\ Consumed + n + Len(segments) = page[2] + 4
  BY WebNumbers, TcpAssumptions DEF WebInv
<1>8. Consumed' = page[2] + 4 - Len(in') - Len(segments) /\ Consumed = page[2] + 4 - n - Len(segments)
  BY DEF Consumed
<1>9. \A j \in 1..n : in[j] = SentAt(Consumed + j)
  BY DEF WebInv, RestOfPage
<1>10. \A j \in 1..Len(segments) : segments[j] = SentAt(Consumed + n + j)
  BY DEF WebInv, RestOfPage
<1> HIDE DEF t, m, n
<1>11. m \in Nat /\ m <= n /\ m <= BUFSIZ
  BY <1>3, <1>7
<1>12. Consumed' = Consumed + m /\ Consumed' \in Nat /\ Consumed' <= page[2] + 4
  <2> DEFINE g == Len(segments)
             pp == page[2]
             c == Consumed
             i == Len(in')
  <2>1. i = n - m /\ Consumed' = pp + 4 - i - g /\ c = pp + 4 - n - g
    BY <1>3, <1>8
  <2>2. n \in Nat /\ g \in Nat /\ pp \in Nat /\ c \in Nat
    BY <1>7
  <2> HIDE DEF g, pp, c, i
  <2>3. Consumed' = c + m /\ Consumed' \in Nat /\ Consumed' <= pp + 4
    BY <1>11, <2>1, <2>2
  <2> QED
    BY <2>3 DEF pp, c
<1>13. ASSUME NEW j \in 1..m PROVE t[j] = SentAt(Consumed + j)
  <2>1. j \in 1..n
    BY <1>7, <1>11
  <2> QED
    BY <1>4, <1>9, <2>1
<1>14. ASSUME NEW j \in 1..Len(in') PROVE in'[j] = SentAt(Consumed' + j)
  <2>1. j \in 1..n - m /\ m + j \in 1..n /\ Consumed' + j = Consumed + (m + j)
    BY <1>3, <1>7, <1>11, <1>12
  <2> QED
    BY <1>5, <1>9, <2>1
<1>15. ASSUME NEW j \in 1..Len(segments) PROVE segments[j] = SentAt(Consumed' + Len(in') + j)
  <2>1. Consumed' + Len(in') + j = Consumed + n + j
    BY <1>3, <1>7, <1>11, <1>12
  <2> QED
    BY <1>10, <2>1
<1>16. RestOfPage'
  <2>1. \A j : SentAt(j)' = SentAt(j)
    BY DEF SentAt, Tcp!Headers
  <2> QED
    BY <1>14, <1>15, <2>1 DEF RestOfPage
<1> QED
  BY <1>6, <1>11, <1>12, <1>13, <1>16 DEF t, m, n

(* The headers end once in a page: what comes after them is the body.      *)
LEMMA Delimiter ==
  ASSUME WebInv, in' = Tcp!Rest(BUFSIZ), UNCHANGED <<segments, page>>
  PROVE  LET t == Tcp!Taken(BUFSIZ)
             a == Tcp!After(t, "delimiter")
         IN /\ Tcp!Where(t, "delimiter") # {} <=> Consumed < 4 /\ Consumed' >= 4
            /\ Tcp!Where(t, "delimiter") # {} =>
                 /\ a \in Seq(Cell) /\ Len(a) = Consumed' - 4
                 /\ \A j \in 1..Len(a) : a[j] = <<"body", j>>
<1> DEFINE t == Tcp!Taken(BUFSIZ)
           m == Len(t)
           W == Tcp!Where(t, "delimiter")
           d == 4 - Consumed
<1>1. m \in Nat /\ Consumed' = Consumed + m /\ Consumed \in Nat
  BY WebReads, WebNumbers DEF WebInv
<1>2. t \in Seq(Cell)
  BY WebReads
<1>3. \A j \in 1..m : t[j] = SentAt(Consumed + j)
  BY WebReads
<1>4. W = {k \in 1..m : t[k][1] = "delimiter"}
  BY <1>2 DEF Tcp!Where
<1>5. d \in Int /\ \A k \in 1..m : (k = d <=> Consumed + k = 4)
  BY <1>1
<1>6. \A k \in Nat \ {0} : SentAt(k)[1] = "delimiter" <=> k = 4
  <2>1. ASSUME NEW k \in Nat \ {0} PROVE SentAt(k)[1] = "delimiter" <=> k = 4
    <3>1. CASE k <= 4
      <4>1. k \in {1, 2, 3, 4} /\ SentAt(k) = Tcp!Headers[k]
        BY <3>1 DEF SentAt
      <4>2. /\ Tcp!Headers[1][1] = "status" /\ Tcp!Headers[2][1] = "Content-Length"
            /\ Tcp!Headers[3][1] = "other" /\ Tcp!Headers[4][1] = "delimiter"
        BY DEF Tcp!Headers
      <4> QED
        BY <4>1, <4>2
    <3>2. CASE ~(k <= 4)
      BY <3>2 DEF SentAt
    <3> QED
      BY <3>1, <3>2
  <2> QED
    BY <2>1
<1> HIDE DEF t, m, W, d
<1>7. \A k \in 1..m : k \in W <=> k = d
  <2>1. ASSUME NEW k \in 1..m PROVE k \in W <=> k = d
    <3>1. Consumed + k \in Nat \ {0}
      BY <1>1
    <3> QED
      BY <1>3, <1>4, <1>5, <1>6, <3>1
  <2> QED
    BY <2>1
<1>8. W # {} <=> d \in 1..m
  BY <1>4, <1>7
<1>9. d \in 1..m <=> Consumed < 4 /\ Consumed' >= 4
  BY <1>1 DEF d
<1>10. ASSUME W # {}
       PROVE  LET a == Tcp!After(t, "delimiter") IN
              /\ a \in Seq(Cell) /\ Len(a) = Consumed' - 4
              /\ \A j \in 1..Len(a) : a[j] = <<"body", j>>
  <2>1. d \in 1..m /\ W = {d}
    BY <1>4, <1>7, <1>8, <1>10
  <2> DEFINE a == SubSeq(t, d + 1, m)
  <2>2. Tcp!After(t, "delimiter") = a
    <3>1. (CHOOSE j \in W : TRUE) = d
      BY <2>1
    <3> QED
      BY <3>1 DEF Tcp!After, W, m
  <2>3. a \in Seq(Cell) /\ Len(a) = m - d /\ \A j \in 1..m - d : a[j] = t[d + j]
    <3>1. /\ d + 1 \in 1..Len(t) + 1 /\ m \in 0..Len(t) /\ d + 1 <= m + 1
          /\ m - (d + 1) + 1 = m - d
      BY <1>1, <2>1 DEF m
    <3>2. /\ a \in Seq(Cell) /\ Len(a) = m - (d + 1) + 1
          /\ \A j \in 1..m - (d + 1) + 1 : a[j] = t[d + 1 + j - 1]
      BY <1>2, <3>1, Part
    <3>3. \A j \in 1..m - d : d + 1 + j - 1 = d + j
      BY <1>1, <2>1
    <3> HIDE DEF a
    <3> QED
      BY <3>1, <3>2, <3>3
  <2> HIDE DEF a
  <2>4. m - d = Consumed' - 4 /\ m - d \in Nat
    BY <1>1, <2>1 DEF d
  <2>5. ASSUME NEW j \in 1..m - d PROVE a[j] = <<"body", j>>
    <3>1. d + j \in 1..m /\ Consumed + (d + j) = 4 + j /\ ~(4 + j <= 4) /\ 4 + j - 4 = j
      BY <1>1, <2>1 DEF d
    <3>2. t[d + j] = SentAt(4 + j)
      BY <1>3, <3>1
    <3>3. SentAt(4 + j) = <<"body", j>>
      BY <3>1 DEF SentAt
    <3> QED
      BY <2>3, <3>2, <3>3
  <2> QED
    BY <2>2, <2>3, <2>4, <2>5
<1> QED
  BY <1>8, <1>9, <1>10 DEF W, t

(* http-get's first segment.                                               *)
LEMMA WebFirst == ASSUME WebInv, Tcp!FirstSegment PROVE WebInv'
<1> DEFINE t == Tcp!Taken(BUFSIZ)
           a == Tcp!After(t, "delimiter")
           D == Tcp!Where(t, "delimiter")
<1>1. /\ reader = "get" /\ step = "response" /\ in' = Tcp!Rest(BUFSIZ)
      /\ \/ step' = "killed" /\ UNCHANGED <<content_length, output, whole>>
         \/ /\ step' = "body" /\ whole' = (D # {})
            /\ IF D = {} THEN UNCHANGED output
               ELSE output' = a /\ content_length' = (page[1] - Len(output')) % Word
      /\ UNCHANGED <<reader, page, requests, get, segments, server>>
  BY DEF Tcp!FirstSegment, Tcp!LeftOf
<1>2. output = <<>> /\ Consumed = 0
  BY <1>1 DEF WebInv, GetInv
<1>3. /\ Consumed' \in Nat /\ Consumed' <= page[2] + 4 /\ in' \in Seq(Cell) /\ RestOfPage'
  BY <1>1, WebReads
<1>4. page[1] \in Nat \ {0} /\ page[2] \in Nat /\ page[1] + page[2] + 2 * BUFSIZ < Word
  BY WebNumbers DEF WebInv
<1>5. D # {} => /\ a \in Seq(Cell) /\ Len(a) = Consumed' - 4 /\ Consumed' >= 4
                /\ \A j \in 1..Len(a) : a[j] = <<"body", j>>
  BY <1>1, Delimiter
<1> HIDE DEF t, a, D
<1>6. output' \in Seq(Cell)
  BY <1>1, <1>5 DEF WebInv, WebTypes
<1>7. WebTypes'
  <2>1. whole \in BOOLEAN /\ segments \in Seq(Cell) /\ page \in Lengths
    BY DEF WebInv, WebTypes
  <2>2. whole' \in BOOLEAN /\ step' \in {"body", "killed"}
    BY <1>1, <2>1
  <2>3. Consumed' >= 0
    BY <1>3
  <2> QED
    BY <1>1, <1>3, <1>6, <2>1, <2>2, <2>3 DEF WebTypes
<1>8. CASE output' = output /\ (step' = "killed" \/ ~whole')
  <2>1. Len(output') = 0
    BY <1>2, <1>8
  <2>2. PartOfPage'
    BY <1>1, <1>4, <2>1 DEF PartOfPage
  <2>3. GetInv' /\ PostInv'
    BY <1>1, <1>8 DEF GetInv, PostInv
  <2> QED
    BY <1>3, <1>7, <2>2, <2>3 DEF WebInv
<1>9. CASE D # {} /\ step' = "body" /\ output' = a /\ content_length' = (page[1] - Len(output')) % Word
  <2>1. /\ Len(output') = Consumed' - 4 /\ \A j \in 1..Len(output') : output'[j] = <<"body", j>>
    BY <1>5, <1>9
  <2>2. Len(output') = Consumed' - 4 /\ Consumed' >= 4
    BY <1>5, <1>9
  <2>3. Len(output') <= page[2] /\ Len(output') \in Nat
    <3> DEFINE c == Consumed'
               l == Len(output')
               pp == page[2]
    <3>1. c \in Nat /\ c <= pp + 4 /\ pp \in Nat /\ l = c - 4 /\ c >= 4
      BY <1>3, <1>4, <2>2
    <3> HIDE DEF c, l, pp
    <3>2. l <= pp /\ l \in Nat
      BY <3>1
    <3> QED
      BY <3>2 DEF l, pp
  <2>4. PartOfPage'
    BY <1>1, <2>1, <2>3 DEF PartOfPage
  <2>5. content_length' = LengthLeft'
    <3> DEFINE x == page[1] - Len(output')
    <3>1. x \in Int /\ -Word < x /\ x < Word /\ Word \in Nat /\ (x < 0 <=> ~(Len(output') <= page[1]))
      <4> DEFINE l == Len(output')
                 a1 == page[1]
                 a2 == page[2]
      <4>1. l \in Nat /\ l <= a2 /\ a1 \in Nat /\ a2 \in Nat /\ a1 + a2 + 2 * BUFSIZ < Word
            /\ BUFSIZ \in Nat /\ Word \in Nat
        BY <1>4, <2>3, TcpAssumptions
      <4>2. x = a1 - l
        OBVIOUS
      <4> HIDE DEF l, a1, a2, x
      <4>3. x \in Int /\ -Word < x /\ x < Word /\ (x < 0 <=> ~(l <= a1))
        BY <4>1, <4>2
      <4> QED
        BY <4>1, <4>3 DEF l, a1
    <3>2. x % Word = IF x < 0 THEN x + Word ELSE x
      <4> HIDE DEF x
      <4> QED
        BY <3>1, Wrapped
    <3> QED
      BY <1>1, <1>9, <3>1, <3>2 DEF LengthLeft
  <2>6. GetInv' /\ PostInv'
    BY <1>1, <1>9, <2>2, <2>5 DEF GetInv, PostInv
  <2> QED
    BY <1>3, <1>7, <2>4, <2>6 DEF WebInv
<1> QED
  BY <1>1, <1>8, <1>9

(* Its loop.                                                               *)
LEMMA WebNext == ASSUME WebInv, Tcp!NextSegment PROVE WebInv'
<1> DEFINE t == Tcp!Taken(BUFSIZ)
           m == Len(t)
<1>1. /\ reader = "get" /\ step = "body" /\ UNCHANGED <<reader, page, requests, get, segments, server, whole>>
      /\ \/ /\ content_length = 0 /\ step' = "ended" /\ UNCHANGED <<in, output, content_length>>
         \/ /\ in' = Tcp!Rest(BUFSIZ) /\ output' = output \o t /\ UNCHANGED step
            /\ content_length' = (content_length - m) % Word
  BY DEF Tcp!NextSegment, Tcp!LeftOf
<1>2. /\ page[1] \in Nat \ {0} /\ page[2] \in Nat /\ page[1] + page[2] + 2 * BUFSIZ < Word
      /\ Len(output) \in Nat /\ BUFSIZ \in Nat /\ Word \in Nat /\ Consumed \in Nat
  BY WebNumbers, TcpAssumptions DEF WebInv
<1>3. whole => /\ Len(output) = Consumed - 4 /\ content_length = LengthLeft
               /\ Len(output) <= page[2] /\ \A j \in 1..Len(output) : output[j] = <<"body", j>>
  BY <1>1 DEF WebInv, GetInv, PartOfPage
<1>4. CASE content_length = 0 /\ step' = "ended" /\ UNCHANGED <<in, output, content_length>>
  <2>1. Consumed' = Consumed /\ WebTypes'
    BY <1>1, <1>4 DEF WebInv, WebTypes, Consumed
  <2>2. RestOfPage'
    <3>1. \A j : SentAt(j)' = SentAt(j)
      BY DEF SentAt, Tcp!Headers
    <3> QED
      BY <1>1, <1>4, <2>1, <3>1 DEF WebInv, RestOfPage
  <2>3. PartOfPage'
    BY <1>1, <1>4 DEF WebInv, PartOfPage
  <2>4. whole => Len(output) = page[1]
    <3>1. whole => LengthLeft = 0 /\ Len(output) <= page[2]
      BY <1>3, <1>4
    <3> QED
      BY <1>2, <3>1 DEF LengthLeft
  <2>5. GetInv' /\ PostInv'
    BY <1>1, <1>3, <1>4, <2>1, <2>4 DEF GetInv, PostInv
  <2> QED
    BY <2>1, <2>2, <2>3, <2>5 DEF WebInv
<1>5. CASE /\ in' = Tcp!Rest(BUFSIZ) /\ output' = output \o t /\ UNCHANGED step
           /\ content_length' = (content_length - m) % Word
  <2>1. /\ m \in Nat /\ Consumed' = Consumed + m
        /\ Consumed' \in Nat /\ Consumed' <= page[2] + 4 /\ m <= BUFSIZ
    BY <1>1, <1>5, WebReads
  <2>2. in' \in Seq(Cell) /\ RestOfPage' /\ t \in Seq(Cell)
    BY <1>1, <1>5, WebReads
  <2>3. \A j \in 1..m : t[j] = SentAt(Consumed + j)
    BY <1>1, <1>5, WebReads
  <2> HIDE DEF t
  <2>4. output \in Seq(Cell)
    BY DEF WebInv, WebTypes
  <2>5. /\ output' \in Seq(Cell) /\ Len(output') = Len(output) + m
        /\ \A j \in 1..Len(output) : output'[j] = output[j]
        /\ \A j \in 1..m : output'[Len(output) + j] = t[j]
    <3>1. /\ output \o t \in Seq(Cell) /\ Len(output \o t) = Len(output) + Len(t)
          /\ \A j \in 1..Len(output) : (output \o t)[j] = output[j]
          /\ \A j \in 1..Len(t) : (output \o t)[Len(output) + j] = t[j]
      BY <2>2, <2>4
    <3> QED
      BY <1>5, <3>1
  <2>6. Len(output') = Len(output) + m
    BY <2>5
  <2>7. WebTypes'
    BY <1>1, <1>5, <2>1, <2>2, <2>5 DEF WebInv, WebTypes
  <2> HIDE DEF m
  <2>8. whole => Len(output') = Consumed' - 4 /\ Len(output') <= page[2]
    <3>1. whole => Len(output) = Consumed - 4
      BY <1>3
    <3>2. /\ Len(output') = Len(output) + m /\ Consumed' = Consumed + m /\ Consumed' <= page[2] + 4
          /\ Len(output) \in Nat /\ Consumed \in Nat /\ m \in Nat /\ page[2] \in Nat
      BY <1>2, <2>1, <2>6
    <3> QED
      BY <3>1, <3>2
  <2>9. ASSUME whole, NEW j \in 1..Len(output') PROVE output'[j] = <<"body", j>>
    <3>1. CASE j <= Len(output)
      <4>1. j \in 1..Len(output)
        BY <1>2, <2>1, <2>6, <3>1
      <4> QED
        BY <1>3, <2>5, <2>9, <4>1
    <3>2. CASE ~(j <= Len(output))
      <4>1. Len(output) = Consumed - 4
        BY <1>3, <2>9
      <4>2. /\ j - Len(output) \in 1..m /\ Len(output) + (j - Len(output)) = j
            /\ Consumed + (j - Len(output)) = j + 4 /\ ~(j + 4 <= 4) /\ j + 4 - 4 = j
        BY <1>2, <2>1, <2>6, <3>2, <4>1
      <4>3. output'[j] = t[j - Len(output)]
        BY <2>5, <4>2
      <4>4. t[j - Len(output)] = SentAt(j + 4)
        BY <2>3, <4>2
      <4> QED
        BY <4>2, <4>3, <4>4 DEF SentAt
    <3> QED
      BY <3>1, <3>2
  <2>10. PartOfPage'
    BY <1>1, <2>8, <2>9 DEF PartOfPage
  <2>11. whole => content_length' = LengthLeft'
    <3> SUFFICES ASSUME whole PROVE content_length' = LengthLeft'
      OBVIOUS
    <3> DEFINE l == Len(output)
               x == page[1] - l
               y == page[1] - Len(output')
    <3>1. /\ x \in Int /\ y \in Int /\ y = x - m /\ -Word < y /\ y < Word /\ -Word < x /\ x < Word
          /\ content_length = IF x < 0 THEN x + Word ELSE x
      <4>1. l <= page[2] /\ content_length = IF l <= page[1] THEN x ELSE x + Word
        BY <1>3 DEF LengthLeft
      <4>2. Len(output') <= page[2] /\ Len(output') = l + m /\ l \in Nat
        BY <1>2, <2>6, <2>8
      <4> DEFINE k == Len(output')
      <4>3. k <= page[2] /\ k = l + m /\ l \in Nat /\ y = page[1] - k /\ x = page[1] - l
        BY <4>2
      <4>4. page[1] \in Nat /\ page[2] \in Nat /\ page[1] + page[2] < Word /\ Word \in Nat
        BY <1>2
      <4> HIDE DEF l, k, x, y
      <4> QED
        BY <2>1, <4>1, <4>3, <4>4
    <3>2. content_length - m \in Int /\ -Word < content_length - m /\ content_length - m < Word
          /\ (IF content_length - m < 0 THEN content_length - m + Word ELSE content_length - m)
               = (IF y < 0 THEN y + Word ELSE y)
      <4> HIDE DEF x, y
      <4> QED
        BY <1>2, <2>1, <3>1
    <3>3. (content_length - m) % Word = IF y < 0 THEN y + Word ELSE y
      <4> HIDE DEF y
      <4> QED
        BY <1>2, <3>2, Wrapped
    <3>4. LengthLeft' = IF y < 0 THEN y + Word ELSE y
      <4>1. Len(output') <= page[1] <=> ~(y < 0)
        BY <1>2, <2>1, <2>6
      <4>2. LengthLeft' = IF Len(output') <= page[1] THEN y ELSE y + Word
        BY <1>1 DEF LengthLeft
      <4> QED
        BY <4>1, <4>2
    <3> QED
      BY <1>5, <3>3, <3>4
  <2>12. GetInv' /\ PostInv'
    BY <1>1, <1>5, <2>8, <2>11 DEF GetInv, PostInv
  <2> QED
    BY <2>2, <2>7, <2>10, <2>12 DEF WebInv
<1> QED
  BY <1>1, <1>4, <1>5

(* http-post prints of one segment at most.                                *)
LEMMA WebAny == ASSUME WebInv, Tcp!AnySegment PROVE WebInv'
<1> DEFINE t == Tcp!Taken(BUFSIZ)
           a == Tcp!After(t, "delimiter")
           D == Tcp!Where(t, "delimiter")
<1>1. /\ reader = "post" /\ step = "response" /\ in' = Tcp!Rest(BUFSIZ) /\ step' \in {"ended", step}
      /\ output' = IF D = {} THEN output ELSE output \o a
      /\ whole' = (whole /\ Len(t) \in {0, Len(Tcp!Page)})
      /\ UNCHANGED <<reader, page, segments>>
  BY DEF Tcp!AnySegment
<1>2. /\ Consumed' \in Nat /\ Consumed' <= page[2] + 4 /\ in' \in Seq(Cell) /\ RestOfPage'
      /\ Consumed <= Consumed' /\ Consumed \in Nat
  <2>1. LET m == Len(Tcp!Taken(BUFSIZ)) IN m \in Nat /\ Consumed' = Consumed + m
    BY <1>1, WebReads
  <2>2. Consumed \in Nat
    BY WebNumbers DEF WebInv
  <2> QED
    BY <1>1, <2>1, <2>2, WebReads
<1>3. page[2] \in Nat
  BY WebNumbers DEF WebInv
<1>9. D # {} <=> Consumed < 4 /\ Consumed' >= 4
  BY <1>1, Delimiter
<1>10. whole' => whole /\ (Consumed' = Consumed \/ (Consumed = 0 /\ Consumed' = page[2] + 4))
  <2> DEFINE m == Len(t)
             c == Consumed
             d == Consumed'
             e == page[2]
  <2>1. m \in Nat /\ d = c + m
    BY <1>1, WebReads
  <2>2. Len(Tcp!Page) = e + 4
    BY PageCells DEF WebInv, WebTypes
  <2>3. whole' => whole /\ m \in {0, e + 4}
    BY <1>1, <2>2
  <2>4. d <= e + 4 /\ c \in Nat /\ e \in Nat
    BY <1>2, <1>3
  <2> HIDE DEF m, c, d, e
  <2>5. whole' => whole /\ (d = c \/ (c = 0 /\ d = e + 4))
    BY <2>1, <2>3, <2>4
  <2> QED
    BY <2>5 DEF c, d, e
<1>4. D # {} => /\ a \in Seq(Cell) /\ Len(a) = Consumed' - 4 /\ Consumed < 4 /\ Consumed' >= 4
                /\ \A j \in 1..Len(a) : a[j] = <<"body", j>>
  BY <1>1, Delimiter
<1> HIDE DEF t, a, D
<1>5. output \in Seq(Cell) /\ (Consumed < 4 => output = <<>>)
  BY <1>1 DEF WebInv, WebTypes, PostInv
<1>8. output' \in Seq(Cell) => WebTypes'
  <2>1. whole' \in BOOLEAN /\ segments \in Seq(Cell) /\ page \in Lengths
    BY <1>1 DEF WebInv, WebTypes
  <2>2. step' \in {"response", "ended"} /\ Consumed' >= 0
    BY <1>1, <1>2
  <2> QED
    BY <1>1, <1>2, <2>1, <2>2 DEF WebTypes
<1>6. CASE D = {}
  <2>1. output' = output
    BY <1>1, <1>6
  <2>2. PartOfPage' /\ GetInv'
    BY <1>1, <2>1 DEF WebInv, PartOfPage, GetInv
  <2>3. PostInv'
    <3>1. Consumed' < 4 => output' = <<>>
      <4> DEFINE c == Consumed
                 d == Consumed'
      <4>1. c <= d /\ c \in Nat /\ d \in Nat
        BY <1>2
      <4> HIDE DEF c, d
      <4>2. d < 4 => c < 4
        BY <4>1
      <4> QED
        BY <1>5, <2>1, <4>2 DEF c, d
    <3>2. whole' => whole /\ Consumed' = Consumed
      <4>1. ~(Consumed = 0 /\ Consumed' = page[2] + 4)
        <5> DEFINE c == Consumed
                   d == Consumed'
                   e == page[2]
        <5>1. ~(c < 4 /\ d >= 4) /\ e \in Nat
          BY <1>3, <1>6, <1>9
        <5> HIDE DEF c, d, e
        <5>2. ~(c = 0 /\ d = e + 4)
          BY <5>1
        <5> QED
          BY <5>2 DEF c, d, e
      <4> QED
        BY <1>10, <4>1
    <3>3. whole => \/ Consumed = 0 /\ output = <<>>
                   \/ Consumed = page[2] + 4 /\ Len(output) = page[2]
      BY <1>1 DEF WebInv, PostInv
    <3> QED
      BY <1>1, <2>1, <3>1, <3>2, <3>3 DEF PostInv
  <2> QED
    BY <1>2, <1>5, <1>8, <2>1, <2>2, <2>3 DEF WebInv
<1>7. CASE D # {}
  <2>1. output' = a
    <3>1. \A s \in Seq(Cell) : <<>> \o s = s
      OBVIOUS
    <3> QED
      BY <1>1, <1>4, <1>5, <1>7, <3>1
  <2>2. Len(output') <= page[2]
    <3> DEFINE c == Consumed'
               l == Len(output')
               pp == page[2]
    <3>1. c \in Nat /\ c <= pp + 4 /\ pp \in Nat /\ l = c - 4
      BY <1>2, <1>3, <1>4, <1>7, <2>1
    <3> HIDE DEF c, l, pp
    <3>2. l <= pp
      BY <3>1
    <3> QED
      BY <3>2 DEF l, pp
  <2>3. WebTypes' /\ GetInv'
    BY <1>1, <1>4, <1>7, <1>8, <2>1 DEF GetInv
  <2>4. PartOfPage'
    BY <1>1, <1>4, <1>7, <2>1, <2>2 DEF PartOfPage
  <2>5. PostInv'
    <3>1. ~(Consumed' < 4)
      <4> DEFINE c == Consumed'
      <4>1. c \in Nat /\ c >= 4
        BY <1>2, <1>4, <1>7
      <4> HIDE DEF c
      <4>2. ~(c < 4)
        BY <4>1
      <4> QED
        BY <4>2 DEF c
    <3>2. whole' => Consumed' = page[2] + 4 /\ Len(output') = page[2]
      <4> DEFINE c == Consumed
                 d == Consumed'
                 e == page[2]
                 l == Len(output')
      <4>1. c < 4 /\ d >= 4 /\ l = d - 4 /\ c \in Nat /\ d \in Nat /\ e \in Nat
        BY <1>2, <1>3, <1>4, <1>7, <2>1
      <4>2. whole' => d = c \/ (c = 0 /\ d = e + 4)
        BY <1>10
      <4> HIDE DEF c, d, e, l
      <4>3. whole' => d = e + 4 /\ l = e
        BY <4>1, <4>2
      <4> QED
        BY <4>3 DEF d, e, l
    <3> QED
      BY <1>1, <3>1, <3>2 DEF PostInv
  <2> QED
    BY <1>2, <2>3, <2>4, <2>5 DEF WebInv
<1> QED
  BY <1>6, <1>7

-----------------------------------------------------------------------------
LEMMA StreamsStep == ASSUME StreamsInv, Tcp!Next PROVE StreamsInv'
<1>1. reader' = reader
  BY DEF Tcp!Next, Tcp!Program, Tcp!Write, Tcp!ReadNumber, Tcp!FirstSegment, Tcp!NextSegment,
         Tcp!AnySegment, Tcp!Alarm, Tcp!Segment, Tcp!Close, Tcp!kept, Tcp!GetRequest,
         Tcp!PostRequest
<1>2. CASE reader = "tcp"
  <2>1. TcpInv
    BY <1>2 DEF StreamsInv
  <2>2. Tcp!Write \/ Tcp!ReadNumber \/ Tcp!Segment \/ Tcp!Close
    BY <1>2 DEF Tcp!Next, Tcp!Program, Tcp!FirstSegment, Tcp!NextSegment, Tcp!AnySegment, Tcp!Alarm,
                Tcp!GetRequest, Tcp!PostRequest
  <2>3. TcpInv'
    BY <2>1, <2>2, TcpWrite, TcpReadNumber, TcpSegment, TcpClose
  <2> QED
    BY <1>1, <1>2, <2>3 DEF StreamsInv
<1>3. ASSUME reader \in {"get", "post"} PROVE AskInv' \/ WebInv'
  <2>1. AskInv \/ WebInv
    BY <1>3 DEF StreamsInv
  <2>2. \/ Tcp!GetRequest \/ Tcp!PostRequest
        \/ Tcp!FirstSegment \/ Tcp!NextSegment \/ Tcp!AnySegment \/ Tcp!Segment
        \/ Tcp!Close \/ Tcp!Alarm
    BY <1>3 DEF Tcp!Next, Tcp!Program, Tcp!Write, Tcp!ReadNumber
  <2>3. CASE AskInv
    <3>1. CASE Tcp!GetRequest \/ Tcp!PostRequest
      BY <2>3, <3>1, RequestSent
    <3>2. CASE Tcp!Close
      BY <2>3, <3>2 DEF AskInv, Tcp!Close, Tcp!kept
    <3>3. ~Tcp!Segment
      <4>1. 1..Len(segments) = {}
        BY <2>3 DEF AskInv
      <4> QED
        BY <4>1 DEF Tcp!Segment
    <3>4. ~(Tcp!FirstSegment \/ Tcp!NextSegment \/ Tcp!AnySegment \/ Tcp!Alarm)
      BY <2>3 DEF AskInv, Tcp!FirstSegment, Tcp!NextSegment, Tcp!AnySegment, Tcp!Alarm
    <3> QED
      BY <2>2, <3>1, <3>2, <3>3, <3>4
  <2>4. CASE WebInv
    <3>1. CASE Tcp!Close \/ Tcp!Alarm
      <4>1. UNCHANGED <<reader, page, content_length, output, whole, in, segments>>
        BY <3>1 DEF Tcp!Close, Tcp!Alarm, Tcp!kept
      <4>2. CASE step' = step
        BY <2>4, <4>1, <4>2, WebQuiet
      <4>3. CASE reader = "post" /\ step' = "ended"
        BY <2>4, <4>1, <4>3, WebQuiet
      <4>4. step' = step \/ (reader = "post" /\ step' = "ended")
        BY <3>1 DEF Tcp!Close, Tcp!Alarm
      <4> QED
        BY <4>2, <4>3, <4>4
    <3>2. CASE Tcp!FirstSegment \/ Tcp!NextSegment \/ Tcp!AnySegment \/ Tcp!Segment
      BY <2>4, <3>2, WebFirst, WebNext, WebAny, WebSegment
    <3>3. ~(Tcp!GetRequest \/ Tcp!PostRequest)
      BY <2>4 DEF WebInv, WebTypes, Tcp!GetRequest, Tcp!PostRequest
    <3> QED
      BY <2>2, <3>1, <3>2, <3>3
  <2> QED
    BY <2>1, <2>3, <2>4
<1>4. ASSUME reader = "post" PROVE FileInv'
  <2>1. FileInv
    BY <1>4 DEF StreamsInv
  <2>2. file' = file /\ (posted' = posted \/ posted' = Tcp!Posted(file))
    BY DEF Tcp!Next, Tcp!Program, Tcp!Write, Tcp!ReadNumber, Tcp!FirstSegment, Tcp!NextSegment,
           Tcp!AnySegment, Tcp!Alarm, Tcp!Segment, Tcp!Close, Tcp!kept, Tcp!GetRequest,
           Tcp!PostRequest
  <2>3. Tcp!Posted(file)' = Tcp!Posted(file')
    BY DEF Tcp!Posted, Tcp!Text, Tcp!CrLfCrLf
  <2> QED
    BY <2>1, <2>2, <2>3 DEF FileInv
<1> QED
  BY <1>1, <1>2, <1>3, <1>4 DEF StreamsInv

LEMMA StreamsStutter == ASSUME StreamsInv, UNCHANGED streams PROVE StreamsInv'
<1>1. UNCHANGED <<reader, step, requests, get, content_length, file, posted, page, segments, in,
                  server, output, whole>>
  BY DEF streams
<1>2. TcpInv => TcpInv'
  BY <1>1 DEF TcpInv, TcpTypes, OneAnswerLeft
<1>3. WebInv => WebInv'
  BY <1>1, WebQuiet
<1>4. AskInv => AskInv'
  BY <1>1 DEF AskInv
<1>5. FileInv => FileInv'
  <2>1. Tcp!Posted(file)' = Tcp!Posted(file)
    BY <1>1 DEF Tcp!Posted, Tcp!Text, Tcp!CrLfCrLf
  <2> QED
    BY <1>1, <2>1 DEF FileInv
<1> QED
  BY <1>1, <1>2, <1>3, <1>4, <1>5 DEF StreamsInv

(* tcp-client prints the answers in the order of its questions, and        *)
(* http-get and http-post a part of the page in order: http-get, when it   *)
(* ends, all that was announced, http-post all of a page that came in one  *)
(* segment.  http-post has sent its file if there is no NUL in it.  This   *)
(* is so for any number of questions, pages and files of any length,       *)
(* buffers of any size, and however the stream is cut.                     *)
THEOREM StreamsPrintedRight == Spec => []StreamsRight
<1>1. Init => StreamsInv
  BY StreamsInit DEF Init
<1>2. StreamsInv /\ [Next]_vars => StreamsInv'
  <2> SUFFICES ASSUME StreamsInv, [Next]_vars PROVE StreamsInv'
    OBVIOUS
  <2>1. CASE Streams /\ Tcp!Next
    BY <2>1, StreamsStep
  <2>2. CASE UNCHANGED streams
    BY <2>2, StreamsStutter
  <2> QED
    BY <2>1, <2>2 DEF Next, vars, Signals, Datagrams, Epoll, Family
<1>3. StreamsInv => StreamsRight
  <2> SUFFICES ASSUME StreamsInv PROVE  /\ Tcp!NumbersAreRight /\ Tcp!PageIsRight
                                         /\ Tcp!FileIsSent
    BY DEF StreamsRight, Tcp!StreamsRight
  <2>1. Tcp!NumbersAreRight
    <3> SUFFICES ASSUME reader = "tcp" PROVE Tcp!NumbersAreRight
      BY DEF Tcp!NumbersAreRight
    <3>1. TcpInv
      BY DEF StreamsInv
    <3>2. output \in Seq(Half \X Half)
      BY <3>1 DEF TcpInv, TcpTypes
    <3>3. whole => output = [k \in DOMAIN output |-> Tcp!Answer(k)]
      BY <3>1, <3>2 DEF TcpInv
    <3> QED
      BY <3>1, <3>3 DEF TcpInv, Tcp!NumbersAreRight
  <2>2. Tcp!PageIsRight
    <3> SUFFICES ASSUME reader \in {"get", "post"} PROVE Tcp!PageIsRight
      BY DEF Tcp!PageIsRight
    <3>1. CASE AskInv
      <4>1. Tcp!IsPrefix(<<>>, Tcp!Body(page[2]))
        <5>1. Len(<<>>) = 0 /\ Len(Tcp!Body(page[2])) \in Nat
          <6>1. page[2] \in Nat
            BY <3>1, TcpAssumptions DEF AskInv
          <6> QED
            BY <6>1 DEF Tcp!Body
        <5>2. SubSeq(<<>>, 1, 0) = <<>> /\ SubSeq(Tcp!Body(page[2]), 1, 0) = <<>>
          OBVIOUS
        <5> QED
          BY <5>1, <5>2 DEF Tcp!IsPrefix
      <4> QED
        BY <3>1, <4>1 DEF AskInv, Tcp!PageIsRight
    <3>6. SUFFICES ASSUME WebInv PROVE Tcp!PageIsRight
      BY <3>1 DEF StreamsInv
    <3>2. output \in Seq(Cell) /\ page[2] \in Nat
      BY <3>6, WebNumbers DEF WebInv, WebTypes
    <3>3. ASSUME Len(output) <= page[2], \A j \in 1..Len(output) : output[j] = <<"body", j>>
          PROVE  Tcp!IsPrefix(output, Tcp!Body(page[2]))
      <4> DEFINE b == Tcp!Body(page[2])
      <4>1. b \in Seq(Cell) /\ Len(b) = page[2] /\ \A j \in 1..page[2] : b[j] = <<"body", j>>
        <5>1. \A k \in 1..page[2] : <<"body", k>> \in Cell
          BY <3>2 DEF Cell
        <5> QED
          BY <3>2, <5>1 DEF Tcp!Body
      <4> HIDE DEF b
      <4> DEFINE n == Len(output)
                 x == SubSeq(output, 1, n)
                 y == SubSeq(b, 1, n)
      <4>2. n \in Nat /\ 1 \in 1..n + 1 /\ 1 \in 1..Len(b) + 1 /\ n \in 0..n /\ n \in 0..Len(b) /\ 1 <= n + 1
        BY <3>2, <3>3, <4>1
      <4>3. x \in Seq(Cell) /\ Len(x) = n - 1 + 1 /\ \A j \in 1..n - 1 + 1 : x[j] = output[1 + j - 1]
        BY <3>2, <4>2, Part
      <4>4. y \in Seq(Cell) /\ Len(y) = n - 1 + 1 /\ \A j \in 1..n - 1 + 1 : y[j] = b[1 + j - 1]
        BY <4>1, <4>2, Part
      <4> HIDE DEF x, y
      <4>5. \A j \in 1..n : x[j] = y[j]
        <5>1. n - 1 + 1 = n /\ \A j \in 1..n : 1 + j - 1 = j /\ j \in 1..page[2]
          BY <3>2, <3>3, <4>2
        <5>2. ASSUME NEW j \in 1..n PROVE x[j] = y[j]
          <6>1. x[j] = output[j] /\ y[j] = b[j]
            BY <4>3, <4>4, <5>1
          <6>2. output[j] = <<"body", j>> /\ b[j] = <<"body", j>>
            BY <3>3, <4>1, <5>1
          <6> QED
            BY <6>1, <6>2
        <5> QED
          BY <5>2
      <4>6. x = y
        <5>1. \A s, t \in Seq(Cell) : Len(s) = Len(t) /\ (\A j \in 1..Len(s) : s[j] = t[j]) => s = t
          OBVIOUS
        <5>2. n - 1 + 1 = n
          BY <4>2
        <5> QED
          BY <4>3, <4>4, <4>5, <5>1, <5>2
      <4> QED
        BY <3>3, <4>1, <4>6 DEF Tcp!IsPrefix, x, y, b
    <3>4. reader = "post" \/ whole => Tcp!IsPrefix(output, Tcp!Body(page[2]))
      BY <3>6, <3>3 DEF WebInv, PartOfPage
    <3>5. ASSUME reader = "post", whole
          PROVE  output = IF in = <<>> /\ segments = <<>> THEN Tcp!Body(page[2]) ELSE <<>>
      <4>1. /\ \/ Consumed = 0 /\ output = <<>>
               \/ Consumed = page[2] + 4 /\ Len(output) = page[2]
            /\ Len(output) <= page[2] /\ \A j \in 1..Len(output) : output[j] = <<"body", j>>
        BY <3>5, <3>6 DEF WebInv, PostInv, PartOfPage
      <4>2. Consumed = page[2] + 4 <=> in = <<>> /\ segments = <<>>
        <5>1. /\ in = <<>> <=> Len(in) = 0
              /\ segments = <<>> <=> Len(segments) = 0
              /\ Len(in) \in Nat /\ Len(segments) \in Nat
          BY <3>6 DEF WebInv, WebTypes
        <5> QED
          BY <3>2, <5>1 DEF Consumed
      <4>3. CASE Consumed = page[2] + 4 /\ Len(output) = page[2]
        <5>1. output = [j \in 1..page[2] |-> <<"body", j>>]
          <6>1. output = [j \in 1..Len(output) |-> output[j]]
            BY <3>2
          <6> QED
            BY <4>1, <4>3, <6>1
        <5> QED
          BY <4>2, <4>3, <5>1 DEF Tcp!Body
      <4>4. CASE Consumed = 0 /\ output = <<>>
        <5>1. Consumed # page[2] + 4
          BY <3>2, <4>4
        <5> QED
          BY <4>2, <4>4, <5>1
      <4> QED
        BY <4>1, <4>3, <4>4
    <3> QED
      BY <3>4, <3>5, <3>6 DEF WebInv, GetInv, Tcp!PageIsRight
  <2>3. Tcp!FileIsSent
    <3> SUFFICES ASSUME reader = "post", posted # <<>> PROVE Tcp!FileIsSent
      BY DEF Tcp!FileIsSent
    <3>1. file \in Seq(Nat) /\ posted = Tcp!Posted(file)
      BY TcpAssumptions DEF StreamsInv, FileInv
    <3>2. DOMAIN file = 1..Len(file)
      BY <3>1
    <3> QED
      BY <3>1, <3>2, PostedText DEF Tcp!FileIsSent, Tcp!Announced
  <2> QED
    BY <2>1, <2>2, <2>3
<1> QED
  BY <1>1, <1>2, <1>3, PTL DEF Spec

-----------------------------------------------------------------------------
(* Families of processes.  They are a stack: while a process waits, only   *)
(* those that came after it run, and when one runs, all that came after it *)
(* are gone.                                                               *)
Record ==
  [pc : {"fork", "wait", "read", "print", "exit", "exited", "scanf", "exec", "executed", "remove"},
   n : Nat, child : Nat, status : {0, 1}, buf : Seq(Nat)]
L == Len(procs)
main == procs[1]

FamilyTypes ==
  /\ procs \in Seq(Record) /\ L >= 1 /\ failures \in Nat
  /\ temp \in {"none", "old", "new"} /\ left \in Nat
  /\ pipe \in [bytes : Nat, written : Nat]
  /\ given \in [seekable : BOOLEAN, executable : BOOLEAN, correct : BOOLEAN]

Gone(i) == procs[i].pc = "exited"
Waits(i) == procs[i].pc \in {"wait", "read"}
Runs(i) == ~Waits(i) /\ ~Gone(i)
RestGone(i) == \A j \in i + 1..L : Gone(j)

InOrder(i) ==
  /\ Runs(i) => RestGone(i)
  /\ Waits(i) =>
       \/ procs[i].child = 0 /\ RestGone(i)
       \/ /\ procs[i].child \in i + 1..L
          /\ Gone(procs[i].child) => RestGone(i)
          /\ \A j \in i + 1..procs[i].child - 1 : Gone(j)
  /\ procs[i].pc = "exec" => procs[i].child = 0

StackInv == (Gone(1) => RestGone(1)) /\ \A i \in 1..L : InOrder(i)

(* 11_processes/0: the last of the chain prints, the others wait for it.   *)
LimitInv ==
  /\ \A i \in 1..L - 1 : procs[i].pc \in {"wait", "exit", "exited"} /\ procs[i].buf = <<>>
  /\ procs[L].pc \in {"fork", "print", "exit", "exited"} /\ procs[L].n = L
  /\ procs[L].buf = IF procs[L].pc \in {"exit", "exited"} THEN <<L>> ELSE <<>>
  /\ out = IF Gone(L) THEN <<L>> ELSE <<>>

(* 11_processes/1: child k + 1 prints line k, and is gone when the next one*)
(* is made.                                                                *)
Done == IF L > 1 /\ ~Gone(L) THEN L - 2 ELSE L - 1

NumbersInv ==
  /\ main.pc \in {"fork", "wait", "print", "exit", "exited"}
  /\ main.buf = IF main.pc \in {"exit", "exited"} THEN <<0>> ELSE <<>>
  /\ IF main.pc \in {"fork", "wait"} THEN main.n < Size ELSE main.n = Size
  /\ L - 1 + failures = IF main.pc = "wait" THEN main.n + 1 ELSE main.n
  /\ main.pc = "wait" => main.child \in {0, L}
  /\ \A i \in 2..L :
       /\ procs[i].pc \in {"print", "exit", "exited"}
       /\ procs[i].buf = IF procs[i].pc = "print" THEN <<>> ELSE <<procs[i].n + 1>>
       /\ procs[i].n < main.n \/ (main.pc = "wait" /\ main.child = i /\ procs[i].n = main.n)
       /\ \A j \in 2..L : i < j => procs[i].n < procs[j].n
  /\ out \in Seq(Nat) /\ Len(out) = IF main.pc = "exited" THEN L ELSE Done
  /\ \A k \in 1..Done : out[k] = procs[k + 1].n + 1
  /\ main.pc = "exited" => out[L] = 0

(* 11_processes/2, where no fork fails: k words have been counted.         *)
Counted(k) ==
  IF given.seekable THEN left + k = Size
  ELSE IF left > 0 THEN left + k * Buffer = Size
  ELSE Size <= k * Buffer /\ k * Buffer < Size + Buffer

WordsInv ==
  failures = 0 =>
    /\ main.pc \in {"fork", "wait", "print", "exit", "exited"}
    /\ main.buf = IF main.pc \in {"exit", "exited"} THEN <<main.n>> ELSE <<>>
    /\ out = IF main.pc = "exited" THEN <<main.n>> ELSE <<>>
    /\ \A i \in 2..L : procs[i].pc \in {"scanf", "exit", "exited"} /\ procs[i].buf = <<>>
    /\ main.pc = "wait" => main.child = L /\ L > 1
    /\ main.pc = "wait" /\ procs[L].pc # "scanf" /\ procs[L].status = 1 => Counted(main.n + 1)
    /\ main.pc = "wait" /\ procs[L].pc # "scanf" /\ procs[L].status = 0 => Counted(main.n) /\ left = 0
    /\ main.pc = "wait" /\ procs[L].pc = "scanf" => Counted(main.n)
    /\ main.pc = "fork" => Counted(main.n)
    /\ main.pc \in {"print", "exit", "exited"} => Counted(main.n) /\ left = 0

(* 12_exec/1: what has been run is removed before anything else is done,   *)
(* and nothing is run or made after something was printed.                 *)
GccTypes ==
  /\ out \in Seq({"none", "old", "new"}) /\ Len(out) <= 1
  /\ main.pc \in {"fork", "wait", "remove", "exit", "exited"}
  /\ \A i \in 1..L :
       /\ procs[i].pc \in {"fork", "wait", "exec", "executed", "remove", "exit", "exited"}
       /\ procs[i].n \in {1, 2} /\ procs[i].buf = <<>>

Removing(i) ==
  procs[i].n = 2 /\ (procs[i].pc = "remove" \/ (procs[i].pc = "wait" /\ Proc!ChildGone(i)))
AwaitedBy(i, r) == procs[r].pc = "wait" /\ procs[r].n = 2 /\ procs[r].child = i

RunOnce ==
  /\ \A i \in 1..L :
       /\ procs[i].pc \in {"fork", "exec"} /\ procs[i].n = 1 => out = <<>>
       /\ procs[i].pc = "executed" => out = <<>>
       /\ procs[i].pc \in {"exec", "executed"} /\ procs[i].n = 2 => \E r \in 1..L : AwaitedBy(i, r)
  /\ out # <<>> /\ temp # "none" => \E r \in 1..L : Removing(r)
  /\ main.pc \in {"exit", "exited"} => temp = "none"

NothingFails ==
  given.executable /\ given.correct /\ failures = 0 =>
    /\ \A i \in 2..L : procs[i].pc \in {"exec", "executed", "exited"}
    /\ main.pc = "wait" => main.child = L /\ L > 1 /\ procs[L].n = main.n
    /\ main.pc = "wait" /\ main.n = 1 => out = <<>> /\ (Gone(L) => temp = "new")
    /\ main.pc = "wait" /\ main.n = 2 => IF Gone(L) THEN out = <<"new">> ELSE temp = "new" /\ out = <<>>
    /\ main.pc = "fork" => out = <<>> /\ (main.n = 2 => temp = "new")
    /\ main.pc \in {"remove", "exit", "exited"} => out = <<"new">>

GccInv == GccTypes /\ RunOnce /\ NothingFails

(* 15_pipes/0: what the command has written is in the pipe or was read.    *)
LaunchInv ==
  /\ main.pc \in {"fork", "read", "wait", "print", "exit", "exited"}
  /\ main.buf = IF main.pc \in {"exit", "exited"} THEN <<main.n>> ELSE <<>>
  /\ out = IF main.pc = "exited" THEN <<main.n>> ELSE <<>>
  /\ \A i \in 2..L : procs[i].pc \in {"exec", "executed", "exit", "exited"} /\ procs[i].buf = <<>>
  /\ pipe.bytes + main.n = pipe.written
  /\ main.pc \in {"wait", "print", "exit", "exited"} => pipe.bytes = 0 /\ RestGone(1)

ProgramsInv ==
  /\ parent = "limit" => LimitInv
  /\ parent = "numbers" => NumbersInv
  /\ parent = "words" => WordsInv
  /\ parent = "gcc" => GccInv
  /\ parent = "launch" => LaunchInv
ProcessesInv == FamilyTypes /\ StackInv /\ ProgramsInv

LEMMA FamilyAssumptions ==
  Size \in Nat \ {0} /\ Buffer \in Nat \ {0}
BY PeersAssumption DEF Proc!ProcessAssumption

LEMMA Members ==
  ASSUME FamilyTypes
  PROVE  L \in Nat /\ L >= 1 /\ DOMAIN procs = 1..L /\ \A i \in 1..L : procs[i] \in Record
BY SeqOf DEF FamilyTypes, L

LEMMA FamilyInit == ASSUME Proc!Init \/ Proc!Unmounted PROVE ProcessesInv
<1>1. PICK programs : parent \in programs /\ Proc!InitWith(programs)
  BY DEF Proc!Init, Proc!Unmounted, Proc!InitWith
<1> DEFINE k == CASE parent \in {"limit", "gcc"} -> 1 [] OTHER -> 0
<1>2. k = IF parent \in {"limit", "gcc"} THEN 1 ELSE 0
  OBVIOUS
<1>3. /\ procs = <<[pc |-> "fork", n |-> k, child |-> 0, status |-> 0, buf |-> <<>>]>>
      /\ left = (IF parent = "words" THEN Size ELSE 0)
      /\ temp \in {"none", "old"} /\ pipe = [bytes |-> 0, written |-> 0] /\ out = <<>> /\ failures = 0
      /\ given \in [seekable : BOOLEAN, executable : BOOLEAN, correct : BOOLEAN]
  BY <1>1 DEF Proc!InitWith, Proc!Process, Proc!NoChild
<1> HIDE DEF k
<1> DEFINE r == [pc |-> "fork", n |-> k, child |-> 0, status |-> 0, buf |-> <<>>]
<1>4. r \in Record /\ r.pc = "fork" /\ r.n = k /\ r.child = 0 /\ r.buf = <<>>
  <2>1. k \in Nat /\ <<>> \in Seq(Nat)
    BY <1>2
  <2> QED
    BY <2>1 DEF Record
<1>5. procs = <<r>>
  BY <1>3
<1> HIDE DEF r
<1>6. L = 1 /\ procs \in Seq(Record) /\ procs[1] = r
  BY <1>4, <1>5 DEF L
<1>7. FamilyTypes
  BY <1>3, <1>6, FamilyAssumptions DEF FamilyTypes
<1>8. StackInv
  BY <1>4, <1>6 DEF StackInv, InOrder, Gone, Waits, Runs, RestGone
<1>9. parent = "limit" => LimitInv
  BY <1>2, <1>3, <1>4, <1>6 DEF LimitInv, Gone
<1>10. parent = "numbers" => NumbersInv
  <2>1. Done = 0
    BY <1>6 DEF Done
  <2> QED
    BY <1>2, <1>3, <1>4, <1>6, <2>1, FamilyAssumptions DEF NumbersInv, main
<1>11. parent = "words" => WordsInv
  <2> SUFFICES ASSUME parent = "words" PROVE WordsInv
    OBVIOUS
  <2>1. left = Size /\ main.n = 0
    BY <1>2, <1>3, <1>4, <1>6 DEF main
  <2>2. Counted(0)
    BY <2>1, FamilyAssumptions DEF Counted
  <2> QED
    BY <1>3, <1>4, <1>6, <2>1, <2>2 DEF WordsInv, main
<1>12. parent = "gcc" => GccInv
  BY <1>2, <1>3, <1>4, <1>6 DEF GccInv, GccTypes, RunOnce, NothingFails, main
<1>13. parent = "launch" => LaunchInv
  BY <1>2, <1>3, <1>4, <1>6 DEF LaunchInv, main
<1> QED
  BY <1>7, <1>8, <1>9, <1>10, <1>11, <1>12, <1>13 DEF ProcessesInv, ProgramsInv

(* What a step does to the process that takes it.                          *)
Now(i, pc1, n1, child1, status1, buf1) ==
  /\ L' = L /\ procs' \in Seq(Record)
  /\ procs'[i] = [pc |-> pc1, n |-> n1, child |-> child1, status |-> status1, buf |-> buf1]
  /\ \A j \in 1..L : j # i => procs'[j] = procs[j]

(* A step gives one process another record.                                *)
Sets(i, pc1, n1, child1, status1, buf1) ==
  /\ procs' = [j \in 1..L |-> procs'[j]]
  /\ procs'[i] = [pc |-> pc1, n |-> n1, child |-> child1, status |-> status1, buf |-> buf1]
  /\ \A j \in 1..L : j # i => procs'[j] = procs[j]

LEMMA Changed ==
  ASSUME FamilyTypes, NEW i \in 1..L, NEW pc1, NEW n1, NEW child1, NEW status1, NEW buf1,
         [pc |-> pc1, n |-> n1, child |-> child1, status |-> status1, buf |-> buf1] \in Record,
         Sets(i, pc1, n1, child1, status1, buf1)
  PROVE  Now(i, pc1, n1, child1, status1, buf1)
<1> DEFINE r == [pc |-> pc1, n |-> n1, child |-> child1, status |-> status1, buf |-> buf1]
<1>1. r \in Record /\ procs' = [j \in 1..L |-> procs'[j]] /\ procs'[i] = r
      /\ \A j \in 1..L : j # i => procs'[j] = procs[j]
  BY DEF Sets
<1> HIDE DEF r
<1>2. L \in Nat /\ \A j \in 1..L : procs[j] \in Record
  BY Members
<1>3. \A j \in 1..L : procs'[j] \in Record
  BY <1>1, <1>2
<1>4. procs' \in Seq(Record) /\ Len(procs') = L
  BY <1>1, <1>2, <1>3
<1> QED
  BY <1>1, <1>4 DEF Now, L, r

LEMMA Fields ==
  ASSUME FamilyTypes, NEW i \in 1..L
  PROVE  /\ procs[i].n \in Nat /\ procs[i].n + 1 \in Nat /\ procs[i].child \in Nat
         /\ procs[i].status \in {0, 1} /\ procs[i].buf \in Seq(Nat)
BY Members DEF Record

(* Each action, but for a fork, changes one process.                       *)
LEMMA ForkFailsMoves ==
  ASSUME FamilyTypes, NEW i \in 1..L, Proc!ForkFails(i)
  PROVE  LET r == procs[i] IN
         /\ r.pc = "fork" /\ failures' = failures + 1
         /\ Now(i, IF parent = "limit" THEN "print" ELSE Proc!ParentAt, r.n, 0, r.status, r.buf)
         /\ UNCHANGED <<parent, given, left, temp, pipe, out>>
<1> DEFINE pc1 == IF parent = "limit" THEN "print" ELSE Proc!ParentAt
<1>1. Sets(i, pc1, procs[i].n, 0, procs[i].status, procs[i].buf)
  <2>1. procs' = [procs EXCEPT ![i].pc = pc1, ![i].child = 0]
    BY DEF Proc!ForkFails, Proc!NoChild
  <2> HIDE DEF pc1
  <2> QED
    BY <2>1, Members DEF Record, Sets
<1>2. pc1 \in {"print", "read", "wait"}
  BY DEF Proc!ParentAt
<1> HIDE DEF pc1
<1>3. [pc |-> pc1, n |-> procs[i].n, child |-> 0,
       status |-> procs[i].status, buf |-> procs[i].buf] \in Record
  BY <1>2, Fields DEF Record
<1>4. Now(i, pc1, procs[i].n, 0, procs[i].status, procs[i].buf)
  BY <1>1, <1>3, Changed
<1> QED
  BY <1>4 DEF Proc!ForkFails, Proc!me, pc1

LEMMA GotoMoves ==
  ASSUME FamilyTypes, NEW i \in 1..L, NEW pc1, Proc!Goto(i, pc1),
         pc1 \in {"fork", "wait", "read", "print", "exit", "exited", "scanf", "exec", "executed", "remove"}
  PROVE  LET r == procs[i] IN Now(i, pc1, r.n, r.child, r.status, r.buf)
<1>1. Sets(i, pc1, procs[i].n, procs[i].child, procs[i].status, procs[i].buf)
  BY Members DEF Proc!Goto, Record, Sets
<1>2. [pc |-> pc1, n |-> procs[i].n, child |-> procs[i].child, status |-> procs[i].status,
       buf |-> procs[i].buf] \in Record
  BY Fields DEF Record
<1> QED
  BY <1>1, <1>2, Changed

LEMMA WaitpidMoves ==
  ASSUME FamilyTypes, StackInv, NEW i \in 1..L, Proc!Waitpid(i)
  PROVE  LET r == procs[i] IN
         /\ r.pc = "wait" /\ Proc!ChildGone(i)
         /\ UNCHANGED <<parent, given, left, temp, pipe, out, failures>>
         /\ \/ parent = "limit" /\ Now(i, "exit", r.n, r.child, r.status, r.buf)
            \/ /\ parent = "numbers"
               /\ Now(i, IF r.n + 1 = Size THEN "print" ELSE "fork", r.n + 1, r.child, r.status, r.buf)
            \/ /\ parent = "words"
               /\ \/ 0 \in Proc!Status(i) /\ Now(i, "print", r.n, r.child, r.status, r.buf)
                  \/ 1 \in Proc!Status(i) /\ Now(i, "fork", r.n + 1, r.child, r.status, r.buf)
            \/ /\ parent = "gcc"
               /\ Now(i, IF r.n = 1 THEN "fork" ELSE "remove", 2, 0, r.status, r.buf)
            \/ parent = "launch" /\ Now(i, "print", r.n, r.child, r.status, r.buf)
<1> DEFINE r == procs[i]
<1>1. r.pc = "wait" /\ Proc!ChildGone(i)
      /\ UNCHANGED <<parent, given, left, temp, pipe, out, failures>>
  BY DEF Proc!Waitpid, Proc!me
<1>2. r.n \in Nat /\ r.n + 1 \in Nat /\ r.child \in Nat /\ r.status \in {0, 1} /\ r.buf \in Seq(Nat)
  BY Fields
<1>3. ASSUME NEW pc1 \in {"exit", "fork", "print", "remove"}, NEW n1 \in Nat, NEW child1 \in Nat,
             Sets(i, pc1, n1, child1, r.status, r.buf)
      PROVE  Now(i, pc1, n1, child1, r.status, r.buf)
  <2>1. [pc |-> pc1, n |-> n1, child |-> child1, status |-> r.status, buf |-> r.buf] \in Record
    BY <1>2 DEF Record
  <2> QED
    BY <1>3, <2>1, Changed
<1>4. CASE parent = "limit" /\ Proc!Goto(i, "exit")
  BY <1>1, <1>4, GotoMoves
<1>5. CASE parent = "launch" /\ Proc!Goto(i, "print")
  BY <1>1, <1>5, GotoMoves
<1>6. CASE parent = "numbers" /\ procs' = [procs EXCEPT ![i].n = @ + 1,
             ![i].pc = IF r.n + 1 = Size THEN "print" ELSE "fork"]
  <2> DEFINE pc1 == IF r.n + 1 = Size THEN "print" ELSE "fork"
  <2>1. procs' = [procs EXCEPT ![i].n = r.n + 1, ![i].pc = pc1]
    BY <1>6
  <2>2. pc1 \in {"exit", "fork", "print", "remove"}
    OBVIOUS
  <2>3. Sets(i, pc1, r.n + 1, r.child, r.status, r.buf)
    <3> HIDE DEF pc1
    <3> QED
      BY <2>1, Members DEF Record, Sets
  <2>4. Now(i, pc1, r.n + 1, r.child, r.status, r.buf)
    <3> HIDE DEF pc1
    <3> QED
      BY <1>2, <1>3, <2>2, <2>3
  <2> QED
    BY <1>1, <1>6, <2>4
<1>7. CASE parent = "words" /\ \E status \in Proc!Status(i) :
             procs' = [procs EXCEPT ![i].n = IF status = 0 THEN @ ELSE @ + 1,
                                    ![i].pc = IF status = 0 THEN "print" ELSE "fork"]
  <2>1. PICK status \in Proc!Status(i) :
             procs' = [procs EXCEPT ![i].n = IF status = 0 THEN @ ELSE @ + 1,
                                    ![i].pc = IF status = 0 THEN "print" ELSE "fork"]
    BY <1>7
  <2>2. status \in {0, 1}
    <3>1. r.child # 0 => r.child \in 1..L
      BY <1>1, Members DEF StackInv, InOrder, Waits
    <3>2. CASE r.child = 0
      BY <2>1, <3>2 DEF Proc!Status, Proc!me, Proc!NoChild
    <3>3. CASE r.child # 0
      <4>1. procs[r.child].status \in {0, 1}
        BY <3>1, <3>3, Fields
      <4> QED
        BY <2>1, <3>3, <4>1 DEF Proc!Status, Proc!me, Proc!NoChild
    <3> QED
      BY <3>2, <3>3
  <2>3. CASE status = 0
    <3>1. procs' = [procs EXCEPT ![i].n = r.n, ![i].pc = "print"]
      BY <2>1, <2>3
    <3>2. Sets(i, "print", r.n, r.child, r.status, r.buf)
      BY <3>1, Members DEF Record, Sets
    <3>3. Now(i, "print", r.n, r.child, r.status, r.buf)
      BY <1>2, <1>3, <3>2
    <3> QED
      BY <1>1, <1>7, <2>1, <2>3, <3>3
  <2>4. CASE status = 1
    <3>1. procs' = [procs EXCEPT ![i].n = r.n + 1, ![i].pc = "fork"]
      BY <2>1, <2>4
    <3>2. Sets(i, "fork", r.n + 1, r.child, r.status, r.buf)
      BY <3>1, Members DEF Record, Sets
    <3>3. Now(i, "fork", r.n + 1, r.child, r.status, r.buf)
      BY <1>2, <1>3, <3>2
    <3> QED
      BY <1>1, <1>7, <2>1, <2>4, <3>3
  <2> QED
    BY <2>2, <2>3, <2>4
<1>8. CASE parent = "gcc" /\ procs' = [procs EXCEPT ![i].n = 2, ![i].child = 0,
                                  ![i].pc = IF r.n = 1 THEN "fork" ELSE "remove"]
  <2> DEFINE pc1 == IF r.n = 1 THEN "fork" ELSE "remove"
  <2>1. procs' = [procs EXCEPT ![i].n = 2, ![i].child = 0, ![i].pc = pc1]
    BY <1>8
  <2>2. pc1 \in {"exit", "fork", "print", "remove"} /\ 0 \in Nat /\ 2 \in Nat
    OBVIOUS
  <2> HIDE DEF pc1
  <2>3. Sets(i, pc1, 2, 0, r.status, r.buf)
    BY <2>1, Members DEF Record, Sets
  <2>4. Now(i, pc1, 2, 0, r.status, r.buf)
    BY <1>3, <2>2, <2>3
  <2> QED
    BY <1>1, <1>8, <2>4 DEF pc1
<1> QED
  BY <1>4, <1>5, <1>6, <1>7, <1>8 DEF Proc!Waitpid, Proc!me, Proc!NoChild

LEMMA PrintfMoves ==
  ASSUME FamilyTypes, NEW i \in 1..L, Proc!Printf(i)
  PROVE  LET r == procs[i] IN
         /\ r.pc = "print"
         /\ Now(i, "exit", r.n, r.child, r.status, Append(r.buf, Proc!Printed(i)))
         /\ UNCHANGED <<parent, given, left, temp, pipe, out, failures>>
<1> DEFINE r == procs[i]
           buf1 == Append(r.buf, Proc!Printed(i))
<1>1. Sets(i, "exit", r.n, r.child, r.status, buf1)
  <2>1. procs' = [procs EXCEPT ![i].buf = buf1, ![i].pc = "exit"]
    BY DEF Proc!Printf, Proc!AfterPrint
  <2> HIDE DEF buf1
  <2> QED
    BY <2>1, Members DEF Record, Sets
<1>2. buf1 \in Seq(Nat)
  <2>1. Proc!Printed(i) \in Nat
    BY Fields DEF Proc!Printed, Proc!newline, Proc!me
  <2> QED
    BY <2>1, Fields
<1> HIDE DEF buf1
<1>3. [pc |-> "exit", n |-> r.n, child |-> r.child, status |-> r.status, buf |-> buf1] \in Record
  BY <1>2, Fields DEF Record
<1>4. Now(i, "exit", r.n, r.child, r.status, buf1)
  BY <1>1, <1>3, Changed
<1> QED
  BY <1>4 DEF Proc!Printf, Proc!me, buf1

LEMMA ExitMoves ==
  ASSUME FamilyTypes, NEW i \in 1..L, Proc!Exit(i)
  PROVE  LET r == procs[i] IN
         /\ r.pc = "exit" /\ out' = out \o r.buf
         /\ Now(i, "exited", r.n, r.child, r.status, r.buf)
         /\ UNCHANGED <<parent, given, left, temp, pipe, failures>>
BY GotoMoves DEF Proc!Exit, Proc!me

LEMMA ScanfMoves ==
  ASSUME FamilyTypes, NEW i \in 1..L, Proc!Scanf(i)
  PROVE  LET r == procs[i] IN
         /\ r.pc = "scanf"
         /\ left' = IF left = 0 THEN 0 ELSE IF given.seekable THEN left - 1
                    ELSE IF left < Buffer THEN 0 ELSE left - Buffer
         /\ left' \in Nat
         /\ Now(i, "exit", r.n, r.child, IF left = 0 THEN 0 ELSE 1, r.buf)
         /\ UNCHANGED <<parent, given, temp, pipe, out, failures>>
<1> DEFINE r == procs[i]
           status1 == IF left = 0 THEN 0 ELSE 1
<1>1. Sets(i, "exit", r.n, r.child, status1, r.buf)
  <2>1. procs' = [procs EXCEPT ![i].status = status1, ![i].pc = "exit"]
    BY DEF Proc!Scanf
  <2> HIDE DEF status1
  <2> QED
    BY <2>1, Members DEF Record, Sets
<1>2. status1 \in {0, 1}
  OBVIOUS
<1> HIDE DEF status1
<1>3. [pc |-> "exit", n |-> r.n, child |-> r.child, status |-> status1, buf |-> r.buf] \in Record
  BY <1>2, Fields DEF Record
<1>4. Now(i, "exit", r.n, r.child, status1, r.buf)
  BY <1>1, <1>3, Changed
<1>5. left' = (IF left = 0 THEN 0 ELSE IF given.seekable THEN left - 1
               ELSE IF left < Buffer THEN 0 ELSE left - Buffer)
  BY FamilyAssumptions DEF Proc!Scanf, Proc!Fetched, FamilyTypes
<1>6. left' \in Nat
  BY <1>5, FamilyAssumptions DEF FamilyTypes
<1> QED
  BY <1>4, <1>5, <1>6 DEF Proc!Scanf, Proc!me, status1

LEMMA ExecMoves ==
  ASSUME FamilyTypes, NEW i \in 1..L, Proc!Exec(i)
  PROVE  LET r == procs[i] IN
         /\ r.pc = "exec" /\ UNCHANGED <<parent, given, left, temp, pipe, out, failures>>
         /\ \/ Proc!CanExecute(i) /\ Now(i, "executed", r.n, r.child, r.status, <<>>)
            \/ /\ ~Proc!CanExecute(i)
               /\ Now(i, IF parent = "gcc" THEN "wait" ELSE "exit", r.n, r.child, r.status, r.buf)
<1> DEFINE r == procs[i]
<1>1. CASE Proc!CanExecute(i) /\ procs' = [procs EXCEPT ![i].pc = "executed", ![i].buf = <<>>]
  <2>1. <<>> \in Seq(Nat)
    OBVIOUS
  <2>2. [pc |-> "executed", n |-> r.n, child |-> r.child, status |-> r.status, buf |-> <<>>] \in Record
    BY <2>1, Fields DEF Record
  <2>3. Now(i, "executed", r.n, r.child, r.status, <<>>)
    <3>1. Sets(i, "executed", r.n, r.child, r.status, <<>>)
      BY <1>1, Members DEF Record, Sets
    <3> QED
      BY <2>2, <3>1, Changed
  <2> QED
    BY <1>1, <2>3 DEF Proc!Exec, Proc!me
<1>2. CASE ~Proc!CanExecute(i) /\ Proc!Goto(i, IF parent = "gcc" THEN "wait" ELSE "exit")
  BY <1>2, GotoMoves DEF Proc!Exec, Proc!me
<1> QED
  BY <1>1, <1>2 DEF Proc!Exec

LEMMA ExecutedMoves ==
  ASSUME FamilyTypes, NEW i \in 1..L, Proc!Executed(i)
  PROVE  LET r == procs[i] IN
         /\ r.pc = "executed" /\ UNCHANGED <<parent, given, left, failures>>
         /\ \/ /\ parent = "launch" /\ pipe.written < Size
               /\ pipe' = [bytes |-> pipe.bytes + 1, written |-> pipe.written + 1]
               /\ UNCHANGED <<procs, temp, out>>
            \/ /\ Now(i, "exited", r.n, r.child, r.status, r.buf) /\ UNCHANGED pipe
               /\ \/ /\ parent = "gcc" /\ r.n = 1 /\ UNCHANGED out
                     /\ temp' \in (IF given.correct THEN {"new"} ELSE {temp, "none"})
                  \/ parent = "gcc" /\ r.n = 2 /\ out' = Append(out, temp) /\ UNCHANGED temp
                  \/ parent = "launch" /\ UNCHANGED <<temp, out>>
<1>1. Proc!Goto(i, "exited") =>
        Now(i, "exited", procs[i].n, procs[i].child, procs[i].status, procs[i].buf)
  BY GotoMoves
<1> QED
  BY <1>1 DEF Proc!Executed, Proc!me

LEMMA RemoveMoves ==
  ASSUME FamilyTypes, NEW i \in 1..L, Proc!Remove(i)
  PROVE  LET r == procs[i] IN
         /\ r.pc = "remove" /\ temp' = "none"
         /\ Now(i, "exit", r.n, r.child, r.status, r.buf)
         /\ UNCHANGED <<parent, given, left, pipe, out, failures>>
BY GotoMoves DEF Proc!Remove, Proc!me

LEMMA ReadMoves ==
  ASSUME FamilyTypes, NEW i \in 1..L, Proc!Read(i)
  PROVE  LET r == procs[i] IN
         /\ r.pc = "read" /\ UNCHANGED <<parent, given, left, temp, out, failures>>
         /\ \/ \E count \in 1..pipe.bytes :
                 /\ Now(i, "read", r.n + count, r.child, r.status, r.buf)
                 /\ pipe' = [bytes |-> pipe.bytes - count, written |-> pipe.written]
            \/ /\ pipe.bytes = 0 /\ Proc!ChildGone(i) /\ UNCHANGED pipe
               /\ Now(i, "wait", r.n, r.child, r.status, r.buf)
<1> DEFINE r == procs[i]
<1>1. ASSUME NEW count \in 1..pipe.bytes, procs' = [procs EXCEPT ![i].n = @ + count],
             pipe' = [pipe EXCEPT !.bytes = @ - count]
      PROVE  /\ Now(i, "read", r.n + count, r.child, r.status, r.buf)
             /\ pipe' = [bytes |-> pipe.bytes - count, written |-> pipe.written]
  <2>1. pipe' = [bytes |-> pipe.bytes - count, written |-> pipe.written]
    BY <1>1 DEF FamilyTypes
  <2> DEFINE n1 == r.n + count
  <2>2. n1 \in Nat
    BY Fields DEF FamilyTypes
  <2>3. procs' = [procs EXCEPT ![i].n = n1]
    BY <1>1
  <2> HIDE DEF n1
  <2>4. r.pc = "read"
    BY DEF Proc!Read, Proc!me
  <2>5. [pc |-> "read", n |-> n1, child |-> r.child, status |-> r.status, buf |-> r.buf] \in Record
    BY <2>2, Fields DEF Record
  <2>6. Now(i, "read", n1, r.child, r.status, r.buf)
    <3>1. Sets(i, "read", n1, r.child, r.status, r.buf)
      BY <2>3, <2>4, Members DEF Record, Sets
    <3> QED
      BY <2>5, <3>1, Changed
  <2> QED
    BY <2>1, <2>6 DEF n1
<1>2. Proc!Goto(i, "wait") => Now(i, "wait", r.n, r.child, r.status, r.buf)
  BY GotoMoves
<1> QED
  BY <1>1, <1>2 DEF Proc!Read, Proc!me

(* A fork adds a process.                                                  *)
Forked(i, n1) ==
  /\ L' = L + 1 /\ procs' \in Seq(Record)
  /\ procs'[i] = [pc |-> Proc!ParentAt, n |-> n1, child |-> L + 1,
                  status |-> procs[i].status, buf |-> procs[i].buf]
  /\ procs'[L + 1] = [pc |-> Proc!ChildAt, n |-> n1, child |-> 0, status |-> 0, buf |-> procs[i].buf]
  /\ \A j \in 1..L : j # i => procs'[j] = procs[j]

LEMMA ForkMoves ==
  ASSUME FamilyTypes, NEW i \in 1..L, Proc!Fork(i)
  PROVE  /\ procs[i].pc = "fork" /\ UNCHANGED <<parent, given, left, temp, pipe, out, failures>>
         /\ Forked(i, IF parent = "limit" THEN procs[i].n + 1 ELSE procs[i].n)
<1> DEFINE r == procs[i]
           n1 == IF parent = "limit" THEN r.n + 1 ELSE r.n
           pc1 == Proc!ParentAt
           child1 == L + 1
           s == [procs EXCEPT ![i].pc = pc1, ![i].n = n1, ![i].child = child1]
           old == [pc |-> pc1, n |-> n1, child |-> child1, status |-> r.status, buf |-> r.buf]
           new == [pc |-> Proc!ChildAt, n |-> n1, child |-> 0, status |-> 0, buf |-> r.buf]
<1>1. procs' = Append(s, new)
  BY DEF Proc!Fork, Proc!Process, Proc!me, Proc!NoChild, L
<1>2. old \in Record /\ new \in Record
  <2>1. n1 \in Nat /\ child1 \in Nat
    BY Fields, Members
  <2>2. pc1 \in {"read", "wait"} /\ Proc!ChildAt \in {"fork", "print", "scanf", "exec"}
    BY DEF Proc!ParentAt, Proc!ChildAt
  <2> HIDE DEF n1, child1, pc1
  <2> QED
    BY <2>1, <2>2, Fields DEF Record
<1>3. s = [j \in 1..L |-> s[j]] /\ s[i] = old /\ \A j \in 1..L : j # i => s[j] = procs[j]
  <2> HIDE DEF pc1, n1, child1
  <2> QED
    BY Members DEF Record
<1> HIDE DEF s, old, new
<1>4. L \in Nat /\ \A j \in 1..L : procs[j] \in Record
  BY Members
<1>5. s \in Seq(Record) /\ Len(s) = L
  <2>1. \A j \in 1..L : s[j] \in Record
    BY <1>2, <1>3, <1>4
  <2> QED
    BY <1>3, <1>4, <2>1
<1>6. /\ procs' \in Seq(Record) /\ Len(procs') = L + 1
      /\ procs'[L + 1] = new /\ \A j \in 1..L : procs'[j] = s[j]
  BY <1>1, <1>2, <1>4, <1>5
<1>7. procs'[i] = old /\ \A j \in 1..L : j # i => procs'[j] = procs[j]
  BY <1>3, <1>6
<1> QED
  BY <1>6, <1>7 DEF Proc!Fork, Proc!me, Forked, L, old, new

(* The stack is kept by a process that runs or can stop waiting, and by a  *)
(* fork.                                                                   *)
LEMMA StackMove ==
  ASSUME FamilyTypes, StackInv, NEW i \in 1..L,
         NEW pc1, NEW n1, NEW child1, NEW status1, NEW buf1, Now(i, pc1, n1, child1, status1, buf1),
         \/ Runs(i) /\ pc1 \notin {"wait", "read", "exec"}
         \/ Runs(i) /\ pc1 = "wait" /\ child1 = 0
         \/ Runs(i) /\ pc1 = "read" /\ child1 = 0
         \/ Waits(i) /\ Proc!ChildGone(i) /\ pc1 \notin {"wait", "read", "exec", "exited"}
         \/ Waits(i) /\ pc1 \in {"wait", "read"} /\ child1 = procs[i].child
  PROVE  StackInv'
<1>1. L \in Nat /\ L' = L /\ procs'[i].pc = pc1 /\ procs'[i].child = child1
      /\ \A j \in 1..L : j # i => procs'[j] = procs[j]
  BY Members DEF Now
<1>2. ~Gone(i) /\ \A j \in 1..L : j # i => (Gone(j)' = Gone(j) /\ Waits(j)' = Waits(j) /\ Runs(j)' = Runs(j))
  BY <1>1 DEF Gone, Waits, Runs
<1>3. Gone(i)' <=> pc1 = "exited"
  BY <1>1 DEF Gone
<1>4. \A j \in 1..L : InOrder(j)
  BY DEF StackInv
<1>5. \A j \in 1..L : Gone(j) => Gone(j)'
  BY <1>1, <1>2
<1>6. \A j \in 1..L : RestGone(j) => RestGone(j)'
  <2> SUFFICES ASSUME NEW j \in 1..L, RestGone(j), NEW k \in (j + 1..L)' PROVE Gone(k)'
    BY DEF RestGone
  <2>1. k \in j + 1..L /\ k \in 1..L
    BY <1>1
  <2> QED
    BY <1>5, <2>1 DEF RestGone
<1>7. Runs(i) => RestGone(i)
  BY <1>4 DEF InOrder
<1>8. Waits(i) /\ Proc!ChildGone(i) => RestGone(i)
  BY <1>4 DEF InOrder, Proc!ChildGone, Proc!me, Proc!NoChild, Gone
<1>9. InOrder(i)'
  <2>1. CASE Runs(i) \/ (Waits(i) /\ Proc!ChildGone(i) /\ pc1 \notin {"wait", "read", "exec", "exited"})
    <3>1. RestGone(i)'
      BY <1>6, <1>7, <1>8, <2>1
    <3>2. Waits(i) => ~Runs(i)
      BY DEF Runs
    <3>3. Waits(i)' => child1 = 0 \/ (Waits(i) /\ ~Proc!ChildGone(i))
                        \/ (Waits(i) /\ pc1 \in {"wait", "read"} /\ child1 = procs[i].child)
      BY <1>1, <3>2 DEF Waits
    <3>4. CASE Runs(i)
      BY <1>1, <3>1, <3>2, <3>4 DEF InOrder, Waits
    <3>5. CASE Waits(i) /\ Proc!ChildGone(i) /\ pc1 \notin {"wait", "read", "exec", "exited"}
      BY <1>1, <3>1, <3>5 DEF InOrder, Waits
    <3> QED
      BY <2>1, <3>4, <3>5
  <2>2. CASE Waits(i) /\ pc1 \in {"wait", "read"} /\ child1 = procs[i].child
    <3>1. Waits(i)' /\ ~Runs(i)' /\ procs'[i].pc # "exec"
      BY <1>1, <2>2 DEF Waits, Runs
    <3>2. CASE procs[i].child = 0 /\ RestGone(i)
      BY <1>1, <1>6, <2>2, <3>1, <3>2 DEF InOrder
    <3>3. CASE /\ procs[i].child \in i + 1..L
               /\ Gone(procs[i].child) => RestGone(i)
               /\ \A j \in i + 1..procs[i].child - 1 : Gone(j)
      <4>1. child1 \in 1..L /\ child1 # i /\ \A j \in i + 1..child1 - 1 : j \in 1..L
        BY <1>1, <2>2, <3>3
      <4>2. Gone(child1)' => RestGone(i)'
        BY <1>2, <1>6, <2>2, <3>3, <4>1
      <4>3. \A j \in i + 1..child1 - 1 : Gone(j)'
        BY <1>5, <2>2, <3>3, <4>1
      <4> QED
        BY <1>1, <2>2, <3>1, <3>3, <4>2, <4>3 DEF InOrder
    <3> QED
      BY <1>4, <2>2, <3>2, <3>3 DEF InOrder
  <2> QED
    BY <2>1, <2>2
<1>10. ASSUME NEW j \in 1..L, j # i PROVE InOrder(j)'
  <2>1. InOrder(j) /\ procs'[j] = procs[j] /\ L' = L
    BY <1>1, <1>4, <1>10
  <2>2. CASE ~Waits(j)
    BY <1>2, <1>6, <1>10, <2>1, <2>2 DEF InOrder, Waits, Runs
  <2>3. CASE Waits(j) /\ procs[j].child = 0 /\ RestGone(j)
    BY <1>2, <1>6, <1>10, <2>1, <2>3 DEF InOrder, Runs
  <2>4. CASE /\ Waits(j) /\ procs[j].child \in j + 1..L
             /\ Gone(procs[j].child) => RestGone(j)
             /\ \A k \in j + 1..procs[j].child - 1 : Gone(k)
    <3>0. PICK c \in Nat : c = procs[j].child
      BY <1>10, Fields
    <3>1. c \in 1..L /\ \A k \in j + 1..c - 1 : k \in 1..L
      BY <1>1, <2>4, <3>0
    <3>2. \A k \in j + 1..c - 1 : Gone(k)'
      BY <1>5, <2>4, <3>0, <3>1
    <3>3. Gone(c)' => RestGone(j)'
      <4>1. CASE Gone(c)
        BY <1>6, <2>4, <3>0, <4>1
      <4>2. CASE c # i
        BY <1>2, <1>6, <2>4, <3>0, <3>1, <4>2
      <4>3. CASE c = i
        <5> SUFFICES ASSUME pc1 = "exited" PROVE RestGone(j)'
          BY <1>3, <4>3
        <5>1. Runs(i) /\ RestGone(i)
          BY <1>7
        <5> SUFFICES ASSUME NEW k \in j + 1..L PROVE Gone(k)'
          BY <1>1 DEF RestGone
        <5>2. k \in j + 1..c - 1 \/ k = i \/ k \in i + 1..L
          BY <1>1, <3>1, <4>3
        <5>3. i + 1..L \subseteq 1..L
          BY <1>1
        <5> QED
          BY <1>3, <1>5, <3>2, <5>1, <5>2, <5>3 DEF RestGone
      <4> QED
        BY <4>2, <4>3
    <3>4. Waits(j)' /\ ~Runs(j)' /\ procs'[j].pc # "exec"
      BY <1>2, <1>10, <2>4 DEF Runs, Waits
    <3> QED
      BY <2>1, <2>4, <3>0, <3>2, <3>3, <3>4 DEF InOrder
  <2> QED
    BY <2>1, <2>2, <2>3, <2>4 DEF InOrder
<1>11. (Gone(1) => RestGone(1))'
  <2>1. 1 \in 1..L
    BY Members
  <2>2. CASE i # 1
    <3>1. Gone(1)' => RestGone(1)
      BY <1>2, <2>1, <2>2 DEF StackInv
    <3> QED
      BY <1>6, <2>1, <3>1
  <2>3. CASE i = 1
    <3> SUFFICES ASSUME pc1 = "exited" PROVE RestGone(1)'
      BY <1>3, <2>3
    <3> QED
      BY <1>6, <1>7, <2>1, <2>3
  <2> QED
    BY <2>2, <2>3
<1> QED
  BY <1>1, <1>9, <1>10, <1>11 DEF StackInv

LEMMA StackFork ==
  ASSUME FamilyTypes, StackInv, NEW i \in 1..L, procs[i].pc = "fork", NEW n1, Forked(i, n1)
  PROVE  StackInv'
<1>0. PICK m \in Nat : m = L + 1
  BY Members
<1>1. /\ L \in Nat /\ L' = m /\ m = L + 1 /\ i < m /\ 1 \in 1..L /\ m \notin 1..L
      /\ procs'[i].pc = Proc!ParentAt /\ procs'[i].child = m
      /\ procs'[m].pc = Proc!ChildAt /\ procs'[m].child = 0
      /\ \A j \in 1..L : j # i => procs'[j] = procs[j]
  BY <1>0, Members DEF Forked
<1>2. Waits(i)' /\ ~Gone(i)' /\ ~Runs(i)' /\ procs'[i].pc # "exec"
  BY <1>1 DEF Waits, Gone, Runs, Proc!ParentAt
<1>3. ~Gone(m)' /\ ~Waits(m)'
  BY <1>1 DEF Gone, Waits, Proc!ChildAt
<1>4. Runs(i) /\ ~Gone(i) /\ ~Waits(i)
  BY DEF Gone, Waits, Runs
<1>5. RestGone(i) /\ \A j \in 1..L : InOrder(j)
  BY <1>4 DEF StackInv, InOrder
<1>6. \A j \in 1..L : j # i => (Gone(j)' = Gone(j) /\ Waits(j)' = Waits(j) /\ Runs(j)' = Runs(j))
  BY <1>1 DEF Gone, Waits, Runs
<1>7. \A j \in 1..L : j < i => ~RestGone(j)
  <2>1. \A j \in 1..L : j < i => i \in j + 1..L
    BY <1>1
  <2> QED
    BY <1>4, <2>1 DEF RestGone
<1>8. InOrder(i)'
  <2>1. \A j \in i + 1..m - 1 : j \in i + 1..L /\ j \in 1..L /\ j # i
    BY <1>1
  <2>2. \A j \in i + 1..m - 1 : Gone(j)'
    BY <1>5, <1>6, <2>1 DEF RestGone
  <2>3. m \in i + 1..m
    BY <1>1
  <2> QED
    BY <1>1, <1>2, <1>3, <2>2, <2>3 DEF InOrder
<1>9. InOrder(m)'
  <2>1. RestGone(m)'
    BY <1>1 DEF RestGone
  <2> QED
    BY <1>1, <1>3, <2>1 DEF InOrder
<1>10. ASSUME NEW j \in 1..L, j # i PROVE InOrder(j)'
  <2>1. InOrder(j) /\ procs'[j] = procs[j]
    BY <1>1, <1>5, <1>10
  <2>2. CASE j > i
    <3>1. Gone(j)
      <4>1. j \in i + 1..L
        BY <1>1, <2>2
      <4> QED
        BY <1>5, <4>1 DEF RestGone
    <3>2. ~Waits(j)' /\ ~Runs(j)' /\ procs'[j].pc # "exec"
      BY <2>1, <3>1 DEF Gone, Waits, Runs
    <3> QED
      BY <3>2 DEF InOrder
  <2>3. CASE j < i
    <3>1. ~RestGone(j)
      BY <1>7, <2>3
    <3>2. Gone(j)' = Gone(j) /\ Waits(j)' = Waits(j) /\ Runs(j)' = Runs(j)
      BY <1>6, <1>10
    <3>3. CASE ~Waits(j)
      BY <2>1, <3>1, <3>2, <3>3 DEF InOrder, Waits, Gone, Runs
    <3>4. CASE Waits(j)
      <4>0. PICK c \in Nat : c = procs[j].child
        BY <1>10, Fields
      <4>1. c \in j + 1..L /\ ~Gone(c) /\ \A k \in j + 1..c - 1 : Gone(k)
        BY <2>1, <3>1, <3>4, <4>0 DEF InOrder
      <4>2. ~Gone(c)'
        <5>1. c \in 1..L
          BY <1>1, <4>1
        <5> QED
          BY <1>2, <1>6, <4>1, <5>1
      <4>3. \A k \in j + 1..c - 1 : Gone(k)'
        <5>1. \A k \in j + 1..c - 1 : k \in 1..L
          BY <1>1, <4>1
        <5> QED
          BY <1>4, <1>6, <4>1, <5>1
      <4>4. c \in j + 1..m
        BY <1>1, <4>1
      <4> QED
        BY <1>1, <2>1, <3>2, <3>4, <4>0, <4>2, <4>3, <4>4 DEF InOrder, Runs, Waits
    <3> QED
      BY <3>3, <3>4
  <2> QED
    BY <1>1, <1>10, <2>2, <2>3
<1>11. (Gone(1) => RestGone(1))'
  <2>1. ~Gone(1)'
    <3>1. CASE i = 1
      BY <1>2, <3>1
    <3>2. CASE i # 1
      <4>1. ~RestGone(1)
        BY <1>1, <1>7, <3>2
      <4> QED
        BY <1>1, <1>6, <3>2, <4>1 DEF StackInv
    <3> QED
      BY <3>1, <3>2
  <2> QED
    BY <2>1
<1>12. \A j \in 1..m : j \in 1..L \/ j = m
  BY <1>1
<1> QED
  BY <1>1, <1>8, <1>9, <1>10, <1>11, <1>12 DEF StackInv

LEMMA StackStep ==
  ASSUME FamilyTypes, StackInv, NEW i \in 1..L, Proc!Step(i)
  PROVE  FamilyTypes' /\ StackInv'
<1> DEFINE r == procs[i]
<1> USE DEF Waits, Gone, Runs
<1>1. /\ given \in [seekable : BOOLEAN, executable : BOOLEAN, correct : BOOLEAN]
      /\ pipe \in [bytes : Nat, written : Nat] /\ temp \in {"none", "old", "new"}
      /\ left \in Nat /\ failures \in Nat /\ L \in Nat /\ L >= 1 /\ r.child \in Nat
  BY Members, Fields DEF FamilyTypes
<1>2. ASSUME UNCHANGED <<given, pipe, temp>>, left' \in Nat, failures' \in Nat,
             procs' \in Seq(Record), L' >= 1
      PROVE  FamilyTypes'
  BY <1>1, <1>2 DEF FamilyTypes
<1>3. CASE Proc!Fork(i)
  <2>1. PICK n1 : /\ r.pc = "fork" /\ UNCHANGED <<given, left, temp, pipe, failures>>
                  /\ Forked(i, n1)
    BY <1>3, ForkMoves
  <2>2. FamilyTypes'
    <3>1. procs' \in Seq(Record) /\ L' >= 1
      BY <1>1, <2>1 DEF Forked
    <3> QED
      BY <1>1, <1>2, <2>1, <3>1
  <2> QED
    BY <2>1, <2>2, StackFork
<1>4. ASSUME NEW pc1, NEW n1, NEW child1, NEW status1, NEW buf1, Now(i, pc1, n1, child1, status1, buf1)
      PROVE  procs' \in Seq(Record) /\ L' >= 1
  BY <1>1, <1>4 DEF Now
<1>5. CASE Proc!ForkFails(i)
  <2>1. r.pc = "fork" /\ failures' \in Nat /\ UNCHANGED <<given, pipe, temp, left>>
    BY <1>1, <1>5, ForkFailsMoves
  <2>2. PICK pc1 \in {"print", "wait", "read"} : Now(i, pc1, r.n, 0, r.status, r.buf)
    BY <1>5, ForkFailsMoves DEF Proc!ParentAt
  <2>3. FamilyTypes'
    BY <1>1, <1>2, <1>4, <2>1, <2>2
  <2> QED
    BY <2>1, <2>2, <2>3, StackMove
<1>6. CASE Proc!Waitpid(i)
  <2>1. r.pc = "wait" /\ Proc!ChildGone(i) /\ UNCHANGED <<given, pipe, temp, left, failures>>
    BY <1>6, WaitpidMoves
  <2>2. PICK pc1 \in {"exit", "print", "fork", "remove"}, n1 \in {r.n, r.n + 1, 2}, child1 \in {r.child, 0} :
          Now(i, pc1, n1, child1, r.status, r.buf)
    <3>1. \/ Now(i, "exit", r.n, r.child, r.status, r.buf)
          \/ Now(i, IF r.n + 1 = Size THEN "print" ELSE "fork", r.n + 1, r.child, r.status, r.buf)
          \/ Now(i, "print", r.n, r.child, r.status, r.buf)
          \/ Now(i, "fork", r.n + 1, r.child, r.status, r.buf)
          \/ Now(i, IF r.n = 1 THEN "fork" ELSE "remove", 2, 0, r.status, r.buf)
      BY <1>6, WaitpidMoves
    <3> QED
      BY <3>1
  <2>3. FamilyTypes'
    BY <1>1, <1>2, <1>4, <2>1, <2>2
  <2>4. pc1 \notin {"wait", "read", "exec", "exited"} /\ Waits(i)
    BY <2>1
  <2> QED
    BY <2>1, <2>2, <2>3, <2>4, StackMove
<1>7. CASE Proc!Printf(i)
  <2>1. PICK buf1 : Now(i, "exit", r.n, r.child, r.status, buf1)
    BY <1>7, PrintfMoves
  <2>2. r.pc = "print" /\ UNCHANGED <<given, pipe, temp, left, failures>>
    BY <1>7, PrintfMoves
  <2>3. FamilyTypes'
    BY <1>1, <1>2, <1>4, <2>1, <2>2
  <2> QED
    BY <2>1, <2>2, <2>3, StackMove
<1>8. CASE Proc!Exit(i)
  <2>1. r.pc = "exit" /\ UNCHANGED <<given, pipe, temp, left, failures>>
        /\ Now(i, "exited", r.n, r.child, r.status, r.buf)
    BY <1>8, ExitMoves
  <2>2. FamilyTypes'
    BY <1>1, <1>2, <1>4, <2>1
  <2> QED
    BY <2>1, <2>2, StackMove
<1>9. CASE Proc!Scanf(i)
  <2>1. r.pc = "scanf" /\ UNCHANGED <<given, pipe, temp, failures>> /\ left' \in Nat
        /\ Now(i, "exit", r.n, r.child, IF left = 0 THEN 0 ELSE 1, r.buf)
    BY <1>9, ScanfMoves
  <2>2. FamilyTypes'
    BY <1>1, <1>2, <1>4, <2>1
  <2> QED
    BY <2>1, <2>2, StackMove
<1>10. CASE Proc!Exec(i)
  <2>1. r.pc = "exec" /\ UNCHANGED <<given, pipe, temp, left, failures>>
    BY <1>10, ExecMoves
  <2>2. r.child = 0
    BY <2>1 DEF StackInv, InOrder
  <2>3. PICK pc1, buf1 : pc1 \in {"executed", "wait", "exit"} /\ Now(i, pc1, r.n, r.child, r.status, buf1)
    BY <1>10, ExecMoves
  <2>4. FamilyTypes'
    BY <1>1, <1>2, <1>4, <2>1, <2>3
  <2> QED
    BY <2>1, <2>2, <2>3, <2>4, StackMove
<1>11. CASE Proc!Executed(i)
  <2>1. r.pc = "executed" /\ UNCHANGED <<given, left, failures>>
    BY <1>11, ExecutedMoves
  <2>2. CASE pipe' = [bytes |-> pipe.bytes + 1, written |-> pipe.written + 1] /\ UNCHANGED <<procs, temp>>
    <3>1. L' = L /\ pipe' \in [bytes : Nat, written : Nat]
      BY <1>1, <2>2 DEF L
    <3>2. FamilyTypes'
      BY <1>1, <2>1, <2>2, <3>1 DEF FamilyTypes
    <3>3. StackInv'
      BY <2>2, <3>1 DEF StackInv, InOrder, RestGone
    <3> QED
      BY <3>2, <3>3
  <2>3. CASE Now(i, "exited", r.n, r.child, r.status, r.buf) /\ UNCHANGED pipe
             /\ temp' \in {"new", "none", temp}
    <3>1. procs' \in Seq(Record) /\ L' >= 1 /\ temp' \in {"none", "old", "new"}
      BY <1>1, <1>4, <2>3
    <3>2. FamilyTypes'
      BY <1>1, <2>1, <2>3, <3>1 DEF FamilyTypes
    <3> QED
      BY <2>1, <2>3, <3>2, StackMove
  <2> QED
    BY <1>11, <2>2, <2>3, ExecutedMoves
<1>12. CASE Proc!Remove(i)
  <2>1. r.pc = "remove" /\ temp' = "none" /\ UNCHANGED <<given, pipe, left, failures>>
        /\ Now(i, "exit", r.n, r.child, r.status, r.buf)
    BY <1>12, RemoveMoves
  <2>2. FamilyTypes'
    <3>1. procs' \in Seq(Record) /\ L' >= 1
      BY <1>4, <2>1
    <3> QED
      BY <1>1, <2>1, <3>1 DEF FamilyTypes
  <2> QED
    BY <2>1, <2>2, StackMove
<1>13. CASE Proc!Read(i)
  <2>1. r.pc = "read" /\ UNCHANGED <<given, temp, left, failures>>
    BY <1>13, ReadMoves
  <2>2. PICK pc1, n1 : pc1 \in {"read", "wait"} /\ Now(i, pc1, n1, r.child, r.status, r.buf)
    BY <1>13, ReadMoves
  <2>3. pipe' \in [bytes : Nat, written : Nat]
    <3>1. CASE UNCHANGED pipe
      BY <1>1, <3>1
    <3>2. ASSUME NEW count \in 1..pipe.bytes, pipe' = [bytes |-> pipe.bytes - count, written |-> pipe.written]
          PROVE  pipe' \in [bytes : Nat, written : Nat]
      <4>1. pipe.bytes - count \in Nat /\ pipe.written \in Nat
        BY <1>1
      <4> QED
        BY <3>2, <4>1
    <3> QED
      BY <1>13, <3>1, <3>2, ReadMoves
  <2>4. FamilyTypes'
    <3>1. procs' \in Seq(Record) /\ L' >= 1
      BY <1>4, <2>2
    <3> QED
      BY <1>1, <2>1, <2>3, <3>1 DEF FamilyTypes
  <2> QED
    BY <2>1, <2>2, <2>4, StackMove
<1> QED
  BY <1>3, <1>5, <1>6, <1>7, <1>8, <1>9, <1>10, <1>11, <1>12, <1>13 DEF Proc!Step

(* One process can go on, and all that came after it are gone.             *)
CanGoOn(i) == Runs(i) \/ (Waits(i) /\ Proc!ChildGone(i))

LEMMA NotGoneStep == ASSUME NEW i, Proc!Step(i) PROVE ~Gone(i)
BY DEF Gone, Proc!Step, Proc!Fork, Proc!ForkFails, Proc!Waitpid, Proc!Printf, Proc!Exit, Proc!Scanf,
       Proc!Exec, Proc!Executed, Proc!Remove, Proc!Read, Proc!me

LEMMA RestIsGone ==
  ASSUME StackInv, NEW i \in 1..L, CanGoOn(i)
  PROVE  RestGone(i) /\ ~Gone(i)
BY DEF StackInv, InOrder, CanGoOn, Proc!ChildGone, Proc!me, Proc!NoChild, Gone, Waits, Runs

LEMMA OneGoesOn ==
  ASSUME FamilyTypes, StackInv, NEW i \in 1..L, NEW j \in 1..L, CanGoOn(i), CanGoOn(j)
  PROVE  i = j
<1>1. i \in j + 1..L \/ j \in i + 1..L \/ i = j
  BY Members
<1> QED
  BY <1>1, RestIsGone DEF RestGone

LEMMA NotGoneIsParentOrRuns ==
  ASSUME FamilyTypes, StackInv, NEW i \in 2..L, ~Gone(i)
  PROVE  Waits(1) /\ procs[1].child \in 2..L /\ ~Gone(procs[1].child)
<1>1. 1 \in 1..L /\ i \in 1 + 1..L /\ 1 + 1 = 2
  BY Members
<1>2. ~RestGone(1)
  BY <1>1 DEF RestGone
<1> QED
  BY <1>1, <1>2 DEF StackInv, InOrder, Waits, Runs

LEMMA LimitStep ==
  ASSUME FamilyTypes, LimitInv, parent = "limit", StackInv, NEW i \in 1..L, Proc!Step(i)
  PROVE  LimitInv'
<1> DEFINE r == procs[i]
<1>1. /\ L \in Nat /\ L >= 1 /\ (i # L => i \in 1..L - 1) /\ r.buf \in Seq(Nat)
      /\ \A j \in 1..L - 1 : j \in 1..L /\ j # L
  BY Members, Fields
<1>2. /\ i # L => r.pc \in {"wait", "exit", "exited"} /\ r.buf = <<>>
      /\ i = L => /\ r.pc \in {"fork", "print", "exit", "exited"} /\ r.n = L
                  /\ r.buf = IF r.pc \in {"exit", "exited"} THEN <<L>> ELSE <<>>
  BY <1>1 DEF LimitInv
<1>3. \A s \in Seq(Nat) : s \o <<>> = s /\ <<>> \o s = s
  OBVIOUS
<1>4. <<>> \in Seq(Nat) /\ <<L>> \in Seq(Nat) /\ out \in Seq(Nat)
  BY <1>1 DEF LimitInv
<1>5. ASSUME NEW pc1, NEW n1, NEW child1, NEW status1, Now(i, pc1, n1, child1, status1, r.buf), i # L,
             pc1 \in {"exit", "exited"}, out' = out
      PROVE  LimitInv'
  <2>1. L' = L /\ procs'[i].pc = pc1 /\ procs'[i].buf = r.buf /\ procs'[L] = procs[L]
        /\ \A j \in 1..L - 1 : j # i => procs'[j] = procs[j]
    BY <1>1, <1>5 DEF Now
  <2> QED
    BY <1>2, <1>5, <2>1 DEF LimitInv, Gone
<1>6. ASSUME NEW pc1, NEW child1, NEW status1, NEW buf1, Now(L, pc1, L, child1, status1, buf1), i = L,
             pc1 \in {"print", "exit", "exited"}, buf1 = IF pc1 = "print" THEN <<>> ELSE <<L>>,
             out' = IF pc1 = "exited" THEN <<L>> ELSE <<>>
      PROVE  LimitInv'
  <2>1. L' = L /\ procs'[L].pc = pc1 /\ procs'[L].buf = buf1 /\ procs'[L].n = L
        /\ \A j \in 1..L - 1 : procs'[j] = procs[j]
    BY <1>1, <1>6 DEF Now
  <2> QED
    BY <1>6, <2>1 DEF LimitInv, Gone
<1>7. CASE Proc!Fork(i)
  <2>1. r.pc = "fork" /\ i = L /\ r.n = L /\ r.buf = <<>> /\ out = <<>> /\ out' = out /\ Forked(L, L + 1)
    <3>1. r.pc = "fork" /\ out' = out /\ Forked(i, r.n + 1)
      BY <1>7, ForkMoves
    <3> QED
      BY <1>2, <3>1 DEF LimitInv, Gone
  <2>2. /\ L' = L + 1 /\ procs'[L].pc = "wait" /\ procs'[L].buf = <<>> /\ procs'[L + 1].pc = "fork"
        /\ procs'[L + 1].n = L + 1 /\ procs'[L + 1].buf = <<>>
        /\ \A j \in 1..L - 1 : procs'[j] = procs[j]
    BY <1>1, <2>1 DEF Forked, Proc!ParentAt, Proc!ChildAt
  <2>3. \A j \in 1..(L + 1) - 1 : j \in 1..L - 1 \/ j = L
    BY <1>1
  <2> QED
    BY <2>1, <2>2, <2>3 DEF LimitInv, Gone
<1>8. CASE Proc!ForkFails(i)
  <2>1. r.pc = "fork" /\ out' = out /\ Now(i, "print", r.n, 0, r.status, r.buf)
    BY <1>8, ForkFailsMoves
  <2>2. i = L /\ r.n = L /\ r.buf = <<>> /\ out = <<>>
    BY <1>2, <2>1 DEF LimitInv, Gone
  <2> QED
    BY <1>6, <2>1, <2>2
<1>9. CASE Proc!Waitpid(i)
  <2>1. r.pc = "wait" /\ out' = out /\ Now(i, "exit", r.n, r.child, r.status, r.buf)
    BY <1>9, WaitpidMoves
  <2> QED
    BY <1>2, <1>5, <2>1
<1>10. CASE Proc!Printf(i)
  <2>1. r.pc = "print" /\ out' = out
        /\ Now(i, "exit", r.n, r.child, r.status, Append(r.buf, Proc!Printed(i)))
    BY <1>10, PrintfMoves
  <2>2. i = L /\ r.n = L /\ r.buf = <<>> /\ out = <<>> /\ Proc!Printed(i) = L
    BY <1>2, <2>1 DEF LimitInv, Gone, Proc!Printed, Proc!me
  <2>3. Append(r.buf, Proc!Printed(i)) = <<L>>
    BY <2>2
  <2> QED
    BY <1>6, <2>1, <2>2, <2>3
<1>11. CASE Proc!Exit(i)
  <2>1. r.pc = "exit" /\ out' = out \o r.buf /\ Now(i, "exited", r.n, r.child, r.status, r.buf)
    BY <1>11, ExitMoves
  <2>2. CASE i = L
    <3>1. r.buf = <<L>> /\ r.n = L /\ out = <<>>
      BY <1>2, <2>1, <2>2 DEF LimitInv, Gone
    <3>2. out' = <<L>>
      BY <1>3, <1>4, <2>1, <3>1
    <3> QED
      BY <1>6, <2>1, <2>2, <3>1, <3>2
  <2>3. CASE i # L
    <3>1. r.buf = <<>> /\ out' = out
      BY <1>2, <1>3, <1>4, <2>1, <2>3
    <3> QED
      BY <1>5, <2>1, <2>3, <3>1
  <2> QED
    BY <2>2, <2>3
<1>12. CASE Proc!Scanf(i) \/ Proc!Exec(i) \/ Proc!Executed(i) \/ Proc!Remove(i) \/ Proc!Read(i)
  BY <1>2, <1>12 DEF Proc!Scanf, Proc!Exec, Proc!Executed, Proc!Remove, Proc!Read, Proc!me
<1> QED
  BY <1>7, <1>8, <1>9, <1>10, <1>11, <1>12 DEF Proc!Step

(* Only the first process forks; the others print and exit in its waits.   *)
LEMMA NumbersFacts ==
  ASSUME FamilyTypes, NumbersInv, StackInv
  PROVE  /\ L \in Nat /\ L >= 1 /\ main.n \in Nat /\ main.buf \in Seq(Nat) /\ failures \in Nat
         /\ \A j \in 2..L : j \in 1..L /\ j # 1 /\ procs[j].n \in Nat
         /\ \A j \in 2..L : ~Gone(j) => j = L /\ main.pc = "wait" /\ main.child = L
         /\ Runs(1) => Done = L - 1
         /\ Done \in 0..L - 1
<1>1. L \in Nat /\ L >= 1 /\ failures \in Nat /\ 1 \in 1..L /\ \A j \in 2..L : j \in 1..L /\ j # 1
  BY Members DEF FamilyTypes
<1>2. main.n \in Nat /\ main.buf \in Seq(Nat) /\ \A j \in 2..L : procs[j].n \in Nat
  BY <1>1, Fields DEF main
<1>3. ASSUME NEW j \in 2..L, ~Gone(j) PROVE j = L /\ main.pc = "wait" /\ main.child = L
  <2>1. Waits(1) /\ main.child \in 2..L /\ ~Gone(main.child)
    BY <1>3, NotGoneIsParentOrRuns DEF main
  <2>2. main.pc = "wait" /\ main.child = L
    BY <1>1, <2>1 DEF NumbersInv, Waits, main
  <2>3. \A k \in 1 + 1..L - 1 : Gone(k)
    BY <1>1, <2>1, <2>2 DEF StackInv, InOrder, main
  <2>4. j \in 1 + 1..L - 1 \/ j = L
    BY <1>1
  <2> QED
    BY <1>3, <2>2, <2>3, <2>4
<1>4. Runs(1) => Done = L - 1
  <2>1. L > 1 => L \in 2..L
    BY <1>1
  <2> QED
    BY <1>3, <2>1 DEF Done, Runs, Waits, main
<1>5. Done \in 0..L - 1
  <2>1. CASE L > 1 /\ ~Gone(L)
    <3>1. Done = L - 2
      BY <2>1 DEF Done
    <3> QED
      BY <1>1, <2>1, <3>1
  <2>2. CASE ~(L > 1 /\ ~Gone(L))
    <3>1. Done = L - 1
      BY <2>2 DEF Done
    <3> QED
      BY <1>1, <3>1
  <2> QED
    BY <2>1, <2>2
<1> QED
  BY <1>1, <1>2, <1>3, <1>4, <1>5

LEMMA NumbersStep ==
  ASSUME FamilyTypes, NumbersInv, parent = "numbers", StackInv, NEW i \in 1..L, Proc!Step(i)
  PROVE  NumbersInv'
<1> DEFINE r == procs[i]
<1>1. /\ L \in Nat /\ L >= 1 /\ main.n \in Nat /\ main.buf \in Seq(Nat) /\ failures \in Nat
      /\ \A j \in 2..L : j \in 1..L /\ j # 1 /\ procs[j].n \in Nat
      /\ \A j \in 2..L : ~Gone(j) => j = L /\ main.pc = "wait" /\ main.child = L
      /\ Runs(1) => Done = L - 1
      /\ Done \in 0..L - 1
      /\ i = 1 \/ i \in 2..L
  BY NumbersFacts
<1>2. out \in Seq(Nat) /\ Size \in Nat
  BY FamilyAssumptions DEF NumbersInv
<1>3. ASSUME NEW pc1, NEW n1, NEW child1, NEW buf1, Now(1, pc1, n1, child1, r.status, buf1), i = 1,
             out' = out, failures' \in Nat, Done = L - 1, pc1 # "exited",
             pc1 \in {"fork", "wait", "print", "exit"}, main.pc # "exited",
             buf1 = IF pc1 = "exit" THEN << 0 >> ELSE <<>>,
             IF pc1 \in {"fork", "wait"} THEN n1 < Size ELSE n1 = Size,
             L - 1 + failures' = IF pc1 = "wait" THEN n1 + 1 ELSE n1,
             pc1 = "wait" => child1 \in {0, L},
             \A j \in 2..L : procs[j].n < n1
      PROVE  NumbersInv'
  <2>1. L' = L /\ procs'[1].pc = pc1 /\ procs'[1].n = n1 /\ procs'[1].child = child1 /\ procs'[1].buf = buf1
        /\ \A j \in 2..L : procs'[j] = procs[j]
    BY <1>1, <1>3 DEF Now
  <2>2. Gone(L)' = (IF L = 1 THEN pc1 = "exited" ELSE Gone(L))
    <3>1. L = 1 \/ L \in 2..L
      BY <1>1
    <3> QED
      BY <1>1, <2>1, <3>1 DEF Gone
  <2>3. Done' = L - 1
    BY <1>1, <1>3, <2>1, <2>2 DEF Done
  <2>4. Len(out) = L - 1 /\ \A k \in 1..L - 1 : k + 1 \in 2..L
    BY <1>1, <1>3 DEF NumbersInv
  <2> QED
    BY <1>3, <2>1, <2>3, <2>4 DEF NumbersInv, main
<1>4. CASE i # 1
  <2>1. i = L /\ i \in 2..L /\ r.pc \in {"print", "exit", "exited"} /\ r.n \in Nat
        /\ r.buf = (IF r.pc = "print" THEN <<>> ELSE <<r.n + 1>>)
        /\ (r.pc \in {"print", "exit"} => main.pc = "wait" /\ main.child = L)
    <3>1. i \in 2..L /\ ~Gone(i)
      BY <1>1, <1>4, NotGoneStep
    <3> QED
      BY <1>1, <3>1 DEF NumbersInv
  <2>2. ASSUME NEW pc1 \in {"exit", "exited"}, Now(L, pc1, r.n, r.child, r.status, <<r.n + 1>>),
               r.pc \in {"print", "exit"}, failures' = failures,
               out' \in Seq(Nat), Len(out') = IF pc1 = "exit" THEN L - 2 ELSE L - 1,
               \A k \in 1..L - 2 : out'[k] = out[k], pc1 = "exited" => out'[L - 1] = r.n + 1
        PROVE  NumbersInv'
    <3>1. L' = L /\ procs'[L].pc = pc1 /\ procs'[L].n = r.n /\ procs'[L].buf = <<r.n + 1>>
          /\ \A j \in 1..L : j # L => procs'[j] = procs[j]
      BY <2>2 DEF Now
    <3>2. procs'[1] = procs[1] /\ L > 1
      BY <1>1, <1>4, <2>1, <3>1
    <3>3. Done = L - 2 /\ Done' = IF pc1 = "exit" THEN L - 2 ELSE L - 1
      BY <1>1, <2>1, <2>2, <3>1, <3>2 DEF Done, Gone
    <3>4. \A j \in 2..L : /\ procs'[j].n = procs[j].n /\ procs'[j].pc \in {"print", "exit", "exited"}
                          /\ procs'[j].buf = IF procs'[j].pc = "print" THEN <<>> ELSE <<procs'[j].n + 1>>
      <4>1. \A j \in 2..L : /\ procs[j].pc \in {"print", "exit", "exited"}
                            /\ procs[j].buf = IF procs[j].pc = "print" THEN <<>> ELSE <<procs[j].n + 1>>
        BY DEF NumbersInv
      <4>2. \A j \in 2..L : j # L => procs'[j] = procs[j]
        BY <1>1, <3>1
      <4> QED
        BY <2>1, <2>2, <3>1, <4>1, <4>2
    <3>5. \A k \in 1..Done' : out'[k] = procs'[k + 1].n + 1
      <4>1. \A k \in 1..Done' : k + 1 \in 2..L /\ (k \in 1..L - 2 \/ (k = L - 1 /\ pc1 = "exited"))
        BY <1>1, <3>3
      <4>2. L - 1 + 1 = L
        BY <1>1
      <4>3. \A k \in 1..L - 2 : out[k] = procs[k + 1].n + 1
        BY <3>3 DEF NumbersInv
      <4> SUFFICES ASSUME NEW k \in 1..Done' PROVE out'[k] = procs'[k + 1].n + 1
        OBVIOUS
      <4>4. CASE k \in 1..L - 2
        BY <2>2, <3>4, <4>1, <4>3, <4>4
      <4>5. CASE k = L - 1 /\ pc1 = "exited"
        BY <2>2, <3>1, <4>2, <4>5
      <4> QED
        BY <4>1, <4>4, <4>5
    <3>6. \A j \in 2..L :
            /\ procs'[j].n < main.n \/ (main.pc = "wait" /\ main.child = j /\ procs'[j].n = main.n)
            /\ \A k \in 2..L : j < k => procs'[j].n < procs'[k].n
      BY <3>4 DEF NumbersInv
    <3>7. main' = main /\ main.pc = "wait" /\ main.child = L
      BY <2>1, <2>2, <3>2 DEF main
    <3>8. Len(out') = Done'
      BY <2>2, <3>3
    <3> HIDE DEF Done
    <3> QED
      BY <2>2, <3>1, <3>4, <3>5, <3>6, <3>7, <3>8 DEF NumbersInv
  <2>3. CASE Proc!Printf(i)
    <3>1. r.pc = "print" /\ out' = out /\ failures' = failures
          /\ Now(i, "exit", r.n, r.child, r.status, Append(r.buf, Proc!Printed(i)))
      BY <2>3, PrintfMoves
    <3>2. Proc!Printed(i) = r.n + 1 /\ Append(r.buf, Proc!Printed(i)) = <<r.n + 1>>
      BY <1>4, <2>1, <3>1 DEF Proc!Printed, Proc!me
    <3>3. Len(out) = L - 2
      BY <1>1, <2>1, <3>1 DEF NumbersInv, Done, Gone
    <3> QED
      BY <1>2, <2>1, <2>2, <3>1, <3>2, <3>3
  <2>4. CASE Proc!Exit(i)
    <3>1. r.pc = "exit" /\ out' = out \o r.buf /\ failures' = failures
          /\ Now(i, "exited", r.n, r.child, r.status, r.buf)
      BY <2>4, ExitMoves
    <3>2. Len(out) = L - 2 /\ r.buf = <<r.n + 1>>
      BY <1>1, <2>1, <3>1 DEF NumbersInv, Done, Gone
    <3>3. out' = Append(out, r.n + 1)
      BY <1>2, <2>1, <3>1, <3>2
    <3>4. r.n + 1 \in Nat /\ L - 2 + 1 = L - 1 /\ L - 2 \in Nat
      BY <1>1, <1>4, <2>1
    <3>5. out' \in Seq(Nat) /\ Len(out') = L - 2 + 1 /\ out'[L - 2 + 1] = r.n + 1
          /\ \A k \in 1..L - 2 : out'[k] = out[k]
      BY <1>2, <3>2, <3>3, <3>4
    <3> QED
      BY <2>1, <2>2, <3>1, <3>2, <3>4, <3>5
  <2> QED
    BY <2>1, <2>3, <2>4 DEF Proc!Step, Proc!Fork, Proc!ForkFails, Proc!Waitpid, Proc!Scanf, Proc!Exec,
                            Proc!Executed, Proc!Remove, Proc!Read, Proc!me
<1>5. i = 1 /\ Runs(1) => \A j \in 2..L : procs[j].n < main.n
  BY DEF NumbersInv, Runs, Waits, main
<1>6. CASE i = 1 /\ Proc!Fork(i)
  <2>1. r = main /\ main.pc = "fork" /\ out' = out /\ failures' = failures /\ Forked(1, main.n)
    BY <1>6, ForkMoves DEF main
  <2>2. Runs(1) /\ Done = L - 1
    BY <1>1, <2>1 DEF Runs, Waits, Gone, main
  <2>3. PICK m \in Nat : m = L + 1
    BY <1>1
  <2>4. /\ L' = m /\ procs'[1].pc = "wait" /\ procs'[1].n = main.n /\ procs'[1].child = m
        /\ procs'[1].buf = main.buf /\ procs'[m].pc = "print" /\ procs'[m].n = main.n
        /\ procs'[m].buf = main.buf
        /\ \A j \in 2..L : procs'[j] = procs[j]
    BY <1>1, <2>1, <2>3 DEF Forked, Proc!ParentAt, Proc!ChildAt, main
  <2>5. Done' = L - 1
    BY <1>1, <2>3, <2>4 DEF Done, Gone
  <2>6. main.buf = <<>> /\ main.n < Size /\ Len(out) = L - 1 /\ L - 1 + failures = main.n
    BY <2>1, <2>2 DEF NumbersInv
  <2>7. \A j \in 2..m : j = m \/ (j \in 2..L /\ j # m /\ j < m)
    BY <1>1, <2>3
  <2>8. \A k \in 1..L - 1 : k + 1 \in 2..L
    BY <1>1
  <2>9. m - 1 + failures = main.n + 1
    BY <1>1, <2>3, <2>6
  <2>10. \A j \in 2..m :
       /\ procs'[j].pc \in {"print", "exit", "exited"}
       /\ procs'[j].buf = IF procs'[j].pc = "print" THEN <<>> ELSE <<procs'[j].n + 1>>
       /\ procs'[j].n < main.n \/ (m = j /\ procs'[j].n = main.n)
    BY <1>5, <1>6, <2>2, <2>4, <2>6, <2>7 DEF NumbersInv
  <2>11. \A j, k \in 2..m : j < k => procs'[j].n < procs'[k].n
    <3> SUFFICES ASSUME NEW j \in 2..m, NEW k \in 2..m, j < k PROVE procs'[j].n < procs'[k].n
      OBVIOUS
    <3>1. j \in 2..L /\ procs'[j] = procs[j]
      BY <1>1, <2>3, <2>4
    <3>2. k = m \/ (k \in 2..L /\ procs'[k] = procs[k])
      BY <2>4, <2>7
    <3>3. CASE k = m
      BY <1>5, <1>6, <2>2, <2>4, <3>1, <3>3
    <3>4. CASE k \in 2..L /\ procs'[k] = procs[k]
      BY <3>1, <3>4 DEF NumbersInv
    <3> QED
      BY <3>2, <3>3, <3>4
  <2>12. \A k \in 1..L - 1 : out[k] = procs'[k + 1].n + 1
    BY <2>2, <2>4, <2>8 DEF NumbersInv
  <2> QED
    BY <1>2, <2>1, <2>4, <2>5, <2>6, <2>9, <2>10, <2>11, <2>12 DEF NumbersInv, main
<1>7. CASE i = 1 /\ Proc!ForkFails(i)
  <2>1. r = main /\ main.pc = "fork" /\ out' = out /\ failures' = failures + 1
        /\ Now(1, "wait", main.n, 0, r.status, main.buf)
    BY <1>7, ForkFailsMoves DEF main, Proc!ParentAt
  <2>2. Runs(1) /\ Done = L - 1
    BY <1>1, <2>1 DEF Runs, Waits, Gone, main
  <2>3. main.buf = <<>> /\ main.n < Size /\ L - 1 + failures = main.n
    BY <2>1 DEF NumbersInv
  <2>4. L - 1 + failures' = main.n + 1 /\ failures' \in Nat
    BY <1>1, <2>1, <2>3
  <2> QED
    BY <1>3, <1>5, <1>7, <2>1, <2>2, <2>3, <2>4
<1>8. CASE i = 1 /\ Proc!Waitpid(i)
  <2> DEFINE pc1 == IF main.n + 1 = Size THEN "print" ELSE "fork"
             n1 == main.n + 1
  <2>1. r = main /\ main.pc = "wait" /\ Proc!ChildGone(1) /\ out' = out /\ failures' = failures
        /\ Now(1, pc1, n1, main.child, r.status, main.buf)
    BY <1>8, WaitpidMoves DEF main
  <2>2. RestGone(1)
    <3>1. CanGoOn(1)
      BY <2>1 DEF CanGoOn, Waits, main
    <3> QED
      BY <1>8, <3>1, RestIsGone
  <2>3. Done = L - 1
    <3>1. L > 1 => L \in 1 + 1..L
      BY <1>1
    <3> QED
      BY <2>2, <3>1 DEF RestGone, Done
  <2>4. main.n < Size /\ L - 1 + failures = main.n + 1 /\ main.buf = <<>>
    BY <2>1 DEF NumbersInv
  <2>5. \A j \in 2..L : procs[j].n < n1
    <3>1. \A j \in 2..L : procs[j].n < main.n \/ procs[j].n = main.n
      BY DEF NumbersInv
    <3>2. main.n \in Nat /\ \A j \in 2..L : procs[j].n \in Nat
      BY <1>1
    <3> QED
      BY <3>1, <3>2
  <2>6. pc1 \in {"fork", "print"} /\ IF pc1 = "fork" THEN n1 < Size ELSE n1 = Size
    BY <1>1, <1>2, <2>4
  <2> HIDE DEF pc1
  <2> QED
    BY <1>1, <1>3, <1>8, <2>1, <2>3, <2>4, <2>5, <2>6
<1>9. CASE i = 1 /\ Proc!Printf(i)
  <2>1. r = main /\ main.pc = "print" /\ out' = out /\ failures' = failures
        /\ Now(1, "exit", main.n, main.child, r.status, Append(main.buf, Proc!Printed(1)))
    BY <1>9, PrintfMoves DEF main
  <2>2. Runs(1) /\ Done = L - 1
    BY <1>1, <2>1 DEF Runs, Waits, Gone, main
  <2>3. main.buf = <<>> /\ main.n = Size /\ L - 1 + failures = main.n
    BY <2>1 DEF NumbersInv
  <2>4. Append(main.buf, Proc!Printed(1)) = <<0>>
    BY <2>3 DEF Proc!Printed, Proc!newline
  <2>5. \A j \in 2..L : procs[j].n < main.n
    BY <1>5, <1>9, <2>2
  <2>6. Now(1, "exit", main.n, main.child, r.status, <<0>>)
    BY <2>1, <2>4
  <2> QED
    BY <1>1, <1>3, <1>9, <2>1, <2>2, <2>3, <2>5, <2>6
<1>10. CASE i = 1 /\ Proc!Exit(i)
  <2>1. r = main /\ main.pc = "exit" /\ out' = out \o main.buf /\ failures' = failures
        /\ Now(1, "exited", main.n, main.child, r.status, main.buf)
    BY <1>10, ExitMoves DEF main
  <2>2. Runs(1) /\ Done = L - 1
    BY <1>1, <2>1 DEF Runs, Waits, Gone, main
  <2>3. main.buf = <<0>> /\ main.n = Size /\ L - 1 + failures = main.n /\ Len(out) = L - 1
    BY <2>1, <2>2 DEF NumbersInv
  <2>4. out' = Append(out, 0)
    BY <1>2, <2>1, <2>3
  <2>5. out' \in Seq(Nat) /\ Len(out') = L - 1 + 1 /\ out'[L - 1 + 1] = 0
        /\ \A k \in 1..L - 1 : out'[k] = out[k]
    BY <1>1, <1>2, <2>3, <2>4
  <2>6. L - 1 + 1 = L
    BY <1>1
  <2>7. L' = L /\ procs'[1].pc = "exited" /\ procs'[1].n = main.n /\ procs'[1].buf = main.buf
        /\ \A j \in 2..L : procs'[j] = procs[j]
    BY <1>1, <2>1 DEF Now
  <2>8. Done' = L - 1
    <3>1. Gone(L)'
      <4>1. L = 1 \/ L \in 2..L
        BY <1>1
      <4>2. L \in 2..L => Gone(L)
        BY <1>1, <2>1
      <4> QED
        BY <2>7, <4>1, <4>2 DEF Gone
    <3> QED
      BY <1>1, <2>7, <3>1 DEF Done
  <2>9. \A k \in 1..L - 1 : k + 1 \in 2..L
    BY <1>1
  <2>10. \A k \in 1..L - 1 : out'[k] = procs'[k + 1].n + 1
    BY <2>2, <2>5, <2>7, <2>9 DEF NumbersInv
  <2>11. \A j \in 2..L : procs[j].n < main.n
    BY <1>5, <1>10, <2>2
  <2>12. \A j \in 2..L :
       /\ procs'[j].pc \in {"print", "exit", "exited"}
       /\ procs'[j].buf = IF procs'[j].pc = "print" THEN <<>> ELSE <<procs'[j].n + 1>>
       /\ procs'[j].n < main.n
       /\ \A k \in 2..L : j < k => procs'[j].n < procs'[k].n
    <3>1. \A j \in 2..L :
       /\ procs[j].pc \in {"print", "exit", "exited"}
       /\ procs[j].buf = IF procs[j].pc = "print" THEN <<>> ELSE <<procs[j].n + 1>>
       /\ \A k \in 2..L : j < k => procs[j].n < procs[k].n
      BY DEF NumbersInv
    <3> QED
      BY <2>7, <2>11, <3>1
  <2>13. Len(out') = L
    BY <2>5, <2>6
  <2>14. main'.pc = "exited" /\ main'.n = main.n /\ main'.buf = main.buf
    BY <2>7 DEF main
  <2>15. out'[L] = 0
    BY <2>5, <2>6
  <2>16. L' = L /\ out' \in Seq(Nat) /\ failures' = failures
    BY <2>1, <2>5, <2>7
  <2>17. \A k \in 1..Done' : out'[k] = procs'[k + 1].n + 1
    BY <2>8, <2>10
  <2> QED
    BY <2>3, <2>12, <2>13, <2>14, <2>15, <2>16, <2>17 DEF NumbersInv
<1>11. i = 1 => r.pc \in {"fork", "wait", "print", "exit", "exited"}
  BY DEF NumbersInv, main
<1> QED
  BY <1>4, <1>6, <1>7, <1>8, <1>9, <1>10, <1>11
     DEF Proc!Step, Proc!Scanf, Proc!Exec, Proc!Executed, Proc!Remove, Proc!Read, Proc!me

(* Where no fork fails, main() waits for each process before the next.     *)
LEMMA WordsFacts ==
  ASSUME FamilyTypes, WordsInv, StackInv, failures = 0
  PROVE  /\ L \in Nat /\ L >= 1 /\ main.n \in Nat /\ left \in Nat
         /\ Size \in Nat /\ Buffer \in Nat /\ Buffer > 0
         /\ \A j \in 2..L : j \in 1..L /\ j # 1
         /\ \A j \in 2..L : ~Gone(j) => j = L /\ main.pc = "wait" /\ main.child = L
<1>1. L \in Nat /\ L >= 1 /\ left \in Nat /\ 1 \in 1..L /\ \A j \in 2..L : j \in 1..L /\ j # 1
  BY Members DEF FamilyTypes
<1>2. main.n \in Nat
  BY <1>1, Fields DEF main
<1>3. ASSUME NEW j \in 2..L, ~Gone(j) PROVE j = L /\ main.pc = "wait" /\ main.child = L
  <2>1. Waits(1) /\ main.child \in 2..L /\ ~Gone(main.child)
    BY <1>3, NotGoneIsParentOrRuns DEF main
  <2>2. main.pc = "wait" /\ main.child = L
    BY <1>1, <2>1 DEF WordsInv, Waits, main
  <2>3. \A k \in 1 + 1..L - 1 : Gone(k)
    BY <1>1, <2>1, <2>2 DEF StackInv, InOrder, main
  <2>4. j \in 1 + 1..L - 1 \/ j = L
    BY <1>1
  <2> QED
    BY <1>3, <2>2, <2>3, <2>4
<1> QED
  BY <1>1, <1>2, <1>3, FamilyAssumptions

LEMMA CountedNext ==
  ASSUME left \in Nat, Size \in Nat, Buffer \in Nat, Buffer > 0, NEW k \in Nat, UNCHANGED given,
         left > 0, Counted(k),
         left' = IF given.seekable THEN left - 1 ELSE IF left < Buffer THEN 0 ELSE left - Buffer
  PROVE  Counted(k + 1)'
<1>1. CASE given.seekable
  BY <1>1 DEF Counted
<1>2. CASE ~given.seekable
  <2>1. PICK x \in Nat : x = k * Buffer
    OBVIOUS
  <2>2. (k + 1) * Buffer = x + Buffer
    BY <2>1
  <2>3. left + x = Size
    BY <1>2, <2>1 DEF Counted
  <2>4. IF left' > 0 THEN left' + (x + Buffer) = Size ELSE Size <= x + Buffer /\ x + Buffer < Size + Buffer
    BY <1>2, <2>3
  <2> QED
    BY <1>2, <2>2, <2>4 DEF Counted
<1> QED
  BY <1>1, <1>2

LEMMA WordsStep ==
  ASSUME FamilyTypes, WordsInv, parent = "words", StackInv, NEW i \in 1..L, Proc!Step(i)
  PROVE  WordsInv'
<1> SUFFICES ASSUME failures' = 0 PROVE WordsInv'
  BY DEF WordsInv
<1> DEFINE r == procs[i]
<1>1. CASE failures # 0
  <2>1. failures' = failures \/ failures' = failures + 1
    BY DEF Proc!Step, Proc!Fork, Proc!ForkFails, Proc!Waitpid, Proc!Printf, Proc!Exit, Proc!Scanf,
           Proc!Exec, Proc!Executed, Proc!Remove, Proc!Read
  <2> QED
    BY <1>1, <2>1 DEF FamilyTypes
<1>2. CASE failures = 0
  <2>1. /\ L \in Nat /\ L >= 1 /\ main.n \in Nat /\ left \in Nat
        /\ Size \in Nat /\ Buffer \in Nat /\ Buffer > 0
        /\ \A j \in 2..L : j \in 1..L /\ j # 1
        /\ \A j \in 2..L : ~Gone(j) => j = L /\ main.pc = "wait" /\ main.child = L
        /\ i = 1 \/ i \in 2..L
    BY <1>2, WordsFacts
  <2>2. /\ main.pc \in {"fork", "wait", "print", "exit", "exited"}
        /\ main.buf = IF main.pc \in {"exit", "exited"} THEN <<main.n>> ELSE <<>>
        /\ out = IF main.pc = "exited" THEN <<main.n>> ELSE <<>>
        /\ \A j \in 2..L : procs[j].pc \in {"scanf", "exit", "exited"} /\ procs[j].buf = <<>>
        /\ main.pc = "wait" => main.child = L /\ L > 1
    BY <1>2 DEF WordsInv
  <2>3. /\ main.pc = "wait" /\ procs[L].pc # "scanf" /\ procs[L].status = 1 => Counted(main.n + 1)
        /\ main.pc = "wait" /\ procs[L].pc # "scanf" /\ procs[L].status = 0 => Counted(main.n) /\ left = 0
        /\ main.pc = "wait" /\ procs[L].pc = "scanf" => Counted(main.n)
        /\ main.pc = "fork" => Counted(main.n)
        /\ main.pc \in {"print", "exit", "exited"} => Counted(main.n) /\ left = 0
    BY <1>2 DEF WordsInv
  <2>4. ~Gone(i)
    BY NotGoneStep
  <2>5. ASSUME UNCHANGED <<left, given>>, NEW k \in Nat, Counted(k) PROVE Counted(k)'
    BY <2>5 DEF Counted
  <2>6. PICK n0 \in Nat : n0 = main.n
    BY <2>1
  <2>7. CASE i # 1
    <3>1. i = L /\ i \in 2..L /\ main.pc = "wait" /\ main.child = L /\ L > 1 /\ out = <<>>
          /\ r.pc \in {"scanf", "exit"} /\ r.buf = <<>>
      BY <2>1, <2>2, <2>4, <2>7 DEF Gone
    <3>2. ASSUME NEW pc1 \in {"exit", "exited"}, NEW status1, Now(L, pc1, r.n, r.child, status1, <<>>),
                 out' = <<>>, status1 = 1 => Counted(n0 + 1)', status1 = 0 => Counted(n0)' /\ left' = 0
          PROVE  WordsInv'
      <4>1. L' = L /\ procs'[L].pc = pc1 /\ procs'[L].buf = <<>> /\ procs'[L].status = status1
            /\ \A j \in 1..L : j # L => procs'[j] = procs[j]
        BY <3>2 DEF Now
      <4>2. main' = main
        BY <2>1, <3>1, <4>1 DEF main
      <4>3. \A j \in 2..L : procs'[j].pc \in {"scanf", "exit", "exited"} /\ procs'[j].buf = <<>>
        BY <2>1, <2>2, <4>1, <3>2
      <4>4. status1 = 1 => Counted(main.n + 1)'
        BY <2>6, <3>2, <4>2 DEF Counted
      <4>5. status1 = 0 => Counted(main.n)' /\ left' = 0
        BY <2>6, <3>2, <4>2 DEF Counted
      <4> QED
        BY <2>2, <3>1, <3>2, <4>1, <4>2, <4>3, <4>4, <4>5 DEF WordsInv
    <3>3. CASE Proc!Scanf(i)
      <4>1. /\ r.pc = "scanf" /\ UNCHANGED <<given, out>>
            /\ left' = IF left = 0 THEN 0 ELSE IF given.seekable THEN left - 1
                       ELSE IF left < Buffer THEN 0 ELSE left - Buffer
            /\ Now(i, "exit", r.n, r.child, IF left = 0 THEN 0 ELSE 1, r.buf)
        BY <3>3, ScanfMoves
      <4>2. Counted(n0)
        BY <2>3, <2>6, <3>1, <4>1
      <4>3. CASE left = 0
        <5>1. Counted(n0)' /\ left' = 0
          BY <2>5, <2>6, <4>1, <4>2, <4>3
        <5>2. Now(L, "exit", r.n, r.child, 0, <<>>)
          BY <3>1, <4>1, <4>3
        <5> QED
          BY <3>1, <3>2, <4>1, <5>1, <5>2
      <4>4. CASE left # 0
        <5>1. Counted(n0 + 1)'
          BY <2>1, <2>6, <4>1, <4>2, <4>4, CountedNext
        <5>2. Now(L, "exit", r.n, r.child, 1, <<>>)
          BY <3>1, <4>1, <4>4
        <5> QED
          BY <3>1, <3>2, <4>1, <5>1, <5>2
      <4> QED
        BY <4>3, <4>4
    <3>4. CASE Proc!Exit(i)
      <4>1. r.pc = "exit" /\ out' = out \o r.buf /\ UNCHANGED <<left, given>>
            /\ Now(L, "exited", r.n, r.child, r.status, <<>>)
        BY <3>1, <3>4, ExitMoves
      <4>2. out' = <<>>
        BY <3>1, <4>1
      <4>3. (r.status = 1 => Counted(n0 + 1)) /\ (r.status = 0 => Counted(n0) /\ left = 0)
        BY <2>3, <2>6, <3>1, <4>1
      <4>4. (r.status = 1 => Counted(n0 + 1)') /\ (r.status = 0 => Counted(n0)' /\ left' = 0)
        BY <2>5, <2>6, <4>1, <4>3
      <4> QED
        BY <3>2, <4>1, <4>2, <4>4
    <3> QED
      BY <3>1, <3>3, <3>4 DEF Proc!Step, Proc!Fork, Proc!ForkFails, Proc!Waitpid, Proc!Printf, Proc!Exec,
                              Proc!Executed, Proc!Remove, Proc!Read, Proc!me
  <2>8. ASSUME i = 1, NEW pc1, NEW n1 \in Nat, NEW child1, NEW status1, NEW buf1,
               Now(1, pc1, n1, child1, status1, buf1), pc1 \in {"fork", "print", "exit", "exited"},
               buf1 = IF pc1 \in {"exit", "exited"} THEN <<n1>> ELSE <<>>,
               out' = IF pc1 = "exited" THEN <<n1>> ELSE <<>>,
               Counted(n1)', pc1 # "fork" => left' = 0
        PROVE  WordsInv'
    <3>1. L' = L /\ main'.pc = pc1 /\ main'.n = n1 /\ main'.buf = buf1
          /\ \A j \in 2..L : procs'[j] = procs[j]
      BY <2>1, <2>8 DEF Now, main
    <3>2. Counted(main.n)'
      BY <2>8, <3>1 DEF Counted
    <3>3. \A j \in 2..L : procs'[j].pc \in {"scanf", "exit", "exited"} /\ procs'[j].buf = <<>>
      BY <2>2, <3>1
    <3>4. main'.pc # "wait"
      BY <2>8, <3>1
    <3> QED
      BY <2>8, <3>1, <3>2, <3>3, <3>4 DEF WordsInv
  <2>9. CASE i = 1 /\ Proc!Fork(i)
    <3>1. r = main /\ main.pc = "fork" /\ UNCHANGED <<left, given, out>> /\ Forked(1, main.n)
      BY <2>9, ForkMoves DEF main
    <3>2. PICK m \in Nat : m = L + 1
      BY <2>1
    <3>3. /\ L' = m /\ m > 1 /\ main'.pc = "wait" /\ main'.child = m /\ main'.n = n0 /\ main'.buf = main.buf
          /\ procs'[m].pc = "scanf" /\ procs'[m].buf = main.buf
          /\ \A j \in 2..L : procs'[j] = procs[j]
      BY <2>1, <2>6, <3>1, <3>2 DEF Forked, Proc!ParentAt, Proc!ChildAt, main
    <3>4. main.buf = <<>> /\ out = <<>> /\ Counted(n0)
      BY <2>2, <2>3, <2>6, <3>1
    <3>5. Counted(n0)'
      BY <2>5, <2>6, <3>1, <3>4
    <3>6. Counted(main.n)'
      BY <3>3, <3>5 DEF Counted
    <3>7. \A j \in 2..m : j = m \/ j \in 2..L
      BY <2>1, <3>2
    <3>8. \A j \in 2..m : procs'[j].pc \in {"scanf", "exit", "exited"} /\ procs'[j].buf = <<>>
      BY <2>2, <3>3, <3>4, <3>7
    <3> QED
      BY <3>1, <3>3, <3>4, <3>6, <3>8 DEF WordsInv
  <2>10. CASE i = 1 /\ Proc!ForkFails(i)
    BY <1>2, <2>10, ForkFailsMoves
  <2>11. CASE i = 1 /\ Proc!Waitpid(i)
    <3>1. r = main /\ main.pc = "wait" /\ main.child = L /\ L > 1 /\ out = <<>> /\ main.buf = <<>>
      BY <2>2, <2>11, WaitpidMoves DEF main
    <3>2. procs[L].pc = "exited" /\ Proc!Status(1) = {procs[L].status} /\ UNCHANGED <<left, given, out>>
      BY <2>11, <3>1, WaitpidMoves DEF Proc!ChildGone, Proc!Status, Proc!me, Proc!NoChild, main
    <3>3. \/ procs[L].status = 0 /\ Now(1, "print", n0, main.child, r.status, <<>>)
          \/ procs[L].status = 1 /\ Now(1, "fork", n0 + 1, main.child, r.status, <<>>)
      <4>1. \/ 0 \in Proc!Status(i) /\ Now(i, "print", r.n, r.child, r.status, r.buf)
            \/ 1 \in Proc!Status(i) /\ Now(i, "fork", r.n + 1, r.child, r.status, r.buf)
        BY <2>11, WaitpidMoves
      <4> QED
        BY <2>6, <2>11, <3>1, <3>2, <4>1
    <3>4. CASE procs[L].status = 0 /\ Now(1, "print", n0, main.child, r.status, <<>>)
      <4>1. Counted(n0) /\ left = 0
        BY <2>3, <2>6, <3>1, <3>2, <3>4
      <4>2. Counted(n0)' /\ left' = 0 /\ out' = <<>>
        BY <2>5, <2>6, <3>1, <3>2, <4>1
      <4> QED
        BY <2>6, <2>8, <2>11, <3>4, <4>2
    <3>5. CASE procs[L].status = 1 /\ Now(1, "fork", n0 + 1, main.child, r.status, <<>>)
      <4>1. Counted(n0 + 1) /\ n0 + 1 \in Nat
        BY <2>3, <2>6, <3>1, <3>2, <3>5
      <4>2. Counted(n0 + 1)' /\ out' = <<>>
        BY <2>5, <3>1, <3>2, <4>1
      <4> QED
        BY <2>8, <2>11, <3>5, <4>1, <4>2
    <3> QED
      BY <3>3, <3>4, <3>5
  <2>12. CASE i = 1 /\ Proc!Printf(i)
    <3>1. r = main /\ main.pc = "print" /\ UNCHANGED <<left, given, out>>
          /\ Now(1, "exit", main.n, main.child, r.status, Append(main.buf, Proc!Printed(1)))
      BY <2>12, PrintfMoves DEF main
    <3>2. main.buf = <<>> /\ out = <<>> /\ Counted(n0) /\ left = 0 /\ Proc!Printed(1) = n0
      BY <2>2, <2>3, <2>6, <3>1 DEF Proc!Printed, Proc!me, main
    <3>3. Append(main.buf, Proc!Printed(1)) = <<n0>>
      BY <3>2
    <3>4. Counted(n0)'
      BY <2>5, <2>6, <3>1, <3>2
    <3>5. Now(1, "exit", n0, main.child, r.status, <<n0>>)
      BY <2>6, <3>1, <3>3
    <3> QED
      BY <2>6, <2>8, <2>12, <3>1, <3>2, <3>4, <3>5
  <2>13. CASE i = 1 /\ Proc!Exit(i)
    <3>1. r = main /\ main.pc = "exit" /\ UNCHANGED <<left, given>> /\ out' = out \o main.buf
          /\ Now(1, "exited", main.n, main.child, r.status, main.buf)
      BY <2>13, ExitMoves DEF main
    <3>2. main.buf = <<n0>> /\ out = <<>> /\ Counted(n0) /\ left = 0
      BY <2>2, <2>3, <2>6, <3>1
    <3>3. out' = <<n0>>
      BY <3>1, <3>2
    <3>4. Counted(n0)'
      BY <2>5, <2>6, <3>1, <3>2
    <3>5. Now(1, "exited", n0, main.child, r.status, <<n0>>)
      BY <2>6, <3>1, <3>2
    <3> QED
      BY <2>6, <2>8, <2>13, <3>1, <3>2, <3>3, <3>4, <3>5
  <2>14. i = 1 => r.pc \in {"fork", "wait", "print", "exit", "exited"}
    BY <2>2 DEF main
  <2> QED
    BY <2>7, <2>9, <2>10, <2>11, <2>12, <2>13, <2>14
       DEF Proc!Step, Proc!Scanf, Proc!Exec, Proc!Executed, Proc!Remove, Proc!Read, Proc!me
<1> QED
  BY <1>1, <1>2

LEMMA StepGoesOn ==
  ASSUME NEW i, Proc!Step(i), procs[i].pc # "read"
  PROVE  CanGoOn(i)
<1>1. Waits(i) => Proc!ChildGone(i)
  BY DEF Waits, Proc!Step, Proc!Fork, Proc!ForkFails, Proc!Waitpid, Proc!Printf, Proc!Exit, Proc!Scanf,
         Proc!Exec, Proc!Executed, Proc!Remove, Proc!Read, Proc!me
<1> QED
  BY <1>1, NotGoneStep DEF CanGoOn, Runs

(* The steps of 12_exec/1.                                                 *)
GccMove(i) ==
  LET r == procs[i]
      Becomes(pc1, n1, child1) == Now(i, pc1, n1, child1, r.status, <<>>)
  IN
  \/ r.pc = "fork" /\ Forked(i, r.n) /\ UNCHANGED <<temp, out, failures>>
  \/ r.pc = "fork" /\ Becomes("wait", r.n, 0) /\ failures' = failures + 1 /\ UNCHANGED <<temp, out>>
  \/ /\ r.pc = "wait" /\ UNCHANGED <<temp, out, failures>>
     /\ Becomes(IF r.n = 1 THEN "fork" ELSE "remove", 2, 0)
  \/ /\ r.pc = "exec" /\ UNCHANGED <<temp, out, failures>>
     /\ Becomes(IF Proc!CanExecute(i) THEN "executed" ELSE "wait", r.n, r.child)
  \/ /\ r.pc = "executed" /\ r.n = 1 /\ Becomes("exited", r.n, r.child) /\ UNCHANGED <<out, failures>>
     /\ temp' \in (IF given.correct THEN {"new"} ELSE {temp, "none"})
  \/ /\ r.pc = "executed" /\ r.n = 2 /\ Becomes("exited", r.n, r.child)
     /\ out' = Append(out, temp) /\ UNCHANGED <<temp, failures>>
  \/ r.pc = "remove" /\ Becomes("exit", r.n, r.child) /\ temp' = "none" /\ UNCHANGED <<out, failures>>
  \/ r.pc = "exit" /\ Becomes("exited", r.n, r.child) /\ UNCHANGED <<temp, out, failures>>

LEMMA GccMoves ==
  ASSUME FamilyTypes, GccTypes, parent = "gcc", StackInv, NEW i \in 1..L, Proc!Step(i)
  PROVE  GccMove(i) /\ UNCHANGED given /\ CanGoOn(i)
<1> DEFINE r == procs[i]
<1>1. /\ out \in Seq({"none", "old", "new"}) /\ r.n \in {1, 2} /\ r.buf = <<>>
      /\ r.pc \in {"fork", "wait", "exec", "executed", "remove", "exit", "exited"}
  BY DEF GccTypes
<1>2. CanGoOn(i)
  BY <1>1, StepGoesOn
<1>3. CASE Proc!Fork(i)
  BY <1>2, <1>3, ForkMoves DEF GccMove
<1>4. CASE Proc!ForkFails(i)
  BY <1>1, <1>2, <1>4, ForkFailsMoves DEF GccMove, Proc!ParentAt
<1>5. CASE Proc!Waitpid(i)
  BY <1>1, <1>2, <1>5, WaitpidMoves DEF GccMove
<1>6. CASE Proc!Exit(i)
  <2>1. out \o <<>> = out
    BY <1>1
  <2> QED
    BY <1>1, <1>2, <1>6, <2>1, ExitMoves DEF GccMove
<1>7. CASE Proc!Exec(i)
  BY <1>1, <1>2, <1>7, ExecMoves DEF GccMove
<1>8. CASE Proc!Executed(i)
  BY <1>1, <1>2, <1>8, ExecutedMoves DEF GccMove
<1>9. CASE Proc!Remove(i)
  BY <1>1, <1>2, <1>9, RemoveMoves DEF GccMove
<1> QED
  BY <1>1, <1>3, <1>4, <1>5, <1>6, <1>7, <1>8, <1>9
     DEF Proc!Step, Proc!Printf, Proc!Scanf, Proc!Read, Proc!me

LEMMA GccTypesStep ==
  ASSUME FamilyTypes, GccTypes, RunOnce, NEW i \in 1..L, GccMove(i), parent = "gcc"
  PROVE  GccTypes'
<1> DEFINE r == procs[i]
<1>1. /\ out \in Seq({"none", "old", "new"}) /\ Len(out) <= 1
      /\ main.pc \in {"fork", "wait", "remove", "exit", "exited"}
      /\ \A j \in 1..L :
           /\ procs[j].pc \in {"fork", "wait", "exec", "executed", "remove", "exit", "exited"}
           /\ procs[j].n \in {1, 2} /\ procs[j].buf = <<>>
      /\ 1 \in 1..L /\ L \in Nat
  BY Members DEF GccTypes
<1>2. out' \in Seq({"none", "old", "new"}) /\ Len(out') <= 1
  <2>1. CASE out' = out
    BY <1>1, <2>1
  <2>2. CASE r.pc = "executed" /\ out' = Append(out, temp)
    <3>1. out = <<>>
      BY <2>2 DEF RunOnce
    <3>2. temp \in {"none", "old", "new"} /\ out' = <<temp>>
      BY <2>2, <3>1 DEF FamilyTypes
    <3> QED
      BY <3>2
  <2> QED
    BY <2>1, <2>2 DEF GccMove
<1>3. CASE Forked(i, r.n)
  <2>1. PICK m \in Nat : m = L + 1
    BY <1>1
  <2>2. /\ L' = m /\ procs'[i].pc = "wait" /\ procs'[i].n = r.n /\ procs'[i].buf = <<>>
        /\ procs'[m].pc = "exec" /\ procs'[m].n = r.n /\ procs'[m].buf = <<>>
        /\ \A j \in 1..L : j # i => procs'[j] = procs[j]
    BY <1>1, <1>3, <2>1 DEF Forked, Proc!ParentAt, Proc!ChildAt
  <2>3. \A j \in 1..m : j = m \/ j \in 1..L
    BY <1>1, <2>1
  <2>4. main'.pc \in {"fork", "wait", "remove", "exit", "exited"}
    BY <1>1, <2>2 DEF main
  <2>5. \A j \in 1..m :
           /\ procs'[j].pc \in {"fork", "wait", "exec", "executed", "remove", "exit", "exited"}
           /\ procs'[j].n \in {1, 2} /\ procs'[j].buf = <<>>
    BY <1>1, <2>2, <2>3
  <2> QED
    BY <1>2, <2>2, <2>4, <2>5 DEF GccTypes
<1>4. ASSUME NEW pc1 \in {"fork", "wait", "executed", "remove", "exit", "exited"}, NEW n1 \in {1, 2},
             NEW child1, NEW status1, Now(i, pc1, n1, child1, status1, <<>>),
             pc1 = "executed" => r.pc = "exec"
      PROVE  GccTypes'
  <2>1. L' = L /\ procs'[i].pc = pc1 /\ procs'[i].n = n1 /\ procs'[i].buf = <<>>
        /\ \A j \in 1..L : j # i => procs'[j] = procs[j]
    BY <1>4 DEF Now
  <2>2. main'.pc \in {"fork", "wait", "remove", "exit", "exited"}
    BY <1>1, <1>4, <2>1 DEF main
  <2>3. \A j \in 1..L :
           /\ procs'[j].pc \in {"fork", "wait", "exec", "executed", "remove", "exit", "exited"}
           /\ procs'[j].n \in {1, 2} /\ procs'[j].buf = <<>>
    BY <1>1, <1>4, <2>1
  <2> QED
    BY <1>2, <2>1, <2>2, <2>3 DEF GccTypes
<1>5. CASE \E pc1, n1, child1 : Now(i, pc1, n1, child1, r.status, <<>>)
             /\ pc1 \in {"fork", "wait", "executed", "remove", "exit", "exited"}
             /\ n1 \in {1, 2} /\ (pc1 = "executed" => r.pc = "exec")
  BY <1>4, <1>5
<1>6. r.n \in {1, 2}
  BY <1>1
<1>7. \/ Forked(i, r.n)
      \/ \E pc1, n1, child1 : Now(i, pc1, n1, child1, r.status, <<>>)
             /\ pc1 \in {"fork", "wait", "executed", "remove", "exit", "exited"}
             /\ n1 \in {1, 2} /\ (pc1 = "executed" => r.pc = "exec")
  BY <1>6 DEF GccMove
<1> QED
  BY <1>3, <1>5, <1>7

(* Only the process that goes on is in the middle of something.            *)
LEMMA OthersIdle ==
  ASSUME FamilyTypes, StackInv, NEW i \in 1..L, CanGoOn(i)
  PROVE  /\ \A j \in 1..L : j # i =>
              procs[j].pc \notin {"fork", "exec", "executed", "remove", "exit"} /\ ~Removing(j)
         /\ i # 1 => main.pc \notin {"exit", "exited"}
         /\ ~Gone(i) /\ 1 \in 1..L /\ L \in Nat
<1>1. \A j \in 1..L : j # i => ~CanGoOn(j)
  BY OneGoesOn
<1>2. \A j \in 1..L :
        procs[j].pc \in {"fork", "exec", "executed", "remove", "exit"} \/ Removing(j) => CanGoOn(j)
  BY DEF CanGoOn, Removing, Runs, Waits, Gone
<1>3. ~Gone(i) /\ 1 \in 1..L /\ L \in Nat
  BY RestIsGone, Members
<1>4. i # 1 => ~Gone(1)
  <2>1. i # 1 => i \in 1 + 1..L
    BY <1>3
  <2> QED
    BY <1>3, <2>1 DEF StackInv, RestGone
<1> QED
  BY <1>1, <1>2, <1>3, <1>4 DEF Gone, main

LEMMA RunOnceStep ==
  ASSUME FamilyTypes, GccTypes, RunOnce, StackInv, NEW i \in 1..L, CanGoOn(i), GccMove(i), parent = "gcc"
  PROVE  RunOnce'
<1> DEFINE r == procs[i]
<1>1. /\ \A j \in 1..L : j # i =>
            procs[j].pc \notin {"fork", "exec", "executed", "remove", "exit"} /\ ~Removing(j)
      /\ i # 1 => main.pc \notin {"exit", "exited"}
      /\ 1 \in 1..L /\ L \in Nat
  BY OthersIdle
<1>2. r.n \in {1, 2} /\ temp \in {"none", "old", "new"}
  BY DEF GccTypes, FamilyTypes
<1>3. ASSUME out # <<>>, temp # "none" PROVE Removing(i)
  BY <1>1, <1>3 DEF RunOnce
<1>4. ASSUME NEW pc1, NEW n1, NEW child1, NEW status1, Now(i, pc1, n1, child1, status1, <<>>),
             pc1 # "exec", pc1 = "fork" => n1 = 2, pc1 = "executed" => out' = <<>>,
             pc1 = "executed" /\ n1 = 2 => \E k \in 1..L : k # i /\ AwaitedBy(i, k),
             out' # <<>> /\ temp' # "none" => \E k \in 1..L : Removing(k)',
             i = 1 /\ pc1 \in {"exit", "exited"} => temp' = "none"
      PROVE  RunOnce'
  <2>1. L' = L /\ procs'[i].pc = pc1 /\ procs'[i].n = n1
        /\ \A j \in 1..L : j # i => procs'[j] = procs[j]
    BY <1>4 DEF Now
  <2>2. ASSUME NEW j \in 1..L PROVE
       /\ procs'[j].pc \in {"fork", "exec"} /\ procs'[j].n = 1 => out' = <<>>
       /\ procs'[j].pc = "executed" => out' = <<>>
       /\ procs'[j].pc \in {"exec", "executed"} /\ procs'[j].n = 2 => \E k \in 1..L : AwaitedBy(j, k)'
    <3>1. CASE j # i
      BY <1>1, <2>1, <3>1
    <3>2. CASE j = i
      <4>1. pc1 = "executed" /\ n1 = 2 => \E k \in 1..L : AwaitedBy(i, k)'
        BY <1>4, <2>1 DEF AwaitedBy
      <4> QED
        BY <1>4, <2>1, <3>2, <4>1
    <3> QED
      BY <3>1, <3>2
  <2>3. main'.pc \in {"exit", "exited"} => temp' = "none"
    BY <1>1, <1>4, <2>1 DEF main
  <2> QED
    BY <1>4, <2>1, <2>2, <2>3 DEF RunOnce
<1>5. CASE r.pc = "fork" /\ Forked(i, r.n) /\ UNCHANGED <<temp, out>>
  <2>1. PICK m \in Nat : m = L + 1
    BY <1>1
  <2>2. /\ L' = m /\ procs'[i].pc = "wait" /\ procs'[i].n = r.n /\ procs'[i].child = m
        /\ procs'[m].pc = "exec" /\ procs'[m].n = r.n
        /\ \A j \in 1..L : j # i => procs'[j] = procs[j]
    BY <1>5, <2>1 DEF Forked, Proc!ParentAt, Proc!ChildAt
  <2>3. i \in 1..m /\ \A j \in 1..m : j = m \/ j \in 1..L
    BY <1>1, <2>1
  <2>4. out = <<>> \/ temp = "none"
    BY <1>3, <1>5 DEF Removing
  <2>5. r.n = 1 => out = <<>>
    BY <1>5 DEF RunOnce
  <2>6. ASSUME NEW j \in 1..m PROVE
       /\ procs'[j].pc \in {"fork", "exec"} /\ procs'[j].n = 1 => out' = <<>>
       /\ procs'[j].pc = "executed" => out' = <<>>
       /\ procs'[j].pc \in {"exec", "executed"} /\ procs'[j].n = 2 => \E k \in 1..m : AwaitedBy(j, k)'
    <3>1. CASE j = m
      <4>1. r.n = 2 => AwaitedBy(m, i)'
        BY <2>2 DEF AwaitedBy
      <4> QED
        BY <1>5, <2>2, <2>3, <2>5, <3>1, <4>1
    <3>2. CASE j \in 1..L
      BY <1>1, <2>2, <3>2
    <3> QED
      BY <2>3, <3>1, <3>2
  <2>7. main'.pc \notin {"exit", "exited"}
    BY <1>1, <2>2 DEF main
  <2> QED
    BY <1>5, <2>2, <2>4, <2>6, <2>7 DEF RunOnce
<1>6. CASE r.pc = "fork" /\ Now(i, "wait", r.n, 0, r.status, <<>>) /\ UNCHANGED <<temp, out>>
  <2>1. out = <<>> \/ temp = "none"
    BY <1>3, <1>6 DEF Removing
  <2> QED
    BY <1>4, <1>6, <2>1
<1>7. CASE /\ r.pc = "wait" /\ UNCHANGED <<temp, out>>
           /\ Now(i, IF r.n = 1 THEN "fork" ELSE "remove", 2, 0, r.status, <<>>)
  <2>1. out # <<>> /\ temp # "none" => Removing(i)'
    <3>1. Removing(i) => r.n = 2
      BY DEF Removing
    <3>2. r.n = 2 => procs'[i].pc = "remove" /\ procs'[i].n = 2
      BY <1>7 DEF Now
    <3> QED
      BY <1>3, <3>1, <3>2 DEF Removing
  <2> DEFINE pc1 == IF r.n = 1 THEN "fork" ELSE "remove"
  <2>2. pc1 \in {"fork", "remove"}
    OBVIOUS
  <2>3. Now(i, pc1, 2, 0, r.status, <<>>)
    BY <1>7
  <2> HIDE DEF pc1
  <2> QED
    BY <1>4, <1>7, <2>1, <2>2, <2>3
<1>8. CASE /\ r.pc = "exec" /\ UNCHANGED <<temp, out>>
           /\ Now(i, IF Proc!CanExecute(i) THEN "executed" ELSE "wait", r.n, r.child, r.status, <<>>)
  <2>1. out = <<>> \/ temp = "none"
    BY <1>3, <1>8 DEF Removing
  <2>2. Proc!CanExecute(i) => out = <<>>
    BY <1>2, <1>8, <2>1 DEF Proc!CanExecute, Proc!me, RunOnce
  <2>3. r.n = 2 => \E k \in 1..L : k # i /\ AwaitedBy(i, k)
    <3>1. r.n = 2 => \E k \in 1..L : AwaitedBy(i, k)
      BY <1>8 DEF RunOnce
    <3> QED
      BY <1>8, <3>1 DEF AwaitedBy
  <2> DEFINE pc1 == IF Proc!CanExecute(i) THEN "executed" ELSE "wait"
  <2>4. pc1 = "executed" \/ pc1 = "wait"
    OBVIOUS
  <2>5. pc1 = "executed" => out' = <<>>
    BY <1>8, <2>2
  <2>6. Now(i, pc1, r.n, r.child, r.status, <<>>)
    BY <1>8
  <2> HIDE DEF pc1
  <2> QED
    BY <1>4, <1>8, <2>1, <2>3, <2>4, <2>5, <2>6
<1>9. CASE r.pc = "executed" /\ r.n = 1 /\ Now(i, "exited", r.n, r.child, r.status, <<>>) /\ UNCHANGED out
  <2>1. out = <<>>
    BY <1>9 DEF RunOnce
  <2>2. i # 1
    BY <1>9 DEF GccTypes, main
  <2> QED
    BY <1>4, <1>9, <2>1, <2>2
<1>10. CASE r.pc = "executed" /\ r.n = 2 /\ Now(i, "exited", r.n, r.child, r.status, <<>>)
  <2>1. PICK k \in 1..L : AwaitedBy(i, k)
    BY <1>10 DEF RunOnce
  <2>2. k # i
    BY <1>10, <2>1 DEF AwaitedBy
  <2>3. Removing(k)'
    <3>1. procs'[k] = procs[k] /\ procs'[i].pc = "exited"
      BY <1>10, <2>2 DEF Now
    <3> QED
      BY <2>1, <3>1 DEF AwaitedBy, Removing, Proc!ChildGone, Proc!me
  <2>4. i # 1
    BY <1>10 DEF GccTypes, main
  <2> QED
    BY <1>4, <1>10, <2>3, <2>4
<1>11. CASE r.pc = "remove" /\ Now(i, "exit", r.n, r.child, r.status, <<>>) /\ temp' = "none"
  BY <1>4, <1>11
<1>12. CASE r.pc = "exit" /\ Now(i, "exited", r.n, r.child, r.status, <<>>) /\ UNCHANGED <<temp, out>>
  <2>1. out = <<>> \/ temp = "none"
    BY <1>3, <1>12 DEF Removing
  <2>2. i = 1 => temp = "none"
    BY <1>12 DEF RunOnce, main
  <2> QED
    BY <1>4, <1>12, <2>1, <2>2
<1> QED
  BY <1>5, <1>6, <1>7, <1>8, <1>9, <1>10, <1>11, <1>12 DEF GccMove

LEMMA NothingFailsStep ==
  ASSUME FamilyTypes, GccTypes, NothingFails, StackInv, NEW i \in 1..L, CanGoOn(i), GccMove(i),
         parent = "gcc", UNCHANGED given
  PROVE  NothingFails'
<1> DEFINE r == procs[i]
<1> SUFFICES ASSUME given.executable, given.correct, failures' = 0 PROVE NothingFails'
  BY DEF NothingFails
<1>1. failures = 0
  BY DEF GccMove, FamilyTypes
<1>2. /\ \A j \in 2..L : procs[j].pc \in {"exec", "executed", "exited"}
      /\ main.pc = "wait" => main.child = L /\ L > 1 /\ procs[L].n = main.n
      /\ main.pc = "wait" /\ main.n = 1 => out = <<>> /\ (Gone(L) => temp = "new")
      /\ main.pc = "wait" /\ main.n = 2 => IF Gone(L) THEN out = <<"new">> ELSE temp = "new" /\ out = <<>>
      /\ main.pc = "fork" => out = <<>> /\ (main.n = 2 => temp = "new")
      /\ main.pc \in {"remove", "exit", "exited"} => out = <<"new">>
  BY <1>1 DEF NothingFails
<1>3. /\ L \in Nat /\ L >= 1 /\ 1 \in 1..L /\ (i = 1 \/ i \in 2..L) /\ \A j \in 2..L : j \in 1..L /\ j # 1
      /\ ~Gone(i) /\ r.n \in {1, 2} /\ main.n \in {1, 2}
  BY OthersIdle, Members DEF GccTypes, main
<1>4. CASE i # 1
  <2>1. i \in 2..L /\ r.pc \in {"exec", "executed"}
    BY <1>2, <1>3, <1>4 DEF Gone
  <2>2. Waits(1) /\ main.child \in 2..L /\ ~Gone(main.child)
    BY <1>3, <2>1, NotGoneIsParentOrRuns DEF main
  <2>3. main.pc = "wait" /\ main.child = L /\ procs[L].n = main.n
    BY <1>2, <2>2 DEF Waits, main, GccTypes
  <2>4. i = L
    <3>1. \A k \in 1 + 1..L - 1 : Gone(k)
      BY <1>3, <2>2, <2>3 DEF StackInv, InOrder, main
    <3>2. i \in 1 + 1..L - 1 \/ i = L
      BY <1>3, <1>4
    <3> QED
      BY <1>3, <3>1, <3>2
  <2>5. ASSUME NEW pc1 \in {"executed", "exited"}, NEW child1, NEW status1,
               Now(L, pc1, r.n, child1, status1, <<>>),
               r.n = 1 => out' = <<>> /\ (pc1 = "exited" => temp' = "new"),
               r.n = 2 => IF pc1 = "exited" THEN out' = <<"new">> ELSE temp' = "new" /\ out' = <<>>
        PROVE  NothingFails'
    <3>1. L' = L /\ procs'[L].pc = pc1 /\ procs'[L].n = r.n
          /\ \A j \in 1..L : j # L => procs'[j] = procs[j]
      BY <2>5 DEF Now
    <3>2. main' = main /\ main.n = r.n
      BY <1>3, <1>4, <2>3, <2>4, <3>1 DEF main
    <3>3. \A j \in 2..L : procs'[j].pc \in {"exec", "executed", "exited"}
      BY <1>2, <1>3, <2>5, <3>1
    <3>4. Gone(L)' <=> pc1 = "exited"
      BY <3>1 DEF Gone
    <3> QED
      BY <1>2, <2>3, <2>4, <2>5, <3>1, <3>2, <3>3, <3>4 DEF NothingFails
  <2>6. CASE r.pc = "exec"
    <3>1. (r.n = 1 => out = <<>>) /\ (r.n = 2 => temp = "new" /\ out = <<>>)
      BY <1>2, <1>3, <2>3, <2>4
    <3>2. Proc!CanExecute(i)
      BY <1>3, <3>1 DEF Proc!CanExecute, Proc!me
    <3>3. Now(i, "executed", r.n, r.child, r.status, <<>>) /\ UNCHANGED <<temp, out>>
      BY <2>6, <3>2 DEF GccMove
    <3> QED
      BY <2>4, <2>5, <3>1, <3>3
  <2>7. CASE r.pc = "executed"
    <3>1. (r.n = 1 => out = <<>>) /\ (r.n = 2 => temp = "new" /\ out = <<>>)
      BY <1>2, <1>3, <2>3, <2>4
    <3>2. Now(i, "exited", r.n, r.child, r.status, <<>>)
      BY <2>7 DEF GccMove
    <3>3. r.n = 1 => out' = <<>> /\ temp' = "new"
      BY <2>7, <3>1 DEF GccMove
    <3>4. r.n = 2 => out' = <<"new">>
      BY <2>7, <3>1 DEF GccMove
    <3> QED
      BY <2>4, <2>5, <3>2, <3>3, <3>4
  <2> QED
    BY <2>1, <2>6, <2>7
<1>5. CASE i = 1
  <2>1. r = main
    BY <1>5 DEF main
  <2>2. CASE r.pc = "fork" /\ Forked(i, r.n) /\ UNCHANGED <<temp, out>>
    <3>1. PICK m \in Nat : m = L + 1
      BY <1>3
    <3>2. /\ L' = m /\ m > 1 /\ main'.pc = "wait" /\ main'.n = main.n /\ main'.child = m
          /\ procs'[m].pc = "exec" /\ procs'[m].n = main.n
          /\ \A j \in 2..L : procs'[j] = procs[j]
      BY <1>3, <1>5, <2>2, <3>1 DEF Forked, Proc!ParentAt, Proc!ChildAt, main
    <3>3. \A j \in 2..m : j = m \/ j \in 2..L
      BY <1>3, <3>1
    <3>4. \A j \in 2..m : procs'[j].pc \in {"exec", "executed", "exited"}
      BY <1>2, <3>2, <3>3
    <3>5. out' = <<>> /\ (main.n = 2 => temp' = "new")
      BY <1>2, <2>1, <2>2
    <3>6. ~Gone(m)'
      BY <3>2 DEF Gone
    <3>7. ~Gone(L)'
      BY <3>2 DEF Gone
    <3> QED
      BY <3>2, <3>4, <3>5, <3>6, <3>7 DEF NothingFails
  <2>3. ASSUME NEW pc1 \in {"fork", "remove", "exit", "exited"}, NEW n1, NEW child1, NEW status1,
               Now(1, pc1, n1, child1, status1, <<>>),
               IF pc1 = "fork" THEN out' = <<>> /\ temp' = "new" ELSE out' = <<"new">>
        PROVE  NothingFails'
    <3>1. L' = L /\ main'.pc = pc1 /\ \A j \in 2..L : procs'[j] = procs[j]
      BY <1>3, <2>3 DEF Now, main
    <3>2. \A j \in 2..L : procs'[j].pc \in {"exec", "executed", "exited"}
      BY <1>2, <3>1
    <3> QED
      BY <2>3, <3>1, <3>2 DEF NothingFails
  <2>4. CASE r.pc = "wait"
    <3> DEFINE pc1 == IF r.n = 1 THEN "fork" ELSE "remove"
    <3>1. Now(1, pc1, 2, 0, r.status, <<>>) /\ UNCHANGED <<temp, out>>
      BY <1>5, <2>4 DEF GccMove
    <3>2. Gone(L)
      <4>1. Proc!ChildGone(1) /\ main.child = L /\ L > 1
        BY <1>2, <1>5, <2>1, <2>4 DEF CanGoOn, Runs, Waits
      <4> QED
        BY <4>1 DEF Proc!ChildGone, Proc!me, Proc!NoChild, Gone, main
    <3>3. IF pc1 = "fork" THEN out' = <<>> /\ temp' = "new" ELSE out' = <<"new">>
      BY <1>2, <1>3, <2>1, <2>4, <3>1, <3>2
    <3>4. pc1 \in {"fork", "remove", "exit", "exited"}
      OBVIOUS
    <3> HIDE DEF pc1
    <3> QED
      BY <2>3, <3>1, <3>3, <3>4
  <2>5. CASE r.pc = "remove"
    <3>1. Now(1, "exit", r.n, r.child, r.status, <<>>) /\ UNCHANGED out
      BY <1>5, <2>5 DEF GccMove
    <3> QED
      BY <1>2, <2>1, <2>3, <2>5, <3>1
  <2>6. CASE r.pc = "exit"
    <3>1. Now(1, "exited", r.n, r.child, r.status, <<>>) /\ UNCHANGED out
      BY <1>5, <2>6 DEF GccMove
    <3> QED
      BY <1>2, <2>1, <2>3, <2>6, <3>1
  <2>7. r.pc \in {"fork", "wait", "remove", "exit"}
    BY <1>3, <2>1 DEF GccTypes, Gone
  <2>8. r.pc = "fork" => Forked(i, r.n) /\ UNCHANGED <<temp, out>>
    BY <1>1 DEF GccMove
  <2> QED
    BY <2>2, <2>4, <2>5, <2>6, <2>7, <2>8
<1> QED
  BY <1>4, <1>5

LEMMA LaunchStep ==
  ASSUME FamilyTypes, LaunchInv, parent = "launch", StackInv, NEW i \in 1..L, Proc!Step(i)
  PROVE  LaunchInv'
<1> DEFINE r == procs[i]
<1>1. /\ main.pc \in {"fork", "read", "wait", "print", "exit", "exited"}
      /\ main.buf = IF main.pc \in {"exit", "exited"} THEN <<main.n>> ELSE <<>>
      /\ out = IF main.pc = "exited" THEN <<main.n>> ELSE <<>>
      /\ \A j \in 2..L : procs[j].pc \in {"exec", "executed", "exit", "exited"} /\ procs[j].buf = <<>>
      /\ pipe.bytes + main.n = pipe.written
      /\ main.pc \in {"wait", "print", "exit", "exited"} => pipe.bytes = 0 /\ RestGone(1)
  BY DEF LaunchInv
<1>2. /\ L \in Nat /\ 1 \in 1..L /\ (i = 1 \/ i \in 2..L)
      /\ \A j \in 2..L : j \in 1..L /\ j # 1 /\ j \in 1 + 1..L
      /\ main.n \in Nat /\ pipe \in [bytes : Nat, written : Nat] /\ pipe.bytes \in Nat /\ pipe.written \in Nat
  BY Members, Fields DEF main, FamilyTypes
<1>3. ~Gone(i)
  BY NotGoneStep
<1>4. CASE i # 1
  <2>1. i \in 2..L /\ r.pc \in {"exec", "executed", "exit"} /\ r.buf = <<>>
    BY <1>1, <1>2, <1>3, <1>4 DEF Gone
  <2>2. main.pc \notin {"wait", "print", "exit", "exited"} /\ out = <<>>
    <3>1. ~RestGone(1)
      BY <1>2, <1>3, <2>1 DEF RestGone
    <3> QED
      BY <1>1, <3>1
  <2>3. ASSUME NEW pc1 \in {"executed", "exit", "exited"}, NEW n1, NEW child1, NEW status1,
               Now(i, pc1, n1, child1, status1, <<>>), UNCHANGED <<pipe, out>>
        PROVE  LaunchInv'
    <3>1. L' = L /\ procs'[i].pc = pc1 /\ procs'[i].buf = <<>> /\ main' = main
          /\ \A j \in 1..L : j # i => procs'[j] = procs[j]
      BY <1>2, <1>4, <2>3 DEF Now, main
    <3>2. \A j \in 2..L : procs'[j].pc \in {"exec", "executed", "exit", "exited"} /\ procs'[j].buf = <<>>
      BY <1>1, <1>2, <2>3, <3>1
    <3> QED
      BY <1>1, <2>2, <2>3, <3>1, <3>2 DEF LaunchInv
  <2>4. CASE Proc!Exec(i)
    BY <2>1, <2>3, <2>4, ExecMoves
  <2>5. CASE Proc!Executed(i)
    <3>1. CASE /\ pipe' = [bytes |-> pipe.bytes + 1, written |-> pipe.written + 1]
               /\ UNCHANGED <<procs, out>>
      <4>1. pipe'.bytes = pipe.bytes + 1 /\ pipe'.written = pipe.written + 1
        BY <3>1
      <4>2. main' = main /\ L' = L
        BY <3>1 DEF main, L
      <4>3. pipe'.bytes + main.n = pipe'.written
        BY <1>1, <1>2, <4>1
      <4> QED
        BY <1>1, <2>2, <3>1, <4>2, <4>3 DEF LaunchInv
    <3>2. CASE Now(i, "exited", r.n, r.child, r.status, r.buf) /\ UNCHANGED <<pipe, out>>
      BY <2>1, <2>3, <3>2
    <3> QED
      BY <2>5, <3>1, <3>2, ExecutedMoves
  <2>6. CASE Proc!Exit(i)
    <3>1. out' = out \o r.buf /\ Now(i, "exited", r.n, r.child, r.status, r.buf) /\ UNCHANGED pipe
      BY <2>6, ExitMoves
    <3>2. out' = out
      BY <2>1, <2>2, <3>1
    <3> QED
      BY <2>1, <2>3, <3>1, <3>2
  <2> QED
    BY <2>1, <2>4, <2>5, <2>6 DEF Proc!Step, Proc!Fork, Proc!ForkFails, Proc!Waitpid, Proc!Printf,
                                  Proc!Scanf, Proc!Remove, Proc!Read, Proc!me
<1>5. ASSUME i = 1, NEW pc1, NEW n1 \in Nat, NEW child1, NEW status1, NEW buf1,
             Now(1, pc1, n1, child1, status1, buf1), pc1 \in {"read", "wait", "print", "exit", "exited"},
             buf1 = IF pc1 \in {"exit", "exited"} THEN <<n1>> ELSE <<>>,
             out' = IF pc1 = "exited" THEN <<n1>> ELSE <<>>,
             pipe'.bytes + n1 = pipe'.written,
             pc1 # "read" => pipe'.bytes = 0 /\ RestGone(1)
      PROVE  LaunchInv'
  <2>1. L' = L /\ main'.pc = pc1 /\ main'.n = n1 /\ main'.buf = buf1
        /\ \A j \in 2..L : procs'[j] = procs[j]
    BY <1>2, <1>5 DEF Now, main
  <2>2. \A j \in 2..L : procs'[j].pc \in {"exec", "executed", "exit", "exited"} /\ procs'[j].buf = <<>>
    BY <1>1, <2>1
  <2>3. RestGone(1) => RestGone(1)'
    <3>1. \A j \in 1 + 1..L : j \in 2..L
      BY <1>2
    <3> QED
      BY <2>1, <3>1 DEF RestGone, Gone
  <2>4. main'.pc \in {"wait", "print", "exit", "exited"} => pipe'.bytes = 0 /\ RestGone(1)'
    BY <1>5, <2>1, <2>3
  <2> QED
    BY <1>5, <2>1, <2>2, <2>4 DEF LaunchInv
<1>6. CASE i = 1
  <2>1. r = main
    BY <1>6 DEF main
  <2>2. CASE Proc!Fork(i)
    <3>1. r.pc = "fork" /\ UNCHANGED <<pipe, out>> /\ Forked(1, r.n)
      BY <1>6, <2>2, ForkMoves
    <3>2. PICK m \in Nat : m = L + 1
      BY <1>2
    <3>3. /\ L' = m /\ main'.pc = "read" /\ main'.n = main.n /\ main'.buf = main.buf
          /\ procs'[m].pc = "exec" /\ procs'[m].buf = main.buf
          /\ \A j \in 2..L : procs'[j] = procs[j]
      BY <1>2, <2>1, <3>1, <3>2 DEF Forked, Proc!ParentAt, Proc!ChildAt, main
    <3>4. main.buf = <<>> /\ out = <<>>
      BY <1>1, <2>1, <3>1
    <3>5. \A j \in 2..m : j = m \/ j \in 2..L
      BY <1>2, <3>2
    <3>6. \A j \in 2..m : procs'[j].pc \in {"exec", "executed", "exit", "exited"} /\ procs'[j].buf = <<>>
      BY <1>1, <3>3, <3>4, <3>5
    <3> QED
      BY <1>1, <3>1, <3>3, <3>4, <3>6 DEF LaunchInv
  <2>3. CASE Proc!ForkFails(i)
    <3>1. r.pc = "fork" /\ UNCHANGED <<pipe, out>> /\ Now(1, "read", main.n, 0, r.status, main.buf)
      BY <1>6, <2>1, <2>3, ForkFailsMoves DEF Proc!ParentAt
    <3>2. main.buf = <<>> /\ out = <<>> /\ pipe'.bytes + main.n = pipe'.written
      BY <1>1, <2>1, <3>1
    <3> QED
      BY <1>2, <1>5, <1>6, <3>1, <3>2
  <2>4. CASE Proc!Read(i)
    <3>1. r.pc = "read" /\ UNCHANGED out /\ main.buf = <<>> /\ out = <<>>
      BY <1>1, <2>1, <2>4, ReadMoves
    <3>2. ASSUME NEW count \in 1..pipe.bytes, Now(i, "read", r.n + count, r.child, r.status, r.buf),
                 pipe' = [bytes |-> pipe.bytes - count, written |-> pipe.written]
          PROVE  LaunchInv'
      <4>1. pipe'.bytes = pipe.bytes - count /\ pipe'.written = pipe.written
        BY <3>2
      <4>2. main.n + count \in Nat /\ pipe'.bytes + (main.n + count) = pipe'.written
        BY <1>1, <1>2, <4>1
      <4> QED
        BY <1>5, <1>6, <2>1, <3>1, <3>2, <4>2
    <3>3. CASE /\ pipe.bytes = 0 /\ Proc!ChildGone(i) /\ UNCHANGED pipe
               /\ Now(i, "wait", r.n, r.child, r.status, r.buf)
      <4>1. RestGone(1)
        <5>1. CanGoOn(1)
          BY <1>6, <3>1, <3>3 DEF CanGoOn, Waits
        <5> QED
          BY <1>2, <5>1, RestIsGone
      <4> QED
        BY <1>1, <1>2, <1>5, <1>6, <2>1, <3>1, <3>3, <4>1
    <3> QED
      BY <2>4, <3>2, <3>3, ReadMoves
  <2>5. CASE Proc!Waitpid(i)
    <3>1. r.pc = "wait" /\ UNCHANGED <<pipe, out>> /\ Now(1, "print", main.n, r.child, r.status, main.buf)
      BY <1>6, <2>1, <2>5, WaitpidMoves
    <3>2. main.buf = <<>> /\ out = <<>> /\ pipe.bytes = 0 /\ RestGone(1)
      BY <1>1, <2>1, <3>1
    <3> QED
      BY <1>1, <1>2, <1>5, <1>6, <3>1, <3>2
  <2>6. CASE Proc!Printf(i)
    <3>1. r.pc = "print" /\ UNCHANGED <<pipe, out>>
          /\ Now(1, "exit", main.n, r.child, r.status, Append(main.buf, Proc!Printed(1)))
      BY <1>6, <2>1, <2>6, PrintfMoves
    <3>2. main.buf = <<>> /\ out = <<>> /\ pipe.bytes = 0 /\ RestGone(1) /\ Proc!Printed(1) = main.n
      BY <1>1, <2>1, <3>1 DEF Proc!Printed, Proc!me, main
    <3>3. Append(main.buf, Proc!Printed(1)) = <<main.n>>
      BY <3>2
    <3>4. Now(1, "exit", main.n, r.child, r.status, <<main.n>>)
      BY <3>1, <3>3
    <3> QED
      BY <1>1, <1>2, <1>5, <1>6, <3>1, <3>2, <3>4
  <2>7. CASE Proc!Exit(i)
    <3>1. r.pc = "exit" /\ UNCHANGED pipe /\ out' = out \o main.buf
          /\ Now(1, "exited", main.n, r.child, r.status, main.buf)
      BY <1>6, <2>1, <2>7, ExitMoves
    <3>2. main.buf = <<main.n>> /\ out = <<>> /\ pipe.bytes = 0 /\ RestGone(1)
      BY <1>1, <2>1, <3>1
    <3>3. out' = <<main.n>>
      BY <3>1, <3>2
    <3> QED
      BY <1>1, <1>2, <1>5, <1>6, <3>1, <3>2, <3>3
  <2> QED
    BY <1>1, <1>6, <2>1, <2>2, <2>3, <2>4, <2>5, <2>6, <2>7
       DEF Proc!Step, Proc!Scanf, Proc!Exec, Proc!Executed, Proc!Remove, Proc!me
<1> QED
  BY <1>4, <1>6

LEMMA ProcessesStep == ASSUME ProcessesInv, Proc!Next PROVE ProcessesInv'
<1>1. PICK i \in 1..L : Proc!Step(i)
  <2>1. PICK i \in DOMAIN procs : Proc!Step(i)
    BY DEF Proc!Next
  <2> QED
    BY <2>1, Members DEF ProcessesInv
<1>2. FamilyTypes /\ StackInv /\ ProgramsInv
  BY DEF ProcessesInv
<1>3. FamilyTypes' /\ StackInv'
  BY <1>1, <1>2, StackStep
<1>4. parent' = parent
  BY <1>1 DEF Proc!Step, Proc!Fork, Proc!ForkFails, Proc!Waitpid, Proc!Printf, Proc!Exit, Proc!Scanf,
              Proc!Exec, Proc!Executed, Proc!Remove, Proc!Read
<1>5. parent = "limit" => LimitInv'
  BY <1>1, <1>2, LimitStep DEF ProgramsInv
<1>6. parent = "numbers" => NumbersInv'
  BY <1>1, <1>2, NumbersStep DEF ProgramsInv
<1>7. parent = "words" => WordsInv'
  BY <1>1, <1>2, WordsStep DEF ProgramsInv
<1>8. parent = "gcc" => GccInv'
  <2> SUFFICES ASSUME parent = "gcc" PROVE GccInv'
    OBVIOUS
  <2>1. GccTypes /\ RunOnce /\ NothingFails
    BY <1>2 DEF ProgramsInv, GccInv
  <2>2. GccMove(i) /\ UNCHANGED given /\ CanGoOn(i)
    BY <1>1, <1>2, <2>1, GccMoves
  <2> QED
    BY <1>2, <2>1, <2>2, GccTypesStep, RunOnceStep, NothingFailsStep DEF GccInv
<1>9. parent = "launch" => LaunchInv'
  BY <1>1, <1>2, LaunchStep DEF ProgramsInv
<1> QED
  BY <1>3, <1>4, <1>5, <1>6, <1>7, <1>8, <1>9 DEF ProcessesInv, ProgramsInv

LEMMA ProcessesStutter == ASSUME ProcessesInv, UNCHANGED processes PROVE ProcessesInv'
<1>1. UNCHANGED <<parent, given, procs, left, temp, pipe, out, failures>>
  BY DEF processes
<1>2. L' = L /\ main' = main
  BY <1>1 DEF L, main
<1>3. (FamilyTypes /\ StackInv)' <=> FamilyTypes /\ StackInv
  BY <1>1, <1>2 DEF FamilyTypes, StackInv, InOrder, RestGone, Runs, Waits, Gone
<1>4. LimitInv' <=> LimitInv
  BY <1>1, <1>2 DEF LimitInv, Gone
<1>5. NumbersInv' <=> NumbersInv
  <2>1. Done' = Done
    BY <1>1, <1>2 DEF Done, Gone
  <2> QED
    BY <1>1, <1>2, <2>1 DEF NumbersInv
<1>6. WordsInv' <=> WordsInv
  BY <1>1, <1>2 DEF WordsInv, Counted
<1>7. GccInv' <=> GccInv
  BY <1>1, <1>2 DEF GccInv, GccTypes, RunOnce, NothingFails, Removing, AwaitedBy, Gone,
                    Proc!ChildGone, Proc!me
<1>8. LaunchInv' <=> LaunchInv
  BY <1>1, <1>2 DEF LaunchInv, RestGone, Gone
<1> QED
  BY <1>1, <1>3, <1>4, <1>5, <1>6, <1>7, <1>8 DEF ProcessesInv, ProgramsInv

LEMMA Quotient ==
  ASSUME NEW n \in Nat, NEW b \in Nat, b > 0, NEW s \in Nat, s <= n * b, n * b < s + b
  PROVE  n = (s + b - 1) \div b
<1>1. PICK a \in Nat : a = s + b - 1
  OBVIOUS
<1>2. PICK d \in Nat : d = a \div b
  BY <1>1
<1>3. d * b <= a /\ a < d * b + b
  BY <1>1, <1>2
<1>4. n * b <= a /\ a < n * b + b
  BY <1>1
<1>5. CASE d < n
  <2>1. (d + 1) * b <= n * b
    BY <1>5
  <2>2. (d + 1) * b = d * b + b
    OBVIOUS
  <2> QED
    BY <1>3, <1>4, <2>1, <2>2
<1>6. CASE n < d
  <2>1. (n + 1) * b <= d * b
    BY <1>6
  <2>2. (n + 1) * b = n * b + b
    OBVIOUS
  <2> QED
    BY <1>3, <1>4, <2>1, <2>2
<1> QED
  BY <1>1, <1>2, <1>5, <1>6

(* What families of processes print is right: a waiting process has only   *)
(* those it waits for after it, so all are gone when the first one is; the *)
(* limit is the length of the chain, the numbers come in order, words are  *)
(* counted once, _temp_ is run once and removed, and every byte of the     *)
(* command is counted.                                                     *)
THEOREM FamiliesPrintRight == Spec => []ProcessesRight
<1>1. Init => ProcessesInv
  BY FamilyInit DEF Init
<1>2. ProcessesInv /\ [Next]_vars => ProcessesInv'
  <2> SUFFICES ASSUME ProcessesInv, [Next]_vars PROVE ProcessesInv'
    OBVIOUS
  <2>1. CASE Family /\ Proc!Next
    BY <2>1, ProcessesStep
  <2>2. CASE UNCHANGED processes
    BY <2>2, ProcessesStutter
  <2> QED
    BY <2>1, <2>2 DEF Next, vars, Signals, Datagrams, Streams, Epoll
<1>3. ProcessesInv => ProcessesRight
  <2> SUFFICES ASSUME ProcessesInv PROVE Proc!ProcessesRight
    BY DEF ProcessesRight
  <2>1. FamilyTypes /\ StackInv /\ ProgramsInv
    BY DEF ProcessesInv
  <2>2. L \in Nat /\ L >= 1 /\ DOMAIN procs = 1..L /\ 1 \in 1..L /\ main.n \in Nat
    BY <2>1, Members, Fields DEF main
  <2>3. Proc!AllWaitedFor
    <3>1. \A j \in 1..L : j = 1 \/ j \in 1 + 1..L
      BY <2>2
    <3> QED
      BY <2>1, <2>2, <3>1 DEF StackInv, RestGone, Gone, Proc!AllWaitedFor
  <2>4. parent = "limit" => out = <<>> \/ out = <<Len(procs)>>
    BY <2>1 DEF ProgramsInv, LimitInv, L
  <2>5. parent = "numbers" => Proc!NumbersInOrder
    <3> SUFFICES ASSUME parent = "numbers" PROVE Proc!NumbersInOrder
      OBVIOUS
    <3>1. NumbersInv /\ Done \in 0..L - 1 /\ failures \in Nat /\ \A j \in 2..L : procs[j].n \in Nat
      BY <2>1, NumbersFacts DEF ProgramsInv
    <3>2. /\ out \in Seq(Nat) /\ Len(out) = IF main.pc = "exited" THEN L ELSE Done
          /\ \A k \in 1..Done : out[k] = procs[k + 1].n + 1
          /\ main.pc = "exited" => out[L] = 0 /\ main.n = Size /\ L - 1 + failures = main.n
          /\ \A j, k \in 2..L : j < k => procs[j].n < procs[k].n
      BY <3>1 DEF NumbersInv
    <3>3. main.pc = "exited" => Done = L - 1
      <4>1. L > 1 => L \in 1 + 1..L
        BY <2>2
      <4> QED
        BY <2>1, <4>1 DEF Done, StackInv, RestGone, Gone, main
    <3>4. DOMAIN out = 1..Len(out)
          /\ \A k \in DOMAIN out : k \in 1..Done \/ (k = L /\ main.pc = "exited" /\ k = Len(out))
      BY <2>2, <3>1, <3>2, <3>3
    <3>5. \A k \in 1..Done : k + 1 \in 2..L /\ out[k] \in Nat /\ out[k] # 0
      <4>1. \A k \in 1..Done : k + 1 \in 2..L
        BY <2>2, <3>1
      <4> SUFFICES ASSUME NEW k \in 1..Done PROVE out[k] \in Nat /\ out[k] # 0
        BY <4>1
      <4>2. procs[k + 1].n \in Nat /\ out[k] = procs[k + 1].n + 1
        BY <3>1, <3>2, <4>1
      <4> QED
        BY <4>2
    <3>6. ASSUME NEW j \in DOMAIN out, NEW k \in DOMAIN out, j < k, out[k] # 0 PROVE out[j] < out[k]
      <4>1. j \in Nat /\ k \in Nat /\ k \in 1..Done
        BY <3>2, <3>4, <3>6
      <4>2. j \in 1..Done /\ j + 1 < k + 1
        BY <3>1, <3>4, <3>6, <4>1
      <4>3. procs[j + 1].n < procs[k + 1].n /\ procs[j + 1].n \in Nat /\ procs[k + 1].n \in Nat
        BY <3>1, <3>2, <3>5, <4>1, <4>2
      <4>4. out[j] = procs[j + 1].n + 1 /\ out[k] = procs[k + 1].n + 1
        BY <3>2, <4>1, <4>2
      <4> QED
        BY <4>3, <4>4
    <3>7. \A k \in DOMAIN out : out[k] = 0 => k = Len(out)
      BY <3>4, <3>5
    <3>8. main.pc = "exited" =>
            out # <<>> /\ Len(out) = L /\ out[Len(out)] = 0 /\ Len(out) - 1 = Size - failures
      <4>1. Size \in Nat
        BY FamilyAssumptions
      <4> QED
        BY <2>2, <3>1, <3>2, <4>1
    <3> QED
      BY <3>6, <3>7, <3>8 DEF Proc!NumbersInOrder, Proc!newline, main
  <2>6. parent = "words" => Proc!WordsCounted
    <3> SUFFICES ASSUME parent = "words", main.pc = "exited", failures = 0
                 PROVE  out = <<IF given.seekable THEN Size ELSE (Size + Buffer - 1) \div Buffer>>
      BY DEF Proc!WordsCounted, main
    <3>1. out = <<main.n>> /\ Counted(main.n) /\ left = 0
      BY <2>1 DEF ProgramsInv, WordsInv
    <3>2. CASE given.seekable
      <4>1. main.n = Size
        BY <2>2, <3>1, <3>2 DEF Counted
      <4> QED
        BY <3>1, <3>2, <4>1
    <3>3. CASE ~given.seekable
      <4>1. Size <= main.n * Buffer /\ main.n * Buffer < Size + Buffer
        BY <3>1, <3>3 DEF Counted
      <4>2. Size \in Nat /\ Buffer \in Nat /\ Buffer > 0
        BY FamilyAssumptions
      <4>3. main.n = (Size + Buffer - 1) \div Buffer
        BY <2>2, <4>1, <4>2, Quotient
      <4> QED
        BY <3>1, <3>3, <4>3
    <3> QED
      BY <3>2, <3>3
  <2>7. parent = "gcc" => Proc!ValuePrinted
    BY <2>1 DEF ProgramsInv, GccInv, GccTypes, RunOnce, NothingFails, main, Proc!ValuePrinted
  <2>8. parent = "launch" /\ Proc!Ended => out = <<pipe.written>>
    <3> SUFFICES ASSUME parent = "launch", main.pc = "exited" PROVE out = <<pipe.written>>
      BY DEF Proc!Ended, main
    <3>1. out = <<main.n>> /\ pipe.bytes = 0 /\ pipe.bytes + main.n = pipe.written
      BY <2>1 DEF ProgramsInv, LaunchInv
    <3> QED
      BY <2>2, <3>1
  <2> QED
    BY <2>3, <2>4, <2>5, <2>6, <2>7, <2>8 DEF Proc!ProcessesRight
<1> QED
  BY <1>1, <1>2, <1>3, PTL DEF Spec


-----------------------------------------------------------------------------
(* The programs of 16_signals.  A signal sent is pending, in a handler, or *)
(* has had its effect; a handler's signal is blocked while it runs.        *)
SigNames ==
  CASE program = "count" -> {Sig!INT, Sig!TERM}
    [] program = "actions" -> {Sig!USR1, Sig!USR2, Sig!TERM, Sig!INT}
    [] program = "rtsig" -> {Sig!RT(k) : k \in 0..RtMax}
    [] OTHER -> {Sig!RT(0)}
Caught == IF program = "rtsig" THEN {Sig!RT(k) : k \in 0..RtMax - 1} ELSE SigNames

Points == {"setup", "test", "pause", "paused", "report", "leaving", "ended", "killed"}
Queued == [sig : Nat, value : Int]
Handling == [sig : Nat, value : Int, at : {"enter", "store", "print"}, reg : Int]
Seen(sent) ==
  [sends : Nat, sent : {sent}, merged : Nat, meant : Int, told : Int,
   crossed : BOOLEAN, missed : BOOLEAN]

SigTypes ==
  /\ program \in Sig!Programs
  /\ ready \in [Sig!Procs -> Nat] /\ pc \in [Sig!Procs -> Points]
  /\ stack \in [Sig!Procs -> Seq(Handling)] /\ pending \in [Sig!Procs -> Seq(Queued)]
  /\ num \in [Sig!Procs -> Int] /\ exit_trigger \in [Sig!Procs -> BOOLEAN]
  /\ printed \in [Sig!Procs -> Seq(Int)]
  /\ seen \in Seen(seen.sent) /\ \A s \in Nat : Sig!Sent(s) \in Nat

SigNamed ==
  \A x \in Sig!Procs :
    /\ \A k \in 1..Len(pending[x]) : pending[x][k].sig \in SigNames
    /\ \A k \in 1..Len(stack[x]) : stack[x][k].sig \in Caught

(* How far the set-up is says whether main() is in its loop.               *)
Stage(at_, done) ==
  /\ at_ = "setup" => done < Len(Sig!SetUp)
  /\ done < Len(Sig!SetUp) => at_ \in {"setup", "killed"}
  /\ at_ = "killed" => done < Len(Sig!SetUp) \/ program = "rtsig"

SetUpDone ==
  \A x \in Sig!Procs : ready[x] <= Len(Sig!SetUp) /\ Stage(pc[x], ready[x])

OnlyOne == program # "pingpong" => stack[q] = <<>> /\ pending[q] = <<>> /\ pc[q] = "ended"

NoneTwice ==
  \A x \in Sig!Procs : \A j, k \in 1..Len(stack[x]) :
    stack[x][j].sig = stack[x][k].sig => j = k

WhereItIs ==
  \A x \in Sig!Procs : \A k \in 1..Len(stack[x]) :
    LET h == stack[x][k] IN
      /\ h.at # "enter" => Sig!Counts(h.sig) /\ program \in {"count", "actions"}
      /\ h.at = "print" => program = "actions"

SigCount ==
  program = "count" =>
    /\ Sig!Sent(Sig!INT) = num[p] + seen.merged + Sig!Pending(p, Sig!INT) + Sig!InHandler(p, Sig!INT)
    /\ pc[p] = "setup" => pending[p] = <<>>
    /\ pc[p] # "killed"
    /\ \A k \in 1..Len(stack[p]) : stack[p][k].at = "store" => stack[p][k].reg = num[p]
    /\ seen.told <= num[p] + Sig!InHandler(p, Sig!INT)
    /\ pc[p] \in {"report", "leaving", "ended"} => exit_trigger[p]
    /\ pc[p] \in {"leaving", "ended"} =>
         \E n \in Int : printed[p] = <<n>> /\ seen.told <= n /\ n <= num[p]
    /\ pc[p] \notin {"leaving", "ended"} => printed[p] = <<>>

Acting == {k \in 1..Len(stack[p]) : stack[p][k].sig \in {Sig!USR1, Sig!USR2}}
SigActions ==
  program = "actions" /\ ~seen.crossed =>
    /\ \A j, k \in Acting : j = k
    /\ Acting = {} => num[p] = seen.meant /\ (printed[p] # <<>> => printed[p][Len(printed[p])] = num[p])
    /\ \A k \in Acting :
         LET h == stack[p][k] IN
           /\ h.at = "enter" => Sig!Result(h.sig, num[p]) = seen.meant
           /\ h.at = "store" => h.reg = num[p] /\ Sig!Result(h.sig, h.reg) = seen.meant
           /\ h.at = "print" => num[p] = seen.meant

SigLines ==
  program = "rtsig" =>
    /\ \A s \in {Sig!RT(k) : k \in 1..RtMax} : ~Sig!Gone(p) =>
         Sig!Sent(s) = Sig!Lines(p, s) + Sig!Pending(p, s) + Sig!InHandler(p, s)
    /\ \A k \in 1..Len(printed[p]) : printed[p][k] # Sig!RT(RtMax)
    /\ pc[p] = "killed" =>
         ready[p] < Len(Sig!SetUp) \/ \E k \in (1..RtMax - 1) \ Files : Sig!Sent(Sig!RT(k)) > 0

Held(s) == Len(s)
InPlay == Held(pending[p]) + Held(pending[q]) + Held(stack[p]) + Held(stack[q])
Sides(x, value) == x = p <=> (Start - value) % 2 = 0
SigBall ==
  program = "pingpong" =>
    /\ InPlay <= 1
    /\ seen.sends = 0 => InPlay = 0 /\ ~exit_trigger[p] /\ ~exit_trigger[q]
    /\ ~(exit_trigger[p] /\ exit_trigger[q])
    /\ exit_trigger[p] \/ exit_trigger[q] => InPlay = 0
    /\ \A x \in Sig!Procs :
         /\ \A k \in 1..Len(pending[x]) : Sides(x, pending[x][k].value)
         /\ \A k \in 1..Len(stack[x]) : Sides(x, stack[x][k].value)

SigInv ==
  IF part = "signals"
  THEN /\ SigTypes /\ SigNamed /\ SetUpDone /\ OnlyOne /\ NoneTwice /\ WhereItIs
       /\ SigCount /\ SigActions /\ SigLines /\ SigBall
  ELSE program = "none" /\ \A x \in Sig!Procs : pc[x] # "killed"

LEMMA SignalCardinality == \A S : Sig!Cardinality(S) = Cardinality(S)
BY DEF Sig!Cardinality, Cardinality

(* Counting in a queue or a stack.                                         *)
Where(s, v) == {k \in 1..Len(s) : s[k].sig = v}
OneIf(b) == IF b THEN 1 ELSE 0

LEMMA SigSeq ==
  ASSUME NEW T, NEW s \in Seq(T)
  PROVE  Len(s) \in Nat /\ DOMAIN s = 1..Len(s) /\ \A k \in 1..Len(s) : s[k] \in T
OBVIOUS

LEMMA WhereFinite ==
  ASSUME NEW T, NEW s \in Seq(T), NEW v
  PROVE  IsFiniteSet(Where(s, v)) /\ Cardinality(Where(s, v)) \in Nat
<1>1. Len(s) \in Nat
  OBVIOUS
<1>2. IsFiniteSet(1..Len(s))
  BY <1>1, FS_Interval
<1> QED
  BY <1>2, FS_Subset, FS_CardinalityType DEF Where

LEMMA WhereAppend ==
  ASSUME NEW T, NEW s \in Seq(T), NEW e \in T, NEW v
  PROVE  Cardinality(Where(Append(s, e), v)) = Cardinality(Where(s, v)) + OneIf(e.sig = v)
<1>1. /\ Len(s) \in Nat /\ Len(Append(s, e)) = Len(s) + 1
      /\ \A k \in 1..Len(s) + 1 : Append(s, e)[k] = IF k = Len(s) + 1 THEN e ELSE s[k]
  OBVIOUS
<1>2. Len(s) + 1 \notin Where(s, v)
  BY <1>1 DEF Where
<1>3. CASE e.sig = v
  <2>1. Where(Append(s, e), v) = Where(s, v) \cup {Len(s) + 1}
    BY <1>1, <1>3 DEF Where
  <2> QED
    BY <1>2, <1>3, <2>1, WhereFinite, FS_AddElement DEF OneIf
<1>4. CASE e.sig # v
  <2>1. Where(Append(s, e), v) = Where(s, v)
    BY <1>1, <1>4 DEF Where
  <2> QED
    BY <1>4, <2>1, WhereFinite DEF OneIf
<1> QED
  BY <1>3, <1>4

LEMMA FrontIs ==
  ASSUME NEW T, NEW s \in Seq(T), s # <<>>
  PROVE  /\ Len(s) \in Nat \ {0} /\ Sig!Last(s) = s[Len(s)] /\ s[Len(s)] \in T
         /\ Sig!Front(s) \in Seq(T) /\ Len(Sig!Front(s)) = Len(s) - 1
         /\ \A k \in 1..Len(s) - 1 : Sig!Front(s)[k] = s[k]
BY DEF Sig!Front, Sig!Last

LEMMA WhereSame ==
  ASSUME NEW s, NEW t, NEW v, Len(s) = Len(t), \A k \in 1..Len(s) : s[k].sig = t[k].sig
  PROVE  Where(s, v) = Where(t, v)
BY DEF Where

LEMMA WhereFront ==
  ASSUME NEW T, NEW s \in Seq(T), s # <<>>, NEW v
  PROVE  Cardinality(Where(s, v))
           = Cardinality(Where(Sig!Front(s), v)) + OneIf(s[Len(s)].sig = v)
<1> DEFINE t == Append(Sig!Front(s), s[Len(s)])
<1>1. Sig!Front(s) \in Seq(T) /\ s[Len(s)] \in T /\ Len(s) \in Nat \ {0}
      /\ Len(Sig!Front(s)) = Len(s) - 1 /\ \A k \in 1..Len(s) - 1 : Sig!Front(s)[k] = s[k]
  BY FrontIs
<1>2. Len(t) = Len(s) /\ \A k \in 1..Len(s) : t[k] = s[k]
  BY <1>1
<1>3. Where(s, v) = Where(t, v)
  BY <1>2, WhereSame
<1> QED
  BY <1>1, <1>3, WhereAppend

(* An element taken out of the middle.                                     *)
LEMMA RemovedIs ==
  ASSUME NEW T, NEW s \in Seq(T), NEW i \in 1..Len(s)
  PROVE  /\ Len(s) \in Nat /\ Sig!RemoveAt(s, i) \in Seq(T) /\ Len(Sig!RemoveAt(s, i)) = Len(s) - 1
         /\ \A k \in 1..Len(s) - 1 :
              Sig!RemoveAt(s, i)[k] = IF k < i THEN s[k] ELSE s[k + 1]
<1>1. Len(s) \in Nat /\ i \in Nat \ {0} /\ i <= Len(s)
  OBVIOUS
<1>2. PICK a : /\ a = SubSeq(s, 1, i - 1) /\ a \in Seq(T) /\ Len(a) = i - 1
               /\ \A k \in 1..i - 1 : a[k] = s[k]
  <2>1. 1 \in 1..Len(s) + 1 /\ i - 1 \in 0..Len(s) /\ 1 <= (i - 1) + 1 /\ (i - 1) - 1 + 1 = i - 1
        /\ \A k \in 1..i - 1 : 1 + k - 1 = k
    BY <1>1
  <2>2. /\ SubSeq(s, 1, i - 1) \in Seq(T) /\ Len(SubSeq(s, 1, i - 1)) = (i - 1) - 1 + 1
        /\ \A k \in 1..(i - 1) - 1 + 1 : SubSeq(s, 1, i - 1)[k] = s[1 + k - 1]
    BY <2>1, Part
  <2> QED
    BY <2>1, <2>2
<1>3. PICK b : /\ b = SubSeq(s, i + 1, Len(s)) /\ b \in Seq(T) /\ Len(b) = Len(s) - i
               /\ \A k \in 1..Len(s) - i : b[k] = s[i + k]
  <2>1. i + 1 \in 1..Len(s) + 1 /\ Len(s) \in 0..Len(s) /\ i + 1 <= Len(s) + 1
        /\ Len(s) - (i + 1) + 1 = Len(s) - i /\ \A k \in 1..Len(s) - i : i + 1 + k - 1 = i + k
    BY <1>1
  <2>2. /\ SubSeq(s, i + 1, Len(s)) \in Seq(T) /\ Len(SubSeq(s, i + 1, Len(s))) = Len(s) - (i + 1) + 1
        /\ \A k \in 1..Len(s) - (i + 1) + 1 : SubSeq(s, i + 1, Len(s))[k] = s[i + 1 + k - 1]
    BY <2>1, Part
  <2> QED
    BY <2>1, <2>2
<1>4. PICK c : /\ c = Sig!RemoveAt(s, i) /\ c \in Seq(T) /\ Len(c) = Len(s) - 1
               /\ \A k \in 1..Len(a) : c[k] = a[k]
               /\ \A k \in 1..Len(b) : c[Len(a) + k] = b[k]
  <2>1. Sig!RemoveAt(s, i) = a \o b
    BY <1>2, <1>3 DEF Sig!RemoveAt
  <2>2. Len(a) + Len(b) = Len(s) - 1
    <3>1. Len(a) = i - 1 /\ Len(b) = Len(s) - i
      BY <1>2, <1>3
    <3> QED
      BY <1>1, <3>1
  <2>3. /\ a \o b \in Seq(T) /\ Len(a \o b) = Len(a) + Len(b)
        /\ \A j \in 1..Len(a) : (a \o b)[j] = a[j]
        /\ \A j \in 1..Len(b) : (a \o b)[Len(a) + j] = b[j]
    <3>1. a \in Seq(T) /\ b \in Seq(T)
      BY <1>2, <1>3
    <3> QED
      BY <3>1, Joined
  <2> QED
    BY <2>1, <2>2, <2>3
<1>5. ASSUME NEW k \in 1..Len(s) - 1 PROVE c[k] = IF k < i THEN s[k] ELSE s[k + 1]
  <2>1. CASE k < i
    <3>1. k \in 1..i - 1
      BY <1>1, <2>1
    <3> QED
      BY <1>2, <1>4, <2>1, <3>1
  <2>2. CASE ~(k < i)
    <3>1. k - (i - 1) \in 1..Len(s) - i /\ Len(a) + (k - (i - 1)) = k /\ i + (k - (i - 1)) = k + 1
      BY <1>1, <1>2, <2>2
    <3>2. c[k] = b[k - (i - 1)] /\ b[k - (i - 1)] = s[k + 1]
      BY <1>3, <1>4, <3>1
    <3> QED
      BY <2>2, <3>2
  <2> QED
    BY <2>1, <2>2
<1> QED
  BY <1>1, <1>4, <1>5

LEMMA WhereRemoved ==
  ASSUME NEW T, NEW s \in Seq(T), NEW i \in 1..Len(s), NEW v
  PROVE  Cardinality(Where(s, v))
           = Cardinality(Where(Sig!RemoveAt(s, i), v)) + OneIf(s[i].sig = v)
<1> DEFINE t == Sig!RemoveAt(s, i)
           A == Where(t, v)
           B == Where(s, v) \ {i}
           f == [k \in A |-> IF k < i THEN k ELSE k + 1]
<1>1. /\ Len(s) \in Nat /\ i \in Nat /\ t \in Seq(T) /\ Len(t) = Len(s) - 1
      /\ \A k \in 1..Len(s) - 1 : t[k] = IF k < i THEN s[k] ELSE s[k + 1]
  BY RemovedIs
<1>2. f \in [A -> B]
  BY <1>1 DEF Where
<1>3. \A a, b \in A : f[a] = f[b] => a = b
  BY <1>1 DEF Where
<1>4. \A b \in B : \E a \in A : f[a] = b
  <2> SUFFICES ASSUME NEW b \in B PROVE \E a \in A : f[a] = b
    OBVIOUS
  <2>1. CASE b < i
    <3>1. b \in A
      BY <1>1, <2>1 DEF Where
    <3> QED
      BY <2>1, <3>1
  <2>2. CASE ~(b < i)
    <3>1. b - 1 \in 1..Len(s) - 1 /\ ~(b - 1 < i) /\ b - 1 + 1 = b /\ t[b - 1] = s[b] /\ s[b].sig = v
      BY <1>1, <2>2 DEF Where
    <3>2. b - 1 \in A
      BY <1>1, <3>1 DEF Where
    <3> QED
      BY <3>1, <3>2
  <2> QED
    BY <2>1, <2>2
<1>5. f \in Bijection(A, B)
  <2>1. f \in Surjection(A, B)
    BY <1>2, <1>4 DEF Surjection
  <2>2. f \in Injection(A, B)
    BY <1>2, <1>3 DEF Injection, IsInjective
  <2> QED
    BY <2>1, <2>2 DEF Bijection
<1>6. Cardinality(A) = Cardinality(B)
  <2>1. IsFiniteSet(A)
    BY <1>1, WhereFinite
  <2>2. ExistsBijection(A, B)
    BY <1>5 DEF ExistsBijection
  <2> QED
    BY <2>1, <2>2, FS_Bijection
<1>7. IsFiniteSet(Where(s, v)) /\ Cardinality(Where(s, v)) \in Nat
  BY WhereFinite
<1>8. CASE s[i].sig = v
  <2>1. i \in Where(s, v)
    BY <1>8 DEF Where
  <2>2. Cardinality(B) = Cardinality(Where(s, v)) - 1
    BY <1>7, <2>1, FS_RemoveElement
  <2> QED
    BY <1>6, <1>7, <1>8, <2>2 DEF OneIf
<1>9. CASE s[i].sig # v
  <2>1. B = Where(s, v)
    BY <1>9 DEF Where
  <2>2. OneIf(s[i].sig = v) = 0
    BY <1>9 DEF OneIf
  <2>3. Cardinality(A) = Cardinality(Where(s, v)) /\ Cardinality(Where(s, v)) \in Nat
    BY <1>6, <1>7, <2>1
  <2> QED
    BY <2>2, <2>3
<1> QED
  BY <1>8, <1>9

(* Of finitely many pending signals one is the first to be delivered.      *)
LEMMA LeastOf ==
  ASSUME NEW n \in Nat, NEW S, S \subseteq 1..n, S # {}, NEW f, \A k \in S : f[k] \in Nat
  PROVE  \E k \in S : \A j \in S : f[k] < f[j] \/ (f[k] = f[j] /\ k <= j)
<1> DEFINE Below(k) == {j \in S : f[j] < f[k] \/ (f[j] = f[k] /\ j < k)}
           All == {Below(k) : k \in S}
<1>1. IsFiniteSet(S)
  <2>1. IsFiniteSet(1..n)
    BY FS_Interval
  <2> QED
    BY <2>1, FS_Subset
<1>2. All \subseteq FiniteSubsetsOf(S) /\ All # {}
  <2>1. \A T \in SUBSET S : T \in FiniteSubsetsOf(S)
    BY <1>1, FS_Subset DEF FiniteSubsetsOf
  <2>2. \A k \in S : Below(k) \in SUBSET S
    OBVIOUS
  <2> QED
    BY <2>1, <2>2
<1>3. \E least \in All : \A other \in All : <<other, least>> \notin StrictSubsetOrdering(S)
  BY <1>2, FS_StrictSubsetOrderingWellFounded, WFMin
<1>4. PICK k \in S : \A other \in All : <<other, Below(k)>> \notin StrictSubsetOrdering(S)
  BY <1>3
<1>5. SUFFICES ASSUME NEW j \in S, ~(f[k] < f[j] \/ (f[k] = f[j] /\ k <= j)) PROVE FALSE
  OBVIOUS
<1>6. j \in Below(k) /\ j \notin Below(j)
  <2>1. j \in Nat /\ k \in Nat /\ f[j] \in Nat /\ f[k] \in Nat
    OBVIOUS
  <2> QED
    BY <1>5, <2>1
<1>7. ASSUME NEW i \in Below(j) PROVE i \in Below(k)
  <2>1. i \in Nat /\ j \in Nat /\ k \in Nat /\ f[i] \in Nat /\ f[j] \in Nat /\ f[k] \in Nat
    OBVIOUS
  <2>2. f[i] < f[j] \/ (f[i] = f[j] /\ i < j)
    OBVIOUS
  <2>3. f[i] < f[k] \/ (f[i] = f[k] /\ i < k)
    BY <1>5, <2>1, <2>2
  <2> QED
    BY <2>3
<1>8. <<Below(j), Below(k)>> \in StrictSubsetOrdering(S)
  BY <1>6, <1>7 DEF StrictSubsetOrdering
<1> QED
  BY <1>4, <1>8


LEMMA WhereFew ==
  ASSUME NEW T, NEW s \in Seq(T), NEW v
  PROVE  Cardinality(Where(s, v)) <= Len(s)
<1>1. Len(s) \in Nat
  OBVIOUS
<1>2. IsFiniteSet(1..Len(s)) /\ Cardinality(1..Len(s)) = Len(s)
  BY <1>1, FS_Interval
<1> QED
  BY <1>2, FS_Subset DEF Where

(* The next signal delivered is one of those that can be.                  *)
LEMMA NextIs ==
  ASSUME SigTypes, NEW x \in Sig!Procs, Sig!Deliverable(x) # {}
  PROVE  /\ Sig!Next_(x) \in 1..Len(pending[x]) /\ pending[x][Sig!Next_(x)] \in Queued
         /\ ~Sig!Blocked(x, pending[x][Sig!Next_(x)].sig)
<1> DEFINE s == pending[x]
           D == Sig!Deliverable(x)
           f == [k \in D |-> s[k].sig]
<1>1. s \in Seq(Queued)
  BY DEF SigTypes
<1>2. Len(s) \in Nat /\ DOMAIN s = 1..Len(s) /\ \A k \in 1..Len(s) : s[k] \in Queued
  BY <1>1, SigSeq
<1>3. D \subseteq 1..Len(s) /\ \A k \in D : f[k] = s[k].sig /\ f[k] \in Nat
  BY <1>2 DEF Sig!Deliverable, Queued
<1>4. \E k \in D : \A j \in D : f[k] < f[j] \/ (f[k] = f[j] /\ k <= j)
  <2> HIDE DEF s, D, f
  <2> QED
    BY <1>2, <1>3, LeastOf DEF D
<1>5. \E k \in D : \A j \in D : s[k].sig < s[j].sig \/ (s[k].sig = s[j].sig /\ k <= j)
  BY <1>3, <1>4
<1>6. Sig!Next_(x) \in D
  BY <1>5 DEF Sig!Next_
<1> QED
  BY <1>2, <1>3, <1>6 DEF Sig!Deliverable

(* What main() sets up.                                                    *)
LEMMA SetUpIs ==
  ASSUME program \in Sig!Programs
  PROVE  /\ Len(Sig!SetUp) \in Nat \ {0}
         /\ \A k \in 1..Len(Sig!SetUp) : Sig!SetUp[k].install \subseteq Caught
         /\ \A s \in Caught : \E k \in 1..Len(Sig!SetUp) : s \in Sig!SetUp[k].install
         /\ program = "rtsig" =>
              \E k \in 1..Len(Sig!SetUp) : Sig!SetUp[k].only = {Sig!RT(j) : j \in 0..RtMax - 1}
<1> USE DEF Sig!Install, Sig!Unblock
<1>1. CASE program = "count"
  <2>1. Sig!SetUp = << Sig!Install(Sig!INT), Sig!Install(Sig!TERM) >>
    BY <1>1 DEF Sig!SetUp
  <2>2. Caught = {Sig!INT, Sig!TERM}
    BY <1>1 DEF Caught, SigNames
  <2>3. Len(Sig!SetUp) = 2 /\ Sig!SetUp[1].install = {Sig!INT} /\ Sig!SetUp[2].install = {Sig!TERM}
    BY <2>1
  <2> QED
    BY <1>1, <2>2, <2>3
<1>2. CASE program = "actions"
  <2>1. Sig!SetUp = << Sig!Install(Sig!USR1), Sig!Install(Sig!USR2), Sig!Install(Sig!TERM), Sig!Install(Sig!INT) >>
    BY <1>2 DEF Sig!SetUp
  <2>2. Caught = {Sig!USR1, Sig!USR2, Sig!TERM, Sig!INT}
    BY <1>2 DEF Caught, SigNames
  <2>3. /\ Len(Sig!SetUp) = 4 /\ Sig!SetUp[1].install = {Sig!USR1} /\ Sig!SetUp[2].install = {Sig!USR2}
        /\ Sig!SetUp[3].install = {Sig!TERM} /\ Sig!SetUp[4].install = {Sig!INT}
    BY <2>1
  <2> QED
    BY <1>2, <2>2, <2>3
<1>3. CASE program = "pingpong"
  <2>1. Sig!SetUp = << Sig!Unblock({Sig!RT(0)}), Sig!Install(Sig!RT(0)) >>
    BY <1>3 DEF Sig!SetUp
  <2>2. Caught = {Sig!RT(0)}
    BY <1>3 DEF Caught, SigNames
  <2>3. Len(Sig!SetUp) = 2 /\ Sig!SetUp[1].install = {} /\ Sig!SetUp[2].install = {Sig!RT(0)}
    BY <2>1
  <2> QED
    BY <1>3, <2>2, <2>3
<1>4. CASE program = "rtsig"
  <2> DEFINE only == {Sig!RT(j) : j \in 0..RtMax - 1}
             T == [install : SUBSET Nat, only : SUBSET Nat]
             a == [k \in 1..RtMax |-> Sig!Install(Sig!RT(k - 1))]
             b == << Sig!Unblock(only) >>
  <2>1. RtMax \in Nat \ {0}
    BY PeersAssumption DEF Sig!BoundAssumption
  <2>2. Sig!SetUp = a \o b
    BY <1>4 DEF Sig!SetUp
  <2>3. a \in Seq(T) /\ Len(a) = RtMax /\ \A k \in 1..RtMax : a[k].install = {Sig!RT(k - 1)}
    BY <2>1 DEF Sig!RT
  <2>4. b \in Seq(T) /\ Len(b) = 1 /\ b[1].install = {} /\ b[1].only = only
    BY <2>1 DEF Sig!RT
  <2> HIDE DEF a, b, T
  <2>5. /\ Len(Sig!SetUp) = RtMax + 1 /\ \A k \in 1..RtMax : Sig!SetUp[k] = a[k]
        /\ Sig!SetUp[RtMax + 1] = b[1]
    <3>1. /\ Len(a \o b) = Len(a) + Len(b) /\ \A j \in 1..Len(a) : (a \o b)[j] = a[j]
          /\ \A j \in 1..Len(b) : (a \o b)[Len(a) + j] = b[j]
      BY <2>3, <2>4, Joined
    <3>2. 1 \in 1..Len(b) /\ Len(a) = RtMax /\ Len(b) = 1
      BY <2>3, <2>4
    <3>3. Len(a \o b) = RtMax + 1 /\ \A j \in 1..RtMax : (a \o b)[j] = a[j]
      BY <3>1, <3>2
    <3>4. (a \o b)[RtMax + 1] = b[1]
      BY <3>1, <3>2
    <3> QED
      BY <2>2, <3>3, <3>4
  <2>6. Caught = {Sig!RT(k) : k \in 0..RtMax - 1}
    BY <1>4 DEF Caught
  <2>7. \A k \in 1..RtMax + 1 : k \in 1..RtMax \/ k = RtMax + 1
    BY <2>1
  <2>8. \A k \in 1..RtMax : k - 1 \in 0..RtMax - 1 /\ Sig!SetUp[k].install = {Sig!RT(k - 1)}
    BY <2>1, <2>3, <2>5
  <2>9. Sig!SetUp[RtMax + 1].install = {} /\ Sig!SetUp[RtMax + 1].only = only
    BY <2>4, <2>5
  <2>10. ASSUME NEW s \in Caught PROVE \E k \in 1..RtMax + 1 : s \in Sig!SetUp[k].install
    <3>1. PICK k \in 0..RtMax - 1 : s = Sig!RT(k)
      BY <2>6
    <3>2. k + 1 \in 1..RtMax /\ k + 1 - 1 = k /\ k + 1 \in 1..RtMax + 1
      BY <2>1
    <3>3. s \in Sig!SetUp[k + 1].install
      BY <2>8, <3>1, <3>2
    <3> QED
      BY <3>2, <3>3
  <2>11. \A k \in 1..RtMax + 1 : Sig!SetUp[k].install \subseteq Caught
    BY <2>6, <2>7, <2>8, <2>9
  <2>12. RtMax + 1 \in Nat \ {0} /\ RtMax + 1 \in 1..RtMax + 1
    BY <2>1
  <2> QED
    BY <2>5, <2>9, <2>10, <2>11, <2>12
<1> QED
  BY <1>1, <1>2, <1>3, <1>4 DEF Sig!Programs

(* After the set-up no signal kills.                                       *)
LEMMA InstalledIs ==
  ASSUME SigTypes, SetUpDone, NEW x \in Sig!Procs
  PROVE  /\ Sig!Installed(x) \subseteq Caught /\ Caught \subseteq SigNames
         /\ ready[x] = Len(Sig!SetUp) =>
              \A s \in SigNames : s \in Sig!Installed(x) \/ Sig!Blocked(x, s)
<1>1. ready[x] \in Nat /\ ready[x] <= Len(Sig!SetUp) /\ RtMax \in Nat \ {0} /\ program \in Sig!Programs
  BY PeersAssumption DEF SigTypes, SetUpDone, Sig!BoundAssumption
<1>2. Sig!Installed(x) \subseteq Caught
  <2>1. \A k \in 1..ready[x] : k \in 1..Len(Sig!SetUp)
    BY <1>1, SetUpIs
  <2> QED
    BY <1>1, <2>1, SetUpIs DEF Sig!Installed
<1>3. Caught \subseteq SigNames
  BY <1>1 DEF Caught, SigNames
<1>4. ASSUME ready[x] = Len(Sig!SetUp), NEW s \in SigNames PROVE s \in Sig!Installed(x) \/ Sig!Blocked(x, s)
  <2>1. CASE s \in Caught
    BY <1>1, <1>4, <2>1, SetUpIs DEF Sig!Installed
  <2>2. CASE s \notin Caught
    <3>1. program = "rtsig" /\ s \notin {Sig!RT(j) : j \in 0..RtMax - 1}
      BY <2>2 DEF Caught
    <3>2. PICK k \in 1..Len(Sig!SetUp) : Sig!SetUp[k].only = {Sig!RT(j) : j \in 0..RtMax - 1}
      BY <1>1, <3>1, SetUpIs
    <3>3. {Sig!RT(j) : j \in 0..RtMax - 1} # {}
      BY <1>1
    <3>4. {Sig!RT(j) : j \in 0..RtMax - 1} \in Sig!Masks(x)
      BY <1>4, <3>2, <3>3 DEF Sig!Masks
    <3> QED
      BY <3>1, <3>4 DEF Sig!Blocked
  <2> QED
    BY <2>1, <2>2
<1> QED
  BY <1>2, <1>3, <1>4

(* A handler returns: the ones it interrupted stay as they were.           *)
LEMMA Popped ==
  ASSUME SigTypes, NEW x \in Sig!Procs, stack[x] # <<>>, Sig!Return(x)
  PROVE  /\ stack' \in [Sig!Procs -> Seq(Handling)]
         /\ Len(stack[x]) \in Nat \ {0} /\ Sig!Handler(x) = stack[x][Len(stack[x])]
         /\ Sig!Handler(x) \in Handling
         /\ Len(stack'[x]) = Len(stack[x]) - 1
         /\ \A k \in 1..Len(stack'[x]) : k \in 1..Len(stack[x]) /\ stack'[x][k] = stack[x][k]
         /\ \A y \in Sig!Procs \ {x} : stack'[y] = stack[y]
         /\ \A s : Sig!InHandler(x, s)
                     = Sig!InHandler(x, s)' + OneIf(Sig!Handler(x).sig = s)
<1>1. stack[x] \in Seq(Handling) /\ stack \in [Sig!Procs -> Seq(Handling)]
  BY DEF SigTypes
<1>2. stack'[x] = Sig!Front(stack[x]) /\ \A y \in Sig!Procs \ {x} : stack'[y] = stack[y]
  BY <1>1 DEF Sig!Return
<1>3. /\ Len(stack[x]) \in Nat \ {0} /\ Sig!Handler(x) = stack[x][Len(stack[x])]
      /\ Sig!Handler(x) \in Handling /\ stack'[x] \in Seq(Handling)
      /\ Len(stack'[x]) = Len(stack[x]) - 1
      /\ \A k \in 1..Len(stack[x]) - 1 : stack'[x][k] = stack[x][k]
  BY <1>1, <1>2, FrontIs DEF Sig!Handler
<1>4. stack' \in [Sig!Procs -> Seq(Handling)]
  BY <1>1, <1>2, <1>3, FrontIs DEF Sig!Return
<1>5. \A s : Sig!InHandler(x, s) = Cardinality(Where(stack[x], s))
             /\ Sig!InHandler(x, s)' = Cardinality(Where(Sig!Front(stack[x]), s))
  <2>1. DOMAIN stack[x] = 1..Len(stack[x]) /\ DOMAIN stack'[x] = 1..Len(stack'[x])
    BY <1>1, <1>3, SigSeq
  <2>2. \A s : Sig!InHandler(x, s) = Cardinality(Where(stack[x], s))
    BY <2>1, SignalCardinality DEF Sig!InHandler, Where
  <2>3. \A s : Sig!InHandler(x, s)' = Cardinality(Where(stack'[x], s))
    BY <2>1, SignalCardinality DEF Sig!InHandler, Where
  <2> QED
    BY <1>2, <2>2, <2>3
<1>6. \A s : Sig!InHandler(x, s) = Sig!InHandler(x, s)' + OneIf(Sig!Handler(x).sig = s)
  BY <1>1, <1>3, <1>5, WhereFront
<1> QED
  BY <1>2, <1>3, <1>4, <1>6

(* The handler on top goes on.                                             *)
LEMMA Topped ==
  ASSUME SigTypes, NEW x \in Sig!Procs, stack[x] # <<>>, NEW h \in Handling, Sig!Set(x, h),
         h.sig = Sig!Handler(x).sig
  PROVE  /\ stack' \in [Sig!Procs -> Seq(Handling)]
         /\ Len(stack[x]) \in Nat \ {0} /\ Sig!Handler(x) = stack[x][Len(stack[x])]
         /\ Len(stack'[x]) = Len(stack[x])
         /\ \A k \in 1..Len(stack[x]) :
              stack'[x][k] = IF k = Len(stack[x]) THEN h ELSE stack[x][k]
         /\ \A y \in Sig!Procs \ {x} : stack'[y] = stack[y]
         /\ \A s : Sig!InHandler(x, s)' = Sig!InHandler(x, s)
<1>1. stack[x] \in Seq(Handling) /\ stack \in [Sig!Procs -> Seq(Handling)]
  BY DEF SigTypes
<1>2. /\ stack'[x] = Append(Sig!Front(stack[x]), h)
      /\ \A y \in Sig!Procs \ {x} : stack'[y] = stack[y]
  BY <1>1 DEF Sig!Set
<1>3. /\ Len(stack[x]) \in Nat \ {0} /\ Sig!Handler(x) = stack[x][Len(stack[x])]
      /\ Sig!Front(stack[x]) \in Seq(Handling) /\ Len(Sig!Front(stack[x])) = Len(stack[x]) - 1
      /\ \A k \in 1..Len(stack[x]) - 1 : Sig!Front(stack[x])[k] = stack[x][k]
  BY <1>1, FrontIs DEF Sig!Handler
<1>4. /\ stack'[x] \in Seq(Handling) /\ Len(stack'[x]) = Len(stack[x])
      /\ \A k \in 1..Len(stack[x]) : stack'[x][k] = IF k = Len(stack[x]) THEN h ELSE stack[x][k]
  BY <1>2, <1>3
<1>5. stack' \in [Sig!Procs -> Seq(Handling)]
  BY <1>1, <1>2, <1>4 DEF Sig!Set
<1>6. \A s : Sig!InHandler(x, s)' = Sig!InHandler(x, s)
  <2>1. DOMAIN stack[x] = 1..Len(stack[x]) /\ DOMAIN stack'[x] = 1..Len(stack'[x])
    BY <1>1, <1>4, SigSeq
  <2>2. \A s : {k \in DOMAIN stack'[x] : stack'[x][k].sig = s} = {k \in DOMAIN stack[x] : stack[x][k].sig = s}
    BY <1>3, <1>4, <2>1
  <2> QED
    BY <2>2 DEF Sig!InHandler
<1> QED
  BY <1>2, <1>3, <1>4, <1>5, <1>6

(* Another handler starts.                                                 *)
LEMMA Pushed ==
  ASSUME SigTypes, NEW x \in Sig!Procs, NEW h \in Handling,
         stack' = [stack EXCEPT ![x] = Append(@, h)]
  PROVE  /\ stack' \in [Sig!Procs -> Seq(Handling)]
         /\ Len(stack[x]) \in Nat /\ Len(stack'[x]) = Len(stack[x]) + 1
         /\ \A k \in 1..Len(stack[x]) + 1 :
              stack'[x][k] = IF k = Len(stack[x]) + 1 THEN h ELSE stack[x][k]
         /\ \A y \in Sig!Procs \ {x} : stack'[y] = stack[y]
         /\ \A s : Sig!InHandler(x, s)' = Sig!InHandler(x, s) + OneIf(h.sig = s)
<1>1. stack[x] \in Seq(Handling) /\ stack \in [Sig!Procs -> Seq(Handling)]
  BY DEF SigTypes
<1>2. stack'[x] = Append(stack[x], h) /\ \A y \in Sig!Procs \ {x} : stack'[y] = stack[y]
  BY <1>1
<1>3. /\ Len(stack[x]) \in Nat /\ Len(stack'[x]) = Len(stack[x]) + 1 /\ stack'[x] \in Seq(Handling)
      /\ \A k \in 1..Len(stack[x]) + 1 :
           stack'[x][k] = IF k = Len(stack[x]) + 1 THEN h ELSE stack[x][k]
  BY <1>1, <1>2
<1>4. \A s : Sig!InHandler(x, s)' = Sig!InHandler(x, s) + OneIf(h.sig = s)
  <2>1. DOMAIN stack[x] = 1..Len(stack[x]) /\ DOMAIN stack'[x] = 1..Len(stack'[x])
    BY <1>1, <1>3, SigSeq
  <2>2. \A s : Sig!InHandler(x, s) = Cardinality(Where(stack[x], s))
    BY <2>1, SignalCardinality DEF Sig!InHandler, Where
  <2>3. \A s : Sig!InHandler(x, s)' = Cardinality(Where(stack'[x], s))
    BY <2>1, SignalCardinality DEF Sig!InHandler, Where
  <2>4. \A s : Cardinality(Where(Append(stack[x], h), s)) = Cardinality(Where(stack[x], s)) + OneIf(h.sig = s)
    BY <1>1, WhereAppend
  <2> QED
    BY <1>2, <2>2, <2>3, <2>4
<1>5. stack' \in [Sig!Procs -> Seq(Handling)]
  BY <1>1, <1>2, <1>3
<1> QED
  BY <1>2, <1>3, <1>4, <1>5

(* A signal joins those pending, unless it is merged with one of them.     *)
LEMMA QueuedIs ==
  ASSUME SigTypes, NEW x \in Sig!Procs, NEW s \in Nat, NEW value \in Int,
         pending' = Sig!Queue(x, s, value)
  PROVE  /\ pending' \in [Sig!Procs -> Seq(Queued)]
         /\ \A y \in Sig!Procs \ {x} : pending'[y] = pending[y]
         /\ Len(pending[x]) \in Nat
         /\ \/ pending' = pending /\ ~Sig!IsRealTime(s)
            \/ /\ Len(pending'[x]) = Len(pending[x]) + 1 /\ pending' # pending
               /\ \A k \in 1..Len(pending[x]) + 1 :
                    pending'[x][k] = IF k = Len(pending[x]) + 1 THEN [sig |-> s, value |-> value]
                                     ELSE pending[x][k]
               /\ \A t : Sig!Pending(x, t)' = Sig!Pending(x, t) + OneIf(s = t)
<1> DEFINE e == [sig |-> s, value |-> value]
<1>1. pending[x] \in Seq(Queued) /\ pending \in [Sig!Procs -> Seq(Queued)] /\ e \in Queued
  BY DEF SigTypes, Queued
<1>2. Len(pending[x]) \in Nat
  BY <1>1
<1>3. CASE pending' = pending /\ ~Sig!IsRealTime(s)
  BY <1>1, <1>2, <1>3
<1>4. CASE pending' = [pending EXCEPT ![x] = Append(@, e)]
  <2>1. pending'[x] = Append(pending[x], e) /\ \A y \in Sig!Procs \ {x} : pending'[y] = pending[y]
    BY <1>1, <1>4
  <2>2. /\ Len(pending'[x]) = Len(pending[x]) + 1 /\ pending'[x] \in Seq(Queued)
        /\ \A k \in 1..Len(pending[x]) + 1 :
             pending'[x][k] = IF k = Len(pending[x]) + 1 THEN e ELSE pending[x][k]
    BY <1>1, <2>1
  <2>3. \A t : Sig!Pending(x, t)' = Sig!Pending(x, t) + OneIf(s = t)
    <3>1. DOMAIN pending[x] = 1..Len(pending[x]) /\ DOMAIN pending'[x] = 1..Len(pending'[x])
      BY <1>1, <2>2, SigSeq
    <3>2. \A t : Sig!Pending(x, t) = Cardinality(Where(pending[x], t))
      BY <3>1, SignalCardinality DEF Sig!Pending, Where
    <3>3. \A t : Sig!Pending(x, t)' = Cardinality(Where(pending'[x], t))
      BY <3>1, SignalCardinality DEF Sig!Pending, Where
    <3>4. \A t : Cardinality(Where(Append(pending[x], e), t)) = Cardinality(Where(pending[x], t)) + OneIf(e.sig = t)
      BY <1>1, WhereAppend
    <3> QED
      BY <2>1, <3>2, <3>3, <3>4
  <2>4. pending' # pending
    BY <1>2, <2>2
  <2>5. pending' \in [Sig!Procs -> Seq(Queued)]
    BY <1>1, <1>4, <2>1, <2>2
  <2> QED
    BY <1>2, <2>1, <2>2, <2>3, <2>4, <2>5
<1> QED
  BY <1>3, <1>4 DEF Sig!Queue

LEMMA QueuedFor ==
  ASSUME SigTypes, NEW x \in Sig!Procs, NEW s \in Nat, NEW value \in Int,
         pending' = Sig!Queue(x, s, value)
  PROVE  \/ pending' = pending /\ ~Sig!IsRealTime(s)
         \/ pending' # pending /\ \A t : Sig!Pending(x, t)' = Sig!Pending(x, t) + OneIf(s = t)
<1> DEFINE Added == \A t : Sig!Pending(x, t)' = Sig!Pending(x, t) + OneIf(s = t)
<1>1. \/ pending' = pending /\ ~Sig!IsRealTime(s)
      \/ /\ Len(pending'[x]) = Len(pending[x]) + 1 /\ pending' # pending
         /\ \A k \in 1..Len(pending[x]) + 1 :
              pending'[x][k] = IF k = Len(pending[x]) + 1 THEN [sig |-> s, value |-> value]
                               ELSE pending[x][k]
         /\ Added
  BY QueuedIs
<1> QED
  BY <1>1

(* A pending signal is taken out to be delivered.                          *)
LEMMA TakenIs ==
  ASSUME SigTypes, NEW x \in Sig!Procs, NEW i \in 1..Len(pending[x]),
         pending' = [pending EXCEPT ![x] = Sig!RemoveAt(@, i)]
  PROVE  /\ pending' \in [Sig!Procs -> Seq(Queued)]
         /\ \A y \in Sig!Procs \ {x} : pending'[y] = pending[y]
         /\ Len(pending[x]) \in Nat /\ Len(pending'[x]) = Len(pending[x]) - 1
         /\ \A k \in 1..Len(pending'[x]) :
              \E j \in 1..Len(pending[x]) : pending'[x][k] = pending[x][j]
         /\ \A t : Sig!Pending(x, t) = Sig!Pending(x, t)' + OneIf(pending[x][i].sig = t)
<1>1. pending[x] \in Seq(Queued) /\ pending \in [Sig!Procs -> Seq(Queued)]
  BY DEF SigTypes
<1>2. pending'[x] = Sig!RemoveAt(pending[x], i) /\ \A y \in Sig!Procs \ {x} : pending'[y] = pending[y]
  BY <1>1
<1>3. /\ Len(pending[x]) \in Nat /\ pending'[x] \in Seq(Queued) /\ Len(pending'[x]) = Len(pending[x]) - 1
      /\ \A k \in 1..Len(pending[x]) - 1 :
           pending'[x][k] = IF k < i THEN pending[x][k] ELSE pending[x][k + 1]
  BY <1>1, <1>2, RemovedIs
<1>4. ASSUME NEW k \in 1..Len(pending'[x])
      PROVE  \E j \in 1..Len(pending[x]) : pending'[x][k] = pending[x][j]
  <2>1. k \in 1..Len(pending[x]) /\ k + 1 \in 1..Len(pending[x])
    BY <1>3
  <2> QED
    BY <1>3, <2>1
<1>5. \A t : Sig!Pending(x, t) = Sig!Pending(x, t)' + OneIf(pending[x][i].sig = t)
  <2>1. DOMAIN pending[x] = 1..Len(pending[x]) /\ DOMAIN pending'[x] = 1..Len(pending'[x])
    BY <1>1, <1>3, SigSeq
  <2>2. \A t : Sig!Pending(x, t) = Cardinality(Where(pending[x], t))
    BY <2>1, SignalCardinality DEF Sig!Pending, Where
  <2>3. \A t : Sig!Pending(x, t)' = Cardinality(Where(pending'[x], t))
    BY <2>1, SignalCardinality DEF Sig!Pending, Where
  <2> QED
    BY <1>1, <1>2, <2>2, <2>3, WhereRemoved
<1>6. pending' \in [Sig!Procs -> Seq(Queued)]
  BY <1>1, <1>2, <1>3
<1> QED
  BY <1>2, <1>3, <1>4, <1>5, <1>6

LEMMA SigCounted ==
  ASSUME SigTypes, NEW x \in Sig!Procs, NEW s
  PROVE  /\ Sig!Pending(x, s) \in Nat /\ Sig!InHandler(x, s) \in Nat
<1>1. pending[x] \in Seq(Queued) /\ stack[x] \in Seq(Handling)
  BY DEF SigTypes
<1>2. /\ Sig!Pending(x, s) = Cardinality(Where(pending[x], s))
      /\ Sig!InHandler(x, s) = Cardinality(Where(stack[x], s))
  BY <1>1, SigSeq, SignalCardinality DEF Sig!Pending, Sig!InHandler, Where
<1> QED
  BY <1>1, <1>2, WhereFinite

LEMMA SigCountedNext ==
  ASSUME SigTypes', NEW x \in Sig!Procs, NEW s
  PROVE  /\ Sig!Pending(x, s)' \in Nat /\ Sig!InHandler(x, s)' \in Nat
<1>1. pending'[x] \in Seq(Queued) /\ stack'[x] \in Seq(Handling)
  BY DEF SigTypes
<1>2. /\ Sig!Pending(x, s)' = Cardinality(Where(pending'[x], s))
      /\ Sig!InHandler(x, s)' = Cardinality(Where(stack'[x], s))
  BY <1>1, SigSeq, SignalCardinality DEF Sig!Pending, Sig!InHandler, Where
<1> QED
  BY <1>1, <1>2, WhereFinite

(* What a handler or main() does keeps to its program.                     *)
SigShape == SigTypes /\ SigNamed /\ SetUpDone /\ OnlyOne /\ NoneTwice /\ WhereItIs

LEMMA NamesStay ==
  ASSUME program' = program
  PROVE  Sig!SetUp' = Sig!SetUp /\ SigNames' = SigNames /\ Caught' = Caught
BY DEF Sig!SetUp, SigNames, Caught

(* One process steps: what has to be shown of it alone.                    *)
LEMMA ShapeOfOne ==
  ASSUME SigShape, NEW x \in Sig!Procs, SigTypes', program' = program,
         \A y \in Sig!Procs \ {x} : ready'[y] = ready[y] /\ pc'[y] = pc[y] /\ stack'[y] = stack[y],
         ~Sig!Gone(x), \A y \in Sig!Procs : \A k \in 1..Len(pending'[y]) : pending'[y][k].sig \in SigNames,
         program # "pingpong" => pending'[q] = pending[q] \/ x = q,
         \A k \in 1..Len(stack'[x]) : stack'[x][k].sig \in Caught,
         ready'[x] <= Len(Sig!SetUp),
         Stage(pc'[x], ready'[x]),
         \A j, k \in 1..Len(stack'[x]) : stack'[x][j].sig = stack'[x][k].sig => j = k,
         \A k \in 1..Len(stack'[x]) :
           LET h == stack'[x][k] IN
             /\ h.at # "enter" => Sig!Counts(h.sig) /\ program \in {"count", "actions"}
             /\ h.at = "print" => program = "actions"
  PROVE  SigShape'
<1>1. SigNamed'
  BY NamesStay DEF SigShape, SigNamed
<1>2. SetUpDone'
  BY NamesStay DEF SigShape, SetUpDone, Stage
<1>3. OnlyOne'
  <2>1. program # "pingpong" => x # q
    BY DEF SigShape, OnlyOne, Sig!Gone
  <2>2. q \in Sig!Procs
    BY DEF Sig!Procs
  <2> QED
    BY <2>1, <2>2 DEF SigShape, OnlyOne
<1>4. NoneTwice'
  BY DEF SigShape, NoneTwice
<1>5. WhereItIs'
  BY DEF SigShape, WhereItIs, Sig!Counts
<1> QED
  BY <1>1, <1>2, <1>3, <1>4, <1>5 DEF SigShape

LEMMA ShapeParts ==
  ASSUME SigShape, NEW x \in Sig!Procs
  PROVE  /\ program \in Sig!Programs /\ ready[x] \in Nat /\ ready[x] <= Len(Sig!SetUp)
         /\ Len(Sig!SetUp) \in Nat \ {0}
         /\ pc[x] \in Points /\ Stage(pc[x], ready[x])
         /\ \A y \in Sig!Procs : \A k \in 1..Len(pending[y]) : pending[y][k].sig \in SigNames
         /\ \A k \in 1..Len(stack[x]) :
              LET h == stack[x][k] IN
                /\ h.sig \in Caught /\ h \in Handling
                /\ h.at # "enter" => Sig!Counts(h.sig) /\ program \in {"count", "actions"}
                /\ h.at = "print" => program = "actions"
         /\ \A j, k \in 1..Len(stack[x]) : stack[x][j].sig = stack[x][k].sig => j = k
<1>1. \A k \in 1..Len(stack[x]) : stack[x][k] \in Handling
  BY DEF SigShape, SigTypes
<1>2. program \in Sig!Programs /\ ready[x] \in Nat /\ pc[x] \in Points
  BY DEF SigShape, SigTypes
<1>3. Len(Sig!SetUp) \in Nat \ {0}
  BY <1>2, SetUpIs
<1> QED
  BY <1>1, <1>2, <1>3 DEF SigShape, SigNamed, SetUpDone, NoneTwice, WhereItIs

LEMMA PrintedIs ==
  ASSUME printed \in [Sig!Procs -> Seq(Int)], NEW x \in Sig!Procs, NEW n \in Int,
         printed' = [printed EXCEPT ![x] = Append(@, n)]
  PROVE  /\ printed' \in [Sig!Procs -> Seq(Int)] /\ Len(printed[x]) \in Nat
         /\ \A y \in Sig!Procs \ {x} : printed'[y] = printed[y]
         /\ Len(printed'[x]) = Len(printed[x]) + 1
         /\ \A k \in 1..Len(printed[x]) + 1 :
              printed'[x][k] = IF k = Len(printed[x]) + 1 THEN n ELSE printed[x][k]
<1>1. printed[x] \in Seq(Int)
  OBVIOUS
<1>2. /\ Append(printed[x], n) \in Seq(Int) /\ Len(printed[x]) \in Nat
      /\ Len(Append(printed[x], n)) = Len(printed[x]) + 1
      /\ \A k \in 1..Len(printed[x]) + 1 :
           Append(printed[x], n)[k] = IF k = Len(printed[x]) + 1 THEN n ELSE printed[x][k]
  BY <1>1
<1>3. printed'[x] = Append(printed[x], n) /\ \A y \in Sig!Procs \ {x} : printed'[y] = printed[y]
  OBVIOUS
<1> QED
  BY <1>2, <1>3

MainSteps(x) == Sig!Prepare(x) \/ Sig!Test(x) \/ Sig!Pause(x) \/ Sig!Report(x) \/ Sig!Leave(x)

LEMMA MainShape ==
  ASSUME SigShape, NEW x \in Sig!Procs, MainSteps(x)
  PROVE  SigShape'
<1>1. /\ stack[x] = <<>> /\ ~Sig!Gone(x)
      /\ UNCHANGED <<program, stack, pending, num, exit_trigger, seen>>
  BY DEF MainSteps, Sig!Prepare, Sig!Test, Sig!Pause, Sig!Report, Sig!Leave, Sig!MainRuns
<1>2. /\ \A y \in Sig!Procs \ {x} : ready'[y] = ready[y] /\ pc'[y] = pc[y]
      /\ ready' \in [Sig!Procs -> Nat] /\ pc' \in [Sig!Procs -> Points]
      /\ ready'[x] <= Len(Sig!SetUp)
      /\ Stage(pc'[x], ready'[x])
  <2>1. ready \in [Sig!Procs -> Nat] /\ pc \in [Sig!Procs -> Points]
    BY DEF SigShape, SigTypes
  <2>2. CASE Sig!Prepare(x)
    <3>1. pc[x] = "setup" /\ ready[x] < Len(Sig!SetUp)
      BY <2>2, ShapeParts DEF Sig!Prepare, Stage
    <3>2. ready' = [ready EXCEPT ![x] = @ + 1]
          /\ pc' = [pc EXCEPT ![x] = IF ready[x] + 1 = Len(Sig!SetUp) THEN "test" ELSE @]
      BY <2>2 DEF Sig!Prepare
    <3> QED
      BY <2>1, <3>1, <3>2, ShapeParts DEF Points, Stage
  <2>3. CASE Sig!Test(x)
    <3>1. pc[x] = "test" /\ ready' = ready
          /\ (pc' = [pc EXCEPT ![x] = "report"] \/ pc' = [pc EXCEPT ![x] = "pause"])
      BY <2>3 DEF Sig!Test
    <3> QED
      BY <2>1, <3>1, ShapeParts DEF Points, Stage
  <2>4. CASE Sig!Pause(x) \/ Sig!Report(x) \/ Sig!Leave(x)
    <3>1. /\ pc[x] \in {"pause", "report", "leaving"} /\ ready' = ready
          /\ \E c \in {"paused", "leaving", "ended"} : pc' = [pc EXCEPT ![x] = c]
      BY <2>4 DEF Sig!Pause, Sig!Report, Sig!Leave
    <3> QED
      BY <2>1, <3>1, ShapeParts DEF Points, Stage
  <2> QED
    BY <2>2, <2>3, <2>4 DEF MainSteps
<1>3. printed' \in [Sig!Procs -> Seq(Int)]
  <2>1. printed \in [Sig!Procs -> Seq(Int)] /\ num[x] \in Int
    BY DEF SigShape, SigTypes
  <2>2. printed' = printed \/ printed' = [printed EXCEPT ![x] = Append(@, num[x])]
    BY DEF MainSteps, Sig!Prepare, Sig!Test, Sig!Pause, Sig!Report, Sig!Leave
  <2> QED
    BY <2>1, <2>2, PrintedIs
<1>4. SigTypes'
  BY <1>1, <1>2, <1>3 DEF SigShape, SigTypes, Seen, Sig!Sent
<1> QED
  BY <1>1, <1>2, <1>4, ShapeOfOne, ShapeParts

LEMMA DeliverShape ==
  ASSUME SigShape, NEW x \in Sig!Procs, Sig!Deliver(x)
  PROVE  /\ SigShape'
         /\ UNCHANGED <<program, ready, num, exit_trigger, printed>> /\ ~Sig!Gone(x)
         /\ \E i \in 1..Len(pending[x]) :
              LET s == pending[x][i].sig
                  h == [sig |-> s, value |-> pending[x][i].value, at |-> "enter", reg |-> 0]
              IN
              /\ pending[x][i] \in Queued /\ s \in SigNames /\ ~Sig!Blocked(x, s)
              /\ pending' = [pending EXCEPT ![x] = Sig!RemoveAt(@, i)]
              /\ \/ /\ ready[x] < Len(Sig!SetUp) /\ pc' = [pc EXCEPT ![x] = "killed"]
                    /\ UNCHANGED <<stack, seen>>
                 \/ /\ s \in Caught /\ h \in Handling
                    /\ stack' = [stack EXCEPT ![x] = Append(@, h)]
                    /\ pc' = [pc EXCEPT ![x] = IF @ = "paused" THEN "test" ELSE @]
                    /\ seen' = [seen EXCEPT !.meant = Sig!Meant(s, @),
                                            !.told = IF program = "count" /\ s = Sig!TERM /\ ~exit_trigger[x]
                                                     THEN num[x] + Sig!InHandler(x, Sig!INT) ELSE @,
                                            !.crossed = @ \/ (s \in {Sig!USR1, Sig!USR2} /\ Sig!Acts(x))]
<1> DEFINE i == Sig!Next_(x)
           s == pending[x][i].sig
           h == [sig |-> s, value |-> pending[x][i].value, at |-> "enter", reg |-> 0]
<1>1. ~Sig!Gone(x) /\ UNCHANGED <<program, ready, num, exit_trigger, printed>>
  BY DEF Sig!Deliver
<1>2. i \in 1..Len(pending[x]) /\ pending[x][i] \in Queued /\ ~Sig!Blocked(x, s) /\ s \in SigNames
  <2>1. Sig!Deliverable(x) # {} /\ SigTypes
    BY DEF Sig!Deliver, SigShape
  <2>2. i \in 1..Len(pending[x]) /\ pending[x][i] \in Queued /\ ~Sig!Blocked(x, s)
    BY <2>1, NextIs
  <2> QED
    BY <2>2 DEF SigShape, SigNamed
<1>3. pending' = [pending EXCEPT ![x] = Sig!RemoveAt(@, i)]
  BY DEF Sig!Deliver
<1>4. h \in Handling
  BY <1>2 DEF Queued, Handling
<1>5. \/ /\ ready[x] < Len(Sig!SetUp) /\ pc' = [pc EXCEPT ![x] = "killed"]
         /\ UNCHANGED <<stack, seen>>
      \/ /\ s \in Caught
         /\ stack' = [stack EXCEPT ![x] = Append(@, h)]
         /\ pc' = [pc EXCEPT ![x] = IF @ = "paused" THEN "test" ELSE @]
         /\ seen' = [seen EXCEPT !.meant = Sig!Meant(s, @),
                                 !.told = IF program = "count" /\ s = Sig!TERM /\ ~exit_trigger[x]
                                          THEN num[x] + Sig!InHandler(x, Sig!INT) ELSE @,
                                 !.crossed = @ \/ (s \in {Sig!USR1, Sig!USR2} /\ Sig!Acts(x))]
  <2>1. CASE s \in Sig!Installed(x)
    <3>1. s \in Caught
      BY <2>1, InstalledIs DEF SigShape
    <3> QED
      BY <2>1, <3>1 DEF Sig!Deliver
  <2>2. CASE s \notin Sig!Installed(x)
    <3>1. ready[x] # Len(Sig!SetUp)
      BY <1>2, <2>2, InstalledIs DEF SigShape
    <3>2. ready[x] < Len(Sig!SetUp)
      BY <3>1, ShapeParts
    <3> QED
      BY <2>2, <3>2 DEF Sig!Deliver
  <2> QED
    BY <2>1, <2>2
<1> HIDE DEF i, h, s
<1>6. /\ pending' \in [Sig!Procs -> Seq(Queued)]
      /\ \A y \in Sig!Procs \ {x} : pending'[y] = pending[y]
      /\ \A k \in 1..Len(pending'[x]) : \E j \in 1..Len(pending[x]) : pending'[x][k] = pending[x][j]
  BY <1>2, <1>3, TakenIs DEF SigShape
<1>7. \A y \in Sig!Procs : \A k \in 1..Len(pending'[y]) : pending'[y][k].sig \in SigNames
  BY <1>6, ShapeParts
<1>8. /\ pc' \in [Sig!Procs -> Points] /\ \A y \in Sig!Procs \ {x} : pc'[y] = pc[y]
      /\ Stage(pc'[x], ready'[x])
  <2>1. pc \in [Sig!Procs -> Points]
    BY DEF SigShape, SigTypes
  <2> QED
    BY <1>1, <1>5, <2>1, ShapeParts DEF Points, Sig!Gone, Stage
<1>9. /\ stack' \in [Sig!Procs -> Seq(Handling)] /\ \A y \in Sig!Procs \ {x} : stack'[y] = stack[y]
      /\ \A k \in 1..Len(stack'[x]) :
           LET g == stack'[x][k] IN
             /\ g.sig \in Caught
             /\ g.at # "enter" => Sig!Counts(g.sig) /\ program \in {"count", "actions"}
             /\ g.at = "print" => program = "actions"
      /\ \A j, k \in 1..Len(stack'[x]) : stack'[x][j].sig = stack'[x][k].sig => j = k
  <2>1. CASE stack' = stack
    BY <2>1, ShapeParts DEF SigShape, SigTypes
  <2>2. CASE s \in Caught /\ stack' = [stack EXCEPT ![x] = Append(@, h)]
    <3>1. /\ stack' \in [Sig!Procs -> Seq(Handling)]
          /\ Len(stack[x]) \in Nat /\ Len(stack'[x]) = Len(stack[x]) + 1
          /\ \A k \in 1..Len(stack[x]) + 1 :
               stack'[x][k] = IF k = Len(stack[x]) + 1 THEN h ELSE stack[x][k]
          /\ \A y \in Sig!Procs \ {x} : stack'[y] = stack[y]
      BY <1>4, <2>2, Pushed DEF SigShape
    <3>2. h.sig = s /\ h.at = "enter"
      BY DEF h
    <3>3. \A k \in 1..Len(stack[x]) : stack[x][k].sig # s
      <4>1. DOMAIN stack[x] = 1..Len(stack[x])
        BY SigSeq DEF SigShape, SigTypes
      <4> QED
        BY <1>2, <4>1 DEF Sig!Blocked
    <3>4. \A k \in 1..Len(stack[x]) + 1 : k \in 1..Len(stack[x]) \/ k = Len(stack[x]) + 1
      BY <3>1
    <3>5. \A k \in 1..Len(stack[x]) + 1 :
            LET g == stack'[x][k] IN
              /\ g.sig \in Caught
              /\ g.at # "enter" => Sig!Counts(g.sig) /\ program \in {"count", "actions"}
              /\ g.at = "print" => program = "actions"
      <4> TAKE k \in 1..Len(stack[x]) + 1
      <4>1. CASE k = Len(stack[x]) + 1
        BY <2>2, <3>1, <3>2, <4>1
      <4>2. CASE k # Len(stack[x]) + 1
        BY <3>1, <3>4, <4>2, ShapeParts
      <4> QED
        BY <4>1, <4>2
    <3>6. \A j, k \in 1..Len(stack[x]) + 1 : stack'[x][j].sig = stack'[x][k].sig => j = k
      BY <3>1, <3>2, <3>3, <3>4, ShapeParts
    <3> QED
      BY <3>1, <3>5, <3>6
  <2> QED
    BY <1>5, <2>1, <2>2
<1>10. seen' \in Seen(seen'.sent) /\ \A t \in Nat : Sig!Sent(t)' \in Nat
  <2>1. seen \in Seen(seen.sent) /\ \A t \in Nat : Sig!Sent(t) \in Nat
    BY DEF SigShape, SigTypes
  <2>2. s \in Nat /\ \A n \in Int : Sig!Meant(s, n) \in Int
    BY <1>2 DEF Queued, Sig!Meant, s
  <2>3. seen' \in Seen(seen.sent) /\ seen'.sent = seen.sent
    <3>1. num[x] + Sig!InHandler(x, Sig!INT) \in Int
      <4>1. num \in [Sig!Procs -> Int] /\ SigTypes
        BY DEF SigShape, SigTypes
      <4>2. Sig!InHandler(x, Sig!INT) \in Nat
        BY <4>1, SigCounted
      <4> QED
        BY <4>1, <4>2
    <3> QED
      BY <1>5, <2>1, <2>2, <3>1 DEF Seen
  <2>4. \A t \in Nat : Sig!Sent(t)' = Sig!Sent(t)
    BY <2>3 DEF Sig!Sent
  <2> QED
    BY <2>1, <2>3, <2>4
<1>11. SigTypes'
  BY <1>1, <1>6, <1>8, <1>9, <1>10 DEF SigShape, SigTypes
<1>12. SigShape'
  <2>1. ready'[x] <= Len(Sig!SetUp) /\ \A y \in Sig!Procs \ {x} : ready'[y] = ready[y]
    BY <1>1, ShapeParts
  <2>2. program # "pingpong" => pending'[q] = pending[q] \/ x = q
    BY <1>6 DEF Sig!Procs
  <2>3. Stage(pc'[x], ready'[x])
    BY <1>8
  <2>4. \A y \in Sig!Procs \ {x} : ready'[y] = ready[y] /\ pc'[y] = pc[y] /\ stack'[y] = stack[y]
    BY <1>8, <1>9, <2>1
  <2> QED
    BY <1>1, <1>7, <1>9, <1>11, <2>1, <2>2, <2>3, <2>4, ShapeOfOne
<1> QED
  BY <1>1, <1>2, <1>3, <1>4, <1>5, <1>12 DEF s, h

LEMMA PopShape ==
  ASSUME SigShape, NEW x \in Sig!Procs, Sig!Running(x), Sig!Return(x),
         UNCHANGED <<program, ready, pc>>,
         pending' \in [Sig!Procs -> Seq(Queued)], num' \in [Sig!Procs -> Int],
         exit_trigger' \in [Sig!Procs -> BOOLEAN], printed' \in [Sig!Procs -> Seq(Int)],
         seen' \in Seen(seen.sent), seen'.sent = seen.sent,
         \A y \in Sig!Procs : \A k \in 1..Len(pending'[y]) : pending'[y][k].sig \in SigNames,
         program # "pingpong" => pending' = pending
  PROVE  SigShape'
<1>1. stack[x] # <<>> /\ ~Sig!Gone(x)
  BY DEF Sig!Running
<1>2. /\ stack' \in [Sig!Procs -> Seq(Handling)]
      /\ \A k \in 1..Len(stack'[x]) : k \in 1..Len(stack[x]) /\ stack'[x][k] = stack[x][k]
      /\ \A y \in Sig!Procs \ {x} : stack'[y] = stack[y]
  BY <1>1, Popped DEF SigShape
<1>3. SigTypes'
  <2>1. \A t \in Nat : Sig!Sent(t)' = Sig!Sent(t)
    BY DEF Sig!Sent
  <2> QED
    BY <1>2, <2>1 DEF SigShape, SigTypes
<1>4. \A y \in Sig!Procs \ {x} : ready'[y] = ready[y] /\ pc'[y] = pc[y] /\ stack'[y] = stack[y]
  BY <1>2
<1>5. ready'[x] <= Len(Sig!SetUp) /\ (Stage(pc'[x], ready'[x]))
  BY ShapeParts
<1>6. /\ \A k \in 1..Len(stack[x]) :
           LET h == stack[x][k] IN
             /\ h.sig \in Caught
             /\ h.at # "enter" => Sig!Counts(h.sig) /\ program \in {"count", "actions"}
             /\ h.at = "print" => program = "actions"
      /\ \A j, k \in 1..Len(stack[x]) : stack[x][j].sig = stack[x][k].sig => j = k
  BY ShapeParts
<1>7. \A k \in 1..Len(stack'[x]) :
        LET h == stack'[x][k] IN
          /\ h.sig \in Caught
          /\ h.at # "enter" => Sig!Counts(h.sig) /\ program \in {"count", "actions"}
          /\ h.at = "print" => program = "actions"
  <2> TAKE k \in 1..Len(stack'[x])
  <2>1. k \in 1..Len(stack[x]) /\ stack'[x][k] = stack[x][k]
    BY <1>2
  <2> QED
    BY <1>6, <2>1
<1>8. \A j, k \in 1..Len(stack'[x]) : stack'[x][j].sig = stack'[x][k].sig => j = k
  <2> TAKE j, k \in 1..Len(stack'[x])
  <2>1. /\ j \in 1..Len(stack[x]) /\ stack'[x][j] = stack[x][j]
        /\ k \in 1..Len(stack[x]) /\ stack'[x][k] = stack[x][k]
    BY <1>2
  <2> QED
    BY <1>6, <2>1
<1> QED
  BY <1>1, <1>3, <1>4, <1>5, <1>7, <1>8, ShapeOfOne

LEMMA HandlerIs ==
  ASSUME SigShape, NEW x \in Sig!Procs, Sig!Running(x)
  PROVE  /\ stack[x] # <<>> /\ ~Sig!Gone(x)
         /\ Len(stack[x]) \in Nat \ {0} /\ Sig!Handler(x) = stack[x][Len(stack[x])]
         /\ Sig!Handler(x) \in Handling /\ Sig!Handler(x).sig \in Caught
         /\ Sig!Handler(x).at # "enter" => Sig!Counts(Sig!Handler(x).sig) /\ program \in {"count", "actions"}
         /\ Sig!Handler(x).at = "print" => program = "actions"
<1>1. stack[x] # <<>> /\ ~Sig!Gone(x) /\ stack[x] \in Seq(Handling)
  BY DEF Sig!Running, SigShape, SigTypes
<1>2. Len(stack[x]) \in Nat \ {0} /\ Sig!Handler(x) = stack[x][Len(stack[x])] /\ Len(stack[x]) \in 1..Len(stack[x])
  BY <1>1, FrontIs DEF Sig!Handler
<1> QED
  BY <1>1, <1>2, ShapeParts

LEMMA TopShape ==
  ASSUME SigShape, NEW x \in Sig!Procs, Sig!Running(x), NEW where \in {"store", "print"}, NEW r \in Int,
         Sig!Set(x, [Sig!Handler(x) EXCEPT !.at = where, !.reg = r]),
         Sig!Counts(Sig!Handler(x).sig), program \in {"count", "actions"},
         where = "print" => program = "actions",
         UNCHANGED <<program, ready, pc, pending, exit_trigger, printed, seen>>,
         num' \in [Sig!Procs -> Int]
  PROVE  SigShape'
<1> DEFINE h == [Sig!Handler(x) EXCEPT !.at = where, !.reg = r]
<1>1. stack[x] # <<>> /\ ~Sig!Gone(x) /\ Sig!Handler(x) \in Handling /\ Sig!Handler(x).sig \in Caught
  BY HandlerIs
<1>2. h \in Handling /\ h.sig = Sig!Handler(x).sig /\ h.at = where
  BY <1>1 DEF Handling
<1> HIDE DEF h
<1>3. /\ stack' \in [Sig!Procs -> Seq(Handling)] /\ Len(stack[x]) \in Nat \ {0}
      /\ Sig!Handler(x) = stack[x][Len(stack[x])]
      /\ Len(stack'[x]) = Len(stack[x])
      /\ \A k \in 1..Len(stack[x]) : stack'[x][k] = IF k = Len(stack[x]) THEN h ELSE stack[x][k]
      /\ \A y \in Sig!Procs \ {x} : stack'[y] = stack[y]
  BY <1>1, <1>2, Topped DEF SigShape, h
<1>4. SigTypes'
  <2>1. \A t \in Nat : Sig!Sent(t)' = Sig!Sent(t)
    BY DEF Sig!Sent
  <2> QED
    BY <1>3, <2>1 DEF SigShape, SigTypes
<1>5. \A k \in 1..Len(stack'[x]) :
        LET g == stack'[x][k] IN
          /\ g.sig \in Caught
          /\ g.at # "enter" => Sig!Counts(g.sig) /\ program \in {"count", "actions"}
          /\ g.at = "print" => program = "actions"
  <2> TAKE k \in 1..Len(stack'[x])
  <2>1. CASE k = Len(stack[x])
    BY <1>1, <1>2, <1>3, <2>1
  <2>2. CASE k # Len(stack[x])
    BY <1>3, <2>2, ShapeParts
  <2> QED
    BY <2>1, <2>2
<1>6. \A k \in 1..Len(stack[x]) : stack'[x][k].sig = stack[x][k].sig
  BY <1>2, <1>3
<1>7. \A j, k \in 1..Len(stack'[x]) : stack'[x][j].sig = stack'[x][k].sig => j = k
  BY <1>3, <1>6, ShapeParts
<1>8. \A y \in Sig!Procs \ {x} : ready'[y] = ready[y] /\ pc'[y] = pc[y] /\ stack'[y] = stack[y]
  BY <1>3
<1>9. /\ ready'[x] <= Len(Sig!SetUp) /\ (Stage(pc'[x], ready'[x]))
      /\ \A y \in Sig!Procs : \A k \in 1..Len(pending'[y]) : pending'[y][k].sig \in SigNames
  BY ShapeParts
<1> QED
  BY <1>1, <1>4, <1>5, <1>7, <1>8, <1>9, ShapeOfOne

(* What happens to the ball.                                               *)
LEMMA BallMoves ==
  ASSUME SigShape, NEW x \in Sig!Procs, Sig!ReturnBall(x)
  PROVE  \E y \in Sig!Procs \ {x} :
           \/ pending' = pending
           \/ /\ pending' = Sig!Queue(y, Sig!RT(0), Sig!Handler(x).value - 1) /\ pending' # pending
              /\ Sig!RT(0) \in Nat /\ Sig!Handler(x).value - 1 \in Int
<1> DEFINE y == IF x = p THEN q ELSE p
<1>1. y \in Sig!Procs \ {x}
  BY PeersAssumption DEF Sig!Procs, Sig!BoundAssumption
<1>2. Sig!Handler(x) \in Handling
  BY HandlerIs DEF Sig!ReturnBall
<1>3. Sig!Handler(x).value - 1 \in Int /\ Sig!RT(0) \in Nat
  BY <1>2 DEF Handling, Sig!RT
<1>4. pending' = IF Sig!Gone(y) THEN pending ELSE Sig!Queue(y, Sig!RT(0), Sig!Handler(x).value - 1)
  BY DEF Sig!ReturnBall, Sig!NextBall
<1> HIDE DEF y
<1> QED
  BY <1>1, <1>3, <1>4

LEMMA HandlerShape ==
  ASSUME SigShape, NEW x \in Sig!Procs,
         Sig!PrintNum(x) \/ Sig!PrintLine(x) \/ Sig!TermHandler(x) \/ Sig!ReturnBall(x)
           \/ (Sig!Store(x) /\ program = "count")
  PROVE  SigShape'
<1>1. /\ Sig!Running(x) /\ Sig!Return(x) /\ UNCHANGED <<program, ready, pc>>
      /\ Sig!Handler(x) \in Handling
  <2>1. Sig!Running(x) /\ Sig!Return(x) /\ UNCHANGED <<program, ready, pc>>
    BY DEF Sig!PrintNum, Sig!PrintLine, Sig!TermHandler, Sig!ReturnBall, Sig!Store, Sig!SetTrigger
  <2> QED
    BY <2>1, HandlerIs
<1>2. /\ pending \in [Sig!Procs -> Seq(Queued)] /\ num \in [Sig!Procs -> Int]
      /\ exit_trigger \in [Sig!Procs -> BOOLEAN] /\ printed \in [Sig!Procs -> Seq(Int)]
      /\ seen \in Seen(seen.sent)
  BY DEF SigShape, SigTypes
<1>3. num' \in [Sig!Procs -> Int]
  <2>1. Sig!Result(Sig!Handler(x).sig, Sig!Handler(x).reg) \in Int
    BY <1>1 DEF Handling, Sig!Result
  <2>2. num' = num \/ num' = [num EXCEPT ![x] = Sig!Result(Sig!Handler(x).sig, Sig!Handler(x).reg)]
    BY DEF Sig!PrintNum, Sig!PrintLine, Sig!TermHandler, Sig!ReturnBall, Sig!Store
  <2> QED
    BY <1>2, <2>1, <2>2
<1>4. exit_trigger' \in [Sig!Procs -> BOOLEAN]
  <2>1. exit_trigger' = exit_trigger \/ exit_trigger' = [exit_trigger EXCEPT ![x] = TRUE]
    BY DEF Sig!PrintNum, Sig!PrintLine, Sig!TermHandler, Sig!ReturnBall, Sig!Store, Sig!SetTrigger
  <2> QED
    BY <1>2, <2>1
<1>5. printed' \in [Sig!Procs -> Seq(Int)]
  <2>1. \/ printed' = printed \/ printed' = [printed EXCEPT ![x] = Append(@, num[x])]
        \/ printed' = [printed EXCEPT ![x] = Append(@, Sig!Handler(x).sig)]
    BY DEF Sig!PrintNum, Sig!PrintLine, Sig!TermHandler, Sig!ReturnBall, Sig!Store
  <2>2. num[x] \in Int /\ Sig!Handler(x).sig \in Int
    BY <1>1, <1>2 DEF Handling
  <2> QED
    BY <1>2, <2>1, <2>2, PrintedIs
<1>6. seen' \in Seen(seen.sent) /\ seen'.sent = seen.sent
  <2>1. seen' = seen \/ seen' = [seen EXCEPT !.missed = @ \/ pc[x] = "pause"]
    BY DEF Sig!PrintNum, Sig!PrintLine, Sig!TermHandler, Sig!ReturnBall, Sig!Store, Sig!SetTrigger
  <2> QED
    BY <1>2, <2>1 DEF Seen
<1>7. CASE Sig!ReturnBall(x)
  <2>1. PICK y \in Sig!Procs \ {x} :
           \/ pending' = pending
           \/ /\ pending' = Sig!Queue(y, Sig!RT(0), Sig!Handler(x).value - 1)
              /\ Sig!RT(0) \in Nat /\ Sig!Handler(x).value - 1 \in Int
    BY <1>7, BallMoves
  <2>2. Sig!RT(0) \in SigNames
    BY <1>7 DEF Sig!ReturnBall, SigNames
  <2>3. /\ pending' \in [Sig!Procs -> Seq(Queued)]
        /\ \A z \in Sig!Procs : \A k \in 1..Len(pending'[z]) : pending'[z][k].sig \in SigNames
    <3>1. CASE pending' = pending
      BY <1>2, <3>1, ShapeParts
    <3>2. CASE pending' # pending
      <4>1. /\ pending' \in [Sig!Procs -> Seq(Queued)]
            /\ \A z \in Sig!Procs \ {y} : pending'[z] = pending[z]
            /\ Len(pending[y]) \in Nat /\ Len(pending'[y]) = Len(pending[y]) + 1
            /\ \A k \in 1..Len(pending[y]) + 1 :
                 pending'[y][k] = IF k = Len(pending[y]) + 1
                                  THEN [sig |-> Sig!RT(0), value |-> Sig!Handler(x).value - 1]
                                  ELSE pending[y][k]
        <5>1. /\ pending' = Sig!Queue(y, Sig!RT(0), Sig!Handler(x).value - 1) /\ y \in Sig!Procs
              /\ Sig!RT(0) \in Nat /\ Sig!Handler(x).value - 1 \in Int /\ SigTypes
          BY <2>1, <3>2 DEF SigShape
        <5> QED
          BY <3>2, <5>1, QueuedIs
      <4>2. \A z \in Sig!Procs : \A k \in 1..Len(pending[z]) : pending[z][k].sig \in SigNames
        BY ShapeParts
      <4>3. ASSUME NEW k \in 1..Len(pending'[y]) PROVE pending'[y][k].sig \in SigNames
        <5>1. k = Len(pending[y]) + 1 \/ k \in 1..Len(pending[y])
          BY <4>1
        <5>2. CASE k = Len(pending[y]) + 1
          <6>1. pending'[y][k] = [sig |-> Sig!RT(0), value |-> Sig!Handler(x).value - 1]
            BY <4>1, <5>2
          <6> QED
            BY <2>2, <6>1
        <5>3. CASE k # Len(pending[y]) + 1 /\ k \in 1..Len(pending[y])
          <6>1. pending'[y][k] = pending[y][k]
            BY <4>1, <5>3
          <6> QED
            BY <4>2, <5>3, <6>1
        <5> QED
          BY <5>1, <5>2, <5>3
      <4> QED
        BY <4>1, <4>2, <4>3
    <3> QED
      BY <3>1, <3>2
  <2>4. program = "pingpong"
    BY <1>7 DEF Sig!ReturnBall
  <2> QED
    BY <1>1, <1>3, <1>4, <1>5, <1>6, <2>3, <2>4, PopShape
<1>8. CASE pending' = pending
  <2>1. \A y \in Sig!Procs : \A k \in 1..Len(pending'[y]) : pending'[y][k].sig \in SigNames
    BY <1>8, ShapeParts
  <2> QED
    BY <1>1, <1>2, <1>3, <1>4, <1>5, <1>6, <1>8, <2>1, PopShape
<1> QED
  BY <1>7, <1>8 DEF Sig!PrintNum, Sig!PrintLine, Sig!TermHandler, Sig!Store

LEMMA GoesOnShape ==
  ASSUME SigShape, NEW x \in Sig!Procs, Sig!Load(x) \/ (Sig!Store(x) /\ program # "count")
  PROVE  SigShape'
<1>1. num \in [Sig!Procs -> Int] /\ Sig!Running(x)
  BY DEF SigShape, SigTypes, Sig!Load, Sig!Store
<1>2. /\ Sig!Handler(x) \in Handling /\ Sig!Handler(x).sig \in Caught
      /\ Sig!Handler(x).at # "enter" => Sig!Counts(Sig!Handler(x).sig) /\ program \in {"count", "actions"}
  BY <1>1, HandlerIs
<1>3. CASE Sig!Load(x)
  <2>1. program \in {"count", "actions"}
    BY <1>2, <1>3, ShapeParts
      DEF Sig!Load, Sig!Counts, Caught, SigNames, Sig!RT, Sig!USR1, Sig!USR2, Sig!Programs
  <2>2. num[x] \in Int /\ num' = num
    BY <1>1, <1>3 DEF Sig!Load
  <2>3. /\ Sig!Set(x, [Sig!Handler(x) EXCEPT !.at = "store", !.reg = num[x]])
        /\ Sig!Counts(Sig!Handler(x).sig)
        /\ UNCHANGED <<program, ready, pc, pending, exit_trigger, printed, seen>>
    BY <1>3 DEF Sig!Load
  <2> QED
    BY <1>1, <2>1, <2>2, <2>3, TopShape
<1>4. CASE Sig!Store(x) /\ program # "count"
  <2>1. Sig!Handler(x).reg \in Int /\ Sig!Result(Sig!Handler(x).sig, Sig!Handler(x).reg) \in Int
    BY <1>2 DEF Handling, Sig!Result
  <2>2. num' \in [Sig!Procs -> Int]
    BY <1>1, <1>4, <2>1 DEF Sig!Store
  <2>3. [Sig!Handler(x) EXCEPT !.at = "print"]
          = [Sig!Handler(x) EXCEPT !.at = "print", !.reg = Sig!Handler(x).reg]
    BY <1>2 DEF Handling
  <2>4. /\ Sig!Set(x, [Sig!Handler(x) EXCEPT !.at = "print", !.reg = Sig!Handler(x).reg])
        /\ Sig!Counts(Sig!Handler(x).sig) /\ program = "actions"
        /\ UNCHANGED <<program, ready, pc, pending, exit_trigger, printed, seen>>
    BY <1>2, <1>4, <2>3 DEF Sig!Store
  <2> QED
    BY <1>1, <2>1, <2>2, <2>4, TopShape
<1> QED
  BY <1>3, <1>4

(* A file that cannot be opened kills the program in a handler.            *)
LEMMA FailShape == ASSUME SigShape, NEW x \in Sig!Procs, Sig!FileFails(x) PROVE SigShape'
<1>1. /\ pc' = [pc EXCEPT ![x] = "killed"] /\ Sig!Running(x) /\ program = "rtsig"
      /\ UNCHANGED <<program, ready, stack, pending, num, exit_trigger, printed, seen>>
  BY DEF Sig!FileFails
<1>2. /\ pc \in [Sig!Procs -> Points] /\ pc' \in [Sig!Procs -> Points] /\ pc'[x] = "killed"
      /\ \A y \in Sig!Procs \ {x} : pc'[y] = pc[y]
  BY <1>1 DEF SigShape, SigTypes, Points
<1>3. SigTypes'
  BY <1>1, <1>2 DEF SigShape, SigTypes, Seen, Sig!Sent
<1>4. ~Sig!Gone(x) /\ Stage(pc'[x], ready'[x]) /\ ready'[x] <= Len(Sig!SetUp)
  BY <1>1, <1>2, ShapeParts DEF Sig!Running, Stage
<1>5. \A k \in 1..Len(stack'[x]) :
        LET h == stack'[x][k] IN
          /\ h.sig \in Caught
          /\ h.at # "enter" => Sig!Counts(h.sig) /\ program \in {"count", "actions"}
          /\ h.at = "print" => program = "actions"
  BY <1>1, ShapeParts
<1> QED
  BY <1>1, <1>2, <1>3, <1>4, <1>5, ShapeOfOne, ShapeParts

(* A user sends a signal.                                                  *)
LEMMA SendIs ==
  ASSUME SigShape, Sig!Send
  PROVE  /\ UNCHANGED <<program, ready, pc, stack, num, exit_trigger, printed>> /\ ~Sig!Gone(p)
         /\ \E s \in Sig!Sendable :
              /\ s \in Nat /\ s \in SigNames /\ pending' = Sig!Queue(p, s, Start) /\ Start \in Int
              /\ \A t \in Nat : Sig!Sent(t) \in Nat /\ Sig!Sent(t)' = Sig!Sent(t) + OneIf(s = t)
              /\ seen'.merged = seen.merged + OneIf(s = Sig!INT /\ pending' = pending)
         /\ seen' \in Seen(seen'.sent)
         /\ seen'.sends = seen.sends + 1 /\ seen'.meant = seen.meant /\ seen'.crossed = seen.crossed
         /\ program # "none"
<1>1. PICK s \in Sig!Sendable :
        /\ pending' = Sig!Queue(p, s, Start)
        /\ seen' = [seen EXCEPT !.sends = @ + 1,
                     !.sent = [t \in DOMAIN @ \cup {s} |-> Sig!Sent(t) + IF t = s THEN 1 ELSE 0],
                     !.merged = IF s = Sig!INT /\ pending' = pending THEN @ + 1 ELSE @]
  BY DEF Sig!Send
<1>2. seen \in Seen(seen.sent) /\ (\A t \in Nat : Sig!Sent(t) \in Nat) /\ program \in Sig!Programs
  BY DEF SigShape, SigTypes
<1>3. RtMax \in Nat \ {0} /\ Start \in Nat /\ Start \in Int
  BY PeersAssumption DEF Sig!BoundAssumption
<1>4. s \in SigNames /\ s \in Nat
  BY <1>1, <1>2, <1>3 DEF Sig!Sendable, SigNames, Sig!INT, Sig!TERM, Sig!USR1, Sig!USR2, Sig!RT, Sig!Programs
<1>5. /\ seen'.sent = [t \in DOMAIN seen.sent \cup {s} |-> Sig!Sent(t) + IF t = s THEN 1 ELSE 0]
      /\ seen'.merged = IF s = Sig!INT /\ pending' = pending THEN seen.merged + 1 ELSE seen.merged
      /\ seen'.sends = seen.sends + 1 /\ seen'.meant = seen.meant /\ seen'.crossed = seen.crossed
      /\ seen' \in Seen(seen'.sent)
  <2>1. PICK f : f = [t \in DOMAIN seen.sent \cup {s} |-> Sig!Sent(t) + IF t = s THEN 1 ELSE 0]
    OBVIOUS
  <2>2. PICK m : m = IF s = Sig!INT /\ pending' = pending THEN seen.merged + 1 ELSE seen.merged
    OBVIOUS
  <2>3. seen' = [seen EXCEPT !.sends = @ + 1, !.sent = f, !.merged = m]
    BY <1>1, <2>1, <2>2
  <2>4. m \in Nat
    BY <1>2, <2>2 DEF Seen
  <2>5. /\ seen'.sent = f /\ seen'.merged = m /\ seen' \in Seen(f)
        /\ seen'.sends = seen.sends + 1 /\ seen'.meant = seen.meant /\ seen'.crossed = seen.crossed
    <3>1. seen \in Seen(seen.sent)
      BY <1>2
    <3>2. seen.sends \in Nat
      BY <3>1 DEF Seen
    <3>3. /\ seen'.sent = f /\ seen'.merged = m
          /\ seen'.sends = seen.sends + 1 /\ seen'.meant = seen.meant /\ seen'.crossed = seen.crossed
      BY <3>1, <2>3 DEF Seen
    <3>4. seen' \in [sends : Nat, sent : {f}, merged : Nat, meant : Int, told : Int,
                     crossed : BOOLEAN, missed : BOOLEAN]
      <4>1. seen' = [sends |-> seen.sends + 1, sent |-> f, merged |-> m, meant |-> seen.meant,
                     told |-> seen.told, crossed |-> seen.crossed, missed |-> seen.missed]
        BY <3>1, <2>3 DEF Seen
      <4>2. seen.meant \in Int /\ seen.told \in Int /\ seen.crossed \in BOOLEAN /\ seen.missed \in BOOLEAN
        BY <3>1 DEF Seen
      <4> QED
        BY <3>2, <2>4, <4>1, <4>2
    <3> QED
      BY <3>3, <3>4 DEF Seen
  <2> QED
    BY <2>1, <2>2, <2>5
<1>6. ASSUME NEW t \in Nat PROVE Sig!Sent(t)' = Sig!Sent(t) + OneIf(s = t)
  <2>1. CASE t \in DOMAIN seen.sent \cup {s}
    <3>1. Sig!Sent(t)' = Sig!Sent(t) + IF t = s THEN 1 ELSE 0
      BY <1>5, <2>1 DEF Sig!Sent
    <3> QED
      BY <1>2, <3>1 DEF OneIf
  <2>2. CASE t \notin DOMAIN seen.sent \cup {s}
    BY <1>5, <2>2 DEF Sig!Sent, OneIf
  <2> QED
    BY <2>1, <2>2
<1>7. seen'.merged = seen.merged + OneIf(s = Sig!INT /\ pending' = pending)
  BY <1>2, <1>5 DEF OneIf, Seen
<1>8. UNCHANGED <<program, ready, pc, stack, num, exit_trigger, printed>> /\ ~Sig!Gone(p)
  BY DEF Sig!Send
<1> QED
  BY <1>1, <1>2, <1>3, <1>4, <1>5, <1>6, <1>7, <1>8 DEF Sig!Programs

LEMMA SendShape == ASSUME SigShape, Sig!Send PROVE SigShape'
<1>1. PICK s \in Sig!Sendable :
         /\ s \in Nat /\ s \in SigNames /\ pending' = Sig!Queue(p, s, Start) /\ Start \in Int
         /\ \A t \in Nat : Sig!Sent(t) \in Nat /\ Sig!Sent(t)' = Sig!Sent(t) + OneIf(s = t)
  BY SendIs
<1>2. /\ UNCHANGED <<program, ready, pc, stack, num, exit_trigger, printed>> /\ ~Sig!Gone(p)
      /\ seen' \in Seen(seen'.sent)
  BY SendIs
<1>3. p \in Sig!Procs /\ SigTypes /\ q \in Sig!Procs /\ p # q
  BY PeersAssumption DEF Sig!Procs, SigShape, Sig!BoundAssumption
<1>4. /\ pending' \in [Sig!Procs -> Seq(Queued)]
      /\ \A y \in Sig!Procs \ {p} : pending'[y] = pending[y]
      /\ Len(pending[p]) \in Nat
      /\ \/ pending' = pending
         \/ /\ Len(pending'[p]) = Len(pending[p]) + 1
            /\ \A k \in 1..Len(pending[p]) + 1 :
                 pending'[p][k] = IF k = Len(pending[p]) + 1 THEN [sig |-> s, value |-> Start]
                                  ELSE pending[p][k]
  <2>1. s \in Nat /\ Start \in Int /\ pending' = Sig!Queue(p, s, Start)
    BY <1>1
  <2> HIDE <1>1
  <2> QED
    BY <1>3, <2>1, QueuedIs
<1>5. \A y \in Sig!Procs : \A k \in 1..Len(pending[y]) : pending[y][k].sig \in SigNames
  BY <1>3, ShapeParts
<1>6. \A k \in 1..Len(pending'[p]) : pending'[p][k].sig \in SigNames
  <2>1. CASE pending' = pending
    BY <1>3, <1>5, <2>1
  <2>2. CASE pending' # pending
    <3> TAKE k \in 1..Len(pending'[p])
    <3>1. CASE k = Len(pending[p]) + 1
      <4>1. pending'[p][k] = [sig |-> s, value |-> Start]
        BY <1>4, <2>2, <3>1
      <4> QED
        BY <1>1, <4>1
    <3>2. CASE k # Len(pending[p]) + 1
      <4>1. k \in 1..Len(pending[p]) /\ pending'[p][k] = pending[p][k]
        BY <1>4, <2>2, <3>2
      <4> QED
        BY <1>3, <1>5, <4>1
    <3> QED
      BY <3>1, <3>2
  <2> QED
    BY <2>1, <2>2
<1>7. \A y \in Sig!Procs : \A k \in 1..Len(pending'[y]) : pending'[y][k].sig \in SigNames
  BY <1>4, <1>5, <1>6
<1>8. \A t \in Nat : Sig!Sent(t)' \in Nat
  BY <1>1 DEF OneIf
<1>9. SigTypes'
  BY <1>2, <1>4, <1>8 DEF SigShape, SigTypes
<1>10. SigNamed'
  BY <1>2, <1>7, NamesStay DEF SigShape, SigNamed
<1>11. SetUpDone' /\ NoneTwice' /\ WhereItIs'
  <2>1. SetUpDone'
    BY <1>2, NamesStay DEF SigShape, SetUpDone, Stage
  <2> QED
    BY <1>2, <2>1 DEF SigShape, NoneTwice, WhereItIs, Sig!Counts
<1>12. OnlyOne'
  BY <1>2, <1>3, <1>4 DEF SigShape, OnlyOne
<1> QED
  BY <1>9, <1>10, <1>11, <1>12 DEF SigShape

LEMMA NotGoneSteps ==
  ASSUME NEW x, Sig!Step(x) PROVE ~Sig!Gone(x)
BY DEF Sig!Step, Sig!Deliver, Sig!Load, Sig!Store, Sig!PrintNum, Sig!PrintLine, Sig!FileFails,
       Sig!TermHandler, Sig!ReturnBall, MainSteps, Sig!Prepare, Sig!Test, Sig!Pause, Sig!Report, Sig!Leave, Sig!Running, Sig!MainRuns

LEMMA OnlyP ==
  ASSUME SigShape, program # "pingpong", NEW x \in Sig!Procs, Sig!Step(x)
  PROVE  x = p
BY NotGoneSteps DEF SigShape, OnlyOne, Sig!Gone, Sig!Procs

LEMMA ShapeStep == ASSUME SigShape, Sig!Next PROVE SigShape' /\ program' = program
<1>1. CASE Sig!Send
  BY <1>1, SendShape DEF Sig!Send
<1>2. ASSUME NEW x \in Sig!Procs, Sig!Step(x) PROVE SigShape' /\ program' = program
  <2>1. program' = program
    BY <1>2 DEF Sig!Step, Sig!Deliver, Sig!Load, Sig!Store, Sig!PrintNum, Sig!PrintLine, Sig!FileFails,
       Sig!TermHandler, Sig!ReturnBall, MainSteps, Sig!Prepare, Sig!Test, Sig!Pause, Sig!Report, Sig!Leave
  <2>2. CASE Sig!Deliver(x)
    BY <2>1, <2>2, DeliverShape
  <2>3. CASE MainSteps(x)
    BY <2>1, <2>3, MainShape
  <2>4. CASE Sig!Load(x) \/ (Sig!Store(x) /\ program # "count") \/ Sig!FileFails(x)
    BY <2>1, <2>4, GoesOnShape, FailShape
  <2>5. CASE Sig!PrintNum(x) \/ Sig!PrintLine(x) \/ Sig!TermHandler(x) \/ Sig!ReturnBall(x)
               \/ (Sig!Store(x) /\ program = "count")
    BY <2>1, <2>5, HandlerShape
  <2> QED
    BY <1>2, <2>1, <2>2, <2>3, <2>4, <2>5 DEF Sig!Step, MainSteps
<1> QED
  BY <1>1, <1>2 DEF Sig!Next

(* count-sigint.                                                           *)
CountSum ==
  Sig!Sent(Sig!INT) = num[p] + seen.merged + Sig!Pending(p, Sig!INT) + Sig!InHandler(p, Sig!INT)
CountRest ==
  /\ pc[p] = "setup" => pending[p] = <<>>
  /\ pc[p] # "killed"
  /\ \A k \in 1..Len(stack[p]) : stack[p][k].at = "store" => stack[p][k].reg = num[p]
CountTold ==
  /\ seen.told <= num[p] + Sig!InHandler(p, Sig!INT)
  /\ pc[p] \in {"report", "leaving", "ended"} => exit_trigger[p]
  /\ pc[p] \in {"leaving", "ended"} =>
       \E n \in Int : printed[p] = <<n>> /\ seen.told <= n /\ n <= num[p]
  /\ pc[p] \notin {"leaving", "ended"} => printed[p] = <<>>

LEMMA CountIs == SigCount <=> (program = "count" => CountSum /\ CountRest /\ CountTold)
BY DEF SigCount, CountSum, CountRest, CountTold

LEMMA CountNumbers ==
  ASSUME SigShape
  PROVE  /\ p \in Sig!Procs /\ num[p] \in Int /\ seen.merged \in Nat /\ stack[p] \in Seq(Handling)
         /\ Len(stack[p]) \in Nat /\ pc \in [Sig!Procs -> Points] /\ SigTypes
         /\ Sig!Pending(p, Sig!INT) \in Nat /\ Sig!InHandler(p, Sig!INT) \in Nat
         /\ num \in [Sig!Procs -> Int] /\ printed \in [Sig!Procs -> Seq(Int)]
         /\ exit_trigger \in [Sig!Procs -> BOOLEAN] /\ seen \in Seen(seen.sent) /\ seen.told \in Int
<1>1. p \in Sig!Procs /\ SigTypes
  BY DEF Sig!Procs, SigShape
<1>2. num[p] \in Int /\ seen.merged \in Nat /\ stack[p] \in Seq(Handling) /\ pc \in [Sig!Procs -> Points]
      /\ num \in [Sig!Procs -> Int] /\ printed \in [Sig!Procs -> Seq(Int)]
      /\ exit_trigger \in [Sig!Procs -> BOOLEAN] /\ seen \in Seen(seen.sent) /\ seen.told \in Int
  BY <1>1 DEF SigTypes, Seen
<1> QED
  BY <1>1, <1>2, SigCounted, SigSeq

LEMMA CountSends ==
  ASSUME SigShape, program = "count", CountSum, CountRest, CountTold, Sig!Send
  PROVE  CountSum' /\ CountRest' /\ CountTold'
<1>1. /\ UNCHANGED <<program, ready, pc, stack, num, exit_trigger, printed>> /\ ~Sig!Gone(p)
  BY SendIs
<1>2. PICK s \in Sig!Sendable :
         /\ s \in Nat /\ pending' = Sig!Queue(p, s, Start) /\ Start \in Int
         /\ \A t \in Nat : Sig!Sent(t) \in Nat /\ Sig!Sent(t)' = Sig!Sent(t) + OneIf(s = t)
         /\ seen'.merged = seen.merged + OneIf(s = Sig!INT /\ pending' = pending)
  BY SendIs
<1>3. pc[p] # "setup" /\ s \in {Sig!INT, Sig!TERM}
  BY DEF Sig!Sendable
<1>4. CountRest'
  BY <1>1, <1>3 DEF CountRest, Sig!Gone
<1>5. \/ pending' = pending
      \/ pending' # pending /\ \A t : Sig!Pending(p, t)' = Sig!Pending(p, t) + OneIf(s = t)
  <2>1. s \in Nat /\ pending' = Sig!Queue(p, s, Start) /\ Start \in Int
    BY <1>2
  <2>2. p \in Sig!Procs /\ SigTypes
    BY CountNumbers
  <2>3. \/ pending' = pending /\ ~Sig!IsRealTime(s)
        \/ pending' # pending /\ \A t : Sig!Pending(p, t)' = Sig!Pending(p, t) + OneIf(s = t)
    BY <2>1, <2>2, QueuedFor
  <2> QED
    BY <2>3
<1>6. Sig!InHandler(p, Sig!INT)' = Sig!InHandler(p, Sig!INT)
  BY <1>1 DEF Sig!InHandler
<1>10. CountTold'
  <2>1. seen'.told = seen.told
    BY CountNumbers DEF Sig!Send, Seen
  <2> QED
    BY <1>1, <1>6, <2>1 DEF CountTold
<1>7. Sig!Sent(Sig!INT) \in Nat /\ Sig!Sent(Sig!INT)' = Sig!Sent(Sig!INT) + OneIf(s = Sig!INT)
  BY <1>2 DEF Sig!INT
<1>8. CASE pending' = pending
  <2>1. Sig!Pending(p, Sig!INT)' = Sig!Pending(p, Sig!INT) /\ seen'.merged = seen.merged + OneIf(s = Sig!INT)
    BY <1>2, <1>8 DEF Sig!Pending
  <2>2. CountSum'
    BY <1>1, <1>6, <1>7, <2>1, CountNumbers DEF CountSum, OneIf
  <2> QED
    BY <1>4, <1>10, <2>2
<1>9. CASE pending' # pending
  <2>1. Sig!Pending(p, Sig!INT)' = Sig!Pending(p, Sig!INT) + OneIf(s = Sig!INT)
        /\ seen'.merged = seen.merged
    <3>1. Sig!Pending(p, Sig!INT)' = Sig!Pending(p, Sig!INT) + OneIf(s = Sig!INT)
      BY <1>5, <1>9
    <3>2. seen'.merged = seen.merged + 0 /\ seen.merged \in Nat
      BY <1>2, <1>9, CountNumbers DEF OneIf
    <3> QED
      BY <3>1, <3>2
  <2>2. CountSum'
    BY <1>1, <1>6, <1>7, <2>1, CountNumbers DEF CountSum, OneIf
  <2> QED
    BY <1>4, <1>10, <2>2
<1> QED
  BY <1>8, <1>9

LEMMA CountDelivers ==
  ASSUME SigShape, program = "count", CountSum, CountRest, CountTold, Sig!Deliver(p)
  PROVE  CountSum' /\ CountRest' /\ CountTold'
<1>1. /\ UNCHANGED <<program, ready, num, exit_trigger, printed>> /\ ~Sig!Gone(p) /\ p \in Sig!Procs
  BY DeliverShape, CountNumbers
<1>2. PICK i \in 1..Len(pending[p]) :
        LET s == pending[p][i].sig
            h == [sig |-> s, value |-> pending[p][i].value, at |-> "enter", reg |-> 0]
        IN
        /\ pending' = [pending EXCEPT ![p] = Sig!RemoveAt(@, i)]
        /\ \/ /\ ready[p] < Len(Sig!SetUp) /\ pc' = [pc EXCEPT ![p] = "killed"]
              /\ UNCHANGED <<stack, seen>>
           \/ /\ s \in Caught /\ h \in Handling
              /\ stack' = [stack EXCEPT ![p] = Append(@, h)]
              /\ pc' = [pc EXCEPT ![p] = IF @ = "paused" THEN "test" ELSE @]
              /\ seen' = [seen EXCEPT !.meant = Sig!Meant(s, @),
                                      !.told = IF program = "count" /\ s = Sig!TERM /\ ~exit_trigger[p]
                                               THEN num[p] + Sig!InHandler(p, Sig!INT) ELSE @,
                                      !.crossed = @ \/ (s \in {Sig!USR1, Sig!USR2} /\ Sig!Acts(p))]
  BY <1>1, DeliverShape
<1>3. pc[p] \notin {"setup", "killed", "ended"} /\ ~(ready[p] < Len(Sig!SetUp))
  <2>1. pending[p] # <<>>
    BY <1>2
  <2> QED
    BY <1>1, <2>1, ShapeParts DEF CountRest, Sig!Gone, Stage
<1>4. SigTypes
  BY CountNumbers
<1>5. PICK s, h :
        /\ s = pending[p][i].sig /\ h.sig = s /\ h.at = "enter" /\ h \in Handling
        /\ stack' = [stack EXCEPT ![p] = Append(@, h)]
        /\ pc' = [pc EXCEPT ![p] = IF @ = "paused" THEN "test" ELSE @]
        /\ seen' = [seen EXCEPT !.meant = Sig!Meant(s, @),
                                !.told = IF program = "count" /\ s = Sig!TERM /\ ~exit_trigger[p]
                                         THEN num[p] + Sig!InHandler(p, Sig!INT) ELSE @,
                                !.crossed = @ \/ (s \in {Sig!USR1, Sig!USR2} /\ Sig!Acts(p))]
  <2> DEFINE s == pending[p][i].sig
             h == [sig |-> s, value |-> pending[p][i].value, at |-> "enter", reg |-> 0]
  <2>1. /\ stack' = [stack EXCEPT ![p] = Append(@, h)] /\ h \in Handling
        /\ pc' = [pc EXCEPT ![p] = IF @ = "paused" THEN "test" ELSE @]
        /\ seen' = [seen EXCEPT !.meant = Sig!Meant(s, @),
                                !.told = IF program = "count" /\ s = Sig!TERM /\ ~exit_trigger[p]
                                         THEN num[p] + Sig!InHandler(p, Sig!INT) ELSE @,
                                !.crossed = @ \/ (s \in {Sig!USR1, Sig!USR2} /\ Sig!Acts(p))]
    BY <1>2, <1>3
  <2>2. h.sig = s /\ h.at = "enter"
    OBVIOUS
  <2> HIDE DEF h
  <2> QED
    BY <2>1, <2>2
<1>6. Sig!Pending(p, Sig!INT) = Sig!Pending(p, Sig!INT)' + OneIf(s = Sig!INT)
  <2>1. pending' = [pending EXCEPT ![p] = Sig!RemoveAt(@, i)] /\ i \in 1..Len(pending[p])
    BY <1>2
  <2>2. \A t : Sig!Pending(p, t) = Sig!Pending(p, t)' + OneIf(pending[p][i].sig = t)
    BY <1>1, <1>4, <2>1, TakenIs
  <2> QED
    BY <1>5, <2>2
<1>7. /\ Sig!InHandler(p, Sig!INT)' = Sig!InHandler(p, Sig!INT) + OneIf(s = Sig!INT)
      /\ Len(stack[p]) \in Nat /\ Len(stack'[p]) = Len(stack[p]) + 1
      /\ \A k \in 1..Len(stack[p]) + 1 :
           stack'[p][k] = IF k = Len(stack[p]) + 1 THEN h ELSE stack[p][k]
  <2>1. h \in Handling /\ stack' = [stack EXCEPT ![p] = Append(@, h)]
    BY <1>5
  <2>2. /\ \A t : Sig!InHandler(p, t)' = Sig!InHandler(p, t) + OneIf(h.sig = t)
        /\ Len(stack[p]) \in Nat /\ Len(stack'[p]) = Len(stack[p]) + 1
        /\ \A k \in 1..Len(stack[p]) + 1 :
             stack'[p][k] = IF k = Len(stack[p]) + 1 THEN h ELSE stack[p][k]
    BY <1>1, <1>4, <2>1, Pushed
  <2> QED
    BY <1>5, <2>2
<1>8. CountSum'
  <2>1. seen'.merged = seen.merged /\ Sig!Sent(Sig!INT)' = Sig!Sent(Sig!INT)
    <3>1. seen \in Seen(seen.sent)
      BY DEF SigShape, SigTypes
    <3>2. seen'.merged = seen.merged /\ seen'.sent = seen.sent
      BY <1>5, <3>1 DEF Seen
    <3> QED
      BY <3>2 DEF Sig!Sent
  <2>2. Sig!Pending(p, Sig!INT)' \in Nat
    <3>1. SigShape'
      BY <1>1, DeliverShape
    <3> QED
      BY <1>1, <3>1, SigCountedNext DEF SigShape
  <2>3. /\ num[p] \in Int /\ seen.merged \in Nat /\ num'[p] = num[p]
        /\ Sig!InHandler(p, Sig!INT) \in Nat /\ OneIf(s = Sig!INT) \in 0..1
    BY <1>1, CountNumbers DEF OneIf
  <2>4. /\ Sig!Pending(p, Sig!INT) = Sig!Pending(p, Sig!INT)' + OneIf(s = Sig!INT)
        /\ Sig!InHandler(p, Sig!INT)' = Sig!InHandler(p, Sig!INT) + OneIf(s = Sig!INT)
    BY <1>6, <1>7
  <2>5. Sig!Sent(Sig!INT) = num[p] + seen.merged + Sig!Pending(p, Sig!INT)
                              + Sig!InHandler(p, Sig!INT)
    BY DEF CountSum
  <2>6. Sig!Sent(Sig!INT)' = num'[p] + seen'.merged + Sig!Pending(p, Sig!INT)'
                               + Sig!InHandler(p, Sig!INT)'
    BY <2>1, <2>2, <2>3, <2>4, <2>5
  <2> QED
    BY <2>6 DEF CountSum
<1>9. CountRest'
  <2>1. pc'[p] \notin {"setup", "killed", "ended"}
    BY <1>1, <1>3, <1>5, CountNumbers
  <2>2. \A k \in 1..Len(stack'[p]) : stack'[p][k].at = "store" => stack'[p][k].reg = num'[p]
    <3> TAKE k \in 1..Len(stack'[p])
    <3>1. CASE k = Len(stack[p]) + 1
      BY <1>5, <1>7, <3>1
    <3>2. CASE k # Len(stack[p]) + 1
      <4>1. k \in 1..Len(stack[p]) /\ stack'[p][k] = stack[p][k]
        BY <1>7, <3>2
      <4> QED
        BY <1>1, <4>1 DEF CountRest
    <3> QED
      BY <3>1, <3>2
  <2> QED
    BY <1>1, <1>3, <2>1, <2>2 DEF CountRest
<1>10. CountTold'
  <2>1. seen'.told = IF s = Sig!TERM /\ ~exit_trigger[p] THEN num[p] + Sig!InHandler(p, Sig!INT) ELSE seen.told
    BY <1>5, CountNumbers DEF Seen
  <2>2. /\ num[p] \in Int /\ Sig!InHandler(p, Sig!INT) \in Nat /\ seen.told \in Int
        /\ Sig!InHandler(p, Sig!INT)' >= Sig!InHandler(p, Sig!INT) /\ Sig!InHandler(p, Sig!INT)' \in Nat
    BY <1>7, CountNumbers DEF OneIf
  <2>3. seen'.told <= num'[p] + Sig!InHandler(p, Sig!INT)'
    BY <1>1, <2>1, <2>2 DEF CountTold
  <2>4. pc'[p] \in {"report", "leaving", "ended"} <=> pc[p] \in {"report", "leaving", "ended"}
    BY <1>5, CountNumbers
  <2>5. pc'[p] \in {"leaving", "ended"} <=> pc[p] \in {"leaving", "ended"}
    BY <1>5, CountNumbers
  <2>6. pc[p] \in {"leaving", "ended"} => seen'.told = seen.told
    BY <2>1 DEF CountTold
  <2> QED
    BY <1>1, <2>3, <2>4, <2>5, <2>6 DEF CountTold
<1> QED
  BY <1>8, <1>9, <1>10

(* The steps of handlers and of main().                                    *)
LEMMA SentSame == ASSUME seen'.sent = seen.sent PROVE \A s : Sig!Sent(s)' = Sig!Sent(s)
BY DEF Sig!Sent

LEMMA CountSteps ==
  ASSUME SigShape, program = "count", CountSum, CountRest, CountTold, Sig!Step(p), ~Sig!Deliver(p)
  PROVE  CountSum' /\ CountRest' /\ CountTold'
<1>1. /\ p \in Sig!Procs /\ SigTypes /\ Sig!Pending(p, Sig!INT) \in Nat /\ Sig!InHandler(p, Sig!INT) \in Nat
      /\ num[p] \in Int /\ seen.merged \in Nat /\ num \in [Sig!Procs -> Int]
  BY CountNumbers
<1>2. ASSUME pending' = pending PROVE Sig!Pending(p, Sig!INT)' = Sig!Pending(p, Sig!INT)
  BY <1>2 DEF Sig!Pending
<1>3. ASSUME stack' = stack PROVE Sig!InHandler(p, Sig!INT)' = Sig!InHandler(p, Sig!INT)
  BY <1>3 DEF Sig!InHandler
<1>4. ASSUME Sig!Running(p)
      PROVE  /\ stack[p] # <<>> /\ pc[p] # "ended" /\ Sig!Handler(p) \in Handling
             /\ Sig!Handler(p).sig \in {Sig!INT, Sig!TERM}
             /\ Sig!Handler(p).at \in {"enter", "store"}
             /\ Sig!Handler(p).at = "store" => Sig!Handler(p).sig = Sig!INT
             /\ Len(stack[p]) \in Nat \ {0} /\ Sig!Handler(p) = stack[p][Len(stack[p])]
  <2>1. /\ stack[p] # <<>> /\ ~Sig!Gone(p) /\ Sig!Handler(p) \in Handling /\ Sig!Handler(p).sig \in Caught
        /\ Sig!Handler(p).at # "enter" => Sig!Counts(Sig!Handler(p).sig)
        /\ Sig!Handler(p).at = "print" => program = "actions"
        /\ Len(stack[p]) \in Nat \ {0} /\ Sig!Handler(p) = stack[p][Len(stack[p])]
    BY <1>1, <1>4, HandlerIs
  <2>2. Sig!Handler(p).sig \in {Sig!INT, Sig!TERM}
    BY <2>1 DEF Caught, SigNames
  <2>3. Sig!Handler(p).at \in {"enter", "store"}
    BY <2>1 DEF Handling
  <2> QED
    BY <2>1, <2>2, <2>3 DEF Sig!Gone, Sig!Counts, Sig!TERM, Sig!USR1, Sig!USR2, Sig!INT
<1>5. CASE Sig!Load(p)
  <2>1. Sig!Running(p)
        /\ UNCHANGED <<program, ready, pc, pending, num, exit_trigger, printed, seen>>
    BY <1>5 DEF Sig!Load
  <2> DEFINE h == [Sig!Handler(p) EXCEPT !.at = "store", !.reg = num[p]]
  <2>2. h \in Handling /\ h.sig = Sig!Handler(p).sig /\ h.reg = num[p] /\ Sig!Set(p, h)
    BY <1>1, <1>4, <1>5, <2>1 DEF Handling, Sig!Load
  <2> HIDE DEF h
  <2>3. /\ Len(stack'[p]) = Len(stack[p])
        /\ \A k \in 1..Len(stack[p]) : stack'[p][k] = IF k = Len(stack[p]) THEN h ELSE stack[p][k]
        /\ \A s : Sig!InHandler(p, s)' = Sig!InHandler(p, s)
    BY <1>1, <1>4, <2>1, <2>2, Topped
  <2>4. CountSum'
    BY <1>2, <2>1, <2>3, SentSame DEF CountSum
  <2>5. \A k \in 1..Len(stack'[p]) : stack'[p][k].at = "store" => stack'[p][k].reg = num'[p]
    BY <2>1, <2>2, <2>3 DEF CountRest
  <2>6. CountRest'
    BY <1>4, <2>1, <2>5 DEF CountRest
  <2>7. CountTold'
    BY <2>1, <2>3 DEF CountTold
  <2> QED
    BY <2>4, <2>6, <2>7
<1>6. CASE Sig!Store(p)
  <2>1. /\ Sig!Running(p) /\ Sig!Return(p) /\ Sig!Handler(p).at = "store"
        /\ num' = [num EXCEPT ![p] = Sig!Result(Sig!Handler(p).sig, Sig!Handler(p).reg)]
        /\ UNCHANGED <<program, ready, pc, pending, exit_trigger, printed, seen>>
    BY <1>6 DEF Sig!Store
  <2>2. Sig!Handler(p).sig = Sig!INT /\ Sig!Handler(p).reg = num[p]
    BY <1>4, <2>1 DEF CountRest
  <2>3. num'[p] = num[p] + 1
    BY <1>1, <2>1, <2>2 DEF Sig!Result, Sig!INT, Sig!USR2
  <2>4. /\ Len(stack'[p]) = Len(stack[p]) - 1
        /\ \A k \in 1..Len(stack'[p]) : k \in 1..Len(stack[p]) /\ stack'[p][k] = stack[p][k]
        /\ Sig!InHandler(p, Sig!INT) = Sig!InHandler(p, Sig!INT)' + OneIf(Sig!Handler(p).sig = Sig!INT)
    BY <1>1, <1>4, <2>1, Popped
  <2>5. Sig!InHandler(p, Sig!INT)' \in Nat
    <3>1. SigTypes'
      BY <1>1, <1>6, HandlerShape DEF SigShape
    <3> QED
      BY <1>1, <3>1, SigCountedNext
  <2>6. CountSum'
    <3>1. Sig!InHandler(p, Sig!INT) = Sig!InHandler(p, Sig!INT)' + 1
      BY <2>2, <2>4 DEF OneIf
    <3>2. /\ Sig!Sent(Sig!INT)' = Sig!Sent(Sig!INT) /\ seen'.merged = seen.merged
          /\ Sig!Pending(p, Sig!INT)' = Sig!Pending(p, Sig!INT)
      BY <1>2, <2>1, SentSame
    <3> QED
      BY <1>1, <2>3, <2>5, <3>1, <3>2 DEF CountSum
  <2>7. \A k \in 1..Len(stack'[p]) : stack'[p][k].at # "store"
    <3> TAKE k \in 1..Len(stack'[p])
    <3>1. /\ k \in 1..Len(stack[p]) /\ stack'[p][k] = stack[p][k] /\ k # Len(stack[p])
          /\ Len(stack[p]) \in 1..Len(stack[p])
      BY <1>4, <2>1, <2>4
    <3>2. stack[p][k].sig # Sig!INT
      BY <1>1, <1>4, <2>1, <2>2, <3>1, ShapeParts
    <3>3. stack[p][k].at # "enter" => Sig!Counts(stack[p][k].sig)
          /\ stack[p][k].sig \in Caught
      BY <1>1, <3>1, ShapeParts
    <3> QED
      BY <3>1, <3>2, <3>3 DEF Sig!Counts, Caught, SigNames, Sig!TERM, Sig!USR1, Sig!USR2, Sig!INT
  <2>8. CountRest'
    BY <1>4, <2>1, <2>7 DEF CountRest
  <2>9. CountTold'
    <3>1. Sig!InHandler(p, Sig!INT) = Sig!InHandler(p, Sig!INT)' + 1 /\ seen.told \in Int
      BY <2>2, <2>4, CountNumbers DEF OneIf
    <3>2. num'[p] + Sig!InHandler(p, Sig!INT)' = num[p] + Sig!InHandler(p, Sig!INT)
      BY <1>1, <2>3, <2>5, <3>1
    <3>3. \A n \in Int : n <= num[p] => n <= num'[p]
      BY <1>1, <2>3
    <3> QED
      BY <2>1, <3>2, <3>3 DEF CountTold
  <2> QED
    BY <2>6, <2>8, <2>9
<1>7. CASE Sig!TermHandler(p)
  <2>1. /\ Sig!Running(p) /\ Sig!Return(p) /\ Sig!Ends(p)
        /\ UNCHANGED <<program, ready, pc, pending, num, printed>>
        /\ seen' = [seen EXCEPT !.missed = @ \/ pc[p] = "pause"]
    BY <1>7 DEF Sig!TermHandler, Sig!SetTrigger
  <2>2. Sig!Handler(p).sig = Sig!TERM
    BY <2>1 DEF Sig!Ends
  <2>3. seen'.sent = seen.sent /\ seen'.merged = seen.merged
    BY <1>1, <2>1 DEF SigTypes, Seen
  <2>4. /\ Len(stack'[p]) = Len(stack[p]) - 1
        /\ \A k \in 1..Len(stack'[p]) : k \in 1..Len(stack[p]) /\ stack'[p][k] = stack[p][k]
        /\ Sig!InHandler(p, Sig!INT) = Sig!InHandler(p, Sig!INT)' + OneIf(Sig!Handler(p).sig = Sig!INT)
    BY <1>1, <1>4, <2>1, Popped
  <2>5. Sig!InHandler(p, Sig!INT)' \in Nat
    <3>1. SigTypes'
      BY <1>1, <1>7, HandlerShape DEF SigShape
    <3> QED
      BY <1>1, <3>1, SigCountedNext
  <2>6. CountSum'
    BY <1>1, <1>2, <2>1, <2>2, <2>3, <2>4, <2>5, SentSame DEF CountSum, OneIf, Sig!INT, Sig!TERM
  <2>7. \A k \in 1..Len(stack'[p]) : stack'[p][k].at = "store" => stack'[p][k].reg = num'[p]
    BY <2>1, <2>4 DEF CountRest
  <2>8. CountRest'
    BY <1>4, <2>1, <2>7 DEF CountRest
  <2>9. CountTold'
    <3>1. exit_trigger'[p] /\ seen'.told = seen.told
      BY <1>1, <1>7, <2>1, CountNumbers DEF Sig!TermHandler, Sig!SetTrigger, Seen
    <3>2. Sig!InHandler(p, Sig!INT)' = Sig!InHandler(p, Sig!INT)
      BY <1>1, <2>2, <2>4, <2>5 DEF OneIf, Sig!INT, Sig!TERM
    <3> QED
      BY <2>1, <3>1, <3>2 DEF CountTold
  <2> QED
    BY <2>6, <2>8, <2>9
<1>8. CASE MainSteps(p)
  <2>1. /\ UNCHANGED <<program, stack, pending, num, exit_trigger, seen>>
        /\ stack[p] = <<>> /\ ~Sig!Gone(p)
    BY <1>8 DEF MainSteps, Sig!Prepare, Sig!Test, Sig!Pause, Sig!Report, Sig!Leave, Sig!MainRuns
  <2>2. CountSum'
    BY <1>2, <1>3, <2>1, SentSame DEF CountSum
  <2>3. /\ pc'[p] = "setup" => pc[p] = "setup"
        /\ pc'[p] # "killed"
    BY <1>8, CountNumbers DEF MainSteps, Sig!Prepare, Sig!Test, Sig!Pause, Sig!Report, Sig!Leave
  <2>4. CountRest'
    BY <2>1, <2>3 DEF CountRest
  <2>5. CountTold'
    <3>1. /\ pc \in [Sig!Procs -> Points] /\ printed \in [Sig!Procs -> Seq(Int)] /\ seen.told \in Int
          /\ seen'.told = seen.told /\ num'[p] = num[p]
          /\ Sig!InHandler(p, Sig!INT)' = Sig!InHandler(p, Sig!INT)
      BY <1>3, <2>1, CountNumbers
    <3>2. CASE Sig!Prepare(p) \/ Sig!Pause(p)
      <4>1. /\ printed' = printed /\ pc[p] \in {"setup", "pause"}
            /\ pc'[p] \in {"setup", "test", "paused"}
        BY <1>1, <3>1, <3>2 DEF Sig!Prepare, Sig!Pause
      <4> QED
        BY <2>1, <3>1, <4>1 DEF CountTold
    <3>3. CASE Sig!Test(p)
      <4>1. /\ printed' = printed /\ pc[p] = "test" /\ pc'[p] = IF exit_trigger[p] THEN "report" ELSE "pause"
        BY <1>1, <3>1, <3>3 DEF Sig!Test
      <4> QED
        BY <2>1, <3>1, <4>1 DEF CountTold
    <3>4. CASE Sig!Report(p)
      <4>1. /\ printed'[p] = Append(printed[p], num[p]) /\ pc[p] = "report" /\ pc'[p] = "leaving"
        BY <1>1, <3>1, <3>4 DEF Sig!Report
      <4>2. printed'[p] = <<num[p]>>
        <5>1. printed[p] = <<>>
          BY <4>1 DEF CountTold
        <5> QED
          BY <4>1, <5>1
      <4>3. Sig!InHandler(p, Sig!INT) = 0
        <5>1. stack[p] \in Seq(Handling) /\ Where(stack[p], Sig!INT) = {}
          BY <2>1, CountNumbers DEF Where
        <5>2. DOMAIN stack[p] = 1..Len(stack[p])
          BY <5>1, SigSeq
        <5>3. Sig!InHandler(p, Sig!INT) = Cardinality(Where(stack[p], Sig!INT))
          BY <5>2, SignalCardinality DEF Sig!InHandler, Where
        <5> QED
          BY <5>1, <5>3, FS_EmptySet
      <4>4. seen.told <= num[p] /\ num[p] <= num[p] /\ num[p] \in Int
        BY <1>1, <3>1, <4>3 DEF CountTold
      <4> QED
        BY <2>1, <3>1, <4>1, <4>2, <4>4 DEF CountTold
    <3>5. CASE Sig!Leave(p)
      <4>1. /\ printed' = printed /\ pc[p] = "leaving" /\ pc'[p] = "ended"
        BY <1>1, <3>1, <3>5 DEF Sig!Leave
      <4> QED
        BY <2>1, <3>1, <4>1 DEF CountTold
    <3> QED
      BY <1>8, <3>2, <3>3, <3>4, <3>5 DEF MainSteps
  <2> QED
    BY <2>2, <2>4, <2>5
<1>9. ~Sig!PrintNum(p) /\ ~Sig!PrintLine(p) /\ ~Sig!FileFails(p) /\ ~Sig!ReturnBall(p)
  BY <1>4 DEF Sig!PrintNum, Sig!PrintLine, Sig!FileFails, Sig!ReturnBall
<1> QED
  BY <1>5, <1>6, <1>7, <1>8, <1>9 DEF Sig!Step, MainSteps

LEMMA CountNext == ASSUME SigShape, SigCount, Sig!Next PROVE SigCount'
<1>1. program' = program
  BY ShapeStep
<1>2. SUFFICES ASSUME program = "count" PROVE CountSum' /\ CountRest' /\ CountTold'
  BY <1>1 DEF SigCount, CountSum, CountRest, CountTold
<1>3. CountSum /\ CountRest /\ CountTold
  BY <1>2, CountIs
<1>4. CASE Sig!Send
  BY <1>2, <1>3, <1>4, CountSends
<1>5. ASSUME NEW x \in Sig!Procs, Sig!Step(x) PROVE CountSum' /\ CountRest' /\ CountTold'
  <2>1. Sig!Step(p)
    BY <1>2, <1>5, OnlyP
  <2> QED
    BY <1>2, <1>3, <2>1, CountSteps, CountDelivers
<1> QED
  BY <1>4, <1>5 DEF Sig!Next

(* do-actions.                                                             *)
Told(h) ==
  /\ h.at = "enter" => Sig!Result(h.sig, num[p]) = seen.meant
  /\ h.at = "store" => h.reg = num[p] /\ Sig!Result(h.sig, h.reg) = seen.meant
  /\ h.at = "print" => num[p] = seen.meant
ActionsInv ==
  /\ \A j, k \in Acting : j = k
  /\ Acting = {} => num[p] = seen.meant /\ (printed[p] # <<>> => printed[p][Len(printed[p])] = num[p])
  /\ \A k \in Acting : Told(stack[p][k])

LEMMA ActionsIs == SigActions <=> (program = "actions" /\ ~seen.crossed => ActionsInv)
BY DEF SigActions, ActionsInv, Told

Both == {Sig!USR1, Sig!USR2}

LEMMA ActionsQuiet ==
  ASSUME ActionsInv, UNCHANGED <<num, printed, stack>>, seen'.meant = seen.meant
  PROVE  ActionsInv'
BY DEF ActionsInv, Acting, Told

LEMMA ActionsDeliver ==
  ASSUME SigShape, program = "actions", ~seen.crossed, ActionsInv, Sig!Deliver(p), ~seen'.crossed
  PROVE  ActionsInv'
<1>1. /\ UNCHANGED <<program, ready, num, exit_trigger, printed>> /\ p \in Sig!Procs /\ SigTypes
  BY DeliverShape, CountNumbers
<1>2. PICK i \in 1..Len(pending[p]) :
        LET s == pending[p][i].sig
            h == [sig |-> s, value |-> pending[p][i].value, at |-> "enter", reg |-> 0]
        IN
        \/ UNCHANGED <<stack, seen>>
        \/ /\ s \in Caught /\ h \in Handling
           /\ stack' = [stack EXCEPT ![p] = Append(@, h)]
           /\ seen' = [seen EXCEPT !.meant = Sig!Meant(s, @),
                                   !.told = IF program = "count" /\ s = Sig!TERM /\ ~exit_trigger[p]
                                            THEN num[p] + Sig!InHandler(p, Sig!INT) ELSE @,
                                   !.crossed = @ \/ (s \in {Sig!USR1, Sig!USR2} /\ Sig!Acts(p))]
  BY <1>1, DeliverShape
<1>3. CASE UNCHANGED <<stack, seen>>
  BY <1>1, <1>3, ActionsQuiet
<1>4. CASE ~UNCHANGED <<stack, seen>>
  <2>1. PICK s, h :
          /\ h.sig = s /\ h.at = "enter" /\ h \in Handling
          /\ stack' = [stack EXCEPT ![p] = Append(@, h)]
          /\ seen' = [seen EXCEPT !.meant = Sig!Meant(s, @),
                                  !.told = IF program = "count" /\ s = Sig!TERM /\ ~exit_trigger[p]
                                           THEN num[p] + Sig!InHandler(p, Sig!INT) ELSE @,
                                  !.crossed = @ \/ (s \in {Sig!USR1, Sig!USR2} /\ Sig!Acts(p))]
    <3> DEFINE s == pending[p][i].sig
               h == [sig |-> s, value |-> pending[p][i].value, at |-> "enter", reg |-> 0]
    <3>1. /\ stack' = [stack EXCEPT ![p] = Append(@, h)] /\ h \in Handling
          /\ seen' = [seen EXCEPT !.meant = Sig!Meant(s, @),
                                  !.told = IF program = "count" /\ s = Sig!TERM /\ ~exit_trigger[p]
                                           THEN num[p] + Sig!InHandler(p, Sig!INT) ELSE @,
                                  !.crossed = @ \/ (s \in {Sig!USR1, Sig!USR2} /\ Sig!Acts(p))]
      BY <1>2, <1>4
    <3>2. h.sig = s /\ h.at = "enter"
      OBVIOUS
    <3> HIDE DEF h
    <3> QED
      BY <3>1, <3>2
  <2>2. /\ Len(stack[p]) \in Nat /\ Len(stack'[p]) = Len(stack[p]) + 1
        /\ \A k \in 1..Len(stack[p]) + 1 :
             stack'[p][k] = IF k = Len(stack[p]) + 1 THEN h ELSE stack[p][k]
    <3>1. h \in Handling /\ stack' = [stack EXCEPT ![p] = Append(@, h)]
      BY <2>1
    <3> QED
      BY <1>1, <3>1, Pushed
  <2>3. /\ seen'.meant = Sig!Meant(s, seen.meant)
        /\ seen'.crossed = (seen.crossed \/ (s \in Both /\ Sig!Acts(p)))
        /\ seen.meant \in Int /\ num[p] \in Int
    <3>1. seen \in Seen(seen.sent) /\ num[p] \in Int
      BY <1>1 DEF SigTypes
    <3> QED
      BY <2>1, <3>1 DEF Seen, Both
  <2>4. CASE s \in Both
    <3>1. Acting = {}
      <4>1. ~Sig!Acts(p)
        BY <2>3, <2>4
      <4>2. DOMAIN stack[p] = 1..Len(stack[p])
        BY CountNumbers, SigSeq
      <4> QED
        BY <4>1, <4>2 DEF Acting, Sig!Acts
    <3>2. Acting' = {Len(stack[p]) + 1}
      <4>1. \A k \in 1..Len(stack[p]) + 1 : k \in Acting' <=> k = Len(stack[p]) + 1
        <5> TAKE k \in 1..Len(stack[p]) + 1
        <5>1. CASE k = Len(stack[p]) + 1
          BY <2>1, <2>2, <2>4, <5>1 DEF Acting, Both
        <5>2. CASE k # Len(stack[p]) + 1
          <6>1. k \in 1..Len(stack[p]) /\ stack'[p][k] = stack[p][k]
            BY <2>2, <5>2
          <6> QED
            BY <3>1, <5>2, <6>1 DEF Acting
        <5> QED
          BY <5>1, <5>2
      <4>2. Acting' \subseteq 1..Len(stack[p]) + 1 /\ Len(stack[p]) + 1 \in 1..Len(stack[p]) + 1
        BY <2>2 DEF Acting
      <4> QED
        BY <4>1, <4>2
    <3>3. num[p] = seen.meant
      BY <3>1 DEF ActionsInv
    <3>4. Sig!Result(s, num[p]) = seen'.meant
      BY <2>3, <2>4, <3>3 DEF Sig!Result, Sig!Meant, Both, Sig!USR1, Sig!USR2
    <3>5. stack'[p][Len(stack[p]) + 1] = h
      BY <2>2
    <3>6. Told(h)'
      BY <1>1, <2>1, <3>4 DEF Told
    <3> QED
      BY <3>2, <3>5, <3>6 DEF ActionsInv, Told
  <2>5. CASE s \notin Both
    <3>1. seen'.meant = seen.meant
      BY <2>3, <2>5 DEF Sig!Meant, Both
    <3>2. Acting' = Acting /\ \A k \in Acting : stack'[p][k] = stack[p][k]
      <4>1. Len(stack[p]) + 1 \notin Acting'
        BY <2>1, <2>2, <2>5 DEF Acting, Both
      <4>2. \A k \in 1..Len(stack[p]) : k \in 1..Len(stack[p]) + 1 /\ stack'[p][k] = stack[p][k]
        BY <2>2
      <4>3. \A k \in 1..Len(stack[p]) + 1 : k \in 1..Len(stack[p]) \/ k = Len(stack[p]) + 1
        BY <2>2
      <4> QED
        BY <2>2, <4>1, <4>2, <4>3 DEF Acting
    <3> QED
      BY <1>1, <3>1, <3>2 DEF ActionsInv, Told
  <2> QED
    BY <2>4, <2>5
<1> QED
  BY <1>3, <1>4

LEMMA ActionsSteps ==
  ASSUME SigShape, program = "actions", ~seen.crossed, ActionsInv, Sig!Step(p), ~Sig!Deliver(p)
  PROVE  ActionsInv'
<1>1. /\ p \in Sig!Procs /\ SigTypes /\ num[p] \in Int /\ num \in [Sig!Procs -> Int]
      /\ printed \in [Sig!Procs -> Seq(Int)]
  BY CountNumbers
<1>2. ASSUME Sig!Running(p)
      PROVE  /\ stack[p] # <<>> /\ Sig!Handler(p) \in Handling
             /\ Sig!Handler(p).at # "enter" => Sig!Handler(p).sig \in Both
             /\ Len(stack[p]) \in Nat \ {0} /\ Sig!Handler(p) = stack[p][Len(stack[p])]
             /\ Len(stack[p]) \in Acting <=> Sig!Handler(p).sig \in Both
  <2>1. /\ stack[p] # <<>> /\ Sig!Handler(p) \in Handling
        /\ Sig!Handler(p).at # "enter" => Sig!Counts(Sig!Handler(p).sig)
        /\ Len(stack[p]) \in Nat \ {0} /\ Sig!Handler(p) = stack[p][Len(stack[p])]
    BY <1>1, <1>2, HandlerIs
  <2>2. Len(stack[p]) \in Acting <=> Sig!Handler(p).sig \in Both
    BY <2>1 DEF Acting, Both
  <2> QED
    BY <2>1, <2>2 DEF Sig!Counts, Both
<1>3. CASE Sig!Load(p) \/ Sig!Store(p)
  <2>1. Sig!Running(p) /\ Sig!Handler(p).sig \in Both
    BY <1>2, <1>3 DEF Sig!Load, Sig!Store, Sig!Counts, Both
  <2>2. PICK h \in Handling :
          /\ h.sig = Sig!Handler(p).sig /\ Sig!Set(p, h) /\ UNCHANGED <<printed, seen>>
          /\ \/ Sig!Handler(p).at = "enter" /\ h.at = "store" /\ h.reg = num[p] /\ num' = num
             \/ /\ Sig!Handler(p).at = "store" /\ h.at = "print"
                /\ num'[p] = Sig!Result(Sig!Handler(p).sig, Sig!Handler(p).reg)
    <3>1. CASE Sig!Load(p)
      <4> DEFINE h == [Sig!Handler(p) EXCEPT !.at = "store", !.reg = num[p]]
      <4>1. h \in Handling /\ h.sig = Sig!Handler(p).sig /\ h.at = "store" /\ h.reg = num[p]
        BY <1>1, <1>2, <2>1 DEF Handling
      <4>2. Sig!Set(p, h) /\ UNCHANGED <<printed, seen, num>> /\ Sig!Handler(p).at = "enter"
        BY <3>1 DEF Sig!Load
      <4> HIDE DEF h
      <4> QED
        BY <4>1, <4>2
    <3>2. CASE Sig!Store(p)
      <4> DEFINE h == [Sig!Handler(p) EXCEPT !.at = "print"]
      <4>1. h \in Handling /\ h.sig = Sig!Handler(p).sig /\ h.at = "print"
        BY <1>1, <1>2, <2>1 DEF Handling
      <4>2. Sig!Set(p, h) /\ UNCHANGED <<printed, seen>> /\ Sig!Handler(p).at = "store"
            /\ num'[p] = Sig!Result(Sig!Handler(p).sig, Sig!Handler(p).reg)
        BY <1>1, <3>2 DEF Sig!Store
      <4> HIDE DEF h
      <4> QED
        BY <4>1, <4>2
    <3> QED
      BY <1>3, <3>1, <3>2
  <2>3. /\ Len(stack'[p]) = Len(stack[p])
        /\ \A k \in 1..Len(stack[p]) : stack'[p][k] = IF k = Len(stack[p]) THEN h ELSE stack[p][k]
    BY <1>1, <1>2, <2>1, <2>2, Topped
  <2>4. Acting' = Acting
    BY <1>2, <2>1, <2>2, <2>3 DEF Acting
  <2>5. Len(stack[p]) \in Acting /\ Told(Sig!Handler(p)) /\ \A k \in Acting : k = Len(stack[p])
    BY <1>2, <2>1 DEF ActionsInv
  <2>6. stack'[p][Len(stack[p])] = h
    BY <1>2, <2>1, <2>3
  <2>7. Told(h)'
    BY <2>2, <2>5 DEF Told
  <2> QED
    BY <2>4, <2>5, <2>6, <2>7 DEF ActionsInv, Told
<1>4. CASE Sig!PrintNum(p) \/ Sig!TermHandler(p)
  <2>1. Sig!Running(p) /\ Sig!Return(p) /\ num' = num
    BY <1>4 DEF Sig!PrintNum, Sig!TermHandler, Sig!SetTrigger
  <2>2. /\ Len(stack'[p]) = Len(stack[p]) - 1
        /\ \A k \in 1..Len(stack'[p]) : k \in 1..Len(stack[p]) /\ stack'[p][k] = stack[p][k]
    BY <1>1, <1>2, <2>1, Popped
  <2>3. Acting' = Acting \ {Len(stack[p])}
    <3>1. Acting' \subseteq Acting /\ Len(stack[p]) \notin Acting'
      <4>1. Len(stack[p]) \in Nat \ {0} /\ Len(stack[p]) \notin 1..Len(stack'[p])
        BY <1>2, <2>1, <2>2
      <4>2. Acting' \subseteq Acting
        BY <2>2 DEF Acting
      <4> QED
        BY <4>1, <4>2 DEF Acting
    <3>2. \A k \in Acting : k # Len(stack[p]) => k \in Acting'
      BY <1>2, <2>1, <2>2 DEF Acting
    <3> QED
      BY <3>1, <3>2
  <2>4. CASE Sig!PrintNum(p)
    <3>1. Sig!Handler(p).at = "print" /\ seen' = seen /\ printed' = [printed EXCEPT ![p] = Append(@, num[p])]
      BY <2>4 DEF Sig!PrintNum
    <3>2. Len(stack[p]) \in Acting /\ num[p] = seen.meant
      BY <1>2, <2>1, <3>1 DEF ActionsInv, Told
    <3>3. Acting' = {}
      BY <2>3, <3>2 DEF ActionsInv
    <3>4. printed'[p][Len(printed'[p])] = num[p]
      BY <1>1, <3>1, PrintedIs
    <3> QED
      BY <2>1, <3>1, <3>2, <3>3, <3>4 DEF ActionsInv
  <2>5. CASE Sig!TermHandler(p)
    <3>1. /\ Sig!Ends(p) /\ printed' = printed
          /\ seen' = [seen EXCEPT !.missed = @ \/ pc[p] = "pause"]
      BY <2>5 DEF Sig!TermHandler, Sig!SetTrigger
    <3>2. Sig!Handler(p).sig \notin Both
      BY <3>1 DEF Sig!Ends, Both, Sig!TERM, Sig!INT, Sig!USR1, Sig!USR2
    <3>3. Acting' = Acting
      BY <1>2, <2>1, <2>3, <3>2
    <3>4. seen'.meant = seen.meant
      BY <1>1, <3>1 DEF SigTypes, Seen
    <3>5. \A k \in Acting : stack'[p][k] = stack[p][k]
      BY <2>2, <3>3 DEF Acting
    <3> QED
      BY <2>1, <3>1, <3>3, <3>4, <3>5 DEF ActionsInv, Told
  <2> QED
    BY <1>4, <2>4, <2>5
<1>5. CASE MainSteps(p)
  <2>1. UNCHANGED <<stack, num, printed, seen>>
    BY <1>5 DEF MainSteps, Sig!Prepare, Sig!Test, Sig!Pause, Sig!Report, Sig!Leave
  <2> QED
    BY <2>1, ActionsQuiet
<1>6. ~Sig!PrintLine(p) /\ ~Sig!FileFails(p) /\ ~Sig!ReturnBall(p)
  BY DEF Sig!PrintLine, Sig!FileFails, Sig!ReturnBall
<1> QED
  BY <1>3, <1>4, <1>5, <1>6 DEF Sig!Step, MainSteps

LEMMA CrossedStays == ASSUME SigShape, Sig!Next, ~seen'.crossed PROVE ~seen.crossed
<1>1. seen \in Seen(seen.sent)
  BY DEF SigShape, SigTypes
<1>2. CASE Sig!Send
  BY <1>2, SendIs
<1>3. ASSUME NEW x \in Sig!Procs, Sig!Step(x) PROVE ~seen.crossed
  <2>1. CASE Sig!TermHandler(x)
    BY <1>1, <2>1 DEF Sig!TermHandler, Sig!SetTrigger, Seen
  <2>2. CASE Sig!Deliver(x)
    <3>1. PICK s : \/ seen' = seen
                   \/ seen' = [seen EXCEPT !.meant = Sig!Meant(s, @),
                                 !.told = IF program = "count" /\ s = Sig!TERM /\ ~exit_trigger[x]
                                          THEN num[x] + Sig!InHandler(x, Sig!INT) ELSE @,
                                 !.crossed = @ \/ (s \in {Sig!USR1, Sig!USR2} /\ Sig!Acts(x))]
      BY <1>3, <2>2, DeliverShape
    <3> QED
      BY <1>1, <3>1 DEF Seen
  <2>3. CASE seen' = seen
    BY <2>3
  <2> QED
    BY <1>3, <2>1, <2>2, <2>3 DEF Sig!Step, Sig!Load, Sig!Store, Sig!PrintNum, Sig!PrintLine,
       Sig!FileFails, Sig!ReturnBall, MainSteps, Sig!Prepare, Sig!Test, Sig!Pause, Sig!Report, Sig!Leave
<1> QED
  BY <1>2, <1>3 DEF Sig!Next

LEMMA ActionsNext == ASSUME SigShape, SigActions, Sig!Next PROVE SigActions'
<1>1. program' = program
  BY ShapeStep
<1>2. SUFFICES ASSUME program = "actions", ~seen'.crossed PROVE ActionsInv'
  BY <1>1 DEF SigActions, ActionsInv, Told
<1>3. ActionsInv /\ ~seen.crossed
  BY <1>2, ActionsIs, CrossedStays
<1>4. CASE Sig!Send
  BY <1>3, <1>4, SendIs, ActionsQuiet
<1>5. ASSUME NEW x \in Sig!Procs, Sig!Step(x) PROVE ActionsInv'
  <2>1. Sig!Step(p)
    BY <1>2, <1>5, OnlyP
  <2> QED
    BY <1>2, <1>3, <2>1, ActionsSteps, ActionsDeliver
<1> QED
  BY <1>4, <1>5 DEF Sig!Next

(* signalfd-rtsig.                                                         *)
LinesOf(t, s) == {k \in 1..Len(t) : t[k] = s}

LEMMA LinesAppend ==
  ASSUME NEW t \in Seq(Int), NEW n \in Int, NEW s
  PROVE  /\ IsFiniteSet(LinesOf(t, s)) /\ Cardinality(LinesOf(t, s)) \in Nat
         /\ Cardinality(LinesOf(Append(t, n), s)) = Cardinality(LinesOf(t, s)) + OneIf(n = s)
<1>1. /\ Len(t) \in Nat /\ Len(Append(t, n)) = Len(t) + 1
      /\ \A k \in 1..Len(t) + 1 : Append(t, n)[k] = IF k = Len(t) + 1 THEN n ELSE t[k]
  OBVIOUS
<1>2. IsFiniteSet(LinesOf(t, s)) /\ Cardinality(LinesOf(t, s)) \in Nat
  <2>1. IsFiniteSet(1..Len(t))
    BY <1>1, FS_Interval
  <2> QED
    BY <2>1, FS_Subset, FS_CardinalityType DEF LinesOf
<1>3. Len(t) + 1 \notin LinesOf(t, s)
  BY <1>1 DEF LinesOf
<1>4. CASE n = s
  <2>1. LinesOf(Append(t, n), s) = LinesOf(t, s) \cup {Len(t) + 1}
    BY <1>1, <1>4 DEF LinesOf
  <2> QED
    BY <1>2, <1>3, <1>4, <2>1, FS_AddElement DEF OneIf
<1>5. CASE n # s
  <2>1. LinesOf(Append(t, n), s) = LinesOf(t, s)
    BY <1>1, <1>5 DEF LinesOf
  <2> QED
    BY <1>2, <1>5, <2>1 DEF OneIf
<1> QED
  BY <1>2, <1>4, <1>5

LEMMA LinesCounted ==
  ASSUME printed \in [Sig!Procs -> Seq(Int)], NEW x \in Sig!Procs, NEW s
  PROVE  Sig!Lines(x, s) = Cardinality(LinesOf(printed[x], s)) /\ Sig!Lines(x, s) \in Nat
<1>1. printed[x] \in Seq(Int)
  OBVIOUS
<1>2. Sig!Lines(x, s) = Cardinality(LinesOf(printed[x], s))
  BY <1>1, SigSeq, SignalCardinality DEF Sig!Lines, LinesOf
<1>3. Cardinality(LinesOf(printed[x], s)) \in Nat
  <2>1. 0 \in Int
    OBVIOUS
  <2> QED
    BY <1>1, <2>1, LinesAppend
<1> QED
  BY <1>2, <1>3

LEMMA LinesCountedNext ==
  ASSUME printed' \in [Sig!Procs -> Seq(Int)], NEW x \in Sig!Procs, NEW s
  PROVE  Sig!Lines(x, s)' = Cardinality(LinesOf(printed'[x], s))
<1>1. printed'[x] \in Seq(Int)
  OBVIOUS
<1> QED
  BY <1>1, SigSeq, SignalCardinality DEF Sig!Lines, LinesOf

LineSum(s) ==
  Sig!Sent(s) = Sig!Lines(p, s) + Sig!Pending(p, s) + Sig!InHandler(p, s)
NoLast == \A k \in 1..Len(printed[p]) : printed[p][k] # Sig!RT(RtMax)
Served == {Sig!RT(k) : k \in 1..RtMax}
Excused ==
  pc[p] = "killed" =>
    ready[p] < Len(Sig!SetUp) \/ \E k \in (1..RtMax - 1) \ Files : Sig!Sent(Sig!RT(k)) > 0
LinesInv == (~Sig!Gone(p) => \A s \in Served : LineSum(s)) /\ NoLast /\ Excused

LEMMA LinesIs == SigLines <=> (program = "rtsig" => LinesInv)
BY DEF SigLines, LinesInv, Served, LineSum, NoLast, Excused

LEMMA LinesParts ==
  ASSUME SigShape, NEW s
  PROVE  /\ Sig!Lines(p, s) \in Nat /\ Sig!Pending(p, s) \in Nat /\ Sig!InHandler(p, s) \in Nat
         /\ p \in Sig!Procs /\ SigTypes /\ printed \in [Sig!Procs -> Seq(Int)]
BY CountNumbers, SigCounted, LinesCounted

LEMMA LinesDeliver ==
  ASSUME SigShape, program = "rtsig", LinesInv, Sig!Deliver(p), ~Sig!Gone(p)', NEW t \in Served
  PROVE  LineSum(t)'
<1>1. /\ UNCHANGED <<program, ready, num, exit_trigger, printed>> /\ p \in Sig!Procs /\ SigTypes
      /\ pc \in [Sig!Procs -> Points] /\ ~Sig!Gone(p) /\ SigTypes'
  BY DeliverShape, CountNumbers DEF SigShape
<1>2. PICK i \in 1..Len(pending[p]) :
        LET s == pending[p][i].sig
            h == [sig |-> s, value |-> pending[p][i].value, at |-> "enter", reg |-> 0]
        IN
        /\ pending' = [pending EXCEPT ![p] = Sig!RemoveAt(@, i)]
        /\ \/ pc' = [pc EXCEPT ![p] = "killed"]
           \/ /\ h \in Handling /\ stack' = [stack EXCEPT ![p] = Append(@, h)]
              /\ seen' = [seen EXCEPT !.meant = Sig!Meant(s, @),
                                      !.told = IF program = "count" /\ s = Sig!TERM /\ ~exit_trigger[p]
                                               THEN num[p] + Sig!InHandler(p, Sig!INT) ELSE @,
                                      !.crossed = @ \/ (s \in {Sig!USR1, Sig!USR2} /\ Sig!Acts(p))]
  BY <1>1, DeliverShape
<1>3. pc'[p] # "killed"
  BY DEF Sig!Gone
<1>4. PICK s, h :
        /\ s = pending[p][i].sig /\ h.sig = s /\ h \in Handling
        /\ stack' = [stack EXCEPT ![p] = Append(@, h)]
        /\ seen' = [seen EXCEPT !.meant = Sig!Meant(s, @),
                                !.told = IF program = "count" /\ s = Sig!TERM /\ ~exit_trigger[p]
                                         THEN num[p] + Sig!InHandler(p, Sig!INT) ELSE @,
                                !.crossed = @ \/ (s \in {Sig!USR1, Sig!USR2} /\ Sig!Acts(p))]
  <2> DEFINE s == pending[p][i].sig
             h == [sig |-> s, value |-> pending[p][i].value, at |-> "enter", reg |-> 0]
  <2>1. /\ stack' = [stack EXCEPT ![p] = Append(@, h)] /\ h \in Handling
        /\ seen' = [seen EXCEPT !.meant = Sig!Meant(s, @),
                                !.told = IF program = "count" /\ s = Sig!TERM /\ ~exit_trigger[p]
                                         THEN num[p] + Sig!InHandler(p, Sig!INT) ELSE @,
                                !.crossed = @ \/ (s \in {Sig!USR1, Sig!USR2} /\ Sig!Acts(p))]
    BY <1>1, <1>2, <1>3
  <2>2. h.sig = s
    OBVIOUS
  <2> HIDE DEF h
  <2> QED
    BY <2>1, <2>2
<1>5. Sig!Pending(p, t) = Sig!Pending(p, t)' + OneIf(s = t)
  <2>1. pending' = [pending EXCEPT ![p] = Sig!RemoveAt(@, i)] /\ i \in 1..Len(pending[p])
    BY <1>2
  <2>2. \A r : Sig!Pending(p, r) = Sig!Pending(p, r)' + OneIf(pending[p][i].sig = r)
    BY <1>1, <2>1, TakenIs
  <2> QED
    BY <1>4, <2>2
<1>6. Sig!InHandler(p, t)' = Sig!InHandler(p, t) + OneIf(s = t)
  <2>1. h \in Handling /\ stack' = [stack EXCEPT ![p] = Append(@, h)]
    BY <1>4
  <2>2. \A r : Sig!InHandler(p, r)' = Sig!InHandler(p, r) + OneIf(h.sig = r)
    BY <1>1, <2>1, Pushed
  <2> QED
    BY <1>4, <2>2
<1>7. Sig!Sent(t)' = Sig!Sent(t)
  <2>1. seen \in Seen(seen.sent)
    BY <1>1 DEF SigTypes
  <2>2. seen'.sent = seen.sent
    BY <1>4, <2>1 DEF Seen
  <2> QED
    BY <2>2, SentSame
<1>8. Sig!Lines(p, t)' = Sig!Lines(p, t)
  BY <1>1 DEF Sig!Lines
<1>9. LineSum(t) /\ Sig!Pending(p, t)' \in Nat
  BY <1>1, SigCountedNext DEF LinesInv
<1> QED
  BY <1>5, <1>6, <1>7, <1>8, <1>9, LinesParts DEF LineSum, OneIf

(* A line is printed for the signal whose handler returns.                 *)
LEMMA LinesPrint ==
  ASSUME SigShape, program = "rtsig", LinesInv, Sig!PrintLine(p)
  PROVE  LinesInv'
<1>1. /\ Sig!Running(p) /\ Sig!Return(p)
      /\ printed' = [printed EXCEPT ![p] = Append(@, Sig!Handler(p).sig)]
      /\ UNCHANGED <<program, ready, pc, pending, num, exit_trigger, seen>>
  BY DEF Sig!PrintLine
<1>2. /\ p \in Sig!Procs /\ SigTypes /\ printed \in [Sig!Procs -> Seq(Int)]
      /\ stack[p] # <<>> /\ ~Sig!Gone(p) /\ Sig!Handler(p) \in Handling /\ Sig!Handler(p).sig \in Caught
  BY <1>1, CountNumbers, HandlerIs
<1>3. SigTypes' /\ printed' \in [Sig!Procs -> Seq(Int)]
  <2>1. SigShape'
    BY <1>2, HandlerShape
  <2> QED
    BY <2>1 DEF SigShape, SigTypes
<1>4. PICK n : n = Sig!Handler(p).sig /\ n \in Int
  BY <1>2 DEF Handling
<1>5. n # Sig!RT(RtMax)
  BY <1>2, <1>4, PeersAssumption DEF Caught, Sig!RT, Sig!BoundAssumption
<1>6. NoLast'
  <2>1. /\ Len(printed[p]) \in Nat /\ Len(printed'[p]) = Len(printed[p]) + 1
        /\ \A k \in 1..Len(printed[p]) + 1 :
             printed'[p][k] = IF k = Len(printed[p]) + 1 THEN n ELSE printed[p][k]
    BY <1>1, <1>2, <1>4, PrintedIs
  <2> SUFFICES ASSUME NEW k \in 1..Len(printed'[p]) PROVE printed'[p][k] # Sig!RT(RtMax)
    BY DEF NoLast, Sig!RT
  <2>2. CASE k = Len(printed[p]) + 1
    BY <1>5, <2>1, <2>2
  <2>3. CASE k # Len(printed[p]) + 1
    <3>1. k \in 1..Len(printed[p]) /\ printed'[p][k] = printed[p][k]
      BY <2>1, <2>3
    <3> QED
      BY <3>1 DEF LinesInv, NoLast
  <2> QED
    BY <2>2, <2>3
<1>7. ASSUME NEW t \in Served PROVE LineSum(t)'
  <2>1. Sig!Lines(p, t)' = Sig!Lines(p, t) + OneIf(n = t)
    <3>1. printed'[p] = Append(printed[p], n) /\ printed[p] \in Seq(Int)
      BY <1>1, <1>2, <1>4
    <3>2. Cardinality(LinesOf(Append(printed[p], n), t)) = Cardinality(LinesOf(printed[p], t)) + OneIf(n = t)
      BY <1>4, <3>1, LinesAppend
    <3> QED
      BY <1>2, <1>3, <3>1, <3>2, LinesCounted, LinesCountedNext
  <2>2. Sig!InHandler(p, t) = Sig!InHandler(p, t)' + OneIf(n = t)
    <3>1. \A s : Sig!InHandler(p, s) = Sig!InHandler(p, s)' + OneIf(Sig!Handler(p).sig = s)
      BY <1>1, <1>2, Popped
    <3> QED
      BY <1>4, <3>1
  <2>3. Sig!Pending(p, t)' = Sig!Pending(p, t) /\ Sig!Sent(t)' = Sig!Sent(t)
    BY <1>1, SentSame DEF Sig!Pending
  <2>4. LineSum(t) /\ Sig!InHandler(p, t)' \in Nat
    BY <1>2, <1>3, SigCountedNext DEF LinesInv
  <2> QED
    BY <2>1, <2>2, <2>3, <2>4, LinesParts DEF LineSum, OneIf
<1>8. Served' = Served /\ Excused'
  BY <1>1, <1>2 DEF Served, Sig!RT, Excused, Sig!Gone
<1> QED
  BY <1>6, <1>7, <1>8 DEF LinesInv

(* A ready process is killed only by a file it cannot open.                *)
LEMMA LinesExcused ==
  ASSUME SigShape, program = "rtsig", LinesInv, Sig!Step(p)
  PROVE  Excused'
<1>1. /\ p \in Sig!Procs /\ SigTypes /\ pc \in [Sig!Procs -> Points] /\ ~Sig!Gone(p)
      /\ stack[p] \in Seq(Handling) /\ RtMax \in Nat \ {0}
  BY CountNumbers, NotGoneSteps, PeersAssumption DEF Sig!BoundAssumption
<1>2. CASE Sig!FileFails(p)
  <2>1. PICK k \in (1..RtMax) \ Files : Sig!Handler(p).sig = Sig!RT(k)
    BY <1>2 DEF Sig!FileFails
  <2>2. /\ Sig!Handler(p) = stack[p][Len(stack[p])] /\ Len(stack[p]) \in 1..Len(stack[p])
        /\ Sig!Handler(p).sig \in Caught
    BY <1>1, <1>2, HandlerIs DEF Sig!FileFails
  <2>3. k \in (1..RtMax - 1) \ Files
    BY <1>1, <2>1, <2>2 DEF Caught, Sig!RT
  <2>4. Sig!InHandler(p, Sig!RT(k)) > 0
    <3>1. Len(stack[p]) \in Where(stack[p], Sig!RT(k))
      BY <2>1, <2>2 DEF Where
    <3>2. Sig!InHandler(p, Sig!RT(k)) = Cardinality(Where(stack[p], Sig!RT(k)))
      BY <1>1, SigSeq, SignalCardinality DEF Sig!InHandler, Where
    <3>3. IsFiniteSet(Where(stack[p], Sig!RT(k)))
      BY <1>1, WhereFinite
    <3>4. Cardinality(Where(stack[p], Sig!RT(k))) # 0
      BY <3>1, <3>3, FS_EmptySet
    <3> QED
      BY <1>1, <3>2, <3>4, SigCounted
  <2>5. Sig!Sent(Sig!RT(k)) > 0
    <3>1. LineSum(Sig!RT(k))
      BY <1>1, <2>1 DEF LinesInv, Served
    <3> QED
      BY <2>4, <3>1, LinesParts DEF LineSum
  <2>6. Sig!Sent(Sig!RT(k))' = Sig!Sent(Sig!RT(k))
    BY <1>2 DEF Sig!FileFails, Sig!Sent, Sig!RT
  <2>7. \E j \in (1..RtMax - 1) \ Files : Sig!Sent(Sig!RT(j))' > 0
    BY <2>3, <2>5, <2>6
  <2> QED
    BY <2>7 DEF Excused, Sig!RT
<1>3. CASE Sig!Deliver(p)
  <2>1. ready' = ready /\ program' = program
    BY <1>3 DEF Sig!Deliver
  <2>2. ready[p] < Len(Sig!SetUp) \/ pc' = [pc EXCEPT ![p] = IF @ = "paused" THEN "test" ELSE @]
    BY <1>1, <1>3, DeliverShape
  <2>3. CASE ready[p] < Len(Sig!SetUp)
    BY <2>1, <2>3, NamesStay DEF Excused
  <2>4. CASE pc' = [pc EXCEPT ![p] = IF @ = "paused" THEN "test" ELSE @]
    BY <1>1, <2>4 DEF Excused, Sig!Gone
  <2> QED
    BY <2>2, <2>3, <2>4
<1>4. CASE MainSteps(p)
  <2>1. pc'[p] # "killed"
    BY <1>1, <1>4 DEF MainSteps, Sig!Prepare, Sig!Test, Sig!Pause, Sig!Report, Sig!Leave, Sig!Gone
  <2> QED
    BY <2>1 DEF Excused
<1>5. CASE pc' = pc
  BY <1>1, <1>5 DEF Excused, Sig!Gone
<1> QED
  BY <1>2, <1>3, <1>4, <1>5
    DEF Sig!Step, MainSteps, Sig!Load, Sig!Store, Sig!PrintNum, Sig!PrintLine, Sig!TermHandler, Sig!ReturnBall

LEMMA LinesSteps ==
  ASSUME SigShape, program = "rtsig", LinesInv, Sig!Step(p)
  PROVE  LinesInv'
<1>1. p \in Sig!Procs /\ SigTypes /\ pc \in [Sig!Procs -> Points] /\ ~Sig!Gone(p) /\ Excused'
  BY CountNumbers, NotGoneSteps, LinesExcused
<1>2. CASE Sig!PrintLine(p)
  BY <1>2, LinesPrint
<1>3. CASE Sig!Deliver(p)
  <2>1. printed' = printed
    BY <1>3 DEF Sig!Deliver
  <2>2. NoLast'
    BY <2>1 DEF LinesInv, NoLast, Sig!RT
  <2>3. ASSUME ~Sig!Gone(p)', NEW t \in Served PROVE LineSum(t)'
    BY <1>3, <2>3, LinesDeliver
  <2>4. Served' = Served
    BY DEF Served, Sig!RT
  <2> QED
    BY <1>1, <2>2, <2>3, <2>4 DEF LinesInv
<1>4. CASE Sig!TermHandler(p)
  <2>1. /\ Sig!Running(p) /\ Sig!Return(p) /\ Sig!Ends(p)
        /\ UNCHANGED <<program, ready, pc, pending, num, printed>>
        /\ seen' = [seen EXCEPT !.missed = @ \/ pc[p] = "pause"]
    BY <1>4 DEF Sig!TermHandler, Sig!SetTrigger
  <2>2. Sig!Handler(p).sig = Sig!RT(0)
    BY <2>1 DEF Sig!Ends
  <2>3. seen'.sent = seen.sent
    BY <1>1, <2>1 DEF SigTypes, Seen
  <2>4. SigTypes'
    BY <1>1, <1>4, HandlerShape DEF SigShape
  <2>5. ASSUME NEW t \in Served PROVE LineSum(t)'
    <3>1. t # Sig!RT(0)
      BY PeersAssumption DEF Served, Sig!RT, Sig!BoundAssumption
    <3>2. Sig!InHandler(p, t) = Sig!InHandler(p, t)' + OneIf(Sig!Handler(p).sig = t)
      BY <1>1, <2>1, Popped, HandlerIs
    <3>3. Sig!Pending(p, t)' = Sig!Pending(p, t) /\ Sig!Sent(t)' = Sig!Sent(t) /\ Sig!Lines(p, t)' = Sig!Lines(p, t)
      BY <2>1, <2>3, SentSame DEF Sig!Pending, Sig!Lines
    <3>4. LineSum(t) /\ Sig!InHandler(p, t)' \in Nat
      BY <1>1, <2>4, SigCountedNext DEF LinesInv
    <3>5. Sig!InHandler(p, t)' = Sig!InHandler(p, t)
      BY <2>2, <3>1, <3>2, <3>4 DEF OneIf
    <3> QED
      BY <3>3, <3>4, <3>5 DEF LineSum
  <2>6. NoLast' /\ Served' = Served
    BY <2>1 DEF LinesInv, NoLast, Served, Sig!RT
  <2> QED
    BY <1>1, <2>5, <2>6 DEF LinesInv
<1>5. CASE MainSteps(p)
  <2>1. UNCHANGED <<stack, pending, printed, seen>>
    BY <1>5 DEF MainSteps, Sig!Prepare, Sig!Test, Sig!Pause, Sig!Report, Sig!Leave
  <2>2. ASSUME NEW t \in Served PROVE LineSum(t)'
    <3>1. LineSum(t)
      BY <1>1 DEF LinesInv
    <3> QED
      BY <2>1, <3>1, SentSame DEF LineSum, Sig!Pending, Sig!Lines, Sig!InHandler
  <2>3. NoLast' /\ Served' = Served
    BY <2>1 DEF LinesInv, NoLast, Served, Sig!RT
  <2> QED
    BY <1>1, <2>2, <2>3 DEF LinesInv
<1>8. CASE Sig!FileFails(p)
  <2>1. Sig!Gone(p)' /\ printed' = printed
    BY <1>1, <1>8 DEF Sig!FileFails, Sig!Gone
  <2>2. NoLast'
    BY <2>1 DEF LinesInv, NoLast, Sig!RT
  <2> QED
    BY <1>1, <2>1, <2>2 DEF LinesInv
<1>6. ASSUME Sig!Running(p) PROVE Sig!Handler(p).at = "enter" /\ ~Sig!Counts(Sig!Handler(p).sig)
  <2>1. /\ Sig!Handler(p).at # "enter" => program \in {"count", "actions"}
        /\ Sig!Handler(p).sig \in Caught
    BY <1>1, <1>6, HandlerIs
  <2>2. Sig!Handler(p).sig \notin {Sig!USR1, Sig!USR2, Sig!INT}
    BY <2>1 DEF Caught, Sig!RT, Sig!USR1, Sig!USR2, Sig!INT
  <2> QED
    BY <2>1, <2>2 DEF Sig!Counts
<1>7. ~Sig!Load(p) /\ ~Sig!Store(p) /\ ~Sig!PrintNum(p) /\ ~Sig!ReturnBall(p)
  BY <1>6 DEF Sig!Load, Sig!Store, Sig!PrintNum, Sig!ReturnBall
<1> QED
  BY <1>2, <1>3, <1>4, <1>5, <1>7, <1>8 DEF Sig!Step, MainSteps

LEMMA LinesSend ==
  ASSUME SigShape, program = "rtsig", LinesInv, Sig!Send
  PROVE  LinesInv'
<1>1. UNCHANGED <<program, ready, pc, stack, num, exit_trigger, printed>> /\ ~Sig!Gone(p)
  BY SendIs
<1>2. PICK s \in Sig!Sendable :
         /\ s \in Nat /\ s \in SigNames /\ pending' = Sig!Queue(p, s, Start) /\ Start \in Int
         /\ \A t \in Nat : Sig!Sent(t) \in Nat /\ Sig!Sent(t)' = Sig!Sent(t) + OneIf(s = t)
  BY SendIs
<1>3. Sig!IsRealTime(s)
  BY <1>2, PeersAssumption DEF SigNames, Sig!IsRealTime, Sig!RT, Sig!BoundAssumption
<1>4. \A t : Sig!Pending(p, t)' = Sig!Pending(p, t) + OneIf(s = t)
  <2>1. s \in Nat /\ pending' = Sig!Queue(p, s, Start) /\ Start \in Int
    BY <1>2
  <2>2. p \in Sig!Procs /\ SigTypes
    BY CountNumbers
  <2>3. \/ pending' = pending /\ ~Sig!IsRealTime(s)
        \/ pending' # pending /\ \A t : Sig!Pending(p, t)' = Sig!Pending(p, t) + OneIf(s = t)
    BY <2>1, <2>2, QueuedFor
  <2> QED
    BY <1>3, <2>3
<1>5. ASSUME NEW t \in Served PROVE LineSum(t)'
  <2>1. t \in Nat
    BY DEF Served, Sig!RT
  <2>2. LineSum(t) /\ Sig!Lines(p, t)' = Sig!Lines(p, t) /\ Sig!InHandler(p, t)' = Sig!InHandler(p, t)
    BY <1>1 DEF LinesInv, Sig!Lines, Sig!InHandler
  <2>3. /\ Sig!Sent(t)' = Sig!Sent(t) + OneIf(s = t)
        /\ Sig!Pending(p, t)' = Sig!Pending(p, t) + OneIf(s = t)
    BY <1>2, <1>4, <2>1
  <2> QED
    BY <2>2, <2>3, LinesParts DEF LineSum, OneIf
<1>6. NoLast' /\ Served' = Served /\ Excused'
  BY <1>1 DEF LinesInv, NoLast, Served, Sig!RT, Excused, Sig!Gone
<1> QED
  BY <1>5, <1>6 DEF LinesInv

LEMMA LinesNext == ASSUME SigShape, SigLines, Sig!Next PROVE SigLines'
<1>1. program' = program
  BY ShapeStep
<1>2. SUFFICES ASSUME program = "rtsig" PROVE LinesInv'
  BY <1>1 DEF SigLines, LinesInv, Served, LineSum, NoLast, Excused
<1>3. LinesInv
  BY <1>2, LinesIs
<1>4. ASSUME NEW x \in Sig!Procs, Sig!Step(x) PROVE LinesInv'
  <2>1. Sig!Step(p)
    BY <1>2, <1>4, OnlyP
  <2> QED
    BY <1>2, <1>3, <2>1, LinesSteps
<1> QED
  BY <1>2, <1>3, <1>4, LinesSend DEF Sig!Next

(* ping-pong: the ball is pending, or in one handler.                      *)
BallAt(x, s) == \A k \in 1..Len(s) : Sides(x, s[k].value)
BallSides == \A x \in Sig!Procs : BallAt(x, pending[x]) /\ BallAt(x, stack[x])
BallInv ==
  /\ InPlay <= 1
  /\ seen.sends = 0 => InPlay = 0 /\ ~exit_trigger[p] /\ ~exit_trigger[q]
  /\ ~(exit_trigger[p] /\ exit_trigger[q])
  /\ exit_trigger[p] \/ exit_trigger[q] => InPlay = 0
  /\ BallSides

LEMMA BallIs == SigBall <=> (program = "pingpong" => BallInv)
BY DEF SigBall, BallInv, BallSides, BallAt

LEMMA BallNumbers ==
  ASSUME SigTypes
  PROVE  /\ Sig!Procs = {p, q} /\ p # q /\ Start \in Nat
         /\ \A x \in Sig!Procs : Held(pending[x]) \in Nat /\ Held(stack[x]) \in Nat
         /\ exit_trigger \in [Sig!Procs -> BOOLEAN] /\ seen.sends \in Nat
         /\ InPlay \in Nat
<1>1. Sig!Procs = {p, q} /\ p # q /\ Start \in Nat
  BY PeersAssumption DEF Sig!Procs, Sig!BoundAssumption
<1>2. \A x \in Sig!Procs : Held(pending[x]) \in Nat /\ Held(stack[x]) \in Nat
  BY SigSeq DEF SigTypes, Held
<1>3. exit_trigger \in [Sig!Procs -> BOOLEAN] /\ seen.sends \in Nat
  BY DEF SigTypes, Seen
<1>4. InPlay \in Nat
  <2>1. /\ Held(pending[p]) \in Nat /\ Held(pending[q]) \in Nat
        /\ Held(stack[p]) \in Nat /\ Held(stack[q]) \in Nat
    BY <1>1, <1>2
  <2> QED
    BY <2>1 DEF InPlay
<1> QED
  BY <1>1, <1>2, <1>3, <1>4

LEMMA Parity == \A a \in Int : (a + 1) % 2 = 0 <=> a % 2 # 0
OBVIOUS

(* The ball counted from either player.                                    *)
LEMMA InPlayIs ==
  ASSUME SigTypes, NEW x \in Sig!Procs, NEW y \in Sig!Procs, x # y
  PROVE  /\ InPlay = Held(pending[x]) + Held(pending[y]) + Held(stack[x]) + Held(stack[y])
         /\ Held(pending[x]) \in Nat /\ Held(pending[y]) \in Nat
         /\ Held(stack[x]) \in Nat /\ Held(stack[y]) \in Nat
<1>1. (x = p /\ y = q) \/ (x = q /\ y = p)
  BY BallNumbers
<1>2. /\ Held(pending[x]) \in Nat /\ Held(pending[y]) \in Nat
      /\ Held(stack[x]) \in Nat /\ Held(stack[y]) \in Nat
  BY BallNumbers
<1>3. CASE x = p /\ y = q
  BY <1>2, <1>3 DEF InPlay
<1>4. CASE x = q /\ y = p
  BY <1>2, <1>4 DEF InPlay
<1> QED
  BY <1>1, <1>2, <1>3, <1>4

LEMMA InPlayNext ==
  ASSUME SigTypes', NEW x \in Sig!Procs, NEW y \in Sig!Procs, x # y
  PROVE  /\ InPlay' = Held(pending'[x]) + Held(pending'[y]) + Held(stack'[x]) + Held(stack'[y])
         /\ Held(pending'[x]) \in Nat /\ Held(pending'[y]) \in Nat
         /\ Held(stack'[x]) \in Nat /\ Held(stack'[y]) \in Nat
<1>1. (x = p /\ y = q) \/ (x = q /\ y = p)
  BY PeersAssumption DEF Sig!Procs, Sig!BoundAssumption
<1>2. /\ Held(pending'[x]) \in Nat /\ Held(pending'[y]) \in Nat
      /\ Held(stack'[x]) \in Nat /\ Held(stack'[y]) \in Nat
  BY SigSeq DEF SigTypes, Held
<1>3. CASE x = p /\ y = q
  BY <1>2, <1>3 DEF InPlay
<1>4. CASE x = q /\ y = p
  BY <1>2, <1>4 DEF InPlay
<1> QED
  BY <1>1, <1>2, <1>3, <1>4

LEMMA BallMain ==
  ASSUME BallInv, UNCHANGED <<stack, pending, exit_trigger, seen>> PROVE BallInv'
BY DEF BallInv, BallSides, BallAt, InPlay, Sides

LEMMA BallSends ==
  ASSUME SigShape, program = "pingpong", BallInv, Sig!Send PROVE BallInv'
<1>1. UNCHANGED <<program, ready, pc, stack, num, exit_trigger, printed>> /\ seen'.sends = seen.sends + 1
  BY SendIs
<1>2. PICK s \in Sig!Sendable :
         /\ s \in Nat /\ s \in SigNames /\ pending' = Sig!Queue(p, s, Start) /\ Start \in Int
  BY SendIs
<1>3. seen.sends = 0 /\ Sig!IsRealTime(s)
  BY <1>2 DEF Sig!Sendable, Sig!IsRealTime, Sig!RT
<1>4. InPlay = 0 /\ ~exit_trigger[p] /\ ~exit_trigger[q] /\ BallSides
  BY <1>3 DEF BallInv
<1>5. SigTypes /\ p \in Sig!Procs
  BY CountNumbers
<1>6. /\ \A y \in Sig!Procs \ {p} : pending'[y] = pending[y]
      /\ Len(pending'[p]) = Len(pending[p]) + 1
      /\ \A k \in 1..Len(pending[p]) + 1 :
           pending'[p][k] = IF k = Len(pending[p]) + 1 THEN [sig |-> s, value |-> Start]
                            ELSE pending[p][k]
  <2>1. /\ \A y \in Sig!Procs \ {p} : pending'[y] = pending[y]
        /\ \/ pending' = pending /\ ~Sig!IsRealTime(s)
           \/ /\ Len(pending'[p]) = Len(pending[p]) + 1 /\ pending' # pending
              /\ \A k \in 1..Len(pending[p]) + 1 :
                   pending'[p][k] = IF k = Len(pending[p]) + 1 THEN [sig |-> s, value |-> Start]
                                    ELSE pending[p][k]
    BY <1>2, <1>5, QueuedIs
  <2> QED
    BY <1>3, <2>1
<1>7. Len(pending[p]) = 0 /\ Len(pending'[p]) = 1 /\ InPlay' = 1
  <2>1. q \in Sig!Procs /\ p # q /\ SigTypes'
    BY <1>5, BallNumbers, SendShape DEF SigShape
  <2>2. pending'[q] = pending[q] /\ stack' = stack /\ Held(pending'[p]) = Held(pending[p]) + 1
    BY <1>1, <1>6, <2>1 DEF Held
  <2>3. Held(pending[p]) = 0 /\ Held(pending'[p]) = 1 /\ InPlay' = 1
    BY <1>4, <1>5, <2>1, <2>2, InPlayIs, InPlayNext
  <2> QED
    BY <2>3 DEF Held
<1>8. BallSides'
  <2>1. BallAt(p, pending'[p])
    <3>1. pending'[p][1] = [sig |-> s, value |-> Start] /\ \A k \in 1..Len(pending'[p]) : k = 1
      BY <1>6, <1>7
    <3>2. Sides(p, Start)
      BY <1>5, BallNumbers DEF Sides
    <3> QED
      BY <3>1, <3>2 DEF BallAt
  <2> QED
    BY <1>1, <1>4, <1>6, <2>1 DEF BallSides, BallAt, Sides
<1> QED
  BY <1>1, <1>3, <1>4, <1>7, <1>8 DEF BallInv

LEMMA BallDelivers ==
  ASSUME SigShape, program = "pingpong", BallInv, NEW x \in Sig!Procs, Sig!Deliver(x) PROVE BallInv'
<1>1. UNCHANGED <<program, ready, num, exit_trigger, printed>> /\ SigTypes
  BY DeliverShape DEF SigShape
<1>2. PICK i \in 1..Len(pending[x]) :
        LET s == pending[x][i].sig
            h == [sig |-> s, value |-> pending[x][i].value, at |-> "enter", reg |-> 0]
        IN
        /\ pending' = [pending EXCEPT ![x] = Sig!RemoveAt(@, i)]
        /\ \/ UNCHANGED <<stack, seen>>
           \/ /\ h \in Handling /\ stack' = [stack EXCEPT ![x] = Append(@, h)]
              /\ seen' = [seen EXCEPT !.meant = Sig!Meant(s, @),
                                      !.told = IF program = "count" /\ s = Sig!TERM /\ ~exit_trigger[x]
                                               THEN num[x] + Sig!InHandler(x, Sig!INT) ELSE @,
                                      !.crossed = @ \/ (s \in {Sig!USR1, Sig!USR2} /\ Sig!Acts(x))]
  BY DeliverShape
<1>3. PICK y \in Sig!Procs : y # x /\ Sig!Procs = {x, y}
  BY <1>1, BallNumbers
<1>4. /\ pending'[y] = pending[y] /\ Len(pending[x]) \in Nat /\ Len(pending'[x]) = Len(pending[x]) - 1
      /\ \A k \in 1..Len(pending'[x]) :
              \E j \in 1..Len(pending[x]) : pending'[x][k] = pending[x][j]
  BY <1>1, <1>2, <1>3, TakenIs
<1>5. InPlay = Held(pending[x]) + Held(pending[y]) + Held(stack[x]) + Held(stack[y])
      /\ InPlay' = Held(pending'[x]) + Held(pending'[y]) + Held(stack'[x]) + Held(stack'[y])
      /\ Held(pending[x]) \in Nat /\ Held(pending[y]) \in Nat /\ Held(stack[x]) \in Nat /\ Held(stack[y]) \in Nat
      /\ Held(pending'[x]) \in Nat /\ Held(pending'[y]) \in Nat /\ Held(stack'[x]) \in Nat /\ Held(stack'[y]) \in Nat
  <2>1. SigTypes'
    BY DeliverShape DEF SigShape
  <2> QED
    BY <1>1, <1>3, <2>1, InPlayIs, InPlayNext
<1>6. InPlay # 0 /\ InPlay <= 1 /\ seen.sends # 0 /\ ~exit_trigger[p] /\ ~exit_trigger[q]
  <2>1. Held(pending[x]) # 0
    BY <1>4 DEF Held
  <2>2. InPlay # 0
    BY <1>5, <2>1
  <2> QED
    BY <2>2 DEF BallInv
<1>7. seen'.sends = seen.sends
  <2>1. seen \in Seen(seen.sent)
    BY <1>1 DEF SigTypes
  <2> QED
    BY <1>2, <2>1 DEF Seen
<1>8. BallAt(x, pending'[x])
  BY <1>4 DEF BallInv, BallSides, BallAt
<1>9. CASE stack' = stack
  <2>1. InPlay' <= 1
    <3>1. Held(pending'[x]) = Held(pending[x]) - 1 /\ pending'[y] = pending[y]
      BY <1>4 DEF Held
    <3> QED
      BY <1>5, <1>6, <1>9, <3>1
  <2>2. BallSides'
    BY <1>3, <1>4, <1>8, <1>9 DEF BallInv, BallSides, BallAt, Sides
  <2> QED
    BY <1>1, <1>6, <1>7, <2>1, <2>2 DEF BallInv
<1>10. CASE stack' # stack
  <2>1. PICK h \in Handling : /\ h.value = pending[x][i].value
                              /\ stack' = [stack EXCEPT ![x] = Append(@, h)]
    <3> DEFINE h == [sig |-> pending[x][i].sig, value |-> pending[x][i].value, at |-> "enter", reg |-> 0]
    <3>1. h \in Handling /\ stack' = [stack EXCEPT ![x] = Append(@, h)]
      BY <1>2, <1>10
    <3>2. h.value = pending[x][i].value
      OBVIOUS
    <3> HIDE DEF h
    <3> QED
      BY <3>1, <3>2
  <2>2. /\ Len(stack[x]) \in Nat /\ Len(stack'[x]) = Len(stack[x]) + 1
        /\ \A k \in 1..Len(stack[x]) + 1 :
             stack'[x][k] = IF k = Len(stack[x]) + 1 THEN h ELSE stack[x][k]
        /\ \A z \in Sig!Procs \ {x} : stack'[z] = stack[z]
    BY <1>1, <2>1, Pushed
  <2>3. InPlay' <= 1
    <3>1. /\ Held(pending'[x]) = Held(pending[x]) - 1 /\ pending'[y] = pending[y]
          /\ Held(stack'[x]) = Held(stack[x]) + 1 /\ stack'[y] = stack[y]
      BY <1>3, <1>4, <2>2 DEF Held
    <3> QED
      BY <1>5, <1>6, <3>1
  <2>4. Sides(x, h.value)
    BY <2>1 DEF BallInv, BallSides, BallAt
  <2>5. BallAt(x, stack'[x])
    <3> SUFFICES ASSUME NEW k \in 1..Len(stack'[x]) PROVE Sides(x, stack'[x][k].value)
      BY DEF BallAt
    <3>1. CASE k = Len(stack[x]) + 1
      BY <2>2, <2>4, <3>1
    <3>2. CASE k # Len(stack[x]) + 1
      <4>1. k \in 1..Len(stack[x]) /\ stack'[x][k] = stack[x][k]
        BY <2>2, <3>2
      <4> QED
        BY <4>1 DEF BallInv, BallSides, BallAt
    <3> QED
      BY <3>1, <3>2
  <2>6. BallSides'
    <3>1. pending'[y] = pending[y] /\ stack'[y] = stack[y] /\ BallAt(y, pending[y]) /\ BallAt(y, stack[y])
      BY <1>3, <1>4, <2>2 DEF BallInv, BallSides
    <3>2. \A z \in Sig!Procs : BallAt(z, pending'[z]) /\ BallAt(z, stack'[z])
      BY <1>3, <1>8, <2>5, <3>1
    <3> QED
      BY <3>2 DEF BallSides, BallAt, Sides
  <2> QED
    BY <1>1, <1>6, <1>7, <2>3, <2>6 DEF BallInv
<1> QED
  BY <1>9, <1>10

(* The ball is handed back, or the game ends.                              *)
LEMMA BallHandled ==
  ASSUME SigShape, program = "pingpong", BallInv, NEW x \in Sig!Procs,
         Sig!TermHandler(x) \/ Sig!ReturnBall(x)
  PROVE  BallInv'
<1>1. Sig!Running(x) /\ Sig!Return(x) /\ SigTypes /\ SigShape'
  BY HandlerShape DEF Sig!TermHandler, Sig!ReturnBall, Sig!SetTrigger, SigShape
<1>2. stack[x] # <<>> /\ Sig!Handler(x) \in Handling /\ Len(stack[x]) \in 1..Len(stack[x])
      /\ Sig!Handler(x) = stack[x][Len(stack[x])] /\ Sig!Handler(x).value \in Int
  <2>1. stack[x] # <<>> /\ Sig!Handler(x) \in Handling /\ Len(stack[x]) \in Nat \ {0}
        /\ Sig!Handler(x) = stack[x][Len(stack[x])]
    BY <1>1, HandlerIs
  <2> QED
    BY <2>1 DEF Handling
<1>3. PICK y \in Sig!Procs : y # x /\ Sig!Procs = {x, y}
  BY <1>1, BallNumbers
<1>4. /\ Len(stack'[x]) = Len(stack[x]) - 1 /\ stack'[y] = stack[y]
      /\ \A k \in 1..Len(stack'[x]) : k \in 1..Len(stack[x]) /\ stack'[x][k] = stack[x][k]
  BY <1>1, <1>2, <1>3, Popped
<1>5. (x = p /\ y = q) \/ (x = q /\ y = p)
  BY <1>1, <1>3, BallNumbers
<1>6. /\ InPlay = Held(pending[x]) + Held(pending[y]) + Held(stack[x]) + Held(stack[y])
      /\ InPlay' = Held(pending'[x]) + Held(pending'[y]) + Held(stack'[x]) + Held(stack'[y])
      /\ Held(pending[x]) \in Nat /\ Held(pending[y]) \in Nat /\ Held(stack[x]) \in Nat /\ Held(stack[y]) \in Nat
      /\ Held(pending'[x]) \in Nat /\ Held(pending'[y]) \in Nat /\ Held(stack'[x]) \in Nat /\ Held(stack'[y]) \in Nat
  <2>1. SigTypes'
    BY <1>1 DEF SigShape
  <2> QED
    BY <1>1, <1>3, <2>1, InPlayIs, InPlayNext
<1>7. InPlay = 1 /\ Held(stack[x]) = 1 /\ Held(pending[y]) = 0 /\ Held(pending[x]) = 0 /\ Held(stack[y]) = 0
  <2>1. Held(stack[x]) # 0 /\ InPlay <= 1
    BY <1>2 DEF BallInv, Held
  <2> QED
    <3> DEFINE a == Held(stack[x])
               b == Held(pending[y])
               c == Held(pending[x])
               d == Held(stack[y])
    <3>1. a \in Nat /\ b \in Nat /\ c \in Nat /\ d \in Nat /\ InPlay = c + b + a + d
      BY <1>6
    <3>2. a # 0 /\ InPlay <= 1
      BY <2>1
    <3> HIDE DEF a, b, c, d
    <3>3. InPlay = 1 /\ a = 1 /\ b = 0 /\ c = 0 /\ d = 0
      BY <3>1, <3>2
    <3> QED
      BY <3>3 DEF a, b, c, d
<1>8. seen.sends # 0 /\ ~exit_trigger[p] /\ ~exit_trigger[q]
  BY <1>7 DEF BallInv
<1>9. BallAt(x, stack'[x]) /\ BallAt(y, stack'[y])
  <2>1. Len(stack'[x]) = 0 /\ Len(stack'[y]) = 0
    BY <1>4, <1>7 DEF Held
  <2> QED
    BY <2>1 DEF BallAt
<1>10. CASE Sig!TermHandler(x)
  <2>1. /\ exit_trigger' = [exit_trigger EXCEPT ![x] = TRUE] /\ UNCHANGED pending
        /\ seen' = [seen EXCEPT !.missed = @ \/ pc[x] = "pause"]
    BY <1>10 DEF Sig!TermHandler, Sig!SetTrigger
  <2>2. seen'.sends = seen.sends
    BY <1>1, <2>1 DEF SigTypes, Seen
  <2>3. exit_trigger'[y] = exit_trigger[y]
    BY <1>1, <1>3, <2>1, BallNumbers
  <2>4. InPlay' = 0
    <3>1. Held(stack'[x]) = Held(stack[x]) - 1 /\ stack'[y] = stack[y] /\ pending' = pending
      BY <1>4, <2>1 DEF Held
    <3> QED
      BY <1>6, <1>7, <3>1
  <2>5. BallSides'
    BY <1>3, <1>9, <2>1 DEF BallInv, BallSides, BallAt, Sides
  <2> QED
    BY <1>5, <1>8, <2>2, <2>3, <2>4, <2>5 DEF BallInv
<1>11. CASE Sig!ReturnBall(x)
  <2>1. UNCHANGED <<program, ready, pc, num, exit_trigger, printed, seen>>
    BY <1>11 DEF Sig!ReturnBall
  <2>2. PICK z \in Sig!Procs \ {x} :
           \/ pending' = pending
           \/ /\ pending' = Sig!Queue(z, Sig!RT(0), Sig!Handler(x).value - 1) /\ pending' # pending
              /\ Sig!RT(0) \in Nat /\ Sig!Handler(x).value - 1 \in Int
    BY <1>11, BallMoves
  <2>3. z = y
    BY <1>3
  <2>4. CASE pending' = pending
    <3>1. InPlay' = 0
      <4>1. Held(stack'[x]) = Held(stack[x]) - 1 /\ stack'[y] = stack[y]
        BY <1>4 DEF Held
      <4> QED
        BY <1>6, <1>7, <2>4, <4>1
    <3>2. BallSides'
      BY <1>3, <1>9, <2>4 DEF BallInv, BallSides, BallAt, Sides
    <3> QED
      BY <1>8, <2>1, <3>1, <3>2 DEF BallInv
  <2>5. CASE pending' # pending
    <3>1. /\ pending'[x] = pending[x] /\ Len(pending'[y]) = Len(pending[y]) + 1
          /\ \A k \in 1..Len(pending[y]) + 1 :
               pending'[y][k] = IF k = Len(pending[y]) + 1
                                THEN [sig |-> Sig!RT(0), value |-> Sig!Handler(x).value - 1]
                                ELSE pending[y][k]
      <4>1. /\ pending' = Sig!Queue(y, Sig!RT(0), Sig!Handler(x).value - 1) /\ Sig!RT(0) \in Nat
            /\ Sig!Handler(x).value - 1 \in Int
        BY <2>2, <2>3, <2>5
      <4>2. \A u \in Sig!Procs \ {y} : pending'[u] = pending[u]
        BY <1>1, <4>1, QueuedIs
      <4>3. \/ pending' = pending
            \/ /\ Len(pending'[y]) = Len(pending[y]) + 1
               /\ \A k \in 1..Len(pending[y]) + 1 :
                    pending'[y][k] = IF k = Len(pending[y]) + 1
                                     THEN [sig |-> Sig!RT(0), value |-> Sig!Handler(x).value - 1]
                                     ELSE pending[y][k]
        BY <1>1, <4>1, QueuedIs
      <4> QED
        BY <1>3, <2>5, <4>2, <4>3
    <3>2. InPlay' = 1
      <4>1. /\ Held(stack'[x]) = Held(stack[x]) - 1 /\ stack'[y] = stack[y]
            /\ Held(pending'[y]) = Held(pending[y]) + 1 /\ pending'[x] = pending[x]
        BY <1>4, <3>1 DEF Held
      <4> QED
        BY <1>6, <1>7, <4>1
    <3>3. Sides(y, Sig!Handler(x).value - 1)
      <4>1. Sides(x, Sig!Handler(x).value)
        BY <1>2 DEF BallInv, BallSides, BallAt
      <4>2. \A v \in Int : (Start - (v - 1)) % 2 = 0 <=> ~((Start - v) % 2 = 0)
        <5> TAKE v \in Int
        <5>1. Start - v \in Int /\ Start - (v - 1) = (Start - v) + 1
          BY <1>1, BallNumbers
        <5> QED
          BY <5>1, Parity
      <4>3. y = p <=> ~(x = p)
        BY <1>5, BallNumbers, <1>1
      <4> QED
        BY <1>2, <4>1, <4>2, <4>3 DEF Sides
    <3>4. BallAt(y, pending'[y])
      <4>1. pending'[y][1] = [sig |-> Sig!RT(0), value |-> Sig!Handler(x).value - 1]
            /\ \A k \in 1..Len(pending'[y]) : k = 1
        BY <1>7, <3>1 DEF Held
      <4> QED
        BY <3>3, <4>1 DEF BallAt
    <3>5. BallSides'
      BY <1>3, <1>9, <3>1, <3>4 DEF BallInv, BallSides, BallAt, Sides
    <3> QED
      BY <1>8, <2>1, <3>2, <3>5 DEF BallInv
  <2> QED
    BY <2>4, <2>5
<1> QED
  BY <1>10, <1>11

LEMMA BallNext == ASSUME SigShape, SigBall, Sig!Next PROVE SigBall'
<1>1. program' = program
  BY ShapeStep
<1>2. SUFFICES ASSUME program = "pingpong" PROVE BallInv'
  BY <1>1 DEF SigBall, BallInv, BallSides, BallAt
<1>3. BallInv
  BY <1>2, BallIs
<1>4. CASE Sig!Send
  BY <1>2, <1>3, <1>4, BallSends
<1>5. ASSUME NEW x \in Sig!Procs, Sig!Step(x) PROVE BallInv'
  <2>1. ASSUME Sig!Running(x) PROVE Sig!Handler(x).at = "enter" /\ ~Sig!Counts(Sig!Handler(x).sig)
    <3>1. /\ Sig!Handler(x).at # "enter" => program \in {"count", "actions"}
          /\ Sig!Handler(x).sig \in Caught
      BY <1>5, <2>1, HandlerIs
    <3>2. Sig!Handler(x).sig = Sig!RT(0)
      BY <1>2, <3>1 DEF Caught, SigNames
    <3> QED
      BY <1>2, <3>1, <3>2 DEF Sig!Counts, Sig!RT, Sig!USR1, Sig!USR2, Sig!INT
  <2>2. ~Sig!Load(x) /\ ~Sig!Store(x) /\ ~Sig!PrintNum(x) /\ ~Sig!PrintLine(x) /\ ~Sig!FileFails(x)
    BY <1>2, <2>1 DEF Sig!Load, Sig!Store, Sig!PrintNum, Sig!PrintLine, Sig!FileFails
  <2>3. CASE MainSteps(x)
    <3>1. UNCHANGED <<stack, pending, exit_trigger, seen>>
      BY <2>3 DEF MainSteps, Sig!Prepare, Sig!Test, Sig!Pause, Sig!Report, Sig!Leave
    <3> QED
      BY <1>3, <3>1, BallMain
  <2>4. CASE Sig!Deliver(x)
    BY <1>2, <1>3, <1>5, <2>4, BallDelivers
  <2>5. CASE Sig!TermHandler(x) \/ Sig!ReturnBall(x)
    BY <1>2, <1>3, <1>5, <2>5, BallHandled
  <2> QED
    BY <1>5, <2>2, <2>3, <2>4, <2>5 DEF Sig!Step, MainSteps
<1> QED
  BY <1>4, <1>5 DEF Sig!Next

LEMMA SigInit ==
  ASSUME IF part = "signals" THEN Sig!Init ELSE Sig!Unmounted
  PROVE  SigInv
<1>1. /\ ready = [x \in Sig!Procs |-> IF x = p THEN 0 ELSE Len(Sig!SetUp)]
      /\ pc = [x \in Sig!Procs |->
                 IF x = p THEN "setup" ELSE IF program = "pingpong" THEN "test" ELSE "ended"]
      /\ stack = [x \in Sig!Procs |-> <<>>] /\ pending = [x \in Sig!Procs |-> <<>>]
      /\ num = [x \in Sig!Procs |-> IF program = "actions" THEN Start ELSE 0]
      /\ exit_trigger = [x \in Sig!Procs |-> FALSE]
      /\ printed = [x \in Sig!Procs |-> <<>>]
      /\ seen = Sig!NothingSeen
  BY DEF Sig!Init, Sig!Unmounted, Sig!InitWith
<1>2. CASE part = "signals"
  <2>1. program \in Sig!Programs
    BY <1>2 DEF Sig!Init, Sig!InitWith
  <2>2. Len(Sig!SetUp) \in Nat \ {0}
    BY <2>1, SetUpIs
  <2>3. p \in Sig!Procs /\ q \in Sig!Procs /\ p # q /\ Start \in Nat
    BY PeersAssumption DEF Sig!Procs, Sig!BoundAssumption
  <2>4. /\ seen.sends = 0 /\ seen.merged = 0 /\ seen.meant = Start /\ ~seen.crossed
        /\ \A s : Sig!Sent(s) = 0
    BY <1>1 DEF Sig!NothingSeen, Sig!Sent
  <2>5. SigTypes
    <3>1. seen \in Seen(seen.sent)
      BY <1>1, <2>3 DEF Sig!NothingSeen, Seen
    <3> QED
      BY <1>1, <2>1, <2>2, <2>3, <2>4, <3>1 DEF SigTypes, Points
  <2>6. SigNamed /\ NoneTwice /\ WhereItIs
    BY <1>1 DEF SigNamed, NoneTwice, WhereItIs
  <2>7. SetUpDone
    BY <1>1, <2>2, <2>3 DEF SetUpDone, Stage
  <2>8. OnlyOne
    BY <1>1, <2>3 DEF OnlyOne
  <2>9. \A s : Sig!Pending(p, s) = 0 /\ Sig!InHandler(p, s) = 0 /\ Sig!Lines(p, s) = 0
    <3>1. pending[p] = <<>> /\ stack[p] = <<>> /\ printed[p] = <<>>
      BY <1>1, <2>3
    <3>2. \A s : /\ {k \in DOMAIN pending[p] : pending[p][k].sig = s} = {}
                 /\ {k \in DOMAIN stack[p] : stack[p][k].sig = s} = {}
                 /\ {k \in DOMAIN printed[p] : printed[p][k] = s} = {}
      BY <3>1
    <3> QED
      BY <3>2, SignalCardinality, FS_EmptySet DEF Sig!Pending, Sig!InHandler, Sig!Lines
  <2>10. SigCount
    <3> SUFFICES ASSUME program = "count" PROVE SigCount
      BY DEF SigCount
    <3>1. num[p] = 0 /\ seen.told = 0
      BY <1>1, <2>3 DEF Sig!NothingSeen
    <3>2. pc[p] = "setup" /\ pending[p] = <<>> /\ stack[p] = <<>> /\ printed[p] = <<>>
      BY <1>1, <2>3
    <3>3. Len(stack[p]) = 0
      BY <3>2
    <3> QED
      BY <2>4, <2>9, <3>1, <3>2, <3>3 DEF SigCount
  <2>11. SigActions
    BY <1>1, <2>3, <2>4 DEF SigActions, Acting
  <2>12. SigLines
    BY <1>1, <2>3, <2>4, <2>9 DEF SigLines
  <2>13. SigBall
    BY <1>1, <2>3, <2>4 DEF SigBall, InPlay, Held
  <2> QED
    BY <1>2, <2>5, <2>6, <2>7, <2>8, <2>10, <2>11, <2>12, <2>13 DEF SigInv
<1>3. CASE part # "signals"
  <2>1. program = "none"
    BY <1>3 DEF Sig!Unmounted, Sig!InitWith
  <2> QED
    BY <1>1, <1>3, <2>1 DEF SigInv
<1> QED
  BY <1>2, <1>3

LEMMA SigStep == ASSUME SigInv, Signals, Sig!Next PROVE SigInv'
<1>1. part = "signals" /\ part' = part
  BY DEF Signals
<1>2. SigShape /\ SigCount /\ SigActions /\ SigLines /\ SigBall
  BY <1>1 DEF SigInv, SigShape
<1>3. SigShape' /\ SigCount' /\ SigActions' /\ SigLines' /\ SigBall'
  BY <1>2, ShapeStep, CountNext, ActionsNext, LinesNext, BallNext
<1> QED
  BY <1>1, <1>3 DEF SigInv, SigShape

LEMMA SigStutter == ASSUME SigInv, UNCHANGED signals, UNCHANGED part PROVE SigInv'
<1>1. UNCHANGED <<program, ready, pc, stack, pending, num, exit_trigger, printed, seen>>
  BY DEF signals
<1>2. SigNames' = SigNames /\ Caught' = Caught /\ Sig!SetUp' = Sig!SetUp
  BY <1>1, NamesStay
<1>3. \A s : Sig!Sent(s)' = Sig!Sent(s)
  BY <1>1, SentSame
<1>4. SigTypes => SigTypes'
  BY <1>1, <1>3 DEF SigTypes
<1>5. /\ SigNamed => SigNamed'
      /\ SetUpDone => SetUpDone'
      /\ OnlyOne => OnlyOne'
      /\ NoneTwice => NoneTwice'
      /\ WhereItIs => WhereItIs'
  BY <1>1, <1>2 DEF SigNamed, SetUpDone, Stage, OnlyOne, NoneTwice, WhereItIs, Sig!Counts
<1>6. SigCount => SigCount'
  BY <1>1, <1>3 DEF SigCount, Sig!Pending, Sig!InHandler
<1>7. SigActions => SigActions'
  BY <1>1 DEF SigActions, Acting
<1>8. SigLines => SigLines'
  BY <1>1, <1>2, <1>3 DEF SigLines, Sig!Pending, Sig!InHandler, Sig!Lines, Sig!Gone, Sig!RT
<1>9. SigBall => SigBall'
  BY <1>1 DEF SigBall, InPlay, Sides
<1> QED
  BY <1>1, <1>4, <1>5, <1>6, <1>7, <1>8, <1>9 DEF SigInv

LEMMA SigKept == ASSUME SigInv PROVE SignalsKept
<1>1. CASE part = "signals"
  <2>1. SigShape /\ SigCount /\ SigActions /\ SigLines /\ SigBall
    BY <1>1 DEF SigInv, SigShape
  <2>2. SigTypes /\ p \in Sig!Procs /\ Sig!Procs = {p, q}
    BY <2>1 DEF SigShape, Sig!Procs
  <2>3. ASSUME NEW x \in Sig!Procs, pc[x] = "killed"
        PROVE  \/ ready[x] < Len(Sig!SetUp)
               \/ program = "rtsig" /\ \E k \in (1..RtMax - 1) \ Files : Sig!Sent(Sig!RT(k)) > 0
    <3>1. ready[x] < Len(Sig!SetUp) \/ program = "rtsig"
      BY <2>1, <2>3 DEF SigShape, SetUpDone, Stage
    <3>2. CASE program = "rtsig"
      <4>1. x = p /\ LinesInv
        BY <2>1, <2>2, <2>3, <3>2, LinesIs DEF SigShape, OnlyOne
      <4> QED
        BY <2>3, <3>2, <4>1 DEF LinesInv, Excused
    <3> QED
      BY <3>1, <3>2
  <2>4. Sig!CountIsRight
    <3> SUFFICES ASSUME program = "count" PROVE Sig!CountIsRight
      BY DEF Sig!CountIsRight
    <3>1. CountSum /\ CountRest /\ CountTold
      BY <2>1, CountIs
    <3>2. num[p] \in Int /\ seen.told \in Int
      BY <2>1, CountNumbers
    <3>3. printed[p] = <<>> \/ \E n \in seen.told..num[p] : printed[p] = <<n>>
      BY <3>1, <3>2 DEF CountTold
    <3>4. pc[p] = "ended" => printed[p] # <<>>
      <4>1. \A n \in Int : <<n>> # <<>>
        OBVIOUS
      <4> QED
        BY <3>1, <4>1 DEF CountTold
    <3> QED
      BY <3>1, <3>3, <3>4 DEF CountSum, CountRest, Sig!CountIsRight
  <2>5. Sig!ActionsAreRight
    <3> SUFFICES ASSUME program = "actions", ~seen.crossed, ~Sig!Acts(p)
                 PROVE  num[p] = seen.meant /\ (printed[p] # <<>> => Sig!Last(printed[p]) = num[p])
      BY DEF Sig!ActionsAreRight
    <3>1. DOMAIN stack[p] = 1..Len(stack[p])
      BY <2>2, SigSeq DEF SigTypes
    <3>2. Acting = {}
      BY <3>1 DEF Sig!Acts, Acting
    <3> QED
      BY <2>1, <3>2 DEF SigActions, Sig!Last
  <2>6. Sig!LinesAreRight
    <3> SUFFICES ASSUME program = "rtsig"
                 PROVE  /\ \A k \in 1..RtMax : ~Sig!Gone(p) =>
                             Sig!Sent(Sig!RT(k)) = Sig!Lines(p, Sig!RT(k)) + Sig!Pending(p, Sig!RT(k))
                                                     + Sig!InHandler(p, Sig!RT(k))
                        /\ Sig!Lines(p, Sig!RT(RtMax)) = 0
      BY DEF Sig!LinesAreRight
    <3>1. LinesInv
      BY <2>1, LinesIs
    <3>2. printed \in [Sig!Procs -> Seq(Int)]
      BY <2>2 DEF SigTypes
    <3>3. LinesOf(printed[p], Sig!RT(RtMax)) = {}
      BY <3>1 DEF LinesInv, NoLast, LinesOf
    <3>4. Sig!Lines(p, Sig!RT(RtMax)) = 0
      BY <2>2, <3>2, <3>3, LinesCounted, FS_EmptySet
    <3>5. \A k \in 1..RtMax : Sig!RT(k) \in Served
      BY DEF Served
    <3> QED
      BY <3>1, <3>4, <3>5 DEF LinesInv, LineSum
  <2>7. Sig!BallIsRight
    <3> SUFFICES ASSUME program = "pingpong" PROVE Sig!BallIsRight
      BY DEF Sig!BallIsRight
    <3>1. BallInv
      BY <2>1, BallIs
    <3>2. \A x \in Sig!Procs : /\ Len(pending[x]) \in Nat /\ Len(stack[x]) \in Nat
                               /\ DOMAIN pending[x] = 1..Len(pending[x])
      BY <2>2, SigSeq DEF SigTypes
    <3>3. ASSUME NEW x \in Sig!Procs
          PROVE  /\ Sig!Pending(x, Sig!RT(0)) \in Nat /\ Sig!Pending(x, Sig!RT(0)) <= Len(pending[x])
                 /\ Sig!InHandler(x, Sig!RT(0)) \in Nat /\ Sig!InHandler(x, Sig!RT(0)) <= Len(stack[x])
      <4>1. pending[x] \in Seq(Queued) /\ stack[x] \in Seq(Handling)
        BY <2>2 DEF SigTypes
      <4>2. /\ Sig!Pending(x, Sig!RT(0)) = Cardinality(Where(pending[x], Sig!RT(0)))
            /\ Sig!InHandler(x, Sig!RT(0)) = Cardinality(Where(stack[x], Sig!RT(0)))
        BY <4>1, SigSeq, SignalCardinality DEF Sig!Pending, Sig!InHandler, Where
      <4> QED
        BY <4>1, <4>2, WhereFew, WhereFinite
    <3>4. Sig!Pending(p, Sig!RT(0)) + Sig!Pending(q, Sig!RT(0))
            + Sig!InHandler(p, Sig!RT(0)) + Sig!InHandler(q, Sig!RT(0)) <= 1
      <4>1. /\ Sig!Pending(p, Sig!RT(0)) \in Nat /\ Sig!Pending(p, Sig!RT(0)) <= Held(pending[p])
            /\ Sig!InHandler(p, Sig!RT(0)) \in Nat /\ Sig!InHandler(p, Sig!RT(0)) <= Held(stack[p])
            /\ Sig!Pending(q, Sig!RT(0)) \in Nat /\ Sig!Pending(q, Sig!RT(0)) <= Held(pending[q])
            /\ Sig!InHandler(q, Sig!RT(0)) \in Nat /\ Sig!InHandler(q, Sig!RT(0)) <= Held(stack[q])
        BY <2>2, <3>3 DEF Held
      <4>2. /\ InPlay <= 1 /\ Held(pending[p]) \in Nat /\ Held(stack[p]) \in Nat
            /\ Held(pending[q]) \in Nat /\ Held(stack[q]) \in Nat
        BY <2>2, <3>1, <3>2 DEF BallInv, Held
      <4> QED
        BY <4>1, <4>2 DEF InPlay
    <3>5. \A x \in Sig!Procs : \A k \in DOMAIN pending[x] : x = p <=> (Start - pending[x][k].value) % 2 = 0
      BY <3>1, <3>2 DEF BallInv, BallSides, BallAt, Sides
    <3> QED
      BY <3>1, <3>4, <3>5 DEF BallInv, Sig!BallIsRight
  <2> QED
    BY <2>3, <2>4, <2>5, <2>6, <2>7 DEF SignalsKept, Sig!SignalsKept
<1>2. CASE part # "signals"
  <2>1. program = "none" /\ \A x \in Sig!Procs : pc[x] # "killed"
    BY <1>2 DEF SigInv
  <2> QED
    BY <2>1 DEF SignalsKept, Sig!SignalsKept, Sig!CountIsRight, Sig!ActionsAreRight,
                Sig!LinesAreRight, Sig!BallIsRight
<1> QED
  BY <1>1, <1>2

(* The programs of 16_signals count every signal, answer every request, do *)
(* what the signals say, and keep one ball in play; and none of them is    *)
(* killed once it is ready.                                                *)
THEOREM SignalsCounted == Spec => []SignalsKept
<1>1. Init => SigInv
  BY SigInit DEF Init
<1>2. ASSUME SigInv, [Next]_vars PROVE SigInv'
  <2>1. CASE Signals /\ Sig!Next
    BY <1>2, <2>1, SigStep
  <2>2. CASE UNCHANGED signals /\ UNCHANGED part
    BY <1>2, <2>2, SigStutter
  <2> QED
    BY <1>2, <2>1, <2>2 DEF Next, vars, Datagrams, Streams, Epoll, Family
<1> QED
  BY <1>1, <1>2, SigKept, PTL DEF Spec
=============================================================================
