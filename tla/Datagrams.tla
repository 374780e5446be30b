------------------------------ MODULE Datagrams ------------------------------
(***************************************************************************)
(* Clients that ask over UDP or ICMP and wait for each answer: udp-client, *)
(* icmp-ping and udp-dns-resolver of 18_udp.  Nothing in an answer is used *)
(* to tell which request it is for, and nothing is sent twice; only ping   *)
(* has a time limit.                                                       *)
(***************************************************************************)
EXTENDS Naturals, Sequences, FiniteSets, SequencesExt

CONSTANTS
  Questions,    \* lines of the input; ping asks as often, then sleeps
  MaxFaults     \* datagrams lost, doubled or damaged

DatagramAssumption == Questions \in Nat /\ MaxFaults \in Nat

VARIABLES
  client,       \* the program: "udp", "ping" or "dns"
  at,           \* where it is
  timeout,      \* ping's first number: 0, or more, by which nothing else differs
  asked,        \* requests sent; request k is the k-th
  net,          \* datagrams under way to the server and back
  received,     \* the socket's queue
  answers,      \* what was taken for the answers: printed, or counted
  faults        \* history: how many were lost, doubled and damaged

vars == <<client, at, timeout, asked, net, received, answers, faults>>

Clients == {"udp", "ping", "dns"}
NoFaults == [lost |-> 0, doubled |-> 0, damaged |-> 0]

InitWith(clients) ==
  /\ client \in clients /\ at = "ask"
  /\ timeout \in {0, 1} /\ (client = "ping" \/ timeout = 0)
  /\ asked = 0 /\ net = {} /\ received = <<>> /\ answers = <<>> /\ faults = NoFaults
Init == InitWith(Clients)
Unmounted == InitWith({"none"})

-----------------------------------------------------------------------------
(* The next number or host name, to the end of the input.                  *)
Sendto ==
  /\ at = "ask" /\ asked < Questions
  /\ asked' = asked + 1
  /\ net' = net \cup {[to |-> "server", of |-> asked + 1, copy |-> 0, sound |-> TRUE]}
  /\ at' = "wait"
  /\ UNCHANGED <<client, timeout, received, answers, faults>>

EndOfInput ==
  /\ client # "ping" /\ at = "ask" /\ asked = Questions
  /\ at' = "ended"
  /\ UNCHANGED <<client, timeout, asked, net, received, answers, faults>>

(* ping counts an answer if its checksum and its data are right.           *)
TakenAsItIs(d) == TRUE
CheckPackage(d) == client = "ping" => d.sound

AfterAnswer == IF client = "ping" THEN "usleep" ELSE "ask"

Recvfrom ==
  /\ at = "wait" /\ received # <<>>
  /\ received' = Tail(received)
  /\ IF CheckPackage(Head(received))
     THEN answers' = Append(answers, Head(received)) /\ at' = AfterAnswer
     ELSE UNCHANGED <<answers, at>>
  /\ UNCHANGED <<client, timeout, asked, net, faults>>

Usleep == at = "usleep" /\ at' = "ask" /\ UNCHANGED <<client, timeout, asked, net, received, answers, faults>>

(* SIGALRM: print the counter and exit, wherever the program is.  An alarm *)
(* of 0 seconds is none.                                                   *)
Alarm == client = "ping" /\ timeout > 0 /\ at # "ended" /\ at' = "ended"
         /\ UNCHANGED <<client, timeout, asked, net, received, answers, faults>>

-----------------------------------------------------------------------------
(* The server answers what it gets; answers arrive in any order.  The      *)
(* network's own checks turn damage into loss, but for ping's packets.     *)
Serve ==
  /\ \E d \in net :
       /\ d.to = "server"
       /\ net' = (net \ {d}) \cup {[d EXCEPT !.to = "client"]}
  /\ UNCHANGED <<client, at, timeout, asked, received, answers, faults>>

Arrive ==
  /\ \E d \in net :
       /\ d.to = "client"
       /\ net' = net \ {d} /\ received' = Append(received, d)
  /\ UNCHANGED <<client, at, timeout, asked, answers, faults>>

Fault ==
  /\ faults.lost + faults.doubled + faults.damaged < MaxFaults
  /\ \E d \in net :
       \/ net' = net \ {d} /\ faults' = [faults EXCEPT !.lost = @ + 1]
       \/ /\ net' = net \cup {[d EXCEPT !.copy = @ + 1]} /\ net' # net
          /\ faults' = [faults EXCEPT !.doubled = @ + 1]
       \/ /\ client = "ping" /\ d.sound
          /\ net' = (net \ {d}) \cup {[d EXCEPT !.sound = FALSE]}
          /\ faults' = [faults EXCEPT !.damaged = @ + 1]
  /\ UNCHANGED <<client, at, timeout, asked, received, answers>>

Program == Sendto \/ EndOfInput \/ Recvfrom \/ Usleep
Network == Serve \/ Arrive
Next == Program \/ Alarm \/ Network \/ Fault

Fairness == WF_vars(Program) /\ WF_vars(Network) /\ WF_vars(Alarm)
Spec == Init /\ [][Next]_vars
FairSpec == Spec /\ Fairness
-----------------------------------------------------------------------------
(* An answer that counts twice needs a datagram that came twice: without   *)
(* one, the k-th answer is to the k-th request, since none counts before   *)
(* its request was sent.  ping counts none that is damaged.                *)
Repeated == {k \in DOMAIN answers : \E j \in 1..k - 1 : answers[j].of = answers[k].of}
DatagramsMatch ==
  /\ Len(answers) <= asked /\ Cardinality(Repeated) <= faults.doubled
  /\ \A k \in DOMAIN answers :
       answers[k].of <= k /\ (client = "ping" => answers[k].sound)

(* A client comes to the end of its input unless a datagram is lost: then  *)
(* it waits for ever.  ping ends even so, if its timeout is not 0: a       *)
(* timeout of 0 is allowed (problem.md:3 of 18_udp/1), and the end after   *)
(* timeout seconds that problem.md:13 asks for does not come then.         *)
DatagramsEnd ==
  client \in Clients ~>
    \/ at = "ended" \/ (client = "ping" /\ timeout = 0)
    \/ client # "ping" /\ faults.lost > 0 /\ at = "wait" /\ received = <<>>
=============================================================================
