------------------------------ MODULE EpollCount -----------------------------
(***************************************************************************)
(* 19_epoll/0_epoll-read-fds-vector: read_data_and_count(N, in) reads all  *)
(* of N descriptors to their ends, as epoll reports them (level-triggered),*)
(* and returns the number of bytes.                                        *)
(***************************************************************************)
EXTENDS Naturals, FiniteSets, FiniteSetsExt

CONSTANTS
  N,
  Kinds,        \* what a descriptor may be: "socket", "pipe" or "file"
  Bytes,        \* bytes a peer may write
  BufferSize    \* bytes of one read

CountAssumption ==
  /\ N \in Nat /\ Bytes \in Nat /\ BufferSize \in Nat \ {0}
  /\ Kinds \subseteq {"socket", "pipe", "file"}

Fds == 1..N

VARIABLES
  at,           \* "add", "wait", "events" or "returned"
  kind,
  inbox,        \* bytes to be read
  written,      \* bytes the peer has written
  peer,         \* "open" or "closed"
  data,         \* data_t of each descriptor
  pending,      \* the events of this round still to be processed
  files_left,
  result

vars == <<at, kind, inbox, written, peer, data, pending, files_left, result>>
outside == <<kind, inbox, written, peer>>

Unused == [count |-> 0, done |-> FALSE]
Unmounted ==
  /\ at = "add" /\ kind = [f \in Fds |-> "socket"]
  /\ inbox = [f \in Fds |-> 0] /\ written = inbox /\ peer = [f \in Fds |-> "open"]
  /\ data = [f \in Fds |-> Unused] /\ pending = {} /\ files_left = N /\ result = 0
Init ==
  /\ at = "add" /\ kind \in [Fds -> Kinds]
  /\ inbox = [f \in Fds |-> 0] /\ written = inbox /\ peer = [f \in Fds |-> "open"]
  /\ data = [f \in Fds |-> Unused] /\ pending = {} /\ files_left = N /\ result = 0

-----------------------------------------------------------------------------
(* The peers write and close, at any time.                                 *)
PeerWrites(f) ==
  /\ peer[f] = "open" /\ written[f] < Bytes
  /\ written' = [written EXCEPT ![f] = @ + 1] /\ inbox' = [inbox EXCEPT ![f] = @ + 1]
  /\ UNCHANGED <<at, kind, peer, data, pending, files_left, result>>

PeerCloses(f) ==
  /\ peer[f] = "open" /\ peer' = [peer EXCEPT ![f] = "closed"]
  /\ UNCHANGED <<at, kind, inbox, written, data, pending, files_left, result>>

(* create_event_data for every descriptor; epoll takes no regular file.    *)
Create == at = "add" /\ at' = "wait"
          /\ UNCHANGED <<outside, data, pending, files_left, result>>

(* What epoll has to report: bytes, or the end of the stream.  An empty    *)
(* pipe without writers is a hang-up and nothing to read.                  *)
HungUp(f) == peer[f] = "closed" /\ inbox[f] = 0
ReadyFds == {f \in Fds : kind[f] # "file" /\ ~data[f].done /\ (inbox[f] > 0 \/ peer[f] = "closed")}
Event(f) == [fd |-> f, in |-> ~(HungUp(f) /\ kind[f] = "pipe")]

EpollWait ==
  /\ at = "wait" /\ files_left > 0 /\ ReadyFds # {}
  /\ pending' = {Event(f) : f \in ReadyFds} /\ at' = "events"
  /\ UNCHANGED <<outside, data, files_left, result>>

(* process_pair_ready_read: bytes are counted, the end closes.             *)
LastOnly(old, cnt) == cnt
CountWith(old, cnt) == old + cnt
AfterRead(d, cnt, ended) ==
  IF cnt > 0 THEN [d EXCEPT !.count = CountWith(@, cnt)]
  ELSE IF ended THEN [d EXCEPT !.done = TRUE] ELSE d

ProcessEvent ==
  \E e \in pending :
    LET f == e.fd
        cnt == IF ~e.in THEN 0 ELSE IF inbox[f] < BufferSize THEN inbox[f] ELSE BufferSize
    IN
    /\ at = "events" /\ pending' = pending \ {e}
    /\ inbox' = [inbox EXCEPT ![f] = @ - cnt]
    /\ data' = [data EXCEPT ![f] = AfterRead(@, cnt, e.in /\ HungUp(f))]
    /\ files_left' = IF data'[f].done THEN files_left - 1 ELSE files_left
    /\ at' = IF pending' = {} THEN "wait" ELSE at
    /\ UNCHANGED <<kind, written, peer, result>>

Total(count) == MapThenSumSet(LAMBDA f : count[f], Fds)

Return ==
  /\ at = "wait" /\ files_left = 0 /\ at' = "returned"
  /\ result' = Total([f \in Fds |-> data[f].count])
  /\ UNCHANGED <<outside, data, pending, files_left>>

Program == Create \/ EpollWait \/ ProcessEvent \/ Return
Next == Program \/ \E f \in Fds : PeerWrites(f) \/ PeerCloses(f)

Fairness == WF_vars(Program)
Spec == Init /\ [][Next]_vars
FairSpec == Spec /\ Fairness
-----------------------------------------------------------------------------
Open == {f \in Fds : ~data[f].done}
BytesKept ==
  \A f \in Fds : written[f] = data[f].count + inbox[f] /\ (data[f].done => HungUp(f))
ResultIsSum == at = "returned" => result = Total(written) /\ \A f \in Fds : data[f].done

(* No byte is lost or counted twice, no descriptor is given up before its  *)
(* end, each is taken off files_left once, and the result is the sum.      *)
CountsAll == BytesKept /\ files_left = Cardinality(Open) /\ ResultIsSum

(* When all peers have closed, the function returns, if each descriptor is *)
(* a socket.  A regular file is never reported, and the end of a pipe only *)
(* as a hang-up, which is no reason to read: no pipe is ever done.  So the *)
(* number problem.md:11-12 asks for does not come where a pipe is counted. *)
AllClosed == \A f \in Fds : peer[f] = "closed"
EpollEnds == AllClosed ~> at = "returned" \/ \E f \in Fds : kind[f] # "socket"
=============================================================================
