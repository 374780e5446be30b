----------------------------- MODULE EpollEcho -----------------------------
(***************************************************************************)
(* 19_epoll/1: a server that echoes what its clients send in capitals,     *)
(* with one thread and edge-triggered epoll.  An edge is an entry in the   *)
(* kernel's ready list; epoll_wait takes the list, and each event it       *)
(* returns gets one accept or one read.  epoll promises no order of the    *)
(* events: they are handled in any.  Work an edge does not get done waits  *)
(* for another edge.  A client is an endless reader that sends, and may    *)
(* end its sending.  What clients do that the server is known not to cope  *)
(* with is recorded where they do it, in rushed and late.                  *)
(***************************************************************************)
EXTENDS Integers, SequencesExt

CONSTANTS Clients,
          MaxSend,  \* characters a client sends at most
          BufSize   \* kBufSize: what one read takes

ASSUME SizesAssumption == MaxSend \in Nat /\ BufSize \in Nat \ {0}
ASSUME ClientsAssumption == "listen_sock" \notin Clients

listen_sock == "listen_sock"
Fds == Clients \cup {listen_sock}

VARIABLES
  sent, shut,      \* the clients: characters sent, has it ended its sending
  backlog,         \* connections nobody has accepted, oldest first
  open,            \* connections in the epoll set
  rcv,             \* characters to be read from a connection
  got,             \* what has come back to each client
  ready,           \* descriptors in the kernel's ready list
  events,          \* what epoll_wait returned and is still to be handled
  buf,             \* what the last read left in the buffer
  srv,             \* "wait": in epoll_wait, "handle": in the loop over events
  rushed,          \* history: clients that connected behind another one, or
                   \* had more to be read than a buffer holds
  late,            \* history: a client ended its sending after its text had
                   \* been read or announced
  overrun          \* history: a read has filled the buffer to its end

clientVars == <<sent, shut, rushed, late>>
serverVars == <<open, events, buf, srv, overrun>>
vars == <<clientVars, serverVars, backlog, rcv, got, ready>>

Connected == open \cup ToSet(backlog)
Evented == {e.fd : e \in events}

Init ==
  /\ sent = [c \in Clients |-> 0] /\ shut = {}
  /\ backlog = <<>> /\ open = {} /\ rcv = [c \in Clients |-> 0]
  /\ got = [c \in Clients |-> <<>>]
  /\ ready = {} /\ events = {} /\ buf = <<>> /\ srv = "wait"
  /\ rushed = {} /\ late = FALSE /\ overrun = FALSE

-----------------------------------------------------------------------------
(* The kernel and the clients.                                             *)

EdgeIfOpen(c) == ready' = IF c \in open THEN ready \cup {c} ELSE ready

Readable(fd) == IF fd = listen_sock THEN backlog # <<>>
                                    ELSE rcv[fd] > 0 \/ fd \in shut

Connect(c) ==
  /\ c \notin Connected /\ sent[c] = 0 /\ c \notin shut
  /\ backlog' = Append(backlog, c)
  /\ ready' = ready \cup {listen_sock}
  /\ rushed' = IF backlog = <<>> THEN rushed ELSE rushed \cup {c}
  /\ UNCHANGED <<sent, shut, late, serverVars, rcv, got>>

Send(c) ==
  /\ c \in Connected /\ c \notin shut /\ sent[c] < MaxSend
  /\ sent' = [sent EXCEPT ![c] = @ + 1]
  /\ rcv' = [rcv EXCEPT ![c] = @ + 1]
  /\ EdgeIfOpen(c)
  /\ rushed' = IF rcv'[c] <= BufSize THEN rushed ELSE rushed \cup {c}
  /\ UNCHANGED <<shut, late, serverVars, backlog, got>>

EndSending(c) ==
  /\ c \in Connected /\ c \notin shut
  /\ shut' = shut \cup {c}
  /\ EdgeIfOpen(c)
  /\ late' = (late \/ rcv[c] = 0 \/ c \in Evented)
  /\ UNCHANGED <<sent, rushed, serverVars, backlog, rcv, got>>

-----------------------------------------------------------------------------
(* The server.                                                             *)

(* The events' masks are those of the moment epoll_wait returns: every one *)
(* has EPOLLIN, hup is EPOLLRDHUP.                                         *)
epoll_wait ==
  /\ srv = "wait"
  /\ \E fd \in ready : Readable(fd)
  /\ events' = {[fd |-> fd, hup |-> fd \in shut] : fd \in {f \in ready : Readable(f)}}
  /\ ready' = {} /\ srv' = "handle"
  /\ UNCHANGED <<clientVars, open, buf, overrun, backlog, rcv, got>>

RestForgotten(es) == events' = {} /\ srv' = "wait"
Rest(es) == /\ events' = es
            /\ srv' = IF es = {} THEN "wait" ELSE "handle"

(* EPOLL_CTL_ADD of a connection that is already readable makes an edge.   *)
Added(c) == IF Readable(c) THEN ready \cup {c} ELSE ready

(* accept takes the oldest connection; if there is none, it blocks.        *)
Accept(e) ==
  /\ e.fd = listen_sock /\ backlog # <<>>
  /\ LET c == Head(backlog) IN
       /\ backlog' = Tail(backlog)
       /\ open' = open \cup {c}
       /\ ready' = Added(c)
  /\ Rest(events \ {e})
  /\ UNCHANGED <<clientVars, buf, overrun, rcv, got>>

(* n <= 0: the loop over the events ends, whatever is left in it, and the   *)
(* connection is not closed.                                               *)
ReadNothing(e) ==
  /\ e.fd # listen_sock /\ rcv[e.fd] = 0 /\ e.fd \in shut
  /\ Rest({})
  /\ UNCHANGED <<clientVars, open, buf, overrun, backlog, rcv, got, ready>>

(* The characters of c that a read takes.                                  *)
Taken(c) == [k \in 1..(IF rcv[c] < BufSize THEN rcv[c] ELSE BufSize) |->
               <<c, sent[c] - rcv[c] + k>>]

FilledNoMemset(old, new) == new \o SubSeq(old, Len(new) + 1, Len(old))
Filled(old, new) == new

ClosedAlways(e) == open \ {e.fd}
ClosedNever(e) == open
Closed(e) == IF e.hup THEN open \ {e.fd} ELSE open

(* A full buffer has no end mark: strlen runs on into what is behind it.   *)
Beyond == {<<>>, <<<<"junk", 0>>>>}

ReadAndWrite(e) ==
  LET c == e.fd
      text == Filled(buf, Taken(c))
      n == Len(Taken(c))
  IN
  /\ c # listen_sock /\ rcv[c] > 0
  /\ buf' = text
  /\ rcv' = [rcv EXCEPT ![c] = @ - n]
  /\ \E junk \in IF Len(text) = BufSize THEN Beyond ELSE {<<>>} :
       got' = [got EXCEPT ![c] = @ \o text \o junk]
  /\ overrun' = (overrun \/ Len(text) = BufSize)
  /\ open' = Closed(e)
  /\ ready' = IF c \in open' THEN ready ELSE ready \ {c}
  /\ Rest(events \ {e})
  /\ UNCHANGED <<clientVars, backlog>>

Handle(e) == srv = "handle" /\ (Accept(e) \/ ReadNothing(e) \/ ReadAndWrite(e))

(* SIGTERM: exit from the handler, wherever the server is.                 *)
Exit ==
  /\ srv' = "exited"
  /\ UNCHANGED <<clientVars, open, events, buf, overrun, backlog, rcv, got, ready>>

-----------------------------------------------------------------------------
Client(c) == Connect(c) \/ Send(c) \/ EndSending(c)
Server == epoll_wait \/ \E e \in events : Handle(e)

Running == srv # "exited"
Next == Running /\ ((\E c \in Clients : Client(c)) \/ Server \/ Exit)

Spec == Init /\ [][Next]_vars

(* The server's thread runs; clients and SIGTERM come when they please.    *)
FairSpec == Spec /\ WF_vars(Running /\ Server)

-----------------------------------------------------------------------------
(* Properties.                                                             *)

(* Every variable has its type; the k-th character of c is <<c, k>>.       *)
Characters == (Clients \cup {"junk"}) \X Nat

TypeOK ==
  /\ sent \in [Clients -> 0..MaxSend] /\ shut \subseteq Clients
  /\ backlog \in Seq(Clients) /\ IsInjective(backlog) /\ open \subseteq Clients
  /\ open \cap ToSet(backlog) = {}
  /\ rcv \in [Clients -> Nat] /\ \A c \in Clients : rcv[c] <= sent[c]
  /\ buf \in Seq(Characters) /\ got \in [Clients -> Seq(Characters)]
  /\ ready \subseteq Fds /\ events \subseteq [fd : Fds, hup : BOOLEAN]
  /\ srv \in {"wait", "handle", "exited"}
  /\ rushed \subseteq Clients /\ late \in BOOLEAN /\ overrun \in BOOLEAN

(* What comes back to a client is what it sent, in order, nothing twice,   *)
(* nothing of another client's - until a read fills the buffer.            *)
EchoIsPrefix ==
  ~overrun => \A c \in Clients :
    /\ Len(got[c]) = sent[c] - rcv[c]
    /\ \A k \in 1..Len(got[c]) : got[c][k] = <<c, k>>

(* The server sleeps only when every piece of work has an edge that will   *)
(* wake it.  The work of a client that rushed may be left over, and after  *)
(* a client that ended late (to which read answers 0) anybody's.  This is  *)
(* less than problem.md:5 and :9 ask, where all text comes back and there  *)
(* may be many clients at a time: of two that connect at once one is       *)
(* accepted (line 88), and break (line 98) drops the events of the others. *)
NoForgottenWork ==
  srv = "wait" /\ ~late =>
    /\ \A c \in open \ rushed : Readable(c) => c \in ready
    /\ backlog # <<>> /\ Head(backlog) \notin rushed => listen_sock \in ready

(* An event is about a connection that is still open and has something to  *)
(* read, or about a backlog that is not empty: the server never blocks in  *)
(* read or accept, although setnonblocking sets the wrong flags.  And a    *)
(* connection is closed only after its client has ended its sending.       *)
EventsAreLive ==
  /\ TypeOK
  /\ \A e \in events : Readable(e.fd) /\ e.fd \in open \cup {listen_sock}
  /\ \A e, f \in events : e.fd = f.fd => e = f
  /\ \A c \in Clients : sent[c] > 0 /\ c \notin shut => c \in Connected

(* Every character of a client that does not rush comes back, and when it  *)
(* ends its sending it is let go, whatever those that rush do; until a     *)
(* client ends late, or the server is stopped.                             *)
Trouble(c) == c \in rushed \/ late \/ srv = "exited"
ServedUnlessEdgeLost ==
  \A c \in Clients :
    /\ \A k \in 1..MaxSend : (sent[c] >= k) ~> (Len(got[c]) >= k \/ Trouble(c))
    /\ (c \in shut) ~> (c \notin Connected \/ Trouble(c))
=============================================================================
