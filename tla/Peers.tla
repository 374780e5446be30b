-------------------------------- MODULE Peers --------------------------------
(* Programs that deal with others they do not control - senders of signals,*)
(* servers, children, writers of descriptors - each in its own behaviours. *)
EXTENDS Integers

CONSTANTS
  p, q, RtMax, Files, Start, MaxSends,         \* of Signals
  Questions, MaxFaults,                        \* of Datagrams
  Numbers, Lengths, Uploads, BUFSIZ, Word,     \* of Streams
  N, Kinds, Bytes, BufferSize,                 \* of EpollCount
  Families, Size, Buffer, Slots, MaxFailures   \* of Processes

VARIABLES
  part,
  program, ready, pc, stack, pending, num, exit_trigger, printed, seen,   \* of Signals
  client, at, timeout, asked, net, received, answers, faults,             \* of Datagrams
  reader, step, requests, get, content_length, file, posted, page,
  segments, in, server, output, whole,                                    \* of Streams
  loop, kind, inbox, written, peer, data, events, files_left, result,     \* of EpollCount
  parent, given, procs, left, temp, pipe, out, failures                   \* of Processes

signals == <<program, ready, pc, stack, pending, num, exit_trigger, printed, seen>>
datagrams == <<client, at, timeout, asked, net, received, answers, faults>>
streams == <<reader, step, requests, get, content_length, file, posted, page, segments, in,
             server, output, whole>>
epoll == <<loop, kind, inbox, written, peer, data, events, files_left, result>>
processes == <<parent, given, procs, left, temp, pipe, out, failures>>
vars == <<part, signals, datagrams, streams, epoll, processes>>

Sig == INSTANCE Signals
Dgram == INSTANCE Datagrams
Tcp == INSTANCE Streams WITH client <- reader, at <- step, asked <- requests
Count == INSTANCE EpollCount WITH at <- loop, pending <- events
Proc == INSTANCE Processes WITH program <- parent, Programs <- Families

(* What the modules assume of their parameters.                            *)
ASSUME PeersAssumption ==
  /\ Sig!BoundAssumption /\ Dgram!DatagramAssumption
  /\ Tcp!StreamAssumption /\ Count!CountAssumption /\ Proc!ProcessAssumption

Init ==
  /\ part \in {"signals", "datagrams", "streams", "epoll", "processes"}
  /\ IF part = "signals" THEN Sig!Init ELSE Sig!Unmounted
  /\ IF part = "datagrams" THEN Dgram!Init ELSE Dgram!Unmounted
  /\ IF part = "streams" THEN Tcp!Init ELSE Tcp!Unmounted
  /\ IF part = "epoll" THEN Count!Init ELSE Count!Unmounted
  /\ IF part = "processes" THEN Proc!Init ELSE Proc!Unmounted

Signals == part = "signals" /\ UNCHANGED <<part, datagrams, streams, epoll, processes>>
Datagrams == part = "datagrams" /\ UNCHANGED <<part, signals, streams, epoll, processes>>
Streams == part = "streams" /\ UNCHANGED <<part, signals, datagrams, epoll, processes>>
Epoll == part = "epoll" /\ UNCHANGED <<part, signals, datagrams, streams, processes>>
Family == part = "processes" /\ UNCHANGED <<part, signals, datagrams, streams, epoll>>

Next ==
  \/ Signals /\ Sig!Next
  \/ Datagrams /\ Dgram!Next
  \/ Streams /\ Tcp!Next
  \/ Epoll /\ Count!Next
  \/ Family /\ Proc!Next

(* The fairness of each part, for the behaviours that run it.  The work of *)
(* a family of processes is finite, and some member can always go on.      *)
Fairness ==
  /\ WF_vars(Signals /\ Sig!Step(p)) /\ WF_vars(Signals /\ Sig!Step(q))
  /\ WF_vars(Datagrams /\ Dgram!Program) /\ WF_vars(Datagrams /\ Dgram!Network)
  /\ WF_vars(Datagrams /\ Dgram!Alarm)
  /\ WF_vars(Streams /\ Tcp!Program) /\ WF_vars(Streams /\ Tcp!Segment)
  /\ WF_vars(Streams /\ Tcp!Alarm) /\ WF_vars(Streams /\ reader # "tcp" /\ Tcp!Close)
  /\ WF_vars(Epoll /\ Count!Program)
  /\ WF_vars(Family /\ Proc!Next)

Spec == Init /\ [][Next]_vars /\ Fairness

(* What is counted and printed is right: see the modules' own definitions. *)
SignalsKept == Sig!SignalsKept
DatagramsMatch == Dgram!DatagramsMatch
StreamsRight == Tcp!StreamsRight
CountsAll == Count!CountsAll
ProcessesRight == Proc!ProcessesRight

(* The programs end: signals are not lost on them, clients are answered.   *)
SignalsEnd == Sig!SignalsEnd
ClientsEnd == Dgram!DatagramsEnd /\ Tcp!StreamsEnd /\ Count!EpollEnds /\ Proc!ProcessesEnd
=============================================================================
