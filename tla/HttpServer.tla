----------------------------- MODULE HttpServer -----------------------------
(***************************************************************************)
(* The HTTP servers of 17_tcp/1_http-server-1 and 17_tcp/2_http-server-2:  *)
(* one loop that accepts a client, reads its request up to a blank line,   *)
(* answers and closes.  The second program runs executable files; when     *)
(* execlp fails its child falls back into the loop, so that the server may *)
(* become a chain of processes, each waiting for the next.  SIGTERM may    *)
(* come between any two system calls.                                      *)
(***************************************************************************)
EXTENDS Integers, Sequences, FiniteSets, SequencesExt

CONSTANTS
  Clients,      \* one connection each
  NoClient,
  Depth,        \* bound on the chain of server processes
  RequestLen,   \* pieces of a request; the last one holds the blank line
  MaxSignals,   \* bound on the signals sent to server processes
  MaxChanges,   \* bound on the changes made to files meanwhile
  MaxLeavers    \* bound on the clients that close their end

ASSUME BoundsAssumption ==
  /\ NoClient \notin Clients
  /\ Depth \in Nat /\ Depth > Cardinality(Clients)
  /\ RequestLen \in Nat \ {0} /\ {MaxSignals, MaxChanges, MaxLeavers} \subseteq Nat

Procs == 1..Depth

(* What a path may lead to: nothing, a file without read permission, a     *)
(* file of two buffers, an executable file of one, a directory.            *)
Kinds == {"missing", "forbidden", "plain", "executable", "directory"}
Pieces(kind) == CASE kind = "plain" -> 2
                  [] kind = "executable" -> 1
                  [] OTHER -> 0

VARIABLES
  program,      \* which of the two programs runs: 1 or 2
  proc,         \* process -> its control state, see Process
  listening,    \* FALSE once somebody has shut the listening socket down
  backlog,      \* clients connected and not accepted, in order
  accepted,     \* clients no longer in the backlog: accepted, or dropped from it
  shut,         \* connections ended by shutdown()
  sent,         \* client -> pieces of the request it has sent
  got,          \* client -> pieces the server has read
  left,         \* client -> has it closed its end
  file,         \* client -> kind of the file it asks for
  changed,      \* clients whose file has changed under the server
  stream,       \* client -> what it has been sent
  signals, changes   \* spent so far

clientVars == <<sent, left>>
fileVars == <<file, changed, changes>>
socketVars == <<listening, backlog, accepted, shut>>
vars == <<program, proc, socketVars, clientVars, got, fileVars, stream, signals>>

-----------------------------------------------------------------------------
(* A process: its point in the program, the client it serves (client_socket),*)
(* the output it is about to write and where it goes on then, the file it   *)
(* has open and how far it has read it, and the client its stdout leads to. *)

Points == {"none", "gone", "accept", "read", "exists", "readable", "executable",
           "stat", "write", "open", "body", "spin", "child", "cgi",
           "wait", "close"}

Idle(pc) == [pc |-> pc, client |-> NoClient, out |-> <<>>, then |-> "none",
             opened |-> "missing", pos |-> 0, stdout |-> NoClient]

Alive(p) == proc[p].pc \notin {"none", "gone"}
client_socket(p) == proc[p].client

(* A client sees the end of its connection when no process holds it.       *)
Ended(c) ==
  /\ c \in accepted
  /\ \/ c \in shut
     \/ \A p \in Procs : c \notin {proc[p].client, proc[p].stdout}

Init ==
  /\ program \in {1, 2}
  /\ proc = [p \in Procs |-> Idle(IF p = 1 THEN "accept" ELSE "none")]
  /\ listening = TRUE /\ backlog = <<>> /\ accepted = {} /\ shut = {}
  /\ sent = [c \in Clients |-> 0] /\ got = [c \in Clients |-> 0]
  /\ left = [c \in Clients |-> FALSE]
  /\ file \in [Clients -> Kinds] /\ changed = {} /\ changes = 0
  /\ stream = [c \in Clients |-> <<>>]
  /\ signals = 0

-----------------------------------------------------------------------------
(* The clients, the file system and whoever sends the signals.             *)

Connected(c) == c \in accepted \/ c \in ToSet(backlog)

Connect(c) ==
  /\ listening /\ ~Connected(c)
  /\ \E p \in Procs : Alive(p)
  /\ backlog' = Append(backlog, c)
  /\ UNCHANGED <<program, proc, listening, accepted, shut, clientVars, got,
                 fileVars, stream, signals>>

Send(c) ==
  /\ Connected(c) /\ ~left[c] /\ sent[c] < RequestLen
  /\ sent' = [sent EXCEPT ![c] = @ + 1]
  /\ UNCHANGED <<program, proc, socketVars, left, got, fileVars, stream, signals>>

Leave(c) ==
  /\ Connected(c) /\ ~left[c]
  /\ Cardinality({d \in Clients : left[d]}) < MaxLeavers
  /\ left' = [left EXCEPT ![c] = TRUE]
  /\ UNCHANGED <<program, proc, socketVars, sent, got, fileVars, stream, signals>>

(* A change before the server looks is no different from another file.     *)
Change(c, kind) ==
  /\ \E p \in Procs : client_socket(p) = c /\ proc[p].pc \notin {"read", "exists"}
  /\ changes < MaxChanges /\ kind # file[c]
  /\ file' = [file EXCEPT ![c] = kind]
  /\ changed' = changed \cup {c}
  /\ changes' = changes + 1
  /\ UNCHANGED <<program, proc, socketVars, clientVars, got, stream, signals>>

-----------------------------------------------------------------------------
(* Ending a process.  Error and the handler Shutdown both run over all     *)
(* descriptors from 3 up; shutdown() acts on the connection itself, for    *)
(* every process that shares it, and drops what waits in the backlog.      *)

ListeningAfterClose == listening
ListeningAfterShutdown == FALSE

Sockets(p) == {client_socket(p)} \ {NoClient}

CloseAll(p) ==
  /\ proc' = [proc EXCEPT ![p] = Idle("gone")]
  /\ listening' = ListeningAfterShutdown
  /\ shut' = shut \cup Sockets(p) \cup ToSet(backlog)
  /\ accepted' = accepted \cup ToSet(backlog)
  /\ backlog' = <<>>
  /\ UNCHANGED <<program, clientVars, got, fileVars, stream>>

Shutdown(p) ==
  /\ Alive(p) /\ proc[p].pc # "cgi"
  /\ signals < MaxSignals /\ signals' = signals + 1
  /\ CloseAll(p)

Error(p) ==
  /\ proc[p].pc = "accept" /\ ~listening
  /\ CloseAll(p)
  /\ UNCHANGED signals

-----------------------------------------------------------------------------
(* The loop of main.                                                       *)

Goto(p, pc) == proc' = [proc EXCEPT ![p].pc = pc]
Say(p, out, then) ==
  proc' = [proc EXCEPT ![p].pc = "write", ![p].out = out, ![p].then = then]

Accept(p) ==
  /\ proc[p].pc = "accept" /\ listening /\ backlog # <<>>
  /\ proc' = [proc EXCEPT ![p].pc = "read", ![p].client = Head(backlog)]
  /\ accepted' = accepted \cup {Head(backlog)}
  /\ backlog' = Tail(backlog)
  /\ UNCHANGED <<program, listening, shut, clientVars, got, fileVars, stream, signals>>

(* The request ends with the blank line; a read that takes a part of it is *)
(* followed by another.  When the client has gone there is nothing more to *)
(* take, and the loop around read goes on for ever without changing state. *)
WholeAtOnce(n) == n > 0
WholeAndMore(n) == n > RequestLen
Whole(n) == n = RequestLen

Read(p) ==
  LET c == client_socket(p) IN
  /\ proc[p].pc = "read"
  /\ \E n \in got[c] + 1 .. sent[c] :
       /\ got' = [got EXCEPT ![c] = n]
       /\ Goto(p, IF Whole(n) THEN "exists" ELSE "read")
  /\ UNCHANGED <<program, socketVars, clientVars, fileVars, stream, signals>>

Close(p) ==
  /\ proc[p].pc = "close"
  /\ proc' = [proc EXCEPT ![p] = [Idle("accept") EXCEPT !.stdout = proc[p].stdout]]

-----------------------------------------------------------------------------
(* answer: three questions to the file system, one after another.          *)

Status(n) == <<"status", n>>
Length(n) == <<"length", n>>

ans404(p) == Say(p, <<Status(404), Length(0)>>, "close")
ans403(p) == Say(p, <<Status(403), Length(0)>>, "close")

Missing(p) == file[client_socket(p)] = "missing"
Unreadable(p) == file[client_socket(p)] \in {"missing", "forbidden"}
Runnable(p) == program = 2 /\ file[client_socket(p)] \in {"executable", "directory"}

AccessExists(p) ==
  /\ proc[p].pc = "exists"
  /\ IF Missing(p) THEN ans404(p) ELSE Goto(p, "readable")

AccessReadable(p) ==
  /\ proc[p].pc = "readable"
  /\ IF Unreadable(p) THEN ans403(p) ELSE Goto(p, "executable")

AccessExecutable(p) ==
  /\ proc[p].pc = "executable"
  /\ ~Runnable(p)
  /\ Goto(p, "stat")

(* fork: the child shares the connection, the parent waits.                *)
Fork(p) ==
  /\ proc[p].pc = "executable"
  /\ Runnable(p)
  /\ p + 1 \in Procs
  /\ proc' = [proc EXCEPT
       ![p].pc = "wait",
       ![p + 1] = [Idle("write") EXCEPT !.client = client_socket(p),
                     !.stdout = proc[p].stdout,
                     !.out = <<Status(200)>>, !.then = "child"]]

-----------------------------------------------------------------------------
(* A write to a connection that was shut down kills the writer by SIGPIPE; *)
(* one to a client that has left may.                                      *)
Target(p) == IF proc[p].pc = "cgi" THEN proc[p].stdout ELSE client_socket(p)
Die(p) == proc' = [proc EXCEPT ![p] = Idle("gone")]
Killed(p) ==
  /\ Target(p) \in shut \/ left[Target(p)]
  /\ Die(p)
  /\ UNCHANGED stream

Deliver(p, token) ==
  /\ Target(p) \notin shut
  /\ stream' = [stream EXCEPT ![Target(p)] =
                  IF left[Target(p)] THEN @ ELSE Append(@, token)]

Write(p) ==
  /\ proc[p].pc = "write"
  /\ \/ /\ Deliver(p, Head(proc[p].out))
        /\ proc' = [proc EXCEPT
             ![p].out = Tail(@),
             ![p].pc = IF Len(proc[p].out) = 1 THEN proc[p].then ELSE "write"]
     \/ Killed(p)

(* ans200 of a file that is not run.                                       *)
Stat(p) ==
  /\ proc[p].pc = "stat"
  /\ Say(p, <<Status(200), Length(Pieces(file[client_socket(p)]))>>, "open")

Open(p) ==
  /\ proc[p].pc = "open"
  /\ proc' = [proc EXCEPT ![p].pc = "body",
                ![p].opened = IF Unreadable(p) THEN "missing" ELSE file[client_socket(p)]]

(* An open file follows changes of its contents, and no others.            *)
ContentKinds == {"plain", "executable"}
Size(p) == IF file[client_socket(p)] \in ContentKinds
           THEN Pieces(file[client_socket(p)]) ELSE Pieces(proc[p].opened)

(* What follows the contents.                                              *)
EndMark == <<"end", 0>>
ReadsNothing(p) == proc[p].pos >= Size(p)

Body(p) ==
  /\ proc[p].pc = "body"
  /\ proc[p].opened \in ContentKinds
  /\ ~ReadsNothing(p)
  /\ \/ /\ Deliver(p, <<"body", proc[p].pos + 1>>)
        /\ proc' = [proc EXCEPT ![p].pos = @ + 1]
     \/ Killed(p)

BodyEnd(p) ==
  /\ proc[p].pc = "body"
  /\ proc[p].opened \in ContentKinds
  /\ ReadsNothing(p)
  /\ Say(p, <<EndMark>>, "close")

(* size_t holds read's -1: not 0, so the loop goes on, and the write of    *)
(* that many bytes fails.  The file is a directory, or was not opened.     *)
BodyNeverEnds(p) ==
  /\ proc[p].pc = "body"
  /\ proc[p].opened \notin ContentKinds
  /\ Goto(p, "spin")

-----------------------------------------------------------------------------
(* The child: dup2, close(client_socket), execlp.  When execlp fails the   *)
(* child returns into the loop of main as a server of its own.             *)
Exec(p) ==
  LET c == client_socket(p) IN
  /\ proc[p].pc = "child"
  /\ proc' = [proc EXCEPT
       ![p] = [Idle(IF file[c] = "executable" THEN "cgi" ELSE "accept")
                 EXCEPT !.stdout = c]]

(* The file that is run writes its output and ends.                        *)
Cgi(p) ==
  /\ proc[p].pc = "cgi"
  /\ \/ /\ proc[p].pos = 0
        /\ \/ /\ Deliver(p, <<"cgi", 0>>)
              /\ proc' = [proc EXCEPT ![p].pos = 1]
           \/ Killed(p)
     \/ /\ proc[p].pos = 1
        /\ Die(p)
        /\ UNCHANGED stream

ChildLeft(p) == proc[p + 1].pc # "write"
ChildEnded(p) == ~Alive(p + 1)

Wait(p) ==
  /\ proc[p].pc = "wait"
  /\ ChildEnded(p)
  /\ Goto(p, "close")

-----------------------------------------------------------------------------
(* Steps that change proc alone, and steps that also write to the client.  *)
Local(p) ==
  \/ Close(p) \/ AccessExists(p) \/ AccessReadable(p) \/ AccessExecutable(p)
  \/ Fork(p) \/ Stat(p) \/ Open(p) \/ BodyEnd(p) \/ BodyNeverEnds(p)
  \/ Exec(p) \/ Wait(p)
Output(p) == Write(p) \/ Body(p) \/ Cgi(p)

Run(p) ==
  \/ Accept(p) \/ Error(p) \/ Read(p)
  \/ /\ (Local(p) /\ UNCHANGED stream) \/ Output(p)
     /\ UNCHANGED <<program, socketVars, clientVars, got, fileVars, signals>>

Client(c) == Connect(c) \/ Send(c) \/ Leave(c)

Next ==
  \/ \E p \in Procs : Run(p) \/ Shutdown(p)
  \/ \E c \in Clients : Client(c) \/ \E kind \in Kinds : Change(c, kind)

Spec == Init /\ [][Next]_vars

(* The server's processes run; a client that has connected finishes its    *)
(* request or leaves.  A file that is run is another program, of which     *)
(* nothing says that it ends.                                              *)
FairSpec == Spec /\ \A p \in Procs : WF_vars(proc[p].pc # "cgi" /\ Run(p))
                 /\ \A c \in Clients : WF_vars(Send(c))
-----------------------------------------------------------------------------
(* Properties.                                                             *)

(* Every variable has its type; a process beyond accept has a client.      *)
Tokens == {"status", "length", "body", "cgi", "end"} \X Nat
Maybe == Clients \cup {NoClient}

TypeOK ==
  /\ program \in {1, 2} /\ listening \in BOOLEAN
  /\ proc \in [Procs -> [pc : Points, client : Maybe, out : Seq(Tokens), then : Points,
                         opened : Kinds, pos : 0..2, stdout : Maybe]]
  /\ \A p \in Procs :
       /\ proc[p].pc \notin {"none", "gone", "accept", "cgi"} => Sockets(p) # {}
       /\ proc[p].pc = "cgi" => proc[p].stdout # NoClient
       /\ proc[p].pc = "write" =>
            proc[p].out # <<>> /\ proc[p].then \in {"close", "open", "child"}
       /\ proc[p].pos # 0 => \/ proc[p].pc \in {"body", "spin", "cgi", "close"}
                             \/ proc[p].pc = "write" /\ proc[p].then = "close"
  /\ backlog \in Seq(Clients) /\ IsInjective(backlog)
  /\ accepted \subseteq Clients /\ ToSet(backlog) \cap accepted = {}
  /\ shut \subseteq accepted /\ changed \subseteq Clients
  /\ left \in [Clients -> BOOLEAN] /\ file \in [Clients -> Kinds]
  /\ sent \in [Clients -> 0..RequestLen] /\ got \in [Clients -> Nat]
  /\ \A c \in Clients : got[c] <= sent[c]
  /\ stream \in [Clients -> Seq(Tokens)]

(* The answer a client is owed for its file.                               *)
Answer(c) ==
  CASE file[c] = "missing" -> <<Status(404), Length(0)>>
    [] file[c] = "forbidden" -> <<Status(403), Length(0)>>
    [] program = 2 /\ file[c] = "executable" -> <<Status(200), <<"cgi", 0>>>>
    [] program = 2 /\ file[c] = "directory" -> <<Status(200)>>
    [] OTHER -> <<Status(200), Length(Pieces(file[c]))>>
                  \o [i \in 1..Pieces(file[c]) |-> <<"body", i>>] \o <<EndMark>>

(* Unless its file changes under the server, a client is sent the pieces   *)
(* of its own answer in order, none before its request is whole, and the   *)
(* connection ends on a complete answer only, unless a signal cut it,      *)
(* which problem.md:8-9 of both tasks forbids, or the client went away.    *)
AnswerIsRight ==
  \A c \in Clients \ changed :
    /\ IsPrefix(stream[c], Answer(c))
    /\ stream[c] # <<>> => got[c] = RequestLen
    /\ Ended(c) /\ c \notin shut /\ ~left[c] => stream[c] = Answer(c)

(* However many processes failed calls of execlp leave behind, one at most *)
(* runs the server's loop: all that came before it wait.  (A signal that   *)
(* ends a waiting process lets its parent run on beside its child, but     *)
(* nobody accepts a client any more.)  A process that serves has a socket  *)
(* to serve.                                                               *)
OneServer ==
  /\ TypeOK
  /\ listening => \A p, q \in Procs : p < q /\ Alive(q) => proc[p].pc = "wait"

(* A process that never leaves a loop: the client is gone before the blank *)
(* line, or the file cannot be read.                                       *)
Spinning(p) ==
  \/ proc[p].pc = "spin"
  \/ /\ proc[p].pc = "read"
     /\ LET c == client_socket(p) IN left[c] /\ got[c] = sent[c]

AllGone == \A p \in Procs : ~Alive(p) \/ proc[p].pc = "cgi"

(* No file that is run goes on for ever.                                   *)
CgisEnd == []<>(\A p \in Procs : proc[p].pc # "cgi")

(* Whoever sends a whole request is answered, unless the server spins, or  *)
(* has ended, which takes a signal or a client that left: as long as the   *)
(* files that are run end, for the server does nothing else meanwhile.     *)
Answered ==
  CgisEnd => \A c \in Clients :
    (sent[c] = RequestLen) ~>
       \/ stream[c] = Answer(c) \/ left[c] \/ c \in changed \cup shut
       \/ \E p \in Procs : Spinning(p)
       \/ AllGone /\ (signals > 0 \/ \E d \in Clients : left[d])

(* A signal to any process ends all processes of the chain, those it did   *)
(* not reach included, unless one of them spins; as long as the files that *)
(* are run end by themselves, for nobody ends them, although problem.md:9  *)
(* of 17_tcp/2 asks for that: see ChildrenEnded.                           *)
StopEndsAll ==
  CgisEnd => ((signals > 0) ~> \/ \A p \in Procs : ~Alive(p)
                               \/ \E p \in Procs : Spinning(p))

(* 17_tcp/2 problem.md:9 asks the server to end its child processes itself *)
(* when it is stopped.  Not so: the handler leaves without them.           *)
ChildrenEnded ==
  signals > 0 /\ proc[1].pc = "gone" => \A p \in Procs : proc[p].pc # "cgi"
=============================================================================
