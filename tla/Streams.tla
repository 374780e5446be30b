------------------------------- MODULE Streams -------------------------------
(***************************************************************************)
(* Clients that read answers from a TCP stream: tcp-client of 17_tcp, and  *)
(* http-get and http-post of 20_http.  The stream arrives in segments that *)
(* have nothing to do with the parts of an answer.                         *)
(***************************************************************************)
EXTENDS Integers, Sequences, FiniteSets, SequencesExt

CONSTANTS
  Numbers,      \* numbers in tcp-client's input
  Lengths,      \* pairs: the Content-Length of a page, and what is sent of it
  Uploads,      \* contents of the files that http-post sends: bytes
  BUFSIZ,       \* cells that a read may return
  Word          \* 2^64

StreamAssumption ==
  /\ Numbers \in Nat /\ BUFSIZ \in Nat \ {0} /\ Word \in Nat
  /\ Uploads \subseteq Seq(Nat)
  /\ \A l \in Lengths : l[1] \in Nat \ {0} /\ l[2] \in Nat /\ l[1] + l[2] + 2 * BUFSIZ < Word

VARIABLES
  client,       \* the program: "tcp", "get" or "post"
  at,           \* where it is
  asked,        \* numbers written to the server
  get,          \* tcp-client's get: the two halves of a number
  content_length,
  file,         \* what is in the file to be sent
  posted,       \* the body of http-post's request
  page,         \* the page's Content-Length and what is sent of it
  segments,     \* what the server has sent and the client not received
  in,           \* what the client can read
  server,       \* "open", "closed", closed and "gone", or "reset"
  output,
  whole         \* history: no answer or header was torn by a segment, and
                \* no page of http-post

vars == <<client, at, asked, get, content_length, file, posted, page, segments, in, server,
          output, whole>>
(* What the program itself keeps.                                          *)
kept == <<client, file, posted, page, asked, get, content_length, output, whole>>

Answer(k) == <<<<k, 1>>, <<k, 2>>>>
Headers == <<<<"status", 0>>, <<"Content-Length", 0>>, <<"other", 0>>, <<"delimiter", 0>>>>
Body(n) == [k \in 1..n |-> <<"body", k>>]
Page == Headers \o Body(page[2])

InitWith(clients) ==
  /\ client \in clients /\ at = (IF client = "tcp" THEN "scanf" ELSE "request")
  /\ page \in Lengths /\ (client \in {"get", "post"} \/ page = CHOOSE l \in Lengths : TRUE)
  /\ file \in Uploads /\ (client = "post" \/ file = CHOOSE f \in Uploads : TRUE)
  /\ asked = 0 /\ get = <<<<0, 1>>, <<0, 2>>>> /\ content_length = 0
  /\ posted = <<>> /\ segments = <<>> /\ in = <<>>
  /\ server = "open" /\ output = <<>> /\ whole = TRUE
Init == InitWith({"tcp", "get", "post"})
Unmounted == InitWith({"none"})

-----------------------------------------------------------------------------
(* Any part of what was sent arrives; the server closes the connection     *)
(* when all has been sent, or resets it.  What arrived can still be read.  *)
Segment ==
  /\ \E k \in 1..Len(segments) :
       /\ in' = in \o SubSeq(segments, 1, k)
       /\ segments' = SubSeq(segments, k + 1, Len(segments))
  /\ UNCHANGED <<kept, at, server>>

Close ==
  /\ server = "open" /\ segments = <<>> /\ at # "request"
  /\ server' \in IF client = "tcp" THEN {"closed", "reset"} ELSE {"closed"}
  /\ UNCHANGED <<kept, at, segments, in>>

Taken(n) == SubSeq(in, 1, IF Len(in) <= n THEN Len(in) ELSE n)
Rest(n) == SubSeq(in, Len(Taken(n)) + 1, Len(in))
Readable == in # <<>> \/ server # "open"

-----------------------------------------------------------------------------
(* tcp-client: a number is written, and answered by the server.  A write   *)
(* fails after a reset; after a close the server's system answers it with  *)
(* a reset, and the next one raises SIGPIPE.                               *)
Write ==
  /\ client = "tcp" /\ at = "scanf"
  /\ at' = CASE asked = Numbers \/ server = "reset" -> "ended"
             [] server = "gone" -> "killed"
             [] OTHER -> "read"
  /\ asked' = IF at' = "read" THEN asked + 1 ELSE asked
  /\ segments' = IF at' = "read" /\ server = "open" THEN segments \o Answer(asked') ELSE segments
  /\ server' \in IF at' = "read" /\ server = "closed" THEN {"closed", "gone"} ELSE {server}
  /\ UNCHANGED <<client, file, posted, page, get, content_length, in, output, whole>>

(* A read of one half leaves the other half of get as it was.              *)
FirstHalf(cells) == <<cells[1], get[2]>>
Halves(cells) == IF Len(cells) = 2 THEN cells ELSE <<cells[1], get[2]>>

ReadNumber ==
  /\ client = "tcp" /\ at = "read" /\ Readable
  /\ in' = Rest(2)
  /\ IF in = <<>> THEN at' = "ended" /\ UNCHANGED <<get, output, whole>>
     ELSE /\ get' = Halves(Taken(2)) /\ output' = Append(output, get')
          /\ at' = "scanf" /\ whole' = (whole /\ Len(Taken(2)) = 2)
  /\ UNCHANGED <<client, file, posted, page, asked, content_length, segments, server>>

-----------------------------------------------------------------------------
(* send_request: the server sends the page when it has the whole query.    *)
GetRequest ==
  /\ client = "get" /\ at = "request"
  /\ at' = "response" /\ segments' = Page
  /\ UNCHANGED <<kept, in, server>>

(* http-post announces the length of its file, copies the file into the    *)
(* query as a string - to its first NUL - adds a delimiter that is not     *)
(* announced, and sends as many bytes as both should have; what was not    *)
(* copied is 0.  The query has room for all of it.                         *)
Text(bytes) ==
  LET n == CHOOSE k \in 0..Len(bytes) :
             (\A j \in 1..k : bytes[j] # 0) /\ (k < Len(bytes) => bytes[k + 1] = 0)
  IN SubSeq(bytes, 1, n)
CrLfCrLf == <<13, 10, 13, 10>>
Posted(bytes) ==
  LET query == Text(bytes) \o CrLfCrLf
  IN [k \in 1..Len(bytes) + Len(CrLfCrLf) |-> IF k <= Len(query) THEN query[k] ELSE 0]

(* A file that cannot be read - read returns -1, which is not 0 - is read  *)
(* for ever, before the alarm is set.                                      *)
PostRequest ==
  /\ client = "post" /\ at = "request"
  /\ \E opened \in BOOLEAN :
       IF opened THEN at' = "response" /\ posted' = Posted(file) /\ segments' = Page
       ELSE at' = "spins" /\ UNCHANGED <<posted, segments>>
  /\ UNCHANGED <<client, asked, get, content_length, file, page, in, server, output, whole>>

Where(cells, what) == {k \in DOMAIN cells : cells[k][1] = what}
After(cells, what) ==
  LET k == CHOOSE j \in Where(cells, what) : TRUE IN SubSeq(cells, k + 1, Len(cells))

(* http-get, the first segment: the length and the end of the headers are  *)
(* sought in it alone; without a delimiter write() fails with -1.          *)
LeftOfAll(length, written) == length
LeftOf(length, written) == (length - written) % Word

FirstSegment ==
  LET cells == Taken(BUFSIZ) IN
  /\ client = "get" /\ at = "response" /\ Readable
  /\ in' = Rest(BUFSIZ)
  /\ IF Where(cells, "Content-Length") = {}
     THEN at' = "killed" /\ UNCHANGED <<content_length, output, whole>>
     ELSE /\ at' = "body" /\ whole' = (Where(cells, "delimiter") # {})
          /\ IF Where(cells, "delimiter") = {}
             THEN content_length' = LeftOf(page[1], -1) /\ UNCHANGED output
             ELSE /\ output' = After(cells, "delimiter")
                  /\ content_length' = LeftOf(page[1], Len(output'))
  /\ UNCHANGED <<client, file, posted, page, asked, get, segments, server>>

(* The loop; at the end of the stream it goes on with nothing.             *)
NextSegment ==
  /\ client = "get" /\ at = "body"
  /\ IF content_length = 0
     THEN at' = "ended" /\ UNCHANGED <<in, output, content_length>>
     ELSE /\ Readable /\ in' = Rest(BUFSIZ) /\ output' = output \o Taken(BUFSIZ)
          /\ content_length' = LeftOf(content_length, Len(Taken(BUFSIZ))) /\ UNCHANGED at
  /\ UNCHANGED <<client, file, posted, page, asked, get, segments, server, whole>>

(* http-post: of each segment, what is behind a delimiter; a segment       *)
(* without one is lost.  It ends with the stream or with its alarm.        *)
AnySegment ==
  LET cells == Taken(BUFSIZ) IN
  /\ client = "post" /\ at = "response" /\ Readable
  /\ in' = Rest(BUFSIZ)
  /\ at' = IF cells = <<>> THEN "ended" ELSE at
  /\ output' = IF Where(cells, "delimiter") = {} THEN output
               ELSE output \o After(cells, "delimiter")
  /\ whole' = (whole /\ Len(cells) \in {0, Len(Page)})
  /\ UNCHANGED <<client, file, posted, page, asked, get, content_length, segments, server>>

Alarm == client = "post" /\ at = "response" /\ at' = "ended" /\ UNCHANGED <<kept, segments, in, server>>

Program ==
  \/ Write \/ ReadNumber \/ GetRequest \/ PostRequest
  \/ FirstSegment \/ NextSegment \/ AnySegment
Next == Program \/ Alarm \/ Segment \/ Close

(* Segments that were sent arrive.                                         *)
Fairness == WF_vars(Program) /\ WF_vars(Alarm) /\ WF_vars(Segment)
              /\ WF_vars(Close /\ client # "tcp")
Spec == Init /\ [][Next]_vars
FairSpec == Spec /\ Fairness
-----------------------------------------------------------------------------
(* While answers come whole, the k-th number printed is the answer to the  *)
(* k-th question, and a server that closes or resets does not kill the     *)
(* client.                                                                 *)
NumbersAreRight ==
  client = "tcp" =>
    /\ whole => output = [k \in DOMAIN output |-> Answer(k)]
    /\ Len(output) <= asked /\ (at = "killed" => ~whole)

(* A client prints of the page what comes in order, without the headers;  *)
(* http-get that ends has printed it all, no less than the length the      *)
(* server announced, if the headers came in one segment.  http-post prints *)
(* what comes with the end of the headers, in the same segment: the whole  *)
(* page if it came in one, and nothing of the later segments if not.       *)
PageIsRight ==
  /\ client = "get" /\ whole => IsPrefix(output, Body(page[2]))
  /\ client = "get" /\ at = "ended" /\ whole => Len(output) = page[1]
  /\ client = "post" => IsPrefix(output, Body(page[2]))
  /\ client = "post" /\ whole /\ posted # <<>> =>
       output = IF in = <<>> /\ segments = <<>> THEN Body(page[2]) ELSE <<>>

(* What a server takes by the announced length is http-post's file if the  *)
(* file is a text: a NUL in it cuts it, although problem.md:6 asks for the *)
(* content of any file.  Behind it four bytes more are sent, which the     *)
(* length does not count.                                                  *)
Announced == SubSeq(posted, 1, Len(file))
FileIsSent ==
  client = "post" /\ posted # <<>> =>
    /\ Len(posted) = Len(file) + Len(CrLfCrLf)
    /\ (\A k \in DOMAIN file : file[k] # 0) => Announced = file

StreamsRight == NumbersAreRight /\ PageIsRight /\ FileIsSent

(* http-post that has read the answer to its end has printed the answer's  *)
(* body (problem.md:8).  The code does not keep this: of an answer in more *)
(* segments than one it loses all that comes after the one with the end of *)
(* the headers.                                                            *)
AnswerIsPrinted ==
  client = "post" /\ at = "ended" /\ posted # <<>> /\ in = <<>> /\ segments = <<>> =>
    output = Body(page[2])

(* Every client ends: but http-post without its file reads for ever, and   *)
(* http-get turns for ever, or crashes, when its headers are torn, or when *)
(* the page is shorter than its length or is longer and comes too fast.    *)
StreamsEnd ==
  client \in {"tcp", "get", "post"} ~>
    \/ at \in {"ended", "killed", "spins"}
    \/ client = "get" /\ (~whole \/ page[1] # page[2])
=============================================================================
