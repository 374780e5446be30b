-------------------------- MODULE HttpServerProofs --------------------------
(***************************************************************************)
(* The HTTP servers of 17_tcp, for any number of clients, processes,       *)
(* pieces, signals and changes: one process serves at a time, and what a   *)
(* client is sent is its own answer, whole where the connection ends well. *)
(***************************************************************************)
EXTENDS HttpServer, TLAPS

(* Queues without repetitions, and concatenation.                          *)
LEMMA QueueAppend ==
  ASSUME NEW S, NEW q \in Seq(S), IsInjective(q), NEW x \in S, x \notin ToSet(q)
  PROVE  /\ Append(q, x) \in Seq(S) /\ IsInjective(Append(q, x))
         /\ ToSet(Append(q, x)) = ToSet(q) \cup {x}
<1> DEFINE r == Append(q, x)
<1>1. /\ r \in Seq(S) /\ DOMAIN r = 1..Len(q) + 1 /\ DOMAIN q = 1..Len(q) /\ Len(q) \in Nat
      /\ \A i \in 1..Len(q) : r[i] = q[i]
      /\ r[Len(q) + 1] = x
  OBVIOUS
<1> HIDE DEF r
<1>2. IsInjective(r)
  BY <1>1 DEF IsInjective, ToSet
<1>3. ToSet(r) = ToSet(q) \cup {x}
  BY <1>1 DEF ToSet
<1> QED
  BY <1>1, <1>2, <1>3 DEF r

LEMMA QueueTail ==
  ASSUME NEW S, NEW q \in Seq(S), IsInjective(q), q # <<>>
  PROVE  /\ Head(q) \in S /\ Tail(q) \in Seq(S) /\ IsInjective(Tail(q))
         /\ Head(q) \notin ToSet(Tail(q)) /\ ToSet(q) = ToSet(Tail(q)) \cup {Head(q)}
<1> DEFINE r == Tail(q)
<1>1. /\ Head(q) \in S /\ r \in Seq(S)
      /\ Len(q) \in Nat \ {0} /\ DOMAIN q = 1..Len(q) /\ Head(q) = q[1]
      /\ DOMAIN r = 1..Len(q) - 1
      /\ \A i \in 1..Len(q) - 1 : r[i] = q[i + 1]
  OBVIOUS
<1> HIDE DEF r
<1>2. IsInjective(r)
  <2> SUFFICES ASSUME NEW i \in DOMAIN r, NEW l \in DOMAIN r, r[i] = r[l] PROVE i = l
    BY DEF IsInjective
  <2>1. i + 1 \in DOMAIN q /\ l + 1 \in DOMAIN q /\ q[i + 1] = q[l + 1]
    BY <1>1
  <2>2. i + 1 = l + 1
    BY <2>1 DEF IsInjective
  <2> QED
    BY <2>2, <1>1
<1>3. Head(q) \notin ToSet(r)
  <2> SUFFICES ASSUME NEW i \in DOMAIN r, r[i] = Head(q) PROVE FALSE
    BY DEF ToSet
  <2>1. i + 1 \in DOMAIN q /\ 1 \in DOMAIN q /\ q[i + 1] = q[1]
    BY <1>1
  <2>2. i + 1 = 1
    BY <2>1 DEF IsInjective
  <2> QED
    BY <2>2, <1>1
<1>4. ToSet(q) = ToSet(r) \cup {Head(q)}
  <2>1. \A i \in DOMAIN r : r[i] \in ToSet(q)
    BY <1>1 DEF ToSet
  <2>2. Head(q) \in ToSet(q)
    BY <1>1 DEF ToSet
  <2>3. ASSUME NEW i \in DOMAIN q PROVE q[i] \in ToSet(r) \cup {Head(q)}
    <3>1. CASE i = 1
      BY <3>1, <1>1
    <3>2. CASE i # 1
      <4>1. i - 1 \in DOMAIN r /\ r[i - 1] = q[i]
        BY <3>2, <1>1
      <4> QED
        BY <4>1 DEF ToSet
    <3> QED
      BY <3>1, <3>2
  <2> QED
    BY <2>1, <2>2, <2>3 DEF ToSet
<1> QED
  BY <1>1, <1>2, <1>3, <1>4 DEF r

LEMMA ConcatFacts ==
  ASSUME NEW S, NEW g \in Seq(S), NEW t \in Seq(S)
  PROVE  /\ Len(g \o t) = Len(g) + Len(t)
         /\ \A k \in 1..Len(g) : (g \o t)[k] = g[k]
         /\ \A k \in Len(g) + 1..Len(g) + Len(t) : (g \o t)[k] = t[k - Len(g)]
OBVIOUS

LEMMA ConcatNothing ==
  ASSUME NEW S, NEW g \in Seq(S)
  PROVE  g \o <<>> = g /\ <<>> \o g = g
OBVIOUS

LEMMA ConcatSeq ==
  ASSUME NEW S, NEW g \in Seq(S), NEW t \in Seq(S)
  PROVE  g \o t \in Seq(S)
OBVIOUS

(* What stands in front of something is a prefix of the whole.             *)
LEMMA ConcatPrefix ==
  ASSUME NEW S, NEW g \in Seq(S), NEW t \in Seq(S)
  PROVE  IsPrefix(g, g \o t)
<1>1. /\ g \o t \in Seq(S) /\ Len(g \o t) = Len(g) + Len(t)
      /\ \A i \in 1..Len(g) : (g \o t)[i] = g[i]
  BY ConcatFacts, ConcatSeq
<1>2. Len(g) \in Nat /\ Len(t) \in Nat
  OBVIOUS
<1> DEFINE a == SubSeq(g, 1, Len(g))
           b == SubSeq(g \o t, 1, Len(g))
<1>3. a = b
  <2>1. /\ a \in Seq(S) /\ Len(a) = Len(g) /\ \A i \in 1..Len(g) : a[i] = g[i]
    BY <1>2
  <2>2. /\ b \in Seq(S) /\ Len(b) = Len(g) /\ \A i \in 1..Len(g) : b[i] = (g \o t)[i]
    <3> DEFINE w == g \o t
    <3>1. w \in Seq(S) /\ Len(g) <= Len(w)
      BY <1>1, <1>2
    <3> HIDE DEF w
    <3>2. SubSeq(w, 1, Len(g)) \in Seq(S) /\ Len(SubSeq(w, 1, Len(g))) = Len(g)
          /\ \A i \in 1..Len(g) : SubSeq(w, 1, Len(g))[i] = w[i]
      BY <3>1, <1>2
    <3> QED
      BY <3>2 DEF w
  <2> HIDE DEF a, b
  <2> QED
    BY <1>1, <1>2, <2>1, <2>2
<1> QED
  BY <1>1, <1>2, <1>3 DEF IsPrefix

(* Moving the first of what follows to the end of what is there.           *)
LEMMA ConcatMove ==
  ASSUME NEW S, NEW g \in Seq(S), NEW x \in S, NEW t \in Seq(S)
  PROVE  Append(g, x) \o t = g \o (<<x>> \o t)
OBVIOUS

LEMMA ConcatAssoc ==
  ASSUME NEW S, NEW g \in Seq(S), NEW h \in Seq(S), NEW t \in Seq(S)
  PROVE  (g \o h) \o t = g \o (h \o t)
OBVIOUS

LEMMA HeadAndTail ==
  ASSUME NEW S, NEW g \in Seq(S), g # <<>>
  PROVE  /\ Head(g) \in S /\ Tail(g) \in Seq(S) /\ g = <<Head(g)>> \o Tail(g)
         /\ Len(g) = 1 => Tail(g) = <<>>
         /\ Len(g) # 1 => Tail(g) # <<>>
<1> DEFINE x == Head(g)
           t == Tail(g)
           w == <<x>> \o t
<1>1. /\ x \in S /\ t \in Seq(S) /\ x = g[1] /\ Len(g) \in Nat \ {0} /\ Len(t) = Len(g) - 1
      /\ \A i \in 1..Len(t) : t[i] = g[i + 1]
  OBVIOUS
<1> HIDE DEF x, t
<1>2. /\ w \in Seq(S) /\ Len(w) = Len(g) /\ w[1] = x
      /\ \A i \in 2..Len(g) : w[i] = t[i - 1]
  BY <1>1
<1> HIDE DEF w
<1>3. \A i \in 1..Len(g) : g[i] = w[i]
  <2> SUFFICES ASSUME NEW i \in 1..Len(g) PROVE g[i] = w[i]
    OBVIOUS
  <2>1. CASE i = 1
    BY <2>1, <1>1, <1>2
  <2>2. CASE i # 1
    <3>1. i - 1 \in 1..Len(t) /\ i \in 2..Len(g) /\ (i - 1) + 1 = i
      BY <2>2, <1>1
    <3> QED
      BY <3>1, <1>1, <1>2
  <2> QED
    BY <2>1, <2>2
<1>4. g = w
  BY <1>2, <1>3
<1>5. Len(g) = 1 <=> t = <<>>
  BY <1>1
<1> QED
  BY <1>1, <1>4, <1>5 DEF x, t, w

-----------------------------------------------------------------------------
Process == [pc : Points, client : Maybe, out : Seq(Tokens), then : Points,
            opened : Kinds, pos : 0..2, stdout : Maybe]

(* The type of one process.                                                *)
Sound(r) ==
  /\ r \in Process
  /\ r.pc \notin {"none", "gone", "accept", "cgi"} => r.client # NoClient
  /\ r.pc = "cgi" => r.stdout # NoClient
  /\ r.pc = "write" => r.out # <<>> /\ r.then \in {"close", "open", "child"}
  /\ r.pos # 0 => \/ r.pc \in {"body", "spin", "cgi", "close"}
                  \/ r.pc = "write" /\ r.then = "close"

(* Is it busy, and with whom?                                              *)
Busy(r) == r.pc \notin {"none", "gone", "accept", "wait", "close"}
Served(r) == IF r.pc = "cgi" THEN r.stdout ELSE r.client
Owns(r, c) == Busy(r) /\ Served(r) = c

(* Where a process is alive all before it rest; they wait for it as long   *)
(* as anybody may still be accepted.                                       *)
Chain ==
  /\ \A p, q \in Procs : p < q /\ Alive(q) => ~Busy(proc[p])
  /\ listening => \A p, q \in Procs : p < q /\ Alive(q) => proc[p].pc = "wait"

(* What nobody has accepted nobody holds.                                  *)
Fresh ==
  /\ \A p \in Procs : {proc[p].client, proc[p].stdout} \subseteq accepted \cup {NoClient}
  /\ \A c \in Clients \ accepted : stream[c] = <<>>

(* What a process has still to send to the client it is busy with.         *)
BodyFrom(n, k) == [i \in 1..n - k |-> <<"body", k + i>>]
BodyAndEnd(c, k) == BodyFrom(Pieces(file[c]), k) \o <<EndMark>>
Output200(c) == IF file[c] = "executable" THEN <<<<"cgi", 0>>>> ELSE <<>>
Following(c, then) ==
  CASE then = "open" -> BodyAndEnd(c, 0)
    [] then = "child" -> Output200(c)
    [] OTHER -> <<>>
Todo(r, c) ==
  CASE r.pc \in {"read", "exists", "readable", "executable", "stat"} -> Answer(c)
    [] r.pc = "write" -> r.out \o Following(c, r.then)
    [] r.pc = "open" -> BodyAndEnd(c, 0)
    [] r.pc \in {"body", "spin"} -> BodyAndEnd(c, r.pos)
    [] r.pc = "child" -> Output200(c)
    [] OTHER -> IF r.pos = 0 THEN <<<<"cgi", 0>>>> ELSE <<>>

(* What it has found out about the file.                                   *)
RunIt(c) == program = 2 /\ file[c] \in {"executable", "directory"}
ReadIt(c) == file[c] \notin {"missing", "forbidden"} /\ ~RunIt(c)
Knows(r, c) ==
  LET at == IF r.pc = "write" THEN r.then ELSE r.pc IN
  /\ r.pc = "write" => at \in {"close", "open", "child"}
  /\ at = "readable" => file[c] # "missing"
  /\ at = "executable" => file[c] \notin {"missing", "forbidden"}
  /\ at \in {"stat", "open"} => ReadIt(c)
  /\ at \in {"body", "spin"} => ReadIt(c) /\ r.opened = file[c] /\ r.pos <= Pieces(file[c])
  /\ at = "child" => RunIt(c)
  /\ at = "cgi" => program = 2 /\ file[c] = "executable" /\ r.pos \in {0, 1}
  /\ at # "read" => got[c] = RequestLen

(* A client that stays gets what was sent and what is still to be sent.    *)
OnTheWay(r, c) ==
  /\ Knows(r, c)
  /\ ~left[c] => stream[c] \o Todo(r, c) = Answer(c)

Right(c) ==
  /\ IsPrefix(stream[c], Answer(c))
  /\ stream[c] # <<>> => got[c] = RequestLen
  /\ c \in accepted \ shut /\ ~left[c] =>
       stream[c] = Answer(c) \/ \E p \in Procs : Owns(proc[p], c)
  /\ c \notin shut => \A p \in Procs : Owns(proc[p], c) => OnTheWay(proc[p], c)

Order == TypeOK /\ Chain /\ Fresh

Inv == Order /\ \A c \in Clients \ changed : Right(c)

-----------------------------------------------------------------------------
(* The order of the facts: types, sequences of tokens, one busy process.   *)
LEMMA SoundAll ==
  ASSUME TypeOK
  PROVE  \A p \in Procs : Sound(proc[p])
BY DEF TypeOK, Sound, Process, Sockets, client_socket

LEMMA AllSound ==
  ASSUME proc \in [Procs -> Process], \A p \in Procs : Sound(proc[p])
  PROVE  \A p \in Procs :
           /\ proc[p].pc \notin {"none", "gone", "accept", "cgi"} => Sockets(p) # {}
           /\ proc[p].pc = "cgi" => proc[p].stdout # NoClient
           /\ proc[p].pc = "write" =>
                proc[p].out # <<>> /\ proc[p].then \in {"close", "open", "child"}
           /\ proc[p].pos # 0 => \/ proc[p].pc \in {"body", "spin", "cgi", "close"}
                                 \/ proc[p].pc = "write" /\ proc[p].then = "close"
BY DEF Sound, Sockets, client_socket

LEMMA SoundServes ==
  ASSUME NEW r, Sound(r), Busy(r)
  PROVE  Served(r) \in Clients
BY DEF Sound, Busy, Served, Process, Maybe, Points

LEMMA SoundIdle ==
  ASSUME NEW pc \in {"none", "gone", "accept"}
  PROVE  Sound(Idle(pc)) /\ ~Busy(Idle(pc)) /\ Idle(pc).pc = pc
         /\ Idle(pc).client = NoClient /\ Idle(pc).stdout = NoClient
<1>1. <<>> \in Seq(Tokens)
  OBVIOUS
<1> QED
  BY <1>1 DEF Sound, Busy, Idle, Process, Points, Maybe, Kinds

LEMMA OneBusy ==
  ASSUME TypeOK, Chain, NEW p \in Procs, NEW q \in Procs, Busy(proc[p]), Busy(proc[q])
  PROVE  p = q
<1>1. Alive(p) /\ Alive(q)
  BY DEF Busy, Alive
<1>2. ~(p < q) /\ ~(q < p)
  BY <1>1 DEF Chain
<1> QED
  BY <1>2, BoundsAssumption DEF Procs

LEMMA TokenFacts ==
  /\ \A n \in Nat : Status(n) \in Tokens /\ Length(n) \in Tokens /\ <<"body", n>> \in Tokens
  /\ EndMark \in Tokens /\ <<"cgi", 0>> \in Tokens
BY DEF Status, Length, EndMark, Tokens

LEMMA Refusals ==
  /\ <<Status(404), Length(0)>> \in Seq(Tokens) \ {<<>>}
  /\ <<Status(403), Length(0)>> \in Seq(Tokens) \ {<<>>}
  /\ <<Status(200)>> \in Seq(Tokens) \ {<<>>}
<1>1. 200 \in Nat /\ 404 \in Nat /\ 403 \in Nat /\ 0 \in Nat
  OBVIOUS
<1>2. /\ Status(404) \in Tokens /\ Status(403) \in Tokens /\ Length(0) \in Tokens
      /\ Status(200) \in Tokens
  BY <1>1, TokenFacts, Zenon
<1>3. \A x, y \in Tokens : <<x, y>> \in Seq(Tokens) \ {<<>>}
  OBVIOUS
<1>4. \A x \in Tokens : <<x>> \in Seq(Tokens) \ {<<>>}
  OBVIOUS
<1>5. <<Status(404), Length(0)>> \in Seq(Tokens) \ {<<>>}
  BY <1>2, <1>3, Zenon
<1>6. <<Status(403), Length(0)>> \in Seq(Tokens) \ {<<>>}
  BY <1>2, <1>3, Zenon
<1>7. <<Status(200)>> \in Seq(Tokens) \ {<<>>}
  BY <1>2, <1>4, Zenon
<1> QED
  BY <1>5, <1>6, <1>7, Zenon

LEMMA PiecesFacts == \A kind \in Kinds : Pieces(kind) \in 0..2
BY DEF Pieces, Kinds

LEMMA BodyFacts ==
  ASSUME NEW n \in Nat, NEW k \in 0..n
  PROVE  /\ BodyFrom(n, k) \in Seq(Tokens)
         /\ BodyFrom(n, n) = <<>>
         /\ k < n => BodyFrom(n, k) = <<<<"body", k + 1>>>> \o BodyFrom(n, k + 1)
         /\ BodyFrom(n, 0) = [i \in 1..n |-> <<"body", i>>]
<1>1. \A i \in 1..n - k : <<"body", k + i>> \in Tokens
  BY TokenFacts
<1>2. BodyFrom(n, k) \in Seq(Tokens)
  BY <1>1 DEF BodyFrom
<1>3. BodyFrom(n, n) = <<>>
  BY DEF BodyFrom
<1>4. ASSUME k < n PROVE BodyFrom(n, k) = <<<<"body", k + 1>>>> \o BodyFrom(n, k + 1)
  <2> DEFINE b == BodyFrom(n, k + 1)
             w == <<<<"body", k + 1>>>> \o b
  <2>1. \A i \in 1..n - (k + 1) : <<"body", (k + 1) + i>> \in Tokens
    BY TokenFacts
  <2>2. /\ b \in Seq(Tokens) /\ Len(b) = n - (k + 1)
        /\ \A i \in 1..n - (k + 1) : b[i] = <<"body", (k + 1) + i>>
    BY <2>1, <1>4 DEF BodyFrom
  <2> HIDE DEF b
  <2>3. <<"body", k + 1>> \in Tokens
    BY TokenFacts
  <2>4. /\ w \in Seq(Tokens) /\ Len(w) = n - k /\ w[1] = <<"body", k + 1>>
        /\ \A i \in 2..n - k : w[i] = b[i - 1]
    BY <2>2, <2>3, <1>4
  <2> HIDE DEF w
  <2>5. \A i \in 1..n - k : w[i] = <<"body", k + i>>
    <3> SUFFICES ASSUME NEW i \in 1..n - k PROVE w[i] = <<"body", k + i>>
      OBVIOUS
    <3>1. CASE i = 1
      BY <3>1, <2>4
    <3>2. CASE i # 1
      <4>1. i - 1 \in 1..n - (k + 1) /\ i \in 2..n - k /\ (k + 1) + (i - 1) = k + i
        BY <3>2
      <4> QED
        BY <4>1, <2>2, <2>4
    <3> QED
      BY <3>1, <3>2
  <2>6. w = [i \in 1..n - k |-> w[i]]
    BY <2>4
  <2> QED
    BY <2>5, <2>6 DEF w, b, BodyFrom
<1>5. BodyFrom(n, 0) = [i \in 1..n |-> <<"body", i>>]
  BY DEF BodyFrom
<1> QED
  BY <1>2, <1>3, <1>4, <1>5

LEMMA AnswerFacts ==
  ASSUME TypeOK, NEW c \in Clients
  PROVE  /\ Answer(c) \in Seq(Tokens)
         /\ file[c] = "missing" => Answer(c) = <<Status(404), Length(0)>>
         /\ file[c] = "forbidden" => Answer(c) = <<Status(403), Length(0)>>
         /\ RunIt(c) => Answer(c) = <<Status(200)>> \o Output200(c)
         /\ ReadIt(c) => Answer(c) = <<Status(200), Length(Pieces(file[c]))>> \o BodyAndEnd(c, 0)
<1> DEFINE n == Pieces(file[c])
<1>1. file[c] \in Kinds /\ n \in Nat
  <2>1. file[c] \in Kinds
    BY DEF TypeOK
  <2>2. n \in 0..2
    BY <2>1, PiecesFacts
  <2> QED
    BY <2>1, <2>2
<1>2. /\ BodyFrom(n, 0) \in Seq(Tokens) /\ <<EndMark>> \in Seq(Tokens)
      /\ BodyFrom(n, 0) = [i \in 1..n |-> <<"body", i>>]
  <2>1. 0 \in 0..n
    BY <1>1
  <2>2. BodyFrom(n, 0) \in Seq(Tokens) /\ BodyFrom(n, 0) = [i \in 1..n |-> <<"body", i>>]
    BY <2>1, <1>1, BodyFacts
  <2>3. EndMark \in Tokens
    BY TokenFacts
  <2> QED
    BY <2>2, <2>3
<1>3. /\ <<Status(404), Length(0)>> \in Seq(Tokens) /\ <<Status(403), Length(0)>> \in Seq(Tokens)
      /\ <<Status(200)>> \in Seq(Tokens) /\ <<Status(200), <<"cgi", 0>>>> \in Seq(Tokens)
      /\ <<Status(200), Length(n)>> \in Seq(Tokens)
  <2> HIDE DEF n
  <2>1. /\ Status(404) \in Tokens /\ Status(403) \in Tokens /\ Status(200) \in Tokens
        /\ Length(0) \in Tokens /\ Length(n) \in Tokens /\ <<"cgi", 0>> \in Tokens
    <3>1. 404 \in Nat /\ 403 \in Nat /\ 200 \in Nat /\ 0 \in Nat
      OBVIOUS
    <3> QED
      BY <1>1, <3>1, TokenFacts, Zenon
  <2>2. \A x, y \in Tokens : <<x, y>> \in Seq(Tokens)
    OBVIOUS
  <2>3. <<Status(200), <<"cgi", 0>>>> \in Seq(Tokens)
    BY <2>1, <2>2, Zenon
  <2>4. <<Status(200), Length(n)>> \in Seq(Tokens)
    BY <2>1, <2>2, Zenon
  <2> QED
    BY <2>3, <2>4, Refusals, Zenon
<1>4. ASSUME file[c] = "missing" PROVE Answer(c) = <<Status(404), Length(0)>>
  BY <1>4 DEF Answer
<1>5. ASSUME file[c] = "forbidden" PROVE Answer(c) = <<Status(403), Length(0)>>
  BY <1>5 DEF Answer
<1>6. ASSUME RunIt(c)
      PROVE  Answer(c) = <<Status(200)>> \o Output200(c) /\ Answer(c) \in Seq(Tokens)
  <2>1. CASE file[c] = "executable"
    <3>1. Answer(c) = <<Status(200), <<"cgi", 0>>>>
      BY <1>6, <2>1 DEF Answer, RunIt
    <3>2. <<Status(200), <<"cgi", 0>>>> = <<Status(200)>> \o <<<<"cgi", 0>>>>
      OBVIOUS
    <3> QED
      BY <3>1, <3>2, <2>1, <1>3 DEF Output200
  <2>2. CASE file[c] = "directory"
    <3>1. Answer(c) = <<Status(200)>>
      BY <1>6, <2>2 DEF Answer, RunIt
    <3>2. <<Status(200)>> \o <<>> = <<Status(200)>>
      BY <1>3, ConcatNothing
    <3> QED
      BY <3>1, <3>2, <2>2, <1>3 DEF Output200
  <2> QED
    BY <1>6, <2>1, <2>2 DEF RunIt
<1>7. ASSUME ReadIt(c)
      PROVE  /\ Answer(c) = <<Status(200), Length(n)>> \o BodyAndEnd(c, 0)
             /\ Answer(c) \in Seq(Tokens)
  <2> DEFINE b == BodyFrom(n, 0)
  <2>1. Answer(c) = <<Status(200), Length(n)>> \o b \o <<EndMark>>
    BY <1>7, <1>2, <1>1 DEF Answer, ReadIt, RunIt
  <2>2. BodyAndEnd(c, 0) = b \o <<EndMark>>
    BY DEF BodyAndEnd
  <2> HIDE DEF n, b
  <2>3. b \in Seq(Tokens)
    BY <1>2 DEF b
  <2>4. <<Status(200), Length(n)>> \o b \o <<EndMark>> = <<Status(200), Length(n)>> \o (b \o <<EndMark>>)
    BY <1>2, <1>3, <2>3, ConcatAssoc
  <2>5. <<Status(200), Length(n)>> \o (b \o <<EndMark>>) \in Seq(Tokens)
    BY <1>2, <1>3, <2>3, ConcatSeq
  <2> QED
    BY <2>1, <2>2, <2>4, <2>5
<1>8. file[c] = "missing" \/ file[c] = "forbidden" \/ RunIt(c) \/ ReadIt(c)
  BY DEF ReadIt
<1> HIDE DEF n
<1>9. Answer(c) \in Seq(Tokens)
  <2>1. CASE file[c] = "missing"
    BY <2>1, <1>3, <1>4
  <2>2. CASE file[c] = "forbidden"
    BY <2>2, <1>3, <1>5
  <2>3. CASE RunIt(c)
    BY <2>3, <1>6
  <2>4. CASE ReadIt(c)
    BY <2>4, <1>7
  <2> QED
    BY <1>8, <2>1, <2>2, <2>3, <2>4
<1> QED
  BY <1>4, <1>5, <1>6, <1>7, <1>9 DEF n

-----------------------------------------------------------------------------
(* The order of the processes.  TypeOK in two parts, and what one process  *)
(* that moves has to keep.                                                 *)
ProcOK == proc \in [Procs -> Process] /\ \A p \in Procs : Sound(proc[p])

RestOK ==
  /\ program \in {1, 2} /\ listening \in BOOLEAN
  /\ backlog \in Seq(Clients) /\ IsInjective(backlog)
  /\ accepted \subseteq Clients /\ ToSet(backlog) \cap accepted = {}
  /\ shut \subseteq accepted /\ changed \subseteq Clients
  /\ left \in [Clients -> BOOLEAN] /\ file \in [Clients -> Kinds]
  /\ sent \in [Clients -> 0..RequestLen] /\ got \in [Clients -> Nat]
  /\ \A c \in Clients : got[c] <= sent[c]
  /\ stream \in [Clients -> Seq(Tokens)]

Held == \A p \in Procs : {proc[p].client, proc[p].stdout} \subseteq accepted \cup {NoClient}
Unheard == \A c \in Clients \ accepted : stream[c] = <<>>

LEMMA TypeParts == TypeOK <=> ProcOK /\ RestOK
<1>1. ASSUME TypeOK PROVE ProcOK /\ RestOK
  BY <1>1, SoundAll DEF TypeOK, ProcOK, RestOK, Process
<1>2. ASSUME ProcOK, RestOK PROVE TypeOK
  BY <1>2, AllSound DEF TypeOK, ProcOK, RestOK, Process
<1> QED
  BY <1>1, <1>2

LEMMA TypeNext == ProcOK' /\ RestOK' => TypeOK'
BY DEF TypeOK, ProcOK, RestOK, Process, Sound, Sockets, client_socket

LEMMA Together == ProcOK' /\ RestOK' /\ Chain' /\ Held' /\ Unheard' => Order'
BY TypeNext DEF Order, Fresh, Held, Unheard

Above(p) == \E q \in Procs : p < q /\ Alive(q)

LEMMA NobodyAbove ==
  ASSUME Chain, NEW p \in Procs, Alive(p)
  PROVE  /\ Busy(proc[p]) => ~Above(p)
         /\ listening /\ proc[p].pc # "wait" => ~Above(p)
         /\ listening /\ (p + 1 \in Procs => ~Alive(p + 1)) => ~Above(p)
<1>1. Busy(proc[p]) => ~Above(p)
  BY DEF Chain, Above
<1>2. listening /\ proc[p].pc # "wait" => ~Above(p)
  BY DEF Chain, Above
<1>3. ASSUME listening, p + 1 \in Procs => ~Alive(p + 1), NEW q \in Procs, p < q, Alive(q) PROVE FALSE
  <2>1. p + 1 \in Procs /\ p + 1 < q
    <3>1. p \in Nat /\ q \in Nat /\ p + 1 <= q /\ p + 1 \in Procs
      BY <1>3, BoundsAssumption DEF Procs
    <3>2. p + 1 # q
      BY <3>1, <1>3
    <3> QED
      BY <3>1, <3>2
  <2>2. proc[p + 1].pc = "wait"
    BY <2>1, <1>3 DEF Chain
  <2> QED
    BY <2>1, <2>2, <1>3 DEF Alive
<1> QED
  BY <1>1, <1>2, <1>3 DEF Above

(* Only p moves; the others are as they were.                              *)
Only(p) == proc' \in [Procs -> Process] /\ \A q \in Procs \ {p} : proc'[q] = proc[q]

LEMMA OneMoves ==
  ASSUME Order, NEW p \in Procs, Alive(p), Only(p), Sound(proc[p])',
         ({proc[p].client, proc[p].stdout} \subseteq accepted \cup {NoClient})',
         Busy(proc[p])' => ~Above(p),
         listening' /\ proc'[p].pc # "wait" => ~Above(p),
         listening' => listening, accepted \subseteq accepted'
  PROVE  ProcOK' /\ Chain' /\ Held'
<1>1. ProcOK'
  BY SoundAll DEF Order, ProcOK, Only, Sound
<1>2. Held'
  BY DEF Order, Fresh, Held, Only
<1>3. ASSUME NEW q \in Procs, NEW s \in Procs, q < s, Alive(s)'
      PROVE  ~Busy(proc[q])' /\ (listening' => proc'[q].pc = "wait")
  <2>1. CASE q = p
    <3>1. s # p /\ Alive(s)
      BY <1>3, <2>1, BoundsAssumption DEF Only, Alive, Procs
    <3> QED
      BY <1>3, <2>1, <3>1 DEF Above
  <2>2. CASE q # p
    <3>1. Alive(s) /\ proc'[q] = proc[q]
      BY <1>3, <2>2 DEF Only, Alive
    <3> QED
      BY <3>1, <1>3 DEF Order, Chain, Busy
  <2> QED
    BY <2>1, <2>2
<1> QED
  BY <1>1, <1>2, <1>3 DEF Chain

-----------------------------------------------------------------------------
(* What the actions do to the process that takes them.                     *)
LEMMA GotoFacts ==
  ASSUME ProcOK, NEW p \in Procs, NEW pc \in Points, Goto(p, pc)
  PROVE  /\ Only(p) /\ proc'[p].pc = pc
         /\ proc'[p].client = proc[p].client /\ proc'[p].stdout = proc[p].stdout
         /\ proc'[p].opened = proc[p].opened /\ proc'[p].pos = proc[p].pos
BY DEF ProcOK, Goto, Only, Process

LEMMA SayFacts ==
  ASSUME ProcOK, NEW p \in Procs, NEW out \in Seq(Tokens), NEW then \in Points, Say(p, out, then)
  PROVE  /\ Only(p) /\ proc'[p].pc = "write" /\ proc'[p].out = out /\ proc'[p].then = then
         /\ proc'[p].client = proc[p].client /\ proc'[p].stdout = proc[p].stdout
         /\ proc'[p].opened = proc[p].opened /\ proc'[p].pos = proc[p].pos
<1> DEFINE r == [proc[p] EXCEPT !.pc = "write", !.out = out, !.then = then]
<1>1. proc[p] \in Process /\ proc \in [Procs -> Process] /\ "write" \in Points
  BY DEF ProcOK, Points
<1>2. /\ r \in Process /\ r.pc = "write" /\ r.out = out /\ r.then = then
      /\ r.client = proc[p].client /\ r.stdout = proc[p].stdout
      /\ r.opened = proc[p].opened /\ r.pos = proc[p].pos
  BY <1>1 DEF Process
<1>3. proc' = [proc EXCEPT ![p] = r]
  BY <1>1 DEF Say, Process
<1> HIDE DEF r
<1>4. Only(p) /\ proc'[p] = r
  BY <1>1, <1>2, <1>3 DEF Only
<1> QED
  BY <1>2, <1>4

LEMMA DieFacts ==
  ASSUME ProcOK, NEW p \in Procs, proc' = [proc EXCEPT ![p] = Idle("gone")]
  PROVE  /\ Only(p) /\ Sound(proc[p])' /\ ~Busy(proc[p])' /\ proc'[p].pc = "gone"
         /\ proc'[p].client = NoClient /\ proc'[p].stdout = NoClient
<1> DEFINE r == Idle("gone")
<1>1. Sound(r) /\ ~Busy(r) /\ r.pc = "gone" /\ r.client = NoClient /\ r.stdout = NoClient
  BY SoundIdle
<1> HIDE DEF r
<1>2. proc' = [proc EXCEPT ![p] = r]
  BY DEF r
<1>3. r \in Process
  BY <1>1 DEF Sound
<1>4. Only(p) /\ proc'[p] = r
  BY <1>2, <1>3 DEF Only, ProcOK
<1> QED
  BY <1>1, <1>4 DEF Sound, Busy

LEMMA DeliverFacts ==
  ASSUME RestOK, NEW p \in Procs, Target(p) \in accepted, NEW token \in Tokens,
         Unheard, Deliver(p, token)
  PROVE  /\ stream' \in [Clients -> Seq(Tokens)]
         /\ \A c \in Clients \ {Target(p)} : stream'[c] = stream[c]
         /\ stream'[Target(p)] = IF left[Target(p)] THEN stream[Target(p)]
                                 ELSE Append(stream[Target(p)], token)
         /\ \A c \in Clients \ accepted : stream'[c] = <<>>
<1> DEFINE t == Target(p)
<1>1. /\ t \in Clients /\ stream \in [Clients -> Seq(Tokens)] /\ t \in accepted
      /\ stream' = [stream EXCEPT ![t] = IF left[t] THEN stream[t] ELSE Append(stream[t], token)]
  BY DEF RestOK, Deliver
<1> HIDE DEF t
<1>2. Append(stream[t], token) \in Seq(Tokens)
  BY <1>1
<1> QED
  BY <1>1, <1>2 DEF Unheard, t

(* A process that moves on its own, all the rest but a stream as it was.   *)
LEMMA OrderMoves ==
  ASSUME Order, NEW p \in Procs, Only(p), Sound(proc[p])',
         {proc'[p].client, proc'[p].stdout} \subseteq {proc[p].client, proc[p].stdout, NoClient},
         \/ Busy(proc[p])
         \/ ~Busy(proc[p])' /\ proc[p].pc = "close"
         \/ ~Busy(proc[p])' /\ proc[p].pc = "wait" /\ (p + 1 \in Procs => ~Alive(p + 1)),
         UNCHANGED <<program, socketVars, clientVars, got, fileVars>>,
         stream' \in [Clients -> Seq(Tokens)],
         \A c \in Clients \ accepted : stream'[c] = <<>>
  PROVE  Order'
<1>1. Alive(p)
  BY DEF Busy, Alive
<1>2. (Busy(proc[p])' => ~Above(p)) /\ (listening /\ proc'[p].pc # "wait" => ~Above(p))
  BY <1>1, NobodyAbove DEF Order
<1>3. ProcOK' /\ Chain' /\ Held'
  BY <1>1, <1>2, OneMoves DEF Order, Fresh, socketVars
<1>4. RestOK' /\ Unheard'
  BY TypeParts DEF Order, RestOK, socketVars, clientVars, fileVars, Unheard
<1> QED
  BY <1>3, <1>4, Together

-----------------------------------------------------------------------------
(* What a busy process has still to send, before and after one action.     *)
LEMMA SameAnswer ==
  ASSUME NEW p \in Procs, NEW c \in Clients, program' = program, file'[c] = file[c]
  PROVE  /\ Answer(c)' = Answer(c)
         /\ Todo(proc[p], c)' = Todo(proc'[p], c)
         /\ got'[c] = got[c] => Knows(proc[p], c)' = Knows(proc'[p], c)
<1>1. Answer(c)' = Answer(c)
  BY DEF Answer
<1>2. Todo(proc[p], c)' = Todo(proc'[p], c)
  BY DEF Todo, Following, BodyAndEnd, BodyFrom, Output200, Answer
<1>3. got'[c] = got[c] => Knows(proc[p], c)' = Knows(proc'[p], c)
  BY DEF Knows, ReadIt, RunIt
<1> QED
  BY <1>1, <1>2, <1>3

Moves(p) ==
  /\ Busy(proc[p]) /\ Only(p) /\ Sound(proc'[p])
  /\ {proc'[p].client, proc'[p].stdout} \subseteq {proc[p].client, proc[p].stdout, NoClient}
  /\ Busy(proc'[p]) => Served(proc'[p]) = Served(proc[p])

Remaining(r, c) == IF Busy(r) THEN Todo(r, c) ELSE <<>>

(* It goes on without a word.                                              *)
Keeps(p) ==
  \A c \in Clients : c = Served(proc[p]) /\ Knows(proc[p], c) =>
    /\ Busy(proc'[p]) => Knows(proc'[p], c)
    /\ Remaining(proc'[p], c) = Todo(proc[p], c)

(* It sends the first of what it had to send.                              *)
Sends(p, token) ==
  \A c \in Clients : c = Served(proc[p]) /\ Knows(proc[p], c) =>
    /\ Busy(proc'[p]) => Knows(proc'[p], c)
    /\ Remaining(proc'[p], c) \in Seq(Tokens)
    /\ Todo(proc[p], c) = <<token>> \o Remaining(proc'[p], c)
    /\ got[c] = RequestLen

LEMMA AccessExistsKeeps ==
  ASSUME TypeOK, NEW p \in Procs, AccessExists(p)
  PROVE  Moves(p) /\ Keeps(p)
<1> DEFINE out == <<Status(404), Length(0)>>
<1>1. out \in Seq(Tokens) /\ out # <<>>
  BY Refusals
<1>2. ProcOK /\ Sound(proc[p]) /\ proc[p].pc = "exists"
  BY TypeParts DEF ProcOK, AccessExists
<1>3. CASE Missing(p)
  <2>1. Say(p, out, "close")
    BY <1>3 DEF AccessExists, ans404
  <2> HIDE DEF out
  <2>2. /\ Only(p) /\ proc'[p].pc = "write" /\ proc'[p].out = out /\ proc'[p].then = "close"
        /\ proc'[p].client = proc[p].client /\ proc'[p].stdout = proc[p].stdout
        /\ proc'[p].opened = proc[p].opened /\ proc'[p].pos = proc[p].pos
    BY <1>1, <1>2, <2>1, SayFacts DEF Points
  <2>3. Moves(p)
    BY <1>1, <1>2, <2>2 DEF Moves, Only, Sound, Busy, Served
  <2>4. ASSUME NEW c \in Clients, c = Served(proc[p]), Knows(proc[p], c)
        PROVE  /\ Knows(proc'[p], c)
               /\ Remaining(proc'[p], c) = Todo(proc[p], c)
    <3>1. file[c] = "missing"
      BY <1>2, <1>3, <2>4 DEF Missing, Served, client_socket
    <3>2. Answer(c) = out
      BY <3>1 DEF Answer, out
    <3>3. Todo(proc[p], c) = Answer(c)
      BY <1>2 DEF Todo
    <3>4. Remaining(proc'[p], c) = out
      BY <1>1, <2>2, ConcatNothing DEF Remaining, Todo, Following, Busy
    <3> QED
      BY <1>2, <2>2, <2>4, <3>2, <3>3, <3>4 DEF Knows
  <2> QED
    BY <2>3, <2>4 DEF Keeps
<1>4. CASE ~Missing(p)
  <2>1. Goto(p, "readable")
    BY <1>4 DEF AccessExists
  <2>2. /\ Only(p) /\ proc'[p].pc = "readable"
        /\ proc'[p].client = proc[p].client /\ proc'[p].stdout = proc[p].stdout
        /\ proc'[p].opened = proc[p].opened /\ proc'[p].pos = proc[p].pos
    BY <1>2, <2>1, GotoFacts DEF Points
  <2>3. Moves(p)
    BY <1>2, <2>2 DEF Moves, Only, Sound, Busy, Served
  <2>4. ASSUME NEW c \in Clients, c = Served(proc[p]), Knows(proc[p], c)
        PROVE  /\ Knows(proc'[p], c)
               /\ Remaining(proc'[p], c) = Todo(proc[p], c)
    <3>1. file[c] # "missing"
      BY <1>2, <1>4, <2>4 DEF Missing, Served, client_socket
    <3>2. Todo(proc[p], c) = Answer(c)
      BY <1>2 DEF Todo
    <3>3. Remaining(proc'[p], c) = Answer(c)
      BY <2>2 DEF Remaining, Todo, Busy
    <3> QED
      BY <1>2, <2>2, <2>4, <3>1, <3>2, <3>3 DEF Knows
  <2> QED
    BY <2>3, <2>4 DEF Keeps
<1> QED
  BY <1>3, <1>4

LEMMA AccessReadableKeeps ==
  ASSUME TypeOK, NEW p \in Procs, AccessReadable(p)
  PROVE  Moves(p) /\ Keeps(p)
<1> DEFINE out == <<Status(403), Length(0)>>
<1>1. out \in Seq(Tokens) /\ out # <<>>
  BY Refusals
<1>2. ProcOK /\ Sound(proc[p]) /\ proc[p].pc = "readable"
  BY TypeParts DEF ProcOK, AccessReadable
<1>3. CASE Unreadable(p)
  <2>1. Say(p, out, "close")
    BY <1>3 DEF AccessReadable, ans403
  <2> HIDE DEF out
  <2>2. /\ Only(p) /\ proc'[p].pc = "write" /\ proc'[p].out = out /\ proc'[p].then = "close"
        /\ proc'[p].client = proc[p].client /\ proc'[p].stdout = proc[p].stdout
        /\ proc'[p].opened = proc[p].opened /\ proc'[p].pos = proc[p].pos
    BY <1>1, <1>2, <2>1, SayFacts DEF Points
  <2>3. Moves(p)
    BY <1>1, <1>2, <2>2 DEF Moves, Only, Sound, Busy, Served
  <2>4. ASSUME NEW c \in Clients, c = Served(proc[p]), Knows(proc[p], c)
        PROVE  /\ Knows(proc'[p], c)
               /\ Remaining(proc'[p], c) = Todo(proc[p], c)
    <3>1. file[c] = "forbidden"
      BY <1>2, <1>3, <2>4 DEF Unreadable, Served, client_socket, Knows
    <3>2. Answer(c) = out
      BY <3>1 DEF Answer, out
    <3>3. Todo(proc[p], c) = Answer(c)
      BY <1>2 DEF Todo
    <3>4. Remaining(proc'[p], c) = out
      BY <1>1, <2>2, ConcatNothing DEF Remaining, Todo, Following, Busy
    <3> QED
      BY <1>2, <2>2, <2>4, <3>2, <3>3, <3>4 DEF Knows
  <2> QED
    BY <2>3, <2>4 DEF Keeps
<1>4. CASE ~Unreadable(p)
  <2>1. Goto(p, "executable")
    BY <1>4 DEF AccessReadable
  <2>2. /\ Only(p) /\ proc'[p].pc = "executable"
        /\ proc'[p].client = proc[p].client /\ proc'[p].stdout = proc[p].stdout
        /\ proc'[p].opened = proc[p].opened /\ proc'[p].pos = proc[p].pos
    BY <1>2, <2>1, GotoFacts DEF Points
  <2>3. Moves(p)
    BY <1>2, <2>2 DEF Moves, Only, Sound, Busy, Served
  <2>4. ASSUME NEW c \in Clients, c = Served(proc[p]), Knows(proc[p], c)
        PROVE  /\ Knows(proc'[p], c)
               /\ Remaining(proc'[p], c) = Todo(proc[p], c)
    <3>1. file[c] \notin {"missing", "forbidden"}
      BY <1>2, <1>4, <2>4 DEF Unreadable, Served, client_socket
    <3>2. Todo(proc[p], c) = Answer(c)
      BY <1>2 DEF Todo
    <3>3. Remaining(proc'[p], c) = Answer(c)
      BY <2>2 DEF Remaining, Todo, Busy
    <3> QED
      BY <1>2, <2>2, <2>4, <3>1, <3>2, <3>3 DEF Knows
  <2> QED
    BY <2>3, <2>4 DEF Keeps
<1> QED
  BY <1>3, <1>4

LEMMA AccessExecutableKeeps ==
  ASSUME TypeOK, NEW p \in Procs, AccessExecutable(p)
  PROVE  Moves(p) /\ Keeps(p)
<1>1. ProcOK /\ Sound(proc[p]) /\ proc[p].pc = "executable" /\ Goto(p, "stat") /\ ~Runnable(p)
  BY TypeParts DEF ProcOK, AccessExecutable
<1>2. /\ Only(p) /\ proc'[p].pc = "stat"
      /\ proc'[p].client = proc[p].client /\ proc'[p].stdout = proc[p].stdout
      /\ proc'[p].opened = proc[p].opened /\ proc'[p].pos = proc[p].pos
  BY <1>1, GotoFacts DEF Points
<1>3. Moves(p)
  BY <1>1, <1>2 DEF Moves, Only, Sound, Busy, Served
<1>4. ASSUME NEW c \in Clients, c = Served(proc[p]), Knows(proc[p], c)
      PROVE  /\ Knows(proc'[p], c)
             /\ Remaining(proc'[p], c) = Todo(proc[p], c)
  <2>1. ReadIt(c)
    BY <1>1, <1>4 DEF Runnable, RunIt, ReadIt, Served, client_socket, Knows
  <2>2. Todo(proc[p], c) = Answer(c)
    BY <1>1 DEF Todo
  <2>3. Remaining(proc'[p], c) = Answer(c)
    BY <1>2 DEF Remaining, Todo, Busy
  <2> QED
    BY <1>1, <1>2, <1>4, <2>1, <2>2, <2>3 DEF Knows
<1> QED
  BY <1>3, <1>4 DEF Keeps

LEMMA StatKeeps ==
  ASSUME TypeOK, NEW p \in Procs, Stat(p)
  PROVE  Moves(p) /\ Keeps(p)
<1> DEFINE n == Pieces(file[client_socket(p)])
           out == <<Status(200), Length(n)>>
<1>1. ProcOK /\ Sound(proc[p]) /\ proc[p].pc = "stat" /\ Say(p, out, "open")
  BY TypeParts DEF ProcOK, Stat
<1>2. Served(proc[p]) = client_socket(p) /\ client_socket(p) \in Clients
  BY <1>1, SoundServes DEF Served, client_socket, Busy
<1>3. out \in Seq(Tokens) /\ out # <<>>
  <2>1. n \in 0..2
    BY <1>2, PiecesFacts DEF TypeOK
  <2>2. n \in Nat /\ 200 \in Nat
    BY <2>1
  <2> HIDE DEF n
  <2>3. Status(200) \in Tokens /\ Length(n) \in Tokens
    BY <2>2, TokenFacts, Zenon
  <2>4. \A x, y \in Tokens : <<x, y>> \in Seq(Tokens) /\ <<x, y>> # <<>>
    OBVIOUS
  <2> QED
    BY <2>3, <2>4, Zenon
<1> HIDE DEF out
<1>4. /\ Only(p) /\ proc'[p].pc = "write" /\ proc'[p].out = out /\ proc'[p].then = "open"
      /\ proc'[p].client = proc[p].client /\ proc'[p].stdout = proc[p].stdout
      /\ proc'[p].opened = proc[p].opened /\ proc'[p].pos = proc[p].pos
  BY <1>1, <1>3, SayFacts DEF Points
<1>5. Moves(p)
  BY <1>1, <1>3, <1>4 DEF Moves, Only, Sound, Busy, Served
<1>6. ASSUME NEW c \in Clients, c = Served(proc[p]), Knows(proc[p], c)
      PROVE  /\ Knows(proc'[p], c)
             /\ Remaining(proc'[p], c) = Todo(proc[p], c)
  <2>1. ReadIt(c) /\ got[c] = RequestLen
    BY <1>1, <1>6 DEF Knows
  <2>2. out = <<Status(200), Length(Pieces(file[c]))>>
    BY <1>2, <1>6 DEF out
  <2>3. Answer(c) = out \o BodyAndEnd(c, 0)
    BY <2>1, <2>2, AnswerFacts
  <2>4. Todo(proc[p], c) = Answer(c)
    BY <1>1 DEF Todo
  <2>5. Remaining(proc'[p], c) = out \o BodyAndEnd(c, 0)
    BY <1>4 DEF Remaining, Todo, Following, Busy
  <2> QED
    BY <1>4, <2>1, <2>3, <2>4, <2>5 DEF Knows
<1> QED
  BY <1>5, <1>6 DEF Keeps

LEMMA OpenKeeps ==
  ASSUME TypeOK, NEW p \in Procs, Open(p)
  PROVE  Moves(p) /\ Keeps(p)
<1> DEFINE o == IF Unreadable(p) THEN "missing" ELSE file[client_socket(p)]
<1>1. ProcOK /\ Sound(proc[p]) /\ proc[p].pc = "open"
  BY TypeParts DEF ProcOK, Open
<1>2. Served(proc[p]) = client_socket(p) /\ client_socket(p) \in Clients
  BY <1>1, SoundServes DEF Served, client_socket, Busy
<1>3. o \in Kinds /\ (~Unreadable(p) => o = file[client_socket(p)])
  BY <1>2 DEF TypeOK, Kinds
<1>4. proc' = [proc EXCEPT ![p].pc = "body", ![p].opened = o]
  BY DEF Open
<1> HIDE DEF o
<1>5. /\ Only(p) /\ proc'[p].pc = "body" /\ proc'[p].opened = o
      /\ proc'[p].client = proc[p].client /\ proc'[p].stdout = proc[p].stdout
      /\ proc'[p].pos = proc[p].pos
  <2> DEFINE r == [proc[p] EXCEPT !.pc = "body", !.opened = o]
  <2>1. proc[p] \in Process /\ proc \in [Procs -> Process] /\ "body" \in Points
    BY <1>1 DEF ProcOK, Points
  <2>2. /\ r \in Process /\ r.pc = "body" /\ r.opened = o
        /\ r.client = proc[p].client /\ r.stdout = proc[p].stdout /\ r.pos = proc[p].pos
    BY <1>3, <2>1 DEF Process
  <2>3. proc' = [proc EXCEPT ![p] = r]
    BY <1>4, <2>1 DEF Process
  <2> HIDE DEF r
  <2>4. Only(p) /\ proc'[p] = r
    BY <2>1, <2>2, <2>3 DEF Only
  <2> QED
    BY <2>2, <2>4
<1>6. Moves(p)
  BY <1>1, <1>5 DEF Moves, Only, Sound, Busy, Served
<1>7. ASSUME NEW c \in Clients, c = Served(proc[p]), Knows(proc[p], c)
      PROVE  /\ Knows(proc'[p], c)
             /\ Remaining(proc'[p], c) = Todo(proc[p], c)
  <2>1. ReadIt(c) /\ got[c] = RequestLen
    BY <1>1, <1>7 DEF Knows
  <2>2. o = file[c]
    BY <2>1, <1>2, <1>3, <1>7 DEF ReadIt, Unreadable
  <2>3. proc[p].pos = 0
    BY <1>1 DEF Sound
  <2>4. Pieces(file[c]) \in 0..2
    BY PiecesFacts DEF TypeOK
  <2>5. Todo(proc[p], c) = BodyAndEnd(c, 0)
    BY <1>1 DEF Todo
  <2>6. Remaining(proc'[p], c) = BodyAndEnd(c, 0)
    BY <1>5, <2>3 DEF Remaining, Todo, Busy
  <2> QED
    BY <1>5, <2>1, <2>2, <2>3, <2>4, <2>5, <2>6 DEF Knows
<1> QED
  BY <1>6, <1>7 DEF Keeps

LEMMA BodyNeverEndsKeeps ==
  ASSUME TypeOK, NEW p \in Procs, BodyNeverEnds(p)
  PROVE  Moves(p) /\ Keeps(p)
<1>1. ProcOK /\ Sound(proc[p]) /\ proc[p].pc = "body" /\ Goto(p, "spin")
  BY TypeParts DEF ProcOK, BodyNeverEnds
<1>2. /\ Only(p) /\ proc'[p].pc = "spin"
      /\ proc'[p].client = proc[p].client /\ proc'[p].stdout = proc[p].stdout
      /\ proc'[p].opened = proc[p].opened /\ proc'[p].pos = proc[p].pos
  BY <1>1, GotoFacts DEF Points
<1>3. Moves(p)
  BY <1>1, <1>2 DEF Moves, Only, Sound, Busy, Served
<1>4. ASSUME NEW c \in Clients, c = Served(proc[p]), Knows(proc[p], c)
      PROVE  /\ Knows(proc'[p], c)
             /\ Remaining(proc'[p], c) = Todo(proc[p], c)
  <2>1. Todo(proc[p], c) = BodyAndEnd(c, proc[p].pos)
    BY <1>1 DEF Todo
  <2>2. Remaining(proc'[p], c) = BodyAndEnd(c, proc[p].pos)
    BY <1>2 DEF Remaining, Todo, Busy
  <2> QED
    BY <1>1, <1>2, <1>4, <2>1, <2>2 DEF Knows
<1> QED
  BY <1>3, <1>4 DEF Keeps

LEMMA ExecKeeps ==
  ASSUME TypeOK, NEW p \in Procs, Exec(p)
  PROVE  Moves(p) /\ Keeps(p)
<1> DEFINE c0 == client_socket(p)
           pc == IF file[c0] = "executable" THEN "cgi" ELSE "accept"
           r == [pc |-> pc, client |-> NoClient, out |-> <<>>, then |-> "none",
                 opened |-> "missing", pos |-> 0, stdout |-> c0]
<1>1. ProcOK /\ Sound(proc[p]) /\ proc[p].pc = "child"
  BY TypeParts DEF ProcOK, Exec
<1>2. Served(proc[p]) = c0 /\ c0 \in Clients /\ c0 # NoClient
  BY <1>1, SoundServes, BoundsAssumption DEF Served, client_socket, Busy
<1>3. proc' = [proc EXCEPT ![p] = r]
  <2>1. proc' = [proc EXCEPT ![p] = [Idle(pc) EXCEPT !.stdout = c0]]
    BY DEF Exec
  <2> HIDE DEF c0, pc
  <2>2. [Idle(pc) EXCEPT !.stdout = c0] = r
    BY DEF Idle
  <2> QED
    BY <2>1, <2>2
<1> HIDE DEF c0, pc
<1>4. pc \in {"cgi", "accept"} /\ (pc = "cgi" <=> file[c0] = "executable")
  BY DEF pc
<1>5. <<>> \in Seq(Tokens)
  OBVIOUS
<1>6. r \in Process
  BY <1>2, <1>4, <1>5 DEF Process, Points, Maybe, Kinds
<1>7. Only(p) /\ proc'[p] = r
  BY <1>1, <1>3, <1>6 DEF Only, ProcOK
<1>8. Sound(r) /\ (Busy(r) <=> pc = "cgi") /\ (Busy(r) => Served(r) = c0)
  BY <1>2, <1>4, <1>6 DEF Sound, Busy, Served
<1>9. Moves(p)
  <2>1. r.client = NoClient /\ r.stdout = proc[p].client
    BY DEF c0, client_socket
  <2> QED
    BY <1>1, <1>2, <1>7, <1>8, <2>1 DEF Moves, Busy
<1>10. ASSUME NEW c \in Clients, c = Served(proc[p]), Knows(proc[p], c)
       PROVE  /\ Busy(r) => Knows(r, c)
              /\ Remaining(r, c) = Todo(proc[p], c)
  <2>1. RunIt(c) /\ got[c] = RequestLen /\ c = c0
    BY <1>1, <1>2, <1>10 DEF Knows
  <2>2. Todo(proc[p], c) = Output200(c)
    BY <1>1 DEF Todo
  <2>3. CASE pc = "cgi"
    <3>1. Remaining(r, c) = <<<<"cgi", 0>>>>
      BY <2>3, <1>8 DEF Remaining, Todo
    <3> QED
      BY <3>1, <2>1, <2>2, <2>3, <1>4 DEF Output200, Knows, RunIt
  <2>4. CASE pc # "cgi"
    BY <2>1, <2>2, <2>4, <1>4, <1>8 DEF Output200, Remaining
  <2> QED
    BY <2>3, <2>4
<1> QED
  BY <1>7, <1>9, <1>10 DEF Keeps

(* A body that has been read as far as the file goes.                      *)
LEMMA BodyPosition ==
  ASSUME TypeOK, NEW p \in Procs, proc[p].pc = "body",
         NEW c \in Clients, c = Served(proc[p]), Knows(proc[p], c)
  PROVE  /\ Pieces(file[c]) \in 0..2 /\ proc[p].pos \in 0..Pieces(file[c])
         /\ Size(p) = Pieces(file[c]) /\ got[c] = RequestLen
<1>1. Sound(proc[p])
  BY SoundAll
<1>2. ReadIt(c) /\ proc[p].opened = file[c] /\ proc[p].pos <= Pieces(file[c]) /\ got[c] = RequestLen
  BY DEF Knows
<1>3. Pieces(file[c]) \in 0..2
  BY PiecesFacts DEF TypeOK
<1>4. client_socket(p) = c
  BY DEF Served, client_socket
<1> QED
  BY <1>1, <1>2, <1>3, <1>4 DEF Sound, Process, Size

LEMMA BodyEndKeeps ==
  ASSUME TypeOK, NEW p \in Procs, BodyEnd(p)
  PROVE  Moves(p) /\ Keeps(p)
<1> DEFINE out == <<EndMark>>
<1>1. ProcOK /\ Sound(proc[p]) /\ proc[p].pc = "body" /\ Say(p, out, "close") /\ ReadsNothing(p)
  BY TypeParts DEF ProcOK, BodyEnd
<1>2. out \in Seq(Tokens) /\ out # <<>>
  BY TokenFacts
<1> HIDE DEF out
<1>3. /\ Only(p) /\ proc'[p].pc = "write" /\ proc'[p].out = out /\ proc'[p].then = "close"
      /\ proc'[p].client = proc[p].client /\ proc'[p].stdout = proc[p].stdout
      /\ proc'[p].opened = proc[p].opened /\ proc'[p].pos = proc[p].pos
  BY <1>1, <1>2, SayFacts DEF Points
<1>4. Moves(p)
  BY <1>1, <1>2, <1>3 DEF Moves, Only, Sound, Busy, Served
<1>5. ASSUME NEW c \in Clients, c = Served(proc[p]), Knows(proc[p], c)
      PROVE  /\ Knows(proc'[p], c)
             /\ Remaining(proc'[p], c) = Todo(proc[p], c)
  <2> DEFINE n == Pieces(file[c])
  <2>1. n \in Nat /\ n \in 0..n /\ proc[p].pos = n /\ got[c] = RequestLen
    <3>1. /\ n \in 0..2 /\ proc[p].pos \in 0..n /\ Size(p) = n /\ got[c] = RequestLen
      BY <1>1, <1>5, BodyPosition
    <3> QED
      BY <3>1, <1>1 DEF ReadsNothing
  <2>2. Todo(proc[p], c) = BodyFrom(n, n) \o out
    BY <1>1, <2>1 DEF Todo, BodyAndEnd, out
  <2>3. BodyFrom(n, n) = <<>>
    BY <2>1, BodyFacts
  <2>4. <<>> \o out = out /\ out \o <<>> = out
    BY <1>2, ConcatNothing
  <2>5. Remaining(proc'[p], c) = out \o <<>>
    BY <1>3 DEF Remaining, Todo, Following, Busy
  <2> QED
    BY <1>3, <2>1, <2>2, <2>3, <2>4, <2>5 DEF Knows
<1> QED
  BY <1>4, <1>5 DEF Keeps

LEMMA BodySends ==
  ASSUME TypeOK, NEW p \in Procs, proc[p].pc = "body", ~ReadsNothing(p),
         proc' = [proc EXCEPT ![p].pos = @ + 1]
  PROVE  Moves(p) /\ Sends(p, <<"body", proc[p].pos + 1>>) /\ Target(p) = Served(proc[p])
         /\ <<"body", proc[p].pos + 1>> \in Tokens
<1> DEFINE k == proc[p].pos
           r == [proc[p] EXCEPT !.pos = k + 1]
<1>1. ProcOK /\ Sound(proc[p])
  BY TypeParts DEF ProcOK
<1>2. k \in 0..2 /\ k + 1 \in 0..2
  <2>1. client_socket(p) \in Clients
    BY <1>1, SoundServes DEF Served, client_socket, Busy
  <2>2. Size(p) \in 0..2
    BY <1>1, <2>1, PiecesFacts DEF Size, TypeOK, Sound, Process
  <2> QED
    BY <1>1, <2>2 DEF ReadsNothing, Sound, Process
<1>3. proc[p] \in Process /\ proc \in [Procs -> Process]
  BY <1>1 DEF ProcOK
<1>4. /\ r \in Process /\ r.pc = proc[p].pc /\ r.opened = proc[p].opened /\ r.pos = k + 1
      /\ r.client = proc[p].client /\ r.stdout = proc[p].stdout
  BY <1>2, <1>3 DEF Process
<1>5. proc' = [proc EXCEPT ![p] = r]
  BY <1>3 DEF Process
<1> HIDE DEF r
<1>6. Only(p) /\ proc'[p] = r
  BY <1>3, <1>4, <1>5 DEF Only
<1>7. Moves(p)
  BY <1>1, <1>4, <1>6 DEF Moves, Sound, Busy, Served
<1>8. ASSUME NEW c \in Clients, c = Served(proc[p]), Knows(proc[p], c)
      PROVE  /\ Knows(r, c)
             /\ Remaining(r, c) \in Seq(Tokens)
             /\ Todo(proc[p], c) = <<<<"body", k + 1>>>> \o Remaining(r, c)
             /\ got[c] = RequestLen
  <2> DEFINE n == Pieces(file[c])
             b == BodyFrom(n, k + 1)
             m == <<<<"body", k + 1>>>>
             e == <<EndMark>>
  <2>1. n \in Nat /\ k \in 0..n /\ k < n /\ k + 1 \in 0..n /\ got[c] = RequestLen
    <3>1. /\ n \in 0..2 /\ k \in 0..n /\ Size(p) = n /\ got[c] = RequestLen
      BY <1>8, BodyPosition
    <3> QED
      BY <3>1 DEF ReadsNothing
  <2>2. Todo(proc[p], c) = BodyFrom(n, k) \o e
    BY DEF Todo, BodyAndEnd
  <2>3. BodyFrom(n, k) = m \o b /\ b \in Seq(Tokens)
    BY <2>1, BodyFacts
  <2>4. m \in Seq(Tokens) /\ e \in Seq(Tokens)
    <3>1. k + 1 \in Nat
      BY <2>1
    <3>2. <<"body", k + 1>> \in Tokens /\ EndMark \in Tokens
      BY <3>1, TokenFacts, Zenon
    <3>3. \A x \in Tokens : <<x>> \in Seq(Tokens)
      OBVIOUS
    <3> QED
      BY <3>2, <3>3, Zenon
  <2>5. Remaining(r, c) = b \o e
    BY <1>4 DEF Remaining, Todo, BodyAndEnd, Busy
  <2> HIDE DEF n, b, m, e
  <2>6. (m \o b) \o e = m \o (b \o e) /\ b \o e \in Seq(Tokens)
    <3>1. b \in Seq(Tokens)
      BY <2>3
    <3>2. (m \o b) \o e = m \o (b \o e)
      BY <3>1, <2>4, ConcatAssoc
    <3>3. b \o e \in Seq(Tokens)
      BY <3>1, <2>4, ConcatSeq
    <3> QED
      BY <3>2, <3>3
  <2>7. Knows(r, c)
    BY <1>4, <1>8, <2>1 DEF Knows, n
  <2> QED
    BY <2>1, <2>2, <2>3, <2>5, <2>6, <2>7 DEF m
<1>9. Target(p) = Served(proc[p])
  BY DEF Target, Served, client_socket
<1>10. <<"body", k + 1>> \in Tokens
  BY <1>2, TokenFacts
<1> QED
  BY <1>6, <1>7, <1>8, <1>9, <1>10 DEF Sends

LEMMA FollowingFacts ==
  ASSUME TypeOK, NEW c \in Clients, NEW then \in {"close", "open", "child"}
  PROVE  /\ Following(c, then) \in Seq(Tokens)
         /\ then = "close" => Following(c, then) = <<>>
         /\ then = "open" => Following(c, then) = BodyAndEnd(c, 0)
         /\ then = "child" => Following(c, then) = Output200(c)
<1>1. <<>> \in Seq(Tokens)
  OBVIOUS
<1>2. CASE then = "close"
  BY <1>1, <1>2 DEF Following
<1>3. CASE then = "open"
  <2> DEFINE n == Pieces(file[c])
             b == BodyFrom(n, 0)
             e == <<EndMark>>
  <2>1. n \in Nat /\ 0 \in 0..n
    <3>1. n \in 0..2
      BY PiecesFacts DEF TypeOK
    <3> QED
      BY <3>1
  <2>2. b \in Seq(Tokens)
    BY <2>1, BodyFacts
  <2>3. e \in Seq(Tokens)
    BY TokenFacts
  <2>4. BodyAndEnd(c, 0) = b \o e
    BY DEF BodyAndEnd
  <2> HIDE DEF b, e
  <2>5. b \o e \in Seq(Tokens)
    BY <2>2, <2>3, ConcatSeq
  <2> QED
    BY <1>3, <2>4, <2>5 DEF Following
<1>4. CASE then = "child"
  <2>1. <<"cgi", 0>> \in Tokens
    BY TokenFacts
  <2>2. Output200(c) \in Seq(Tokens)
    BY <2>1, <1>1 DEF Output200
  <2> QED
    BY <1>4, <2>2 DEF Following
<1> QED
  BY <1>2, <1>3, <1>4

LEMMA WriteSends ==
  ASSUME TypeOK, NEW p \in Procs, proc[p].pc = "write",
         proc' = [proc EXCEPT
             ![p].out = Tail(@),
             ![p].pc = IF Len(proc[p].out) = 1 THEN proc[p].then ELSE "write"]
  PROVE  Moves(p) /\ Sends(p, Head(proc[p].out)) /\ Target(p) = Served(proc[p])
         /\ Head(proc[p].out) \in Tokens
<1> DEFINE out == proc[p].out
           h == Head(out)
           t == Tail(out)
           then == proc[p].then
           pc == IF Len(out) = 1 THEN then ELSE "write"
           r == [proc[p] EXCEPT !.out = t, !.pc = pc]
<1>1. ProcOK /\ Sound(proc[p])
  BY TypeParts DEF ProcOK
<1>2. /\ proc[p] \in Process /\ proc \in [Procs -> Process] /\ out \in Seq(Tokens) \ {<<>>}
      /\ then \in {"close", "open", "child"}
  BY <1>1 DEF ProcOK, Sound, Process
<1>3. /\ h \in Tokens /\ t \in Seq(Tokens) /\ out = <<h>> \o t
      /\ Len(out) = 1 => t = <<>>
      /\ Len(out) # 1 => t # <<>>
  BY <1>2, HeadAndTail
<1>4. proc' = [proc EXCEPT ![p] = r]
  BY <1>2 DEF Process
<1>5. /\ pc \in {then, "write"} /\ pc \in Points /\ (pc = "write" <=> Len(out) # 1)
  BY <1>2 DEF Points
<1> HIDE DEF out, h, t, then, pc
<1>6. /\ r \in Process /\ r.pc = pc /\ r.out = t /\ r.then = then /\ r.opened = proc[p].opened
      /\ r.client = proc[p].client /\ r.stdout = proc[p].stdout /\ r.pos = proc[p].pos
  BY <1>2, <1>3, <1>5 DEF Process, then
<1> HIDE DEF r
<1>7. Only(p) /\ proc'[p] = r
  BY <1>2, <1>4, <1>6 DEF Only
<1>8. Sound(r)
  BY <1>1, <1>2, <1>3, <1>5, <1>6 DEF Sound, then
<1>9. Moves(p)
  BY <1>2, <1>5, <1>6, <1>7, <1>8 DEF Moves, Busy, Served
<1>10. ASSUME NEW c \in Clients, c = Served(proc[p]), Knows(proc[p], c)
       PROVE  /\ Busy(r) => Knows(r, c)
              /\ Remaining(r, c) \in Seq(Tokens)
              /\ Todo(proc[p], c) = <<h>> \o Remaining(r, c)
              /\ got[c] = RequestLen
  <2> DEFINE f == Following(c, then)
  <2>1. /\ f \in Seq(Tokens)
        /\ then = "close" => f = <<>>
        /\ then = "open" => f = BodyAndEnd(c, 0)
        /\ then = "child" => f = Output200(c)
    BY <1>2, FollowingFacts
  <2>2. Todo(proc[p], c) = out \o f
    BY DEF Todo, out, then
  <2>3. Todo(r, c) = IF pc = "write" THEN t \o f ELSE Todo(r, c)
    BY <1>6 DEF Todo
  <2> HIDE DEF f
  <2>4. <<h>> \in Seq(Tokens)
    BY <1>3
  <2>5. out \o f = <<h>> \o (t \o f) /\ t \o f \in Seq(Tokens)
    BY <1>3, <2>1, <2>4, ConcatAssoc, ConcatSeq
  <2>6. Remaining(r, c) = t \o f
    <3>1. CASE pc = "write"
      BY <3>1, <1>6, <2>3 DEF Remaining, Busy
    <3>2. CASE pc # "write"
      <4>1. t = <<>> /\ pc = then
        BY <3>2, <1>3, <1>5
      <4>2. t \o f = f
        BY <4>1, <2>1, ConcatNothing
      <4>3. Remaining(r, c) = f
        BY <4>1, <1>2, <1>6, <2>1 DEF Remaining, Todo, Busy
      <4> QED
        BY <4>2, <4>3
    <3> QED
      BY <3>1, <3>2
  <2>7. Busy(r) => Knows(r, c)
    BY <1>2, <1>5, <1>6, <1>10 DEF Knows, Busy, then
  <2>8. got[c] = RequestLen
    BY <1>2, <1>10 DEF Knows, then
  <2> QED
    BY <2>2, <2>5, <2>6, <2>7, <2>8
<1>11. Target(p) = Served(proc[p])
  BY DEF Target, Served, client_socket
<1> QED
  BY <1>3, <1>7, <1>9, <1>10, <1>11 DEF Sends, h, out

LEMMA CgiSends ==
  ASSUME TypeOK, NEW p \in Procs, proc[p].pc = "cgi", proc[p].pos = 0,
         proc' = [proc EXCEPT ![p].pos = 1]
  PROVE  Moves(p) /\ Sends(p, <<"cgi", 0>>) /\ Target(p) = Served(proc[p])
         /\ <<"cgi", 0>> \in Tokens
<1> DEFINE r == [proc[p] EXCEPT !.pos = 1]
           token == <<"cgi", 0>>
<1>1. ProcOK /\ Sound(proc[p])
  BY TypeParts DEF ProcOK
<1>2. proc[p] \in Process /\ proc \in [Procs -> Process]
  BY <1>1 DEF ProcOK
<1>3. /\ r \in Process /\ r.pc = "cgi" /\ r.pos = 1
      /\ r.client = proc[p].client /\ r.stdout = proc[p].stdout
  BY <1>2 DEF Process
<1>4. proc' = [proc EXCEPT ![p] = r]
  BY <1>2 DEF Process
<1>5. token \in Tokens
  BY TokenFacts
<1> HIDE DEF r, token
<1>6. Only(p) /\ proc'[p] = r
  BY <1>2, <1>3, <1>4 DEF Only
<1>7. Moves(p)
  BY <1>1, <1>3, <1>6 DEF Moves, Sound, Busy, Served
<1>8. ASSUME NEW c \in Clients, c = Served(proc[p]), Knows(proc[p], c)
      PROVE  /\ Knows(r, c)
             /\ Remaining(r, c) = <<>>
             /\ Todo(proc[p], c) = <<token>>
             /\ got[c] = RequestLen
  <2>1. Knows(r, c) /\ got[c] = RequestLen
    BY <1>3, <1>8 DEF Knows
  <2>2. Remaining(r, c) = <<>>
    BY <1>3 DEF Remaining, Todo, Busy
  <2>3. Todo(proc[p], c) = <<token>>
    BY DEF Todo, token
  <2> QED
    BY <2>1, <2>2, <2>3
<1>9. <<>> \in Seq(Tokens) /\ <<token>> \in Seq(Tokens)
  BY <1>5
<1>10. <<token>> \o <<>> = <<token>>
  BY <1>9, ConcatNothing
<1>11. Target(p) = Served(proc[p])
  BY DEF Target, Served
<1> QED
  BY <1>5, <1>6, <1>7, <1>8, <1>9, <1>10, <1>11 DEF Sends, token

(* A process that ends has either nothing left to send, or is killed.      *)
LEMMA DieMoves ==
  ASSUME TypeOK, NEW p \in Procs, Busy(proc[p]), Die(p)
  PROVE  Moves(p) /\ ~Busy(proc'[p])
<1>1. ProcOK
  BY TypeParts
<1>2. /\ Only(p) /\ Sound(proc[p])' /\ ~Busy(proc[p])' /\ proc'[p].pc = "gone"
      /\ proc'[p].client = NoClient /\ proc'[p].stdout = NoClient
  BY <1>1, DieFacts DEF Die
<1> QED
  BY <1>2 DEF Moves, Sound, Busy

LEMMA CgiEndKeeps ==
  ASSUME TypeOK, NEW p \in Procs, proc[p].pc = "cgi", proc[p].pos = 1, Die(p)
  PROVE  Moves(p) /\ Keeps(p)
<1>1. Moves(p) /\ ~Busy(proc'[p])
  BY DieMoves DEF Busy
<1>2. ASSUME NEW c \in Clients PROVE Remaining(proc'[p], c) = Todo(proc[p], c)
  BY <1>1 DEF Remaining, Todo
<1> QED
  BY <1>1, <1>2 DEF Keeps

-----------------------------------------------------------------------------
(* What is right stays right for a client nobody serves, or whose server   *)
(* does not move, ...                                                      *)
LEMMA Unmoved ==
  ASSUME NEW c \in Clients, Right(c),
         \A q \in Procs : Owns(proc'[q], c) => proc'[q] = proc[q],
         \A q \in Procs : Owns(proc[q], c) /\ c \notin shut' => proc'[q] = proc[q],
         program' = program, file'[c] = file[c], got'[c] = got[c], stream'[c] = stream[c],
         left[c] => left'[c], c \in shut => c \in shut',
         c \in accepted' \ shut' => c \in accepted
  PROVE  Right(c)'
<1>1. Answer(c)' = Answer(c)
  BY DEF Answer
<1>2. IsPrefix(stream[c], Answer(c))' /\ (stream'[c] # <<>> => got'[c] = RequestLen)
  BY <1>1 DEF Right, IsPrefix
<1>3. ASSUME c \in accepted' \ shut', ~left'[c]
      PROVE  stream'[c] = Answer(c)' \/ \E q \in Procs : Owns(proc[q], c)'
  BY <1>1, <1>3 DEF Right, Owns, Busy, Served
<1>4. ASSUME c \notin shut', NEW q \in Procs, Owns(proc[q], c)'
      PROVE  OnTheWay(proc[q], c)'
  <2>1. proc'[q] = proc[q]
    BY <1>4 DEF Owns, Busy, Served
  <2>2. OnTheWay(proc[q], c)
    BY <1>4, <2>1 DEF Right, Owns, Busy, Served
  <2>3. /\ Todo(proc[q], c)' = Todo(proc'[q], c)
        /\ Knows(proc[q], c)' = Knows(proc'[q], c)
    BY SameAnswer
  <2> QED
    BY <1>1, <2>1, <2>2, <2>3 DEF OnTheWay
<1> QED
  BY <1>2, <1>3, <1>4 DEF Right

(* ... and for one with a single server, if that keeps its promise.        *)
LEMMA OwnerRight ==
  ASSUME NEW c \in Clients, NEW s \in Procs,
         \A q \in Procs : Owns(proc'[q], c) => q = s,
         program' = program, file'[c] = file[c],
         IsPrefix(stream'[c], Answer(c)), stream'[c] # <<>> => got'[c] = RequestLen,
         c \notin shut' =>
           IF Busy(proc'[s])
           THEN /\ Served(proc'[s]) = c /\ Knows(proc[s], c)'
                /\ ~left'[c] => stream'[c] \o Todo(proc'[s], c) = Answer(c)
           ELSE ~left'[c] => stream'[c] = Answer(c)
  PROVE  Right(c)'
<1>1. Answer(c)' = Answer(c) /\ Todo(proc[s], c)' = Todo(proc'[s], c)
  BY SameAnswer
<1>2. IsPrefix(stream[c], Answer(c))' /\ (stream'[c] # <<>> => got'[c] = RequestLen)
  BY <1>1 DEF IsPrefix
<1>3. ASSUME c \in accepted' \ shut', ~left'[c]
      PROVE  stream'[c] = Answer(c)' \/ \E q \in Procs : Owns(proc[q], c)'
  BY <1>1, <1>3 DEF Owns, Busy, Served
<1>4. ASSUME c \notin shut', NEW q \in Procs, Owns(proc[q], c)'
      PROVE  OnTheWay(proc[q], c)'
  <2>1. q = s /\ Busy(proc'[s])
    BY <1>4 DEF Owns, Busy, Served
  <2> QED
    BY <1>1, <1>4, <2>1 DEF OnTheWay
<1> QED
  BY <1>2, <1>3, <1>4 DEF Right

(* A busy process moves: the other clients.                                *)
LEMMA OthersRight ==
  ASSUME Inv, NEW p \in Procs, Moves(p),
         NEW c \in Clients \ changed, c # Served(proc[p]),
         UNCHANGED <<program, socketVars, clientVars, fileVars>>,
         got'[c] = got[c], stream'[c] = stream[c]
  PROVE  Right(c)'
<1>1. \A q \in Procs : Busy(proc[q]) => q = p
  BY OneBusy DEF Inv, Order, Moves
<1>2. \A q \in Procs : ~Owns(proc[q], c)
  BY <1>1 DEF Owns
<1>3. \A q \in Procs : ~Owns(proc'[q], c)
  BY <1>1 DEF Owns, Moves, Only
<1>4. Right(c)
  BY DEF Inv
<1> QED
  BY <1>2, <1>3, <1>4, Unmoved DEF socketVars, clientVars, fileVars

(* The client it serves.                                                   *)
LEMMA ServedFacts ==
  ASSUME Inv, NEW p \in Procs, Moves(p)
  PROVE  /\ Served(proc[p]) \in Clients /\ Served(proc[p]) \in accepted
         /\ \A q \in Procs : Busy(proc'[q]) => q = p
         /\ \A c \in Clients \ changed : c = Served(proc[p]) /\ c \notin shut =>
              OnTheWay(proc[p], c)
<1>1. Sound(proc[p]) /\ Busy(proc[p])
  BY SoundAll DEF Inv, Order, Moves
<1>2. Served(proc[p]) \in Clients
  BY <1>1, SoundServes
<1>3. Served(proc[p]) \in accepted
  BY <1>2, BoundsAssumption DEF Inv, Order, Fresh, Served
<1>4. \A q \in Procs : Busy(proc'[q]) => q = p
  BY <1>1, OneBusy DEF Inv, Order, Moves, Only
<1>5. \A c \in Clients \ changed : c = Served(proc[p]) /\ c \notin shut => OnTheWay(proc[p], c)
  BY <1>1 DEF Inv, Right, Owns
<1> QED
  BY <1>2, <1>3, <1>4, <1>5

(* The rest of the system while a process runs.                            *)
Around == UNCHANGED <<program, socketVars, clientVars, got, fileVars>>

LEMMA OrderBusy ==
  ASSUME Order, NEW p \in Procs, Moves(p), Around,
         stream' \in [Clients -> Seq(Tokens)],
         \A c \in Clients \ accepted : stream'[c] = <<>>
  PROVE  Order'
<1>1. Busy(proc[p]) /\ Only(p) /\ Sound(proc[p])'
  BY DEF Moves, Sound
<1>2. {proc'[p].client, proc'[p].stdout} \subseteq {proc[p].client, proc[p].stdout, NoClient}
  BY DEF Moves
<1> QED
  BY <1>1, <1>2, OrderMoves DEF Around

LEMMA KeepsInv ==
  ASSUME Inv, NEW p \in Procs, Moves(p), Keeps(p), Around, UNCHANGED stream
  PROVE  Inv'
<1>1. Order'
  BY OrderBusy DEF Inv, Order, TypeOK, Fresh
<1>2. ASSUME NEW c \in Clients \ changed, c = Served(proc[p]) PROVE Right(c)'
  <2>1. /\ \A q \in Procs : Owns(proc'[q], c) => q = p
        /\ IsPrefix(stream[c], Answer(c)) /\ (stream[c] # <<>> => got[c] = RequestLen)
    BY <1>2, ServedFacts DEF Owns, Inv, Right
  <2>2. ASSUME c \notin shut
        PROVE  /\ Busy(proc'[p]) => Knows(proc[p], c)'
               /\ ~left[c] => stream[c] \o Remaining(proc'[p], c) = Answer(c)
    <3>1. OnTheWay(proc[p], c)
      BY <1>2, <2>2, ServedFacts
    <3>2. /\ Busy(proc'[p]) => Knows(proc'[p], c)
          /\ Remaining(proc'[p], c) = Todo(proc[p], c)
      BY <1>2, <3>1 DEF Keeps, OnTheWay
    <3>3. Knows(proc[p], c)' = Knows(proc'[p], c)
      BY SameAnswer DEF Around, fileVars
    <3> QED
      BY <3>1, <3>2, <3>3 DEF OnTheWay
  <2>3. stream[c] \o <<>> = stream[c]
    BY ConcatNothing DEF Inv, Order, TypeOK
  <2>4. Busy(proc'[p]) => Served(proc'[p]) = c
    BY <1>2 DEF Moves
  <2> QED
    BY <2>1, <2>2, <2>3, <2>4, OwnerRight
       DEF Around, socketVars, clientVars, fileVars, Remaining
<1>3. ASSUME NEW c \in Clients \ changed, c # Served(proc[p]) PROVE Right(c)'
  BY <1>3, OthersRight DEF Around
<1> QED
  BY <1>1, <1>2, <1>3 DEF Inv, Around, fileVars

LEMMA KilledInv ==
  ASSUME Inv, NEW p \in Procs, Busy(proc[p]), Around, Killed(p), Target(p) = Served(proc[p])
  PROVE  Inv'
<1>1. Moves(p) /\ ~Busy(proc'[p]) /\ stream' = stream
  BY DieMoves DEF Killed, Inv, Order
<1>2. Order'
  BY <1>1, OrderBusy DEF Inv, Order, TypeOK, Fresh
<1>3. ASSUME NEW c \in Clients \ changed, c = Served(proc[p]) PROVE Right(c)'
  <2>1. /\ \A q \in Procs : Owns(proc'[q], c) => q = p
        /\ IsPrefix(stream[c], Answer(c)) /\ (stream[c] # <<>> => got[c] = RequestLen)
    BY <1>1, <1>3, ServedFacts DEF Owns, Inv, Right
  <2>2. c \in shut \/ left[c]
    BY <1>3 DEF Killed
  <2> QED
    BY <1>1, <2>1, <2>2, OwnerRight DEF Around, socketVars, clientVars, fileVars
<1>4. ASSUME NEW c \in Clients \ changed, c # Served(proc[p]) PROVE Right(c)'
  BY <1>1, <1>4, OthersRight DEF Around
<1> QED
  BY <1>2, <1>3, <1>4 DEF Inv, Around, fileVars

LEMMA SendsInv ==
  ASSUME Inv, NEW p \in Procs, NEW token \in Tokens, Moves(p), Sends(p, token), Around,
         Target(p) = Served(proc[p]), Deliver(p, token)
  PROVE  Inv'
<1> DEFINE t == Served(proc[p])
<1>1. t \in Clients /\ t \in accepted
  BY ServedFacts
<1>2. RestOK /\ Unheard
  BY TypeParts DEF Inv, Order, Fresh, Unheard
<1>3. /\ stream' \in [Clients -> Seq(Tokens)]
      /\ \A c \in Clients \ {t} : stream'[c] = stream[c]
      /\ stream'[t] = IF left[t] THEN stream[t] ELSE Append(stream[t], token)
      /\ \A c \in Clients \ accepted : stream'[c] = <<>>
  BY <1>1, <1>2, DeliverFacts
<1>4. Order'
  BY <1>3, OrderBusy DEF Inv
<1>5. ASSUME NEW c \in Clients \ changed, c = t PROVE Right(c)'
  <2> DEFINE g == stream[c]
             w == Remaining(proc'[p], c)
  <2>1. /\ \A q \in Procs : Owns(proc'[q], c) => q = p
        /\ IsPrefix(g, Answer(c)) /\ (g # <<>> => got[c] = RequestLen)
    BY <1>5, ServedFacts DEF Owns, Inv, Right
  <2>2. c \notin shut
    BY <1>5 DEF Deliver
  <2>3. OnTheWay(proc[p], c)
    BY <1>5, <2>2, ServedFacts
  <2>4. /\ Busy(proc'[p]) => Knows(proc'[p], c)
        /\ w \in Seq(Tokens) /\ Todo(proc[p], c) = <<token>> \o w
        /\ got[c] = RequestLen
    BY <1>5, <2>3 DEF Sends, OnTheWay
  <2>5. Knows(proc[p], c)' = Knows(proc'[p], c)
    BY SameAnswer DEF Around, fileVars
  <2>6. Busy(proc'[p]) => Served(proc'[p]) = c
    BY <1>5 DEF Moves
  <2>7. g \in Seq(Tokens)
    BY DEF Inv, Order, TypeOK
  <2>8. ASSUME ~left[c]
        PROVE  stream'[c] \o w = Answer(c) /\ IsPrefix(stream'[c], Answer(c))
               /\ stream'[c] \o <<>> = stream'[c]
    <3> DEFINE h == Append(g, token)
    <3>1. stream'[c] = h /\ h \in Seq(Tokens)
      BY <1>3, <1>5, <2>7, <2>8
    <3>2. g \o Todo(proc[p], c) = Answer(c)
      BY <2>3, <2>8 DEF OnTheWay
    <3> HIDE DEF g, w
    <3>3. h \o w = g \o (<<token>> \o w)
      BY <2>4, <2>7, ConcatMove
    <3> HIDE DEF h
    <3>4. h \o w = Answer(c)
      BY <2>4, <3>2, <3>3
    <3>5. IsPrefix(h, h \o w) /\ h \o <<>> = h
      BY <2>4, <3>1, ConcatPrefix, ConcatNothing
    <3> QED
      BY <3>1, <3>4, <3>5
  <2>9. left[c] => stream'[c] = g
    BY <1>3, <1>5
  <2> QED
    BY <2>1, <2>2, <2>4, <2>5, <2>6, <2>8, <2>9, OwnerRight
       DEF Around, socketVars, clientVars, fileVars, Remaining
<1>6. ASSUME NEW c \in Clients \ changed, c # t PROVE Right(c)'
  BY <1>3, <1>6, OthersRight DEF Around
<1> QED
  BY <1>4, <1>5, <1>6 DEF Inv, Around, fileVars

-----------------------------------------------------------------------------
(* fork: the parent waits, the child goes on with what is to be sent.      *)
LEMMA ForkFacts ==
  ASSUME TypeOK, NEW p \in Procs, Fork(p)
  PROVE  /\ p \in Int /\ p + 1 \in Procs /\ ProcOK'
         /\ proc[p].pc = "executable" /\ Runnable(p)
         /\ \A q \in Procs \ {p, p + 1} : proc'[q] = proc[q]
         /\ proc'[p].pc = "wait"
         /\ {proc'[p].client, proc'[p].stdout} \subseteq {proc[p].client, proc[p].stdout}
         /\ proc'[p + 1].pc = "write" /\ proc'[p + 1].then = "child"
         /\ proc'[p + 1].out = <<Status(200)>>
         /\ proc'[p + 1].client = proc[p].client /\ proc'[p + 1].stdout = proc[p].stdout
<1> DEFINE out == <<Status(200)>>
           a == [proc[p] EXCEPT !.pc = "wait"]
           i == Idle("write")
           b == [i EXCEPT !.client = proc[p].client, !.stdout = proc[p].stdout,
                          !.out = out, !.then = "child"]
<1>1. ProcOK /\ Sound(proc[p]) /\ proc[p].pc = "executable" /\ p + 1 \in Procs /\ Runnable(p)
  BY TypeParts DEF ProcOK, Fork
<1>2. p \in Int
  BY DEF Procs
<1>3. out \in Seq(Tokens) /\ out # <<>>
  BY Refusals
<1>4. proc[p] \in Process /\ proc \in [Procs -> Process]
  BY <1>1 DEF ProcOK
<1>5. /\ a \in Process /\ a.pc = "wait" /\ a.client = proc[p].client
      /\ a.stdout = proc[p].stdout /\ a.pos = proc[p].pos
  BY <1>4 DEF Process, Points
<1>6. i \in Process /\ i.pc = "write" /\ i.pos = 0
  <2>1. <<>> \in Seq(Tokens)
    OBVIOUS
  <2> QED
    BY <2>1 DEF Idle, Process, Points, Kinds, Maybe
<1>7. proc' = [proc EXCEPT ![p].pc = "wait", ![p + 1] = b]
  BY DEF Fork, client_socket
<1> HIDE DEF i, out
<1>8. /\ b \in Process /\ b.pc = "write" /\ b.then = "child" /\ b.out = out /\ b.pos = 0
      /\ b.client = proc[p].client /\ b.stdout = proc[p].stdout
  BY <1>3, <1>4, <1>6 DEF Process, Points
<1> HIDE DEF b
<1>9. Sound(a) /\ Sound(b)
  BY <1>1, <1>3, <1>5, <1>8 DEF Sound
<1>10. proc' = [proc EXCEPT ![p] = a, ![p + 1] = b]
  BY <1>4, <1>7 DEF Process
<1> HIDE DEF a
<1>11. /\ proc' \in [Procs -> Process] /\ proc'[p] = a /\ proc'[p + 1] = b
       /\ \A q \in Procs \ {p, p + 1} : proc'[q] = proc[q]
  BY <1>1, <1>2, <1>4, <1>5, <1>8, <1>10
<1>12. \A q \in Procs : Sound(proc'[q])
  BY <1>1, <1>9, <1>11 DEF ProcOK
<1>13. ProcOK'
  BY <1>11, <1>12 DEF ProcOK, Sound
<1> QED
  BY <1>1, <1>2, <1>5, <1>8, <1>11, <1>13 DEF out

(* The child has to send what its parent had.                              *)
LEMMA ForkKeeps ==
  ASSUME TypeOK, NEW p \in Procs, Fork(p), NEW c \in Clients, c = Served(proc[p]),
         Knows(proc[p], c)
  PROVE  Knows(proc'[p + 1], c) /\ Todo(proc'[p + 1], c) = Todo(proc[p], c)
<1>1. /\ proc[p].pc = "executable" /\ Runnable(p)
      /\ proc'[p + 1].pc = "write" /\ proc'[p + 1].then = "child"
      /\ proc'[p + 1].out = <<Status(200)>>
  BY ForkFacts
<1>2. RunIt(c) /\ got[c] = RequestLen
  BY <1>1 DEF Runnable, RunIt, Knows, Served, client_socket
<1>3. Answer(c) = <<Status(200)>> \o Output200(c)
  BY <1>2, AnswerFacts
<1>4. Todo(proc[p], c) = Answer(c)
  BY <1>1 DEF Todo
<1>5. Todo(proc'[p + 1], c) = <<Status(200)>> \o Output200(c)
  BY <1>1 DEF Todo, Following
<1>6. Knows(proc'[p + 1], c)
  BY <1>1, <1>2 DEF Knows
<1> QED
  BY <1>3, <1>4, <1>5, <1>6

LEMMA ForkInv ==
  ASSUME Inv, NEW p \in Procs, Fork(p), Around, UNCHANGED stream
  PROVE  Inv'
<1> USE DEF Inv, Order
<1>1. /\ p \in Int /\ p + 1 \in Procs /\ ProcOK'
      /\ proc[p].pc = "executable" /\ Runnable(p)
      /\ \A q \in Procs \ {p, p + 1} : proc'[q] = proc[q]
      /\ proc'[p].pc = "wait"
      /\ {proc'[p].client, proc'[p].stdout} \subseteq {proc[p].client, proc[p].stdout}
      /\ proc'[p + 1].pc = "write" /\ proc'[p + 1].then = "child"
      /\ proc'[p + 1].out = <<Status(200)>>
      /\ proc'[p + 1].client = proc[p].client /\ proc'[p + 1].stdout = proc[p].stdout
  BY ForkFacts
<1>2. ~Above(p) /\ Busy(proc[p]) /\ Alive(p)
  BY <1>1, NobodyAbove DEF Busy, Alive
<1>3. Chain'
  <2> SUFFICES ASSUME NEW q \in Procs, NEW r \in Procs, q < r, Alive(r)'
               PROVE  ~Busy(proc[q])' /\ (listening' => proc'[q].pc = "wait")
    BY DEF Chain
  <2>1. r <= p + 1
    <3>1. ASSUME r > p + 1 PROVE FALSE
      <4>1. proc'[r] = proc[r] /\ p < r
        BY <1>1, <3>1 DEF Procs
      <4> QED
        BY <4>1, <1>2 DEF Above, Alive
    <3> QED
      BY <3>1, <1>1 DEF Procs
  <2>2. CASE q = p
    BY <2>2, <1>1 DEF Busy
  <2>3. CASE q < p
    <3>1. proc'[q] = proc[q]
      BY <2>3, <1>1 DEF Procs
    <3>2. ~Busy(proc[q]) /\ (listening => proc[q].pc = "wait")
      BY <2>3, <1>2 DEF Chain
    <3> QED
      BY <3>1, <3>2 DEF Busy, Around, socketVars
  <2> QED
    BY <1>1, <2>1, <2>2, <2>3 DEF Procs
<1>4. Held'
  <2>1. ASSUME NEW q \in Procs
        PROVE  {proc'[q].client, proc'[q].stdout} \subseteq accepted \cup {NoClient}
    <3>1. CASE q = p
      BY <3>1, <1>1 DEF Fresh
    <3>2. CASE q = p + 1
      BY <3>2, <1>1 DEF Fresh
    <3>3. CASE q \notin {p, p + 1}
      BY <3>3, <1>1 DEF Fresh
    <3> QED
      BY <3>1, <3>2, <3>3
  <2> QED
    BY <2>1 DEF Held, Around, socketVars
<1>5. RestOK' /\ Unheard'
  BY TypeParts DEF RestOK, Around, socketVars, clientVars, fileVars, Unheard, Fresh
<1>6. Order'
  BY <1>1, <1>3, <1>4, <1>5, Together
<1>7. \A q \in Procs : Busy(proc[q]) => q = p
  BY <1>2, OneBusy
<1>8. \A q \in Procs : Busy(proc'[q]) => q = p + 1
  BY <1>1, <1>7 DEF Busy
<1>9. Served(proc'[p + 1]) = Served(proc[p]) /\ Served(proc[p]) = client_socket(p)
  BY <1>1 DEF Served, client_socket
<1>10. ASSUME NEW c \in Clients \ changed, c = Served(proc[p]) PROVE Right(c)'
  <2>1. IsPrefix(stream[c], Answer(c)) /\ (stream[c] # <<>> => got[c] = RequestLen)
    BY DEF Right
  <2>2. ASSUME c \notin shut
        PROVE  Knows(proc'[p + 1], c) /\ (~left[c] => stream[c] \o Todo(proc'[p + 1], c) = Answer(c))
    <3>1. OnTheWay(proc[p], c)
      BY <1>2, <1>10, <2>2 DEF Right, Owns
    <3>2. Knows(proc'[p + 1], c) /\ Todo(proc'[p + 1], c) = Todo(proc[p], c)
      BY <1>10, <3>1, ForkKeeps DEF OnTheWay
    <3> QED
      BY <3>1, <3>2 DEF OnTheWay
  <2>3. Knows(proc[p + 1], c)' = Knows(proc'[p + 1], c)
    BY <1>1, SameAnswer DEF Around, fileVars
  <2>4. \A q \in Procs : Owns(proc'[q], c) => q = p + 1
    BY <1>8 DEF Owns
  <2>5. Busy(proc'[p + 1])
    BY <1>1 DEF Busy
  <2> QED
    BY <1>1, <1>9, <1>10, <2>1, <2>2, <2>3, <2>4, <2>5, OwnerRight
       DEF Around, socketVars, clientVars, fileVars
<1>11. ASSUME NEW c \in Clients \ changed, c # Served(proc[p]) PROVE Right(c)'
  <2>1. \A q \in Procs : ~Owns(proc[q], c) /\ ~Owns(proc'[q], c)
    BY <1>7, <1>8, <1>9, <1>11 DEF Owns
  <2>2. Right(c)
    OBVIOUS
  <2> QED
    BY <2>1, <2>2, Unmoved DEF Around, socketVars, clientVars, fileVars
<1> QED
  BY <1>6, <1>10, <1>11 DEF Around, fileVars

-----------------------------------------------------------------------------
(* A process that serves nobody moves; the world outside moves.            *)
LEMMA IdleInv ==
  ASSUME Inv, NEW p \in Procs, Only(p), ~Busy(proc[p]), ~Busy(proc'[p]), Around,
         UNCHANGED stream, Order'
  PROVE  Inv'
<1>1. ASSUME NEW c \in Clients \ changed PROVE Right(c)'
  <2>1. \A q \in Procs : Owns(proc[q], c) \/ Owns(proc'[q], c) => proc'[q] = proc[q]
    BY DEF Owns, Only
  <2>2. Right(c)
    BY DEF Inv
  <2> QED
    BY <2>1, <2>2, Unmoved DEF Around, socketVars, clientVars, fileVars
<1> QED
  BY <1>1 DEF Inv, Around, fileVars

LEMMA WaitInv ==
  ASSUME Inv, NEW p \in Procs, Wait(p), Around, UNCHANGED stream
  PROVE  Inv'
<1>1. ProcOK /\ Sound(proc[p]) /\ proc[p].pc = "wait" /\ ~Alive(p + 1) /\ Goto(p, "close")
  BY TypeParts DEF Inv, Order, ProcOK, Wait, ChildEnded
<1>2. /\ Only(p) /\ proc'[p].pc = "close"
      /\ proc'[p].client = proc[p].client /\ proc'[p].stdout = proc[p].stdout
      /\ proc'[p].opened = proc[p].opened /\ proc'[p].pos = proc[p].pos
  BY <1>1, GotoFacts DEF Points
<1>3. Sound(proc[p])' /\ ~Busy(proc[p])' /\ ~Busy(proc[p])
  BY <1>1, <1>2 DEF Sound, Busy, Only
<1>4. Order'
  BY <1>1, <1>2, <1>3, OrderMoves DEF Inv, Order, TypeOK, Fresh, Around
<1> QED
  BY <1>2, <1>3, <1>4, IdleInv DEF Busy

LEMMA CloseInv ==
  ASSUME Inv, NEW p \in Procs, Close(p), Around, UNCHANGED stream
  PROVE  Inv'
<1> DEFINE i == Idle("accept")
           r == [i EXCEPT !.stdout = proc[p].stdout]
<1>1. ProcOK /\ proc[p].pc = "close" /\ proc' = [proc EXCEPT ![p] = r]
  BY TypeParts DEF Inv, Order, Close
<1>2. Sound(i) /\ i.pc = "accept" /\ i.client = NoClient
  BY SoundIdle
<1> HIDE DEF i
<1>3. proc[p].stdout \in Maybe
  BY <1>1 DEF ProcOK, Process
<1>4. r \in Process /\ r.pc = "accept" /\ r.client = NoClient /\ r.stdout = proc[p].stdout
      /\ r.pos = i.pos /\ r.out = i.out /\ r.then = i.then
  BY <1>2, <1>3 DEF Sound, Process
<1> HIDE DEF r
<1>5. Sound(r) /\ ~Busy(r)
  BY <1>2, <1>4 DEF Sound, Busy
<1>6. Only(p) /\ proc'[p] = r
  BY <1>1, <1>4 DEF Only, ProcOK
<1>7. Sound(proc[p])' /\ ~Busy(proc[p])' /\ ~Busy(proc[p])
  BY <1>1, <1>5, <1>6 DEF Sound, Busy
<1>8. Order'
  BY <1>1, <1>4, <1>6, <1>7, OrderMoves DEF Inv, Order, TypeOK, Fresh, Around
<1> QED
  BY <1>6, <1>7, <1>8, IdleInv DEF Busy

LEMMA ReadInv ==
  ASSUME Inv, NEW p \in Procs, Read(p)
  PROVE  Inv'
<1> DEFINE t == client_socket(p)
<1>1. /\ ProcOK /\ Sound(proc[p]) /\ proc[p].pc = "read"
      /\ UNCHANGED <<program, socketVars, clientVars, fileVars, stream, signals>>
  BY TypeParts DEF Inv, Order, ProcOK, Read
<1>2. PICK n \in got[t] + 1 .. sent[t] :
        /\ got' = [got EXCEPT ![t] = n]
        /\ Goto(p, IF Whole(n) THEN "exists" ELSE "read")
  BY DEF Read
<1>3. t = Served(proc[p]) /\ t \in Clients /\ Busy(proc[p])
  BY <1>1, SoundServes DEF Served, client_socket, Busy
<1>4. /\ n \in Nat /\ n <= sent[t] /\ sent[t] \in 0..RequestLen /\ got[t] < n /\ got[t] \in Nat
      /\ got' \in [Clients -> Nat] /\ got'[t] = n
      /\ \A c \in Clients \ {t} : got'[c] = got[c]
  BY <1>2, <1>3, BoundsAssumption DEF Inv, Order, TypeOK
<1> DEFINE pc == IF Whole(n) THEN "exists" ELSE "read"
<1>5. pc \in {"read", "exists"} /\ (pc = "exists" => n = RequestLen)
  BY DEF Whole
<1>6. Goto(p, pc)
  BY <1>2
<1> HIDE DEF pc, t
<1>7. /\ Only(p) /\ proc'[p].pc = pc
      /\ proc'[p].client = proc[p].client /\ proc'[p].stdout = proc[p].stdout
      /\ proc'[p].opened = proc[p].opened /\ proc'[p].pos = proc[p].pos
  BY <1>1, <1>5, <1>6, GotoFacts DEF Points
<1>8. Moves(p) /\ Busy(proc'[p]) /\ Sound(proc[p])'
  BY <1>1, <1>5, <1>7 DEF Moves, Only, Sound, Busy, Served
<1>9. Order'
  <2>1. Alive(p) /\ ~Above(p)
    BY <1>3, NobodyAbove DEF Inv, Order, Busy, Alive
  <2>2. ({proc[p].client, proc[p].stdout} \subseteq accepted \cup {NoClient})'
    BY <1>1, <1>7 DEF Inv, Order, Fresh, socketVars
  <2>3. ProcOK' /\ Chain' /\ Held'
    BY <1>1, <1>7, <1>8, <2>1, <2>2, OneMoves DEF Inv, Order, socketVars
  <2>4. RestOK' /\ Unheard'
    <3>1. \A c \in Clients : got'[c] <= sent[c]
      BY <1>4 DEF Inv, Order, TypeOK
    <3> QED
      BY <1>1, <1>4, <3>1, TypeParts
         DEF Inv, Order, Fresh, RestOK, socketVars, clientVars, fileVars, Unheard
  <2> QED
    BY <2>3, <2>4, Together
<1>10. ASSUME NEW c \in Clients \ changed, c = t PROVE Right(c)'
  <2>1. /\ \A q \in Procs : Owns(proc'[q], c) => q = p
        /\ IsPrefix(stream[c], Answer(c)) /\ stream[c] = <<>>
    <3>1. got[c] # RequestLen
      BY <1>4, <1>10, BoundsAssumption
    <3> QED
      BY <1>3, <1>8, <1>10, <3>1, ServedFacts DEF Owns, Inv, Right
  <2>2. Knows(proc[p], c)'
    BY <1>4, <1>5, <1>7, <1>10 DEF Knows
  <2>3. Served(proc'[p]) = c
    BY <1>3, <1>8, <1>10 DEF Moves
  <2>4. ASSUME c \notin shut, ~left[c] PROVE stream[c] \o Todo(proc'[p], c) = Answer(c)
    <3>1. OnTheWay(proc[p], c)
      BY <1>3, <1>8, <1>10, <2>4, ServedFacts
    <3>2. Todo(proc'[p], c) = Answer(c) /\ Todo(proc[p], c) = Answer(c)
      BY <1>1, <1>5, <1>7 DEF Todo
    <3> QED
      BY <2>4, <3>1, <3>2 DEF OnTheWay
  <2> QED
    BY <1>1, <1>8, <2>1, <2>2, <2>3, <2>4, OwnerRight DEF socketVars, clientVars, fileVars
<1>11. ASSUME NEW c \in Clients \ changed, c # t PROVE Right(c)'
  BY <1>1, <1>3, <1>4, <1>8, <1>11, OthersRight
<1> QED
  BY <1>1, <1>9, <1>10, <1>11 DEF Inv, fileVars

LEMMA AcceptInv ==
  ASSUME Inv, NEW p \in Procs, Accept(p)
  PROVE  Inv'
<1> DEFINE t == Head(backlog)
           r == [proc[p] EXCEPT !.pc = "read", !.client = t]
<1>1. /\ ProcOK /\ RestOK /\ Sound(proc[p]) /\ proc[p].pc = "accept" /\ listening /\ backlog # <<>>
      /\ UNCHANGED <<program, listening, shut, clientVars, got, fileVars, stream, signals>>
      /\ accepted' = accepted \cup {t} /\ backlog' = Tail(backlog)
      /\ proc' = [proc EXCEPT ![p].pc = "read", ![p].client = t]
  BY TypeParts DEF Inv, Order, ProcOK, Accept
<1>2. /\ t \in Clients /\ backlog' \in Seq(Clients) /\ IsInjective(backlog')
      /\ t \notin ToSet(backlog') /\ ToSet(backlog) = ToSet(backlog') \cup {t}
  BY <1>1, QueueTail DEF RestOK
<1>3. t \notin accepted /\ t # NoClient
  BY <1>1, <1>2, BoundsAssumption DEF RestOK
<1>4. proc[p] \in Process /\ proc \in [Procs -> Process]
  BY <1>1 DEF ProcOK
<1> HIDE DEF t
<1>5. /\ r \in Process /\ r.pc = "read" /\ r.client = t /\ r.pos = proc[p].pos
      /\ r.stdout = proc[p].stdout
  BY <1>2, <1>4 DEF Process, Points, Maybe
<1>6. proc' = [proc EXCEPT ![p] = r]
  BY <1>1, <1>4 DEF Process
<1> HIDE DEF r
<1>7. Only(p) /\ proc'[p] = r /\ Sound(r) /\ Sound(proc[p])'
  BY <1>1, <1>3, <1>4, <1>5, <1>6 DEF Only, Sound
<1>8. Alive(p) /\ ~Above(p) /\ ~Busy(proc[p])
  BY <1>1, NobodyAbove DEF Inv, Order, Alive, Busy
<1>9. Order'
  <2>1. ({proc[p].client, proc[p].stdout} \subseteq accepted \cup {NoClient})'
    BY <1>1, <1>5, <1>7 DEF Inv, Order, Fresh
  <2>2. ProcOK' /\ Chain' /\ Held'
    BY <1>1, <1>7, <1>8, <2>1, OneMoves DEF Inv, Order
  <2>3. RestOK' /\ Unheard'
    BY <1>1, <1>2, <1>3 DEF Inv, Order, Fresh, RestOK, clientVars, fileVars, Unheard
  <2> QED
    BY <2>2, <2>3, Together
<1>10. \A q \in Procs : ~Busy(proc[q])
  <2>1. ASSUME NEW q \in Procs, Busy(proc[q]) PROVE FALSE
    <3>1. Alive(q) /\ q # p
      BY <1>8, <2>1 DEF Busy, Alive
    <3>2. ~(p < q)
      BY <1>8, <3>1 DEF Above
    <3>3. ~(q < p)
      BY <1>8, <2>1 DEF Inv, Order, Chain
    <3> QED
      BY <3>1, <3>2, <3>3 DEF Procs
  <2> QED
    BY <2>1
<1>11. \A q \in Procs : Busy(proc'[q]) => q = p
  BY <1>7, <1>10 DEF Only
<1>12. Busy(proc'[p]) /\ Served(proc'[p]) = t
  BY <1>5, <1>7 DEF Busy, Served
<1>13. ASSUME NEW c \in Clients \ changed, c = t PROVE Right(c)'
  <2>1. /\ \A q \in Procs : Owns(proc'[q], c) => q = p
        /\ IsPrefix(stream[c], Answer(c)) /\ stream[c] = <<>>
    BY <1>3, <1>11, <1>13 DEF Owns, Inv, Right, Order, Fresh
  <2>2. Knows(proc[p], c)'
    BY <1>5, <1>7 DEF Knows
  <2>3. Todo(proc'[p], c) = Answer(c)
    BY <1>5, <1>7 DEF Todo
  <2>4. <<>> \o Answer(c) = Answer(c)
    BY AnswerFacts, ConcatNothing DEF Inv, Order
  <2> QED
    BY <1>1, <1>12, <1>13, <2>1, <2>2, <2>3, <2>4, OwnerRight DEF clientVars, fileVars
<1>14. ASSUME NEW c \in Clients \ changed, c # t PROVE Right(c)'
  <2>1. \A q \in Procs : ~Owns(proc[q], c) /\ ~Owns(proc'[q], c)
    BY <1>10, <1>11, <1>12, <1>14 DEF Owns
  <2>2. Right(c)
    BY DEF Inv
  <2> QED
    BY <1>1, <1>14, <2>1, <2>2, Unmoved DEF clientVars, fileVars
<1> QED
  BY <1>1, <1>9, <1>13, <1>14 DEF Inv, fileVars

LEMMA CloseAllInv ==
  ASSUME Inv, NEW p \in Procs, Alive(p), proc[p].pc # "cgi", CloseAll(p)
  PROVE  Inv'
<1>1. /\ ProcOK /\ RestOK
      /\ proc' = [proc EXCEPT ![p] = Idle("gone")]
      /\ listening' = FALSE /\ backlog' = <<>>
      /\ shut' = shut \cup Sockets(p) \cup ToSet(backlog)
      /\ accepted' = accepted \cup ToSet(backlog)
      /\ UNCHANGED <<program, clientVars, got, fileVars, stream>>
  BY TypeParts DEF Inv, Order, CloseAll, ListeningAfterShutdown
<1>2. /\ Only(p) /\ Sound(proc[p])' /\ ~Busy(proc[p])' /\ proc'[p].pc = "gone"
      /\ proc'[p].client = NoClient /\ proc'[p].stdout = NoClient
  BY <1>1, DieFacts
<1>3. Sockets(p) \subseteq accepted /\ ToSet(backlog) \subseteq Clients
  BY <1>1 DEF Inv, Order, Fresh, Sockets, client_socket, RestOK, ToSet
<1>4. Order'
  <2>1. ProcOK' /\ Chain' /\ Held'
    BY <1>1, <1>2, OneMoves DEF Inv, Order
  <2>2. backlog' \in Seq(Clients) /\ IsInjective(backlog') /\ ToSet(backlog') = {}
    BY <1>1 DEF IsInjective, ToSet
  <2>3. RestOK' /\ Unheard'
    BY <1>1, <1>3, <2>2 DEF Inv, Order, Fresh, RestOK, clientVars, fileVars, Unheard
  <2> QED
    BY <2>1, <2>3, Together
<1>5. ASSUME NEW c \in Clients \ changed PROVE Right(c)'
  <2>1. \A q \in Procs : Owns(proc'[q], c) => proc'[q] = proc[q]
    BY <1>2 DEF Owns, Only, Busy
  <2>2. ASSUME NEW q \in Procs, Owns(proc[q], c), c \notin shut' PROVE proc'[q] = proc[q]
    <3>1. CASE q = p
      <4>1. client_socket(p) = c
        BY <2>2, <3>1 DEF Owns, Served, client_socket
      <4> QED
        BY <1>1, <2>2, <4>1, BoundsAssumption DEF Sockets
    <3> QED
      BY <1>2, <3>1 DEF Only
  <2>3. Right(c)
    BY DEF Inv
  <2> QED
    BY <1>1, <2>1, <2>2, <2>3, Unmoved DEF clientVars, fileVars
<1> QED
  BY <1>1, <1>4, <1>5 DEF Inv, fileVars

(* The clients, the files and the signals.                                 *)
LEMMA OutsideInv ==
  ASSUME Inv, UNCHANGED <<program, proc, shut, accepted, got, stream>>, RestOK',
         listening' = listening,
         \A c \in Clients \ changed' : /\ c \notin changed /\ file'[c] = file[c]
                                       /\ left[c] => left'[c]
  PROVE  Inv'
<1>1. Order'
  <2>1. ProcOK /\ Chain /\ Held /\ Unheard
    BY TypeParts DEF Inv, Order, Fresh, Held, Unheard
  <2>2. ProcOK' /\ Chain' /\ Held' /\ Unheard'
    BY <2>1 DEF ProcOK, Sound, Chain, Busy, Alive, Held, Unheard
  <2> QED
    BY <2>2, Together
<1>2. ASSUME NEW c \in Clients \ changed' PROVE Right(c)'
  BY <1>2, Unmoved DEF Inv
<1> QED
  BY <1>1, <1>2 DEF Inv

LEMMA ClientInv ==
  ASSUME Inv, NEW c \in Clients, Client(c)
  PROVE  Inv'
<1>1. RestOK
  BY TypeParts DEF Inv, Order
<1>2. CASE Connect(c)
  <2>1. /\ c \notin accepted /\ c \notin ToSet(backlog) /\ backlog' = Append(backlog, c)
        /\ UNCHANGED <<program, proc, listening, accepted, shut, clientVars, got,
                       fileVars, stream, signals>>
    BY <1>2 DEF Connect, Connected
  <2>2. /\ backlog' \in Seq(Clients) /\ IsInjective(backlog')
        /\ ToSet(backlog') = ToSet(backlog) \cup {c}
    BY <1>1, <2>1, QueueAppend DEF RestOK
  <2>3. RestOK'
    BY <1>1, <2>1, <2>2 DEF RestOK, clientVars, fileVars
  <2> QED
    BY <2>1, <2>3, OutsideInv DEF clientVars, fileVars
<1>3. CASE Send(c)
  <2>1. /\ sent[c] < RequestLen /\ sent' = [sent EXCEPT ![c] = @ + 1]
        /\ UNCHANGED <<program, proc, socketVars, left, got, fileVars, stream, signals>>
    BY <1>3 DEF Send
  <2>2. sent' \in [Clients -> 0..RequestLen] /\ \A d \in Clients : got[d] <= sent'[d]
    BY <1>1, <2>1, BoundsAssumption DEF RestOK
  <2>3. RestOK'
    BY <1>1, <2>1, <2>2 DEF RestOK, socketVars, fileVars
  <2> QED
    BY <2>1, <2>3, OutsideInv DEF socketVars, fileVars
<1>4. CASE Leave(c)
  <2>1. /\ left' = [left EXCEPT ![c] = TRUE]
        /\ UNCHANGED <<program, proc, socketVars, sent, got, fileVars, stream, signals>>
    BY <1>4 DEF Leave
  <2>2. left' \in [Clients -> BOOLEAN] /\ \A d \in Clients : left[d] => left'[d]
    BY <1>1, <2>1 DEF RestOK
  <2>3. RestOK'
    BY <1>1, <2>1, <2>2 DEF RestOK, socketVars, fileVars
  <2> QED
    BY <2>1, <2>2, <2>3, OutsideInv DEF socketVars, fileVars
<1> QED
  BY <1>2, <1>3, <1>4 DEF Client

LEMMA ChangeInv ==
  ASSUME Inv, NEW c \in Clients, NEW kind \in Kinds, Change(c, kind)
  PROVE  Inv'
<1>1. /\ file' = [file EXCEPT ![c] = kind] /\ changed' = changed \cup {c}
      /\ UNCHANGED <<program, proc, socketVars, clientVars, got, stream, signals>>
  BY DEF Change
<1>2. RestOK
  BY TypeParts DEF Inv, Order
<1>3. RestOK' /\ \A d \in Clients \ changed' : d \notin changed /\ file'[d] = file[d]
  BY <1>1, <1>2 DEF RestOK, socketVars, clientVars
<1> QED
  BY <1>1, <1>3, OutsideInv DEF socketVars, clientVars

-----------------------------------------------------------------------------
(* Every step.                                                             *)
LEMMA InitInv == Init => Inv
<1> SUFFICES ASSUME Init PROVE Inv
  OBVIOUS
<1>1. ASSUME NEW p \in Procs
      PROVE  /\ Sound(proc[p]) /\ ~Busy(proc[p]) /\ proc[p] \in Process
             /\ proc[p].client = NoClient /\ proc[p].stdout = NoClient
             /\ Alive(p) => p = 1
  <2> DEFINE pc == IF p = 1 THEN "accept" ELSE "none"
  <2>1. proc[p] = Idle(pc) /\ pc \in {"none", "accept"} /\ (pc = "accept" => p = 1)
    BY DEF Init
  <2> HIDE DEF pc
  <2>2. Sound(Idle(pc)) /\ ~Busy(Idle(pc)) /\ Idle(pc).pc = pc
        /\ Idle(pc).client = NoClient /\ Idle(pc).stdout = NoClient
    BY <2>1, SoundIdle
  <2> QED
    BY <2>1, <2>2 DEF Sound, Alive
<1>2. ProcOK
  <2>1. proc = [p \in Procs |-> proc[p]]
    BY DEF Init
  <2> QED
    BY <1>1, <2>1 DEF ProcOK
<1>3. RestOK
  <2>1. <<>> \in Seq(Clients) /\ <<>> \in Seq(Tokens) /\ IsInjective(<<>>) /\ ToSet(<<>>) = {}
    BY DEF IsInjective, ToSet
  <2> QED
    BY <2>1, BoundsAssumption DEF Init, RestOK
<1>4. Chain
  BY <1>1 DEF Chain, Procs
<1>5. Fresh
  BY <1>1 DEF Fresh, Init
<1>6. Order
  BY <1>2, <1>3, <1>4, <1>5, TypeParts DEF Order
<1>7. ASSUME NEW c \in Clients PROVE Right(c)
  <2>1. Answer(c) \in Seq(Tokens) /\ stream[c] = <<>> /\ c \notin accepted
    BY <1>6, AnswerFacts DEF Order, Init
  <2>2. <<>> \in Seq(Tokens) /\ <<>> \o Answer(c) = Answer(c)
    BY <2>1, ConcatNothing
  <2>3. IsPrefix(<<>>, Answer(c))
    BY <2>1, <2>2, ConcatPrefix
  <2> QED
    BY <1>1, <2>1, <2>3 DEF Right, Owns
<1> QED
  BY <1>6, <1>7 DEF Inv

LEMMA LocalInv ==
  ASSUME Inv, NEW p \in Procs, Local(p), Around, UNCHANGED stream
  PROVE  Inv'
<1>0. TypeOK
  BY DEF Inv, Order
<1>1. CASE Close(p)
  BY <1>1, CloseInv
<1>2. CASE AccessExists(p)
  BY <1>0, <1>2, AccessExistsKeeps, KeepsInv
<1>3. CASE AccessReadable(p)
  BY <1>0, <1>3, AccessReadableKeeps, KeepsInv
<1>4. CASE AccessExecutable(p)
  BY <1>0, <1>4, AccessExecutableKeeps, KeepsInv
<1>5. CASE Fork(p)
  BY <1>5, ForkInv
<1>6. CASE Stat(p)
  BY <1>0, <1>6, StatKeeps, KeepsInv
<1>7. CASE Open(p)
  BY <1>0, <1>7, OpenKeeps, KeepsInv
<1>8. CASE BodyEnd(p)
  BY <1>0, <1>8, BodyEndKeeps, KeepsInv
<1>9. CASE BodyNeverEnds(p)
  BY <1>0, <1>9, BodyNeverEndsKeeps, KeepsInv
<1>10. CASE Exec(p)
  BY <1>0, <1>10, ExecKeeps, KeepsInv
<1>11. CASE Wait(p)
  BY <1>11, WaitInv
<1> QED
  BY <1>1, <1>2, <1>3, <1>4, <1>5, <1>6, <1>7, <1>8, <1>9, <1>10, <1>11 DEF Local

LEMMA OutputInv ==
  ASSUME Inv, NEW p \in Procs, Output(p), Around
  PROVE  Inv'
<1>0. TypeOK
  BY DEF Inv, Order
<1>1. CASE Write(p)
  <2>1. proc[p].pc = "write" /\ Busy(proc[p]) /\ Target(p) = Served(proc[p])
    BY <1>1 DEF Write, Busy, Target, Served, client_socket
  <2>2. CASE Killed(p)
    BY <2>1, <2>2, KilledInv
  <2>3. CASE ~Killed(p)
    <3>1. /\ Deliver(p, Head(proc[p].out))
          /\ proc' = [proc EXCEPT
               ![p].out = Tail(@),
               ![p].pc = IF Len(proc[p].out) = 1 THEN proc[p].then ELSE "write"]
      BY <1>1, <2>3 DEF Write
    <3>2. Moves(p) /\ Sends(p, Head(proc[p].out)) /\ Head(proc[p].out) \in Tokens
      BY <1>0, <2>1, <3>1, WriteSends
    <3> QED
      BY <2>1, <3>1, <3>2, SendsInv
  <2> QED
    BY <2>2, <2>3
<1>2. CASE Body(p)
  <2>1. /\ proc[p].pc = "body" /\ Busy(proc[p]) /\ Target(p) = Served(proc[p])
        /\ ~ReadsNothing(p)
    BY <1>2 DEF Body, Busy, Target, Served, client_socket
  <2>2. CASE Killed(p)
    BY <2>1, <2>2, KilledInv
  <2>3. CASE ~Killed(p)
    <3>1. /\ Deliver(p, <<"body", proc[p].pos + 1>>)
          /\ proc' = [proc EXCEPT ![p].pos = @ + 1]
      BY <1>2, <2>3 DEF Body
    <3>2. /\ Moves(p) /\ Sends(p, <<"body", proc[p].pos + 1>>)
          /\ <<"body", proc[p].pos + 1>> \in Tokens
      BY <1>0, <2>1, <3>1, BodySends
    <3> QED
      BY <2>1, <3>1, <3>2, SendsInv
  <2> QED
    BY <2>2, <2>3
<1>3. CASE Cgi(p)
  <2>1. proc[p].pc = "cgi" /\ Busy(proc[p]) /\ Target(p) = Served(proc[p])
    BY <1>3 DEF Cgi, Busy, Target, Served
  <2>2. CASE Killed(p)
    BY <2>1, <2>2, KilledInv
  <2>3. CASE ~Killed(p) /\ proc[p].pos = 0
    <3>1. Deliver(p, <<"cgi", 0>>) /\ proc' = [proc EXCEPT ![p].pos = 1]
      BY <1>3, <2>3 DEF Cgi
    <3>2. Moves(p) /\ Sends(p, <<"cgi", 0>>) /\ <<"cgi", 0>> \in Tokens
      BY <1>0, <2>1, <2>3, <3>1, CgiSends
    <3> QED
      BY <2>1, <3>1, <3>2, SendsInv
  <2>4. CASE ~Killed(p) /\ proc[p].pos # 0
    <3>1. proc[p].pos = 1 /\ Die(p) /\ UNCHANGED stream
      BY <1>3, <2>4 DEF Cgi
    <3> QED
      BY <1>0, <2>1, <3>1, CgiEndKeeps, KeepsInv
  <2> QED
    BY <2>2, <2>3, <2>4
<1> QED
  BY <1>1, <1>2, <1>3 DEF Output

LEMMA RunInv ==
  ASSUME Inv, NEW p \in Procs, Run(p)
  PROVE  Inv'
<1>1. CASE Accept(p)
  BY <1>1, AcceptInv
<1>2. CASE Error(p)
  <2>1. Alive(p) /\ proc[p].pc # "cgi" /\ CloseAll(p)
    BY <1>2 DEF Error, Alive
  <2> QED
    BY <2>1, CloseAllInv
<1>3. CASE Read(p)
  BY <1>3, ReadInv
<1>4. CASE Local(p) /\ UNCHANGED stream /\ Around
  BY <1>4, LocalInv
<1>5. CASE Output(p) /\ Around
  BY <1>5, OutputInv
<1> QED
  BY <1>1, <1>2, <1>3, <1>4, <1>5 DEF Run, Around

LEMMA NextInv == Inv /\ [Next]_vars => Inv'
<1> SUFFICES ASSUME Inv, [Next]_vars PROVE Inv'
  OBVIOUS
<1>1. ASSUME NEW p \in Procs, Run(p) PROVE Inv'
  BY <1>1, RunInv
<1>2. ASSUME NEW p \in Procs, Shutdown(p) PROVE Inv'
  BY <1>2, CloseAllInv DEF Shutdown
<1>3. ASSUME NEW c \in Clients, Client(c) PROVE Inv'
  BY <1>3, ClientInv
<1>4. ASSUME NEW c \in Clients, NEW kind \in Kinds, Change(c, kind) PROVE Inv'
  BY <1>4, ChangeInv
<1>5. CASE UNCHANGED vars
  <2>1. RestOK'
    BY <1>5, TypeParts DEF Inv, Order, RestOK, vars, socketVars, clientVars, fileVars
  <2> QED
    BY <1>5, <2>1, OutsideInv DEF vars, socketVars, clientVars, fileVars
<1> QED
  BY <1>1, <1>2, <1>3, <1>4, <1>5 DEF Next

THEOREM Invariance == Spec => []Inv
BY InitInv, NextInv, PTL DEF Spec

(* One process at most runs the server's loop while clients are accepted.  *)
THEOREM OneServerAlways == Spec => []OneServer
<1>1. Inv => OneServer
  BY DEF Inv, Order, Chain, OneServer
<1> QED
  BY <1>1, Invariance, PTL

(* A client whose file stays as it is is sent a prefix of its own answer,  *)
(* nothing before its request is whole, and all of it when its connection  *)
(* ends well: whatever the other clients, the signals and the file system  *)
(* do, and however long the chain of processes has grown.                  *)
THEOREM RightAnswers == Spec => []AnswerIsRight
<1>1. ASSUME Inv, NEW c \in Clients \ changed, Ended(c), c \notin shut, ~left[c]
      PROVE  stream[c] = Answer(c)
  <2>1. \A p \in Procs : ~Owns(proc[p], c)
    BY <1>1 DEF Ended, Owns, Served
  <2>2. c \in accepted
    BY <1>1 DEF Ended
  <2> QED
    BY <1>1, <2>1, <2>2 DEF Inv, Right
<1>2. Inv => AnswerIsRight
  BY <1>1 DEF Inv, Right, AnswerIsRight
<1> QED
  BY <1>2, Invariance, PTL
=============================================================================
