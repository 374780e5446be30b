--------------------------- MODULE EpollEchoProofs ---------------------------
(***************************************************************************)
(* The echo server of 19_epoll/1, for any clients, lengths and buffer: it  *)
(* answers in order, its events are never stale, and it forgets no work    *)
(* but where it spends an edge on a part of it.                            *)
(***************************************************************************)
EXTENDS EpollEcho, TLAPS

(* The backlog: a queue in which no client stands twice.                   *)
LEMMA QueueAppend ==
  ASSUME NEW S, NEW q \in Seq(S), IsInjective(q), NEW x \in S, x \notin ToSet(q)
  PROVE  /\ Append(q, x) \in Seq(S) /\ IsInjective(Append(q, x))
         /\ ToSet(Append(q, x)) = ToSet(q) \cup {x}
<1> DEFINE r == Append(q, x)
<1>1. /\ r \in Seq(S) /\ DOMAIN r = 1..Len(q) + 1 /\ DOMAIN q = 1..Len(q) /\ Len(q) \in Nat
      /\ \A i \in 1..Len(q) : r[i] = q[i]
      /\ r[Len(q) + 1] = x
  OBVIOUS
<1> HIDE DEF r
<1>2. IsInjective(r)
  BY <1>1 DEF IsInjective, ToSet
<1>3. ToSet(r) = ToSet(q) \cup {x}
  BY <1>1 DEF ToSet
<1> QED
  BY <1>1, <1>2, <1>3 DEF r

LEMMA QueueTail ==
  ASSUME NEW S, NEW q \in Seq(S), IsInjective(q), q # <<>>
  PROVE  /\ Head(q) \in S /\ Tail(q) \in Seq(S) /\ IsInjective(Tail(q))
         /\ Head(q) \notin ToSet(Tail(q)) /\ ToSet(q) = ToSet(Tail(q)) \cup {Head(q)}
<1> DEFINE r == Tail(q)
<1>1. /\ Head(q) \in S /\ r \in Seq(S)
      /\ Len(q) \in Nat \ {0} /\ DOMAIN q = 1..Len(q) /\ Head(q) = q[1]
      /\ DOMAIN r = 1..Len(q) - 1
      /\ \A i \in 1..Len(q) - 1 : r[i] = q[i + 1]
  OBVIOUS
<1> HIDE DEF r
<1>2. IsInjective(r)
  <2> SUFFICES ASSUME NEW i \in DOMAIN r, NEW l \in DOMAIN r, r[i] = r[l] PROVE i = l
    BY DEF IsInjective
  <2>1. i + 1 \in DOMAIN q /\ l + 1 \in DOMAIN q /\ q[i + 1] = q[l + 1]
    BY <1>1
  <2>2. i + 1 = l + 1
    BY <2>1 DEF IsInjective
  <2> QED
    BY <2>2, <1>1
<1>3. Head(q) \notin ToSet(r)
  <2> SUFFICES ASSUME NEW i \in DOMAIN r, r[i] = Head(q) PROVE FALSE
    BY DEF ToSet
  <2>1. i + 1 \in DOMAIN q /\ 1 \in DOMAIN q /\ q[i + 1] = q[1]
    BY <1>1
  <2>2. i + 1 = 1
    BY <2>1 DEF IsInjective
  <2> QED
    BY <2>2, <1>1
<1>4. ToSet(q) = ToSet(r) \cup {Head(q)}
  <2>1. \A i \in DOMAIN r : r[i] \in ToSet(q)
    BY <1>1 DEF ToSet
  <2>2. Head(q) \in ToSet(q)
    BY <1>1 DEF ToSet
  <2>3. ASSUME NEW i \in DOMAIN q PROVE q[i] \in ToSet(r) \cup {Head(q)}
    <3>1. CASE i = 1
      BY <3>1, <1>1
    <3>2. CASE i # 1
      <4>1. i - 1 \in DOMAIN r /\ r[i - 1] = q[i]
        BY <3>2, <1>1
      <4> QED
        BY <4>1 DEF ToSet
    <3> QED
      BY <3>1, <3>2
  <2> QED
    BY <2>1, <2>2, <2>3 DEF ToSet
<1> QED
  BY <1>1, <1>2, <1>3, <1>4 DEF r

-----------------------------------------------------------------------------
Watched == open \cup {listen_sock}

(* What the server's lists say of the descriptors.                         *)
Lists ==
  /\ ready \subseteq Watched
  /\ \A e \in events : e.hup => e.fd \in shut
  /\ srv = "wait" => events = {}

(* Every piece of work of a client that does not rush has an edge or an    *)
(* event: at most one such client waits to be accepted, one read takes all *)
(* of its text, and who has ended its sending is closed with its last text.*)
WorkIsNoted ==
  srv # "exited" /\ ~late =>
    /\ \A c \in open \ rushed : Readable(c) => c \in ready \cup Evented
    /\ backlog # <<>> /\ Head(backlog) \notin rushed =>
         listen_sock \in ready \cup Evented
    /\ \A k \in 2..Len(backlog) : backlog[k] \in rushed
    /\ \A c \in Clients \ rushed : rcv[c] <= BufSize
    /\ \A c \in Connected \cap shut : rcv[c] > 0
    /\ \A e \in events : e.fd \in shut => e.hup

Inv == EventsAreLive /\ Lists /\ WorkIsNoted /\ EchoIsPrefix

-----------------------------------------------------------------------------
LEMMA InitInv == Init => Inv
<1> SUFFICES ASSUME Init PROVE Inv
  OBVIOUS
<1>1. TypeOK
  <2>1. <<>> \in Seq(Clients) /\ <<>> \in Seq(Characters) /\ IsInjective(<<>>)
    BY DEF IsInjective
  <2>2. /\ sent \in [Clients -> 0..MaxSend] /\ rcv \in [Clients -> Nat]
        /\ \A c \in Clients : rcv[c] <= sent[c]
    BY SizesAssumption DEF Init
  <2>3. got \in [Clients -> Seq(Characters)]
    BY <2>1 DEF Init
  <2>4. backlog \in Seq(Clients) /\ IsInjective(backlog) /\ buf \in Seq(Characters)
    BY <2>1 DEF Init
  <2>5. /\ shut \subseteq Clients /\ open \subseteq Clients /\ open \cap ToSet(backlog) = {}
        /\ ready \subseteq Fds /\ events \subseteq [fd : Fds, hup : BOOLEAN]
        /\ srv \in {"wait", "handle", "exited"}
        /\ rushed \subseteq Clients /\ late \in BOOLEAN /\ overrun \in BOOLEAN
    BY DEF Init
  <2> QED
    BY <2>2, <2>3, <2>4, <2>5 DEF TypeOK
<1>2. EventsAreLive
  BY <1>1 DEF Init, EventsAreLive
<1>3. Lists
  BY DEF Init, Lists
<1>4. WorkIsNoted
  BY SizesAssumption DEF Init, WorkIsNoted, Connected, ToSet
<1>5. EchoIsPrefix
  BY DEF Init, EchoIsPrefix
<1> QED
  BY <1>2, <1>3, <1>4, <1>5 DEF Inv

-----------------------------------------------------------------------------
(* The clients.                                                            *)
LEMMA ConnectInv == ASSUME Inv, NEW c \in Clients, Connect(c) PROVE Inv'
<1> USE ClientsAssumption DEF Inv, listen_sock
<1>1. /\ backlog' \in Seq(Clients) /\ IsInjective(backlog')
      /\ ToSet(backlog') = ToSet(backlog) \cup {c}
  BY QueueAppend DEF Connect, Connected, EventsAreLive, TypeOK
<1>2. TypeOK'
  BY <1>1 DEF Connect, Connected, EventsAreLive, TypeOK, clientVars, serverVars, Fds
<1>3. EventsAreLive'
  <2>1. \A fd \in Watched : Readable(fd) => Readable(fd)'
    <3>1. backlog \in Seq(Clients) /\ backlog' = Append(backlog, c)
      BY DEF Connect, EventsAreLive, TypeOK
    <3>2. backlog' # <<>>
      BY <3>1
    <3> QED
      BY <3>2 DEF Connect, Readable, clientVars
  <2> QED
    BY <2>1, <1>1, <1>2 DEF EventsAreLive, Connect, Connected, clientVars, serverVars, Watched
<1>4. Lists'
  BY DEF Lists, Watched, Connect, clientVars, serverVars
<1>5. WorkIsNoted'
  <2> SUFFICES ASSUME srv # "exited", ~late PROVE WorkIsNoted'
    BY DEF WorkIsNoted, Connect, serverVars
  <2>1. /\ backlog \in Seq(Clients) /\ backlog' = Append(backlog, c)
        /\ rushed' = IF backlog = <<>> THEN rushed ELSE rushed \cup {c}
        /\ ready' = ready \cup {listen_sock} /\ c \in Clients /\ c \notin shut
        /\ UNCHANGED <<open, events, shut, late, srv, rcv>>
    BY DEF Connect, EventsAreLive, TypeOK, serverVars
  <2>2. /\ Len(backlog') = Len(backlog) + 1 /\ backlog'[Len(backlog) + 1] = c
        /\ \A k \in 1..Len(backlog) : backlog'[k] = backlog[k]
    BY <2>1
  <2>3. \A d \in open \ rushed' : Readable(d)' => d \in ready' \cup Evented'
    BY <2>1 DEF WorkIsNoted, Readable, Evented, EventsAreLive, TypeOK
  <2>4. \A k \in 2..Len(backlog') : backlog'[k] \in rushed'
    <3> SUFFICES ASSUME NEW k \in 2..Len(backlog') PROVE backlog'[k] \in rushed'
      OBVIOUS
    <3>1. k \in 2..Len(backlog) \/ k = Len(backlog) + 1
      BY <2>1, <2>2
    <3> QED
      BY <2>1, <2>2, <3>1 DEF WorkIsNoted
  <2>5. Connected' \cap shut' = Connected \cap shut
    BY <1>1, <2>1 DEF Connected
  <2> QED
    BY <2>1, <2>3, <2>4, <2>5 DEF WorkIsNoted
<1>6. EchoIsPrefix'
  BY DEF EchoIsPrefix, Connect, clientVars, serverVars
<1> QED
  BY <1>3, <1>4, <1>5, <1>6

LEMMA SendInv == ASSUME Inv, NEW c \in Clients, Send(c) PROVE Inv'
<1> USE ClientsAssumption, SizesAssumption DEF Inv, listen_sock
<1>1. TypeOK'
  <2>1. TypeOK /\ rushed' \in {rushed, rushed \cup {c}} /\ shut' = shut /\ late' = late
    BY DEF Send, EventsAreLive
  <2>2. rushed' \subseteq Clients
    BY <2>1 DEF TypeOK
  <2> HIDE DEF Inv
  <2>3. /\ sent' = [sent EXCEPT ![c] = sent[c] + 1] /\ sent[c] < MaxSend
        /\ rcv' = [rcv EXCEPT ![c] = rcv[c] + 1]
        /\ ready' = IF c \in open THEN ready \cup {c} ELSE ready
        /\ UNCHANGED <<serverVars, backlog, got>>
    BY DEF Send, EdgeIfOpen
  <2> QED
    BY <2>1, <2>2, <2>3 DEF TypeOK, serverVars, Fds
<1>2. /\ rcv' = [rcv EXCEPT ![c] = rcv[c] + 1] /\ sent' = [sent EXCEPT ![c] = sent[c] + 1]
      /\ rcv \in [Clients -> Nat] /\ sent \in [Clients -> 0..MaxSend]
  BY DEF Send, EventsAreLive, TypeOK
<1>3. \A fd \in Watched : /\ Readable(fd) => Readable(fd)'
                          /\ fd # c => (Readable(fd)' <=> Readable(fd))
  BY <1>2 DEF Send, Readable, Watched, EventsAreLive, TypeOK, serverVars
<1>4. EventsAreLive'
  <2>1. \A d \in Clients : sent'[d] > 0 /\ d \notin shut' => d \in Connected'
    <3>1. Connected' = Connected
      BY DEF Send, Connected, serverVars
    <3>2. c \in Connected
      BY DEF Send
    <3>3. \A d \in Clients \ {c} : sent'[d] = sent[d]
      BY <1>2
    <3> QED
      BY <3>1, <3>2, <3>3 DEF EventsAreLive, Send
  <2> QED
    BY <2>1, <1>1, <1>3 DEF EventsAreLive, Send, serverVars, Watched
<1>5. ready' = IF c \in open THEN ready \cup {c} ELSE ready
  BY DEF Send, EdgeIfOpen
<1>6. Lists'
  BY <1>5 DEF Lists, Watched, Send, serverVars
<1>7. WorkIsNoted'
  <2> SUFFICES ASSUME srv # "exited", ~late PROVE WorkIsNoted'
    BY DEF WorkIsNoted, Send, serverVars
  <2>1. /\ rushed' = IF rcv'[c] <= BufSize THEN rushed ELSE rushed \cup {c}
        /\ c \notin shut /\ UNCHANGED <<open, events, shut, late, srv, backlog>>
    BY DEF Send, serverVars
  <2>2. Connected' = Connected /\ Evented' = Evented
    BY <2>1 DEF Connected, Evented
  <2>3. ASSUME NEW d \in open' \ rushed', Readable(d)' PROVE d \in ready' \cup Evented'
    <3>1. CASE d = c
      BY <3>1, <1>5, <2>1
    <3>2. CASE d # c
      BY <3>2, <1>3, <1>5, <2>1, <2>2, <2>3 DEF WorkIsNoted, Watched
    <3> QED
      BY <3>1, <3>2
  <2>4. \A d \in Clients \ rushed' : rcv'[d] <= BufSize
    BY <1>2, <2>1 DEF WorkIsNoted
  <2>5. \A d \in Connected' \cap shut' : rcv'[d] > 0
    <3>1. \A d \in Connected \cap shut : d # c /\ d \in Clients /\ rcv[d] > 0
      BY <2>1 DEF WorkIsNoted, EventsAreLive, TypeOK
    <3> QED
      BY <1>2, <2>1, <2>2, <3>1
  <2>6. backlog' # <<>> /\ Head(backlog') \notin rushed' =>
          listen_sock \in ready' \cup Evented'
    BY <1>5, <2>1, <2>2 DEF WorkIsNoted
  <2>7. \A k \in 2..Len(backlog') : backlog'[k] \in rushed'
    BY <2>1 DEF WorkIsNoted
  <2>8. \A e \in events' : e.fd \in shut' => e.hup
    BY <2>1 DEF WorkIsNoted
  <2> QED
    BY <2>3, <2>4, <2>5, <2>6, <2>7, <2>8 DEF WorkIsNoted
<1>8. EchoIsPrefix'
  <2>1. \A d \in Clients : sent'[d] - rcv'[d] = sent[d] - rcv[d]
    BY <1>2
  <2> QED
    BY <2>1 DEF EchoIsPrefix, Send, serverVars
<1> QED
  BY <1>4, <1>6, <1>7, <1>8

LEMMA EndSendingInv == ASSUME Inv, NEW c \in Clients, EndSending(c) PROVE Inv'
<1> USE ClientsAssumption, SizesAssumption DEF Inv, listen_sock
<1>1. TypeOK'
  BY DEF EndSending, EdgeIfOpen, EventsAreLive, TypeOK, serverVars, Fds
<1>2. \A fd \in Watched : /\ Readable(fd) => Readable(fd)'
                          /\ fd # c => (Readable(fd)' <=> Readable(fd))
  BY DEF EndSending, Readable
<1>3. EventsAreLive'
  BY <1>1, <1>2 DEF EventsAreLive, EndSending, serverVars, Watched, Connected
<1>4. ready' = IF c \in open THEN ready \cup {c} ELSE ready
  BY DEF EndSending, EdgeIfOpen
<1>5. Lists'
  BY <1>4 DEF Lists, Watched, EndSending, serverVars
<1>6. WorkIsNoted'
  <2> SUFFICES ASSUME srv # "exited", ~late' PROVE WorkIsNoted'
    BY DEF WorkIsNoted, EndSending, serverVars
  <2>1. /\ ~late /\ rcv[c] # 0 /\ c \notin Evented /\ shut' = shut \cup {c}
        /\ rcv[c] \in Nat
        /\ UNCHANGED <<open, events, rushed, srv, backlog, rcv>>
    BY DEF EndSending, serverVars, EventsAreLive, TypeOK
  <2>2. Connected' = Connected /\ Evented' = Evented
    BY <2>1 DEF Connected, Evented
  <2>3. ASSUME NEW d \in open' \ rushed', Readable(d)' PROVE d \in ready' \cup Evented'
    <3>1. CASE d = c
      BY <3>1, <1>4, <2>1, <2>3
    <3>2. CASE d # c
      BY <3>2, <1>2, <1>4, <2>1, <2>2, <2>3 DEF WorkIsNoted, Watched
    <3> QED
      BY <3>1, <3>2
  <2>4. \A e \in events' : e.fd \in shut' => e.hup
    BY <2>1 DEF WorkIsNoted, Evented
  <2>5. \A d \in Connected' \cap shut' : rcv'[d] > 0
    BY <2>1, <2>2 DEF WorkIsNoted
  <2>6. backlog' # <<>> /\ Head(backlog') \notin rushed' =>
          listen_sock \in ready' \cup Evented'
    BY <1>4, <2>1, <2>2 DEF WorkIsNoted
  <2> QED
    BY <2>1, <2>3, <2>4, <2>5, <2>6 DEF WorkIsNoted
<1>7. EchoIsPrefix'
  BY DEF EchoIsPrefix, EndSending, serverVars
<1> QED
  BY <1>3, <1>5, <1>6, <1>7

-----------------------------------------------------------------------------
(* The server.                                                             *)
LEMMA WaitInv == ASSUME Inv, epoll_wait PROVE Inv'
<1> USE ClientsAssumption DEF Inv, listen_sock
<1> DEFINE EventOf(fd) == [fd |-> fd, hup |-> fd \in shut]
<1>0. /\ \A e \in events' : \E fd \in ready : Readable(fd) /\ e = EventOf(fd)
      /\ \A fd \in ready : Readable(fd) => EventOf(fd) \in events'
  BY Zenon DEF epoll_wait
<1>1. TypeOK'
  <2>1. events' \subseteq [fd : Fds, hup : BOOLEAN]
    <3> SUFFICES ASSUME NEW e \in events' PROVE e \in [fd : Fds, hup : BOOLEAN]
      OBVIOUS
    <3>1. PICK fd \in ready : e = EventOf(fd)
      BY <1>0
    <3>2. fd \in Fds /\ (fd \in shut) \in BOOLEAN
      BY <3>1 DEF EventsAreLive, TypeOK
    <3> QED
      BY <3>1, <3>2
  <2> QED
    BY <2>1 DEF epoll_wait, EventsAreLive, TypeOK, clientVars
<1>2. \A fd : Readable(fd)' <=> Readable(fd)
  BY DEF epoll_wait, Readable, clientVars
<1>3. /\ \A e \in events' : e.fd \in ready /\ Readable(e.fd) /\ (e.hup <=> e.fd \in shut)
      /\ \A fd \in ready : Readable(fd) => fd \in Evented'
      /\ \A e, f \in events' : e.fd = f.fd => e = f
  <2>1. \A fd : EventOf(fd).fd = fd /\ (EventOf(fd).hup <=> fd \in shut)
    OBVIOUS
  <2> HIDE DEF EventOf
  <2>2. \A e \in events' : e.fd \in ready /\ Readable(e.fd) /\ e = EventOf(e.fd)
    BY <1>0, <2>1
  <2>3. \A e \in events' : e.hup <=> e.fd \in shut
    <3> SUFFICES ASSUME NEW e \in events' PROVE e.hup <=> e.fd \in shut
      OBVIOUS
    <3>1. PICK fd \in ready : e = EventOf(fd)
      BY <1>0
    <3> QED
      BY <3>1, <2>1
  <2>4. \A fd \in ready : Readable(fd) => fd \in Evented'
    BY <1>0, <2>1 DEF Evented
  <2>5. ASSUME NEW e \in events', NEW f \in events', e.fd = f.fd PROVE e = f
    BY <2>2, <2>5
  <2> QED
    BY <2>2, <2>3, <2>4, <2>5
<1>4. EventsAreLive'
  <2>1. Connected' = Connected
    BY DEF epoll_wait, Connected
  <2> QED
    BY <1>1, <1>2, <1>3, <2>1 DEF EventsAreLive, Lists, Watched, epoll_wait, clientVars
<1>5. Lists'
  BY <1>3 DEF Lists, Watched, epoll_wait, clientVars
<1>6. WorkIsNoted'
  <2> SUFFICES ASSUME ~late PROVE WorkIsNoted'
    BY DEF WorkIsNoted, epoll_wait, clientVars
  <2>1. /\ srv = "wait" /\ events = {} /\ Evented = {}
        /\ UNCHANGED <<open, shut, rushed, late, backlog, rcv>>
    BY DEF Lists, epoll_wait, clientVars, Evented
  <2>2. \A c \in open' \ rushed' : Readable(c)' => c \in Evented'
    BY <1>2, <1>3, <2>1 DEF WorkIsNoted
  <2>3. backlog' # <<>> /\ Head(backlog') \notin rushed' => listen_sock \in Evented'
    BY <1>3, <2>1 DEF WorkIsNoted, Readable
  <2>4. \A e \in events' : e.fd \in shut' => e.hup
    BY <1>3, <2>1
  <2>5. \A d \in Connected' \cap shut' : rcv'[d] > 0
    BY <2>1 DEF WorkIsNoted, Connected
  <2> QED
    BY <2>1, <2>2, <2>3, <2>4, <2>5 DEF WorkIsNoted
<1>7. EchoIsPrefix'
  BY DEF EchoIsPrefix, epoll_wait, clientVars
<1> QED
  BY <1>4, <1>5, <1>6, <1>7

LEMMA AcceptInv == ASSUME Inv, NEW e \in events, srv = "handle", Accept(e) PROVE Inv'
<1> USE ClientsAssumption DEF Inv, listen_sock
<1> DEFINE c == Head(backlog)
<1>1. /\ c \in Clients /\ backlog' \in Seq(Clients) /\ IsInjective(backlog')
      /\ c \notin ToSet(backlog') /\ ToSet(backlog) = ToSet(backlog') \cup {c}
  BY QueueTail DEF Accept, EventsAreLive, TypeOK
<1>2. /\ open' = open \cup {c} /\ ready' = Added(c) /\ events' = events \ {e}
      /\ e.fd = listen_sock
      /\ srv' = IF events' = {} THEN "wait" ELSE "handle"
      /\ UNCHANGED <<sent, shut, rushed, late, buf, overrun, rcv, got>>
  BY DEF Accept, Rest, clientVars
<1> HIDE DEF c
<1>3. TypeOK'
  <2>1. ready' \subseteq Fds
    BY <1>1, <1>2 DEF Added, Fds, EventsAreLive, TypeOK
  <2>2. open' \cap ToSet(backlog') = {}
    BY <1>1, <1>2 DEF EventsAreLive, TypeOK
  <2> QED
    BY <1>1, <1>2, <2>1, <2>2 DEF EventsAreLive, TypeOK
<1>4. \A fd : fd # listen_sock => (Readable(fd)' <=> Readable(fd))
  BY <1>2 DEF Readable
<1>5. ready' = IF Readable(c) THEN ready \cup {c} ELSE ready
  BY <1>2 DEF Added
<1>6. \A f \in events' : f \in events /\ f.fd # listen_sock
  BY <1>2 DEF EventsAreLive
<1>7. EventsAreLive'
  <2>1. \A f \in events' : Readable(f.fd)' /\ f.fd \in open' \cup {listen_sock}
    BY <1>2, <1>4, <1>6 DEF EventsAreLive
  <2>2. \A f, g \in events' : f.fd = g.fd => f = g
    BY <1>6 DEF EventsAreLive
  <2>3. Connected' = Connected
    BY <1>1, <1>2 DEF Connected
  <2>4. \A d \in Clients : sent'[d] > 0 /\ d \notin shut' => d \in Connected'
    BY <1>2, <2>3 DEF EventsAreLive
  <2> QED
    BY <1>3, <2>1, <2>2, <2>4 DEF EventsAreLive
<1>8. Lists'
  BY <1>2, <1>5, <1>6 DEF Lists, Watched
<1>9. WorkIsNoted'
  <2> SUFFICES ASSUME ~late PROVE WorkIsNoted'
    BY <1>2 DEF WorkIsNoted
  <2>1. WorkIsNoted!2
    BY DEF WorkIsNoted
  <2>2. /\ \A k \in 1..Len(backlog') : backlog'[k] \in rushed'
        /\ backlog' # <<>> => Head(backlog') \in rushed'
    <3>1. backlog \in Seq(Clients) /\ backlog # <<>> /\ backlog' = Tail(backlog)
      BY DEF Accept, EventsAreLive, TypeOK
    <3>2. /\ Len(backlog') = Len(backlog) - 1
          /\ \A k \in 1..Len(backlog') : backlog'[k] = backlog[k + 1] /\ k + 1 \in 2..Len(backlog)
          /\ backlog' # <<>> => Head(backlog') = backlog'[1] /\ 1 \in 1..Len(backlog')
      BY <3>1
    <3> QED
      BY <1>2, <2>1, <3>2
  <2>3. ASSUME NEW d \in open' \ rushed', Readable(d)' PROVE d \in ready' \cup Evented'
    <3>1. d # listen_sock
      BY <1>1, <1>2 DEF EventsAreLive, TypeOK
    <3>2. Readable(d)
      BY <1>4, <2>3, <3>1
    <3>3. CASE d = c
      BY <1>5, <3>2, <3>3
    <3>4. CASE d # c
      <4>1. d \in ready \cup Evented
        BY <1>2, <2>1, <3>2, <3>4
      <4>2. d \in Evented => d \in Evented'
        BY <1>2, <3>1 DEF Evented
      <4> QED
        BY <1>5, <4>1, <4>2
    <3> QED
      BY <3>3, <3>4
  <2>4. Connected' = Connected
    BY <1>1, <1>2 DEF Connected
  <2> QED
    BY <1>2, <1>6, <2>1, <2>2, <2>3, <2>4 DEF WorkIsNoted
<1>10. EchoIsPrefix'
  BY <1>2 DEF EchoIsPrefix
<1> QED
  BY <1>7, <1>8, <1>9, <1>10

(* read answers 0 only to a client that ended late.                        *)
LEMMA ReadNothingInv ==
  ASSUME Inv, NEW e \in events, srv = "handle", ReadNothing(e) PROVE Inv'
<1> USE DEF Inv
<1>1. /\ events' = {} /\ srv' = "wait"
      /\ UNCHANGED <<sent, shut, rushed, late, open, buf, overrun, backlog, rcv, got, ready>>
  BY DEF ReadNothing, Rest, clientVars
<1>2. TypeOK'
  BY <1>1 DEF EventsAreLive, TypeOK
<1>3. EventsAreLive'
  BY <1>1, <1>2 DEF EventsAreLive, Connected
<1>4. Lists'
  BY <1>1 DEF Lists, Watched
<1>5. WorkIsNoted'
  <2>1. e.fd \in open \cap shut /\ rcv[e.fd] = 0
    BY DEF ReadNothing, EventsAreLive
  <2>2. late
    BY <2>1 DEF WorkIsNoted, Connected
  <2> QED
    BY <1>1, <2>2 DEF WorkIsNoted
<1>6. EchoIsPrefix'
  BY <1>1 DEF EchoIsPrefix
<1> QED
  BY <1>3, <1>4, <1>5, <1>6

(* What a read takes and sends back: the next characters of its client.    *)
LEMMA TakenFacts ==
  ASSUME TypeOK, NEW c \in Clients, rcv[c] > 0
  PROVE  /\ Taken(c) \in Seq(Characters)
         /\ Len(Taken(c)) \in 1..rcv[c] /\ Len(Taken(c)) <= BufSize
         /\ \A k \in 1..Len(Taken(c)) : Taken(c)[k] = <<c, sent[c] - rcv[c] + k>>
<1> DEFINE n == IF rcv[c] < BufSize THEN rcv[c] ELSE BufSize
<1>1. n \in Nat /\ n \in 1..rcv[c] /\ n <= BufSize /\ rcv[c] \in Nat /\ sent[c] \in Nat /\ rcv[c] <= sent[c]
  BY SizesAssumption DEF TypeOK
<1> HIDE DEF n
<1>2. Taken(c) = [k \in 1..n |-> <<c, sent[c] - rcv[c] + k>>]
  BY DEF Taken, n
<1>3. \A k \in 1..n : <<c, sent[c] - rcv[c] + k>> \in Characters
  BY <1>1 DEF Characters
<1>4. Taken(c) \in Seq(Characters) /\ Len(Taken(c)) = n
  BY <1>1, <1>2, <1>3
<1> QED
  BY <1>1, <1>2, <1>4

LEMMA ReadInv == ASSUME Inv, NEW e \in events, srv = "handle", ReadAndWrite(e) PROVE Inv'
<1> USE ClientsAssumption DEF Inv, listen_sock
<1> DEFINE c == e.fd
           n == Len(Taken(c))
<1>1. TypeOK
  BY DEF EventsAreLive
<1>2. c \in Clients /\ c \in open /\ c # listen_sock /\ rcv[c] > 0
  BY DEF ReadAndWrite, EventsAreLive, TypeOK
<1>3. /\ Taken(c) \in Seq(Characters) /\ n \in 1..rcv[c] /\ n <= BufSize
      /\ \A k \in 1..n : Taken(c)[k] = <<c, sent[c] - rcv[c] + k>>
  BY <1>1, <1>2, TakenFacts
<1>4. /\ buf' = Taken(c) /\ rcv' = [rcv EXCEPT ![c] = rcv[c] - n]
      /\ \E junk \in IF n = BufSize THEN Beyond ELSE {<<>>} :
           got' = [got EXCEPT ![c] = got[c] \o Taken(c) \o junk]
      /\ overrun' = (overrun \/ n = BufSize)
      /\ open' = IF e.hup THEN open \ {c} ELSE open
      /\ ready' = IF c \in open' THEN ready ELSE ready \ {c}
      /\ events' = events \ {e}
      /\ srv' = IF events' = {} THEN "wait" ELSE "handle"
      /\ UNCHANGED <<sent, shut, rushed, late, backlog>>
  BY DEF ReadAndWrite, Filled, Closed, Rest, clientVars
<1>5. /\ rcv \in [Clients -> Nat] /\ rcv' \in [Clients -> Nat]
      /\ rcv'[c] = rcv[c] - n /\ rcv'[c] \in Nat
      /\ \A d \in Clients \ {c} : rcv'[d] = rcv[d]
      /\ sent \in [Clients -> 0..MaxSend] /\ \A d \in Clients : rcv[d] <= sent[d]
  BY <1>1, <1>2, <1>3, <1>4 DEF TypeOK
<1>6. PICK junk \in IF n = BufSize THEN Beyond ELSE {<<>>} :
        got' = [got EXCEPT ![c] = got[c] \o Taken(c) \o junk]
  BY <1>4
<1>7. junk \in Seq(Characters)
  <2>1. <<"junk", 0>> \in Characters
    BY DEF Characters
  <2>2. <<>> \in Seq(Characters) /\ <<<<"junk", 0>>>> \in Seq(Characters)
    BY <2>1
  <2>3. junk = <<>> \/ junk = <<<<"junk", 0>>>>
    BY <1>6 DEF Beyond
  <2> QED
    BY <2>2, <2>3
<1>8. /\ got \in [Clients -> Seq(Characters)]
      /\ got' \in [Clients -> Seq(Characters)]
      /\ got'[c] = got[c] \o Taken(c) \o junk
      /\ \A d \in Clients \ {c} : got'[d] = got[d]
  <2>1. got \in [Clients -> Seq(Characters)] /\ got[c] \in Seq(Characters)
    BY <1>1, <1>2 DEF TypeOK
  <2>2. got[c] \o Taken(c) \o junk \in Seq(Characters)
    BY <2>1, <1>3, <1>7
  <2> QED
    BY <2>1, <2>2, <1>2, <1>6
<1> HIDE DEF c, n
<1>9. TypeOK'
  <2>1. \A d \in Clients : rcv'[d] <= sent'[d]
    BY <1>3, <1>4, <1>5, SizesAssumption
  <2>2. overrun' \in BOOLEAN
    BY <1>1, <1>4 DEF TypeOK
  <2>3. open' \subseteq open /\ ready' \subseteq ready /\ events' \subseteq events
    BY <1>4
  <2> QED
    BY <1>1, <1>3, <1>4, <1>5, <1>8, <2>1, <2>2, <2>3 DEF TypeOK
<1>10. \A f \in events' : f \in events /\ f.fd # c
  BY <1>4 DEF EventsAreLive, c
<1>11. \A fd \in Watched : fd # c => (Readable(fd)' <=> Readable(fd))
  BY <1>1, <1>4, <1>5 DEF Readable, Watched, TypeOK
<1>12. EventsAreLive'
  <2>1. \A f \in events' : Readable(f.fd)' /\ f.fd \in open' \cup {listen_sock}
    BY <1>4, <1>10, <1>11 DEF EventsAreLive, Watched
  <2>2. \A f, g \in events' : f.fd = g.fd => f = g
    BY <1>10 DEF EventsAreLive
  <2>3. c \notin open' => c \in shut
    BY <1>2, <1>4 DEF Lists, c
  <2>4. \A d \in Clients : sent'[d] > 0 /\ d \notin shut' => d \in Connected'
    BY <1>4, <2>3 DEF EventsAreLive, Connected
  <2> QED
    BY <1>9, <2>1, <2>2, <2>4 DEF EventsAreLive
<1>13. Lists'
  <2>1. ready' \subseteq Watched'
    BY <1>4 DEF Lists, Watched
  <2> QED
    BY <1>4, <1>10, <2>1 DEF Lists
<1>14. WorkIsNoted'
  <2> SUFFICES ASSUME ~late PROVE WorkIsNoted'
    BY <1>4 DEF WorkIsNoted
  <2>1. WorkIsNoted!2
    BY DEF WorkIsNoted
  <2>2. ASSUME NEW d \in open' \ rushed', Readable(d)' PROVE d \in ready' \cup Evented'
    <3>0. d \in Clients /\ d \in open
      BY <1>1, <1>4 DEF TypeOK
    <3>1. CASE d # c
      <4>1. Readable(d)
        BY <3>0, <3>1, <2>2, <1>11 DEF Watched
      <4>2. d \in ready \cup Evented
        BY <3>0, <4>1, <2>1, <2>2, <1>4
      <4>3. d \in Evented => d \in Evented'
        BY <3>1, <1>4 DEF Evented, c
      <4> QED
        BY <4>2, <4>3, <3>1, <1>4
    <3>2. CASE d = c
      <4>1. ~e.hup /\ c \notin shut
        BY <3>2, <1>4, <2>1 DEF c
      <4>2. rcv[c] <= BufSize
        BY <1>2, <1>4, <2>1, <2>2, <3>2
      <4>3. n = rcv[c]
        <5>1. n = IF rcv[c] < BufSize THEN rcv[c] ELSE BufSize
          BY <1>2, <1>5, SizesAssumption DEF n, Taken
        <5> QED
          BY <5>1, <4>2, <1>2, <1>5, SizesAssumption
      <4> QED
        BY <1>2, <1>4, <1>5, <2>2, <3>2, <4>1, <4>3 DEF Readable
    <3> QED
      BY <3>1, <3>2
  <2>3. backlog' # <<>> /\ Head(backlog') \notin rushed' =>
          listen_sock \in ready' \cup Evented'
    <3>1. listen_sock \in Evented => listen_sock \in Evented'
      BY <1>2, <1>4 DEF Evented, c
    <3> QED
      BY <1>2, <1>4, <2>1, <3>1
  <2>4. \A d \in Clients \ rushed' : rcv'[d] <= BufSize
    BY <1>3, <1>4, <1>5, <2>1, SizesAssumption
  <2>5. ASSUME NEW d \in Connected' \cap shut' PROVE rcv'[d] > 0
    <3>1. d \in Connected \cap shut /\ d \in Clients
      BY <1>1, <1>4 DEF Connected, TypeOK
    <3>2. d # c
      <4>1. c \notin ToSet(backlog)
        BY <1>1, <1>2 DEF TypeOK
      <4>2. c \in shut => e.hup
        BY <2>1 DEF c
      <4> QED
        BY <1>4, <4>1, <4>2, <2>5 DEF Connected
    <3> QED
      BY <1>5, <2>1, <3>1, <3>2
  <2> QED
    BY <1>4, <1>10, <2>1, <2>2, <2>3, <2>4, <2>5 DEF WorkIsNoted
<1>15. EchoIsPrefix'
  <2> SUFFICES ASSUME ~overrun' PROVE
        \A d \in Clients : /\ Len(got'[d]) = sent'[d] - rcv'[d]
                           /\ \A k \in 1..Len(got'[d]) : got'[d][k] = <<d, k>>
    BY DEF EchoIsPrefix
  <2>1. ~overrun /\ n # BufSize
    BY <1>4
  <2>2. junk = <<>>
    BY <2>1, <1>6
  <2> DEFINE m == sent[c] - rcv[c]
             t == Taken(c)
             g == got[c]
  <2>3. /\ g \in Seq(Characters) /\ Len(g) = m /\ \A k \in 1..Len(g) : g[k] = <<c, k>>
    BY <2>1, <1>2, <1>8 DEF EchoIsPrefix
  <2>4. t \in Seq(Characters) /\ Len(t) = n /\ \A k \in 1..n : t[k] = <<c, m + k>>
    BY <1>3 DEF n
  <2>5. got'[c] = g \o t
    <3>1. got'[c] = g \o t \o <<>>
      BY <2>2, <1>8
    <3>2. g \o t \o <<>> = g \o t
      <4> HIDE DEF g, t
      <4>1. g \in Seq(Characters) /\ t \in Seq(Characters)
        BY <2>3, <2>4
      <4> QED
        BY <4>1
    <3> QED
      BY <3>1, <3>2
  <2> HIDE DEF t, g
  <2>6. m \in Nat /\ n \in Nat /\ sent'[c] - rcv'[c] = m + n
    <3>1. /\ sent[c] \in Nat /\ rcv[c] \in Nat /\ rcv[c] <= sent[c]
          /\ sent'[c] = sent[c] /\ n \in Nat /\ rcv'[c] = rcv[c] - n
      <4>1. sent[c] \in 0..MaxSend /\ rcv[c] \in Nat
        BY <1>2, <1>5
      <4> QED
        BY <4>1, <1>2, <1>3, <1>4, <1>5, SizesAssumption
    <3> QED
      BY <3>1
  <2>7. /\ Len(g \o t) = m + n
        /\ \A k \in 1..m : (g \o t)[k] = g[k]
        /\ \A k \in m + 1..m + n : (g \o t)[k] = t[k - m]
    <3>1. Len(g) = m /\ Len(t) = n
      BY <2>3, <2>4
    <3>2. g \in Seq(Characters) /\ t \in Seq(Characters)
      BY <2>3, <2>4
    <3>3. /\ Len(g \o t) = Len(g) + Len(t)
          /\ \A k \in 1..Len(g) : (g \o t)[k] = g[k]
          /\ \A k \in Len(g) + 1..Len(g) + Len(t) : (g \o t)[k] = t[k - Len(g)]
      <4>1. \A a, b \in Seq(Characters) : Len(a \o b) = Len(a) + Len(b)
              /\ (\A k \in 1..Len(a) : (a \o b)[k] = a[k])
              /\ (\A k \in Len(a) + 1..Len(a) + Len(b) : (a \o b)[k] = b[k - Len(a)])
        OBVIOUS
      <4> QED
        BY <3>2, <4>1, Zenon
    <3> QED
      BY <3>1, <3>3, Zenon
  <2>8. \A k \in 1..m + n : got'[c][k] = <<c, k>>
    <3> SUFFICES ASSUME NEW k \in 1..m + n PROVE got'[c][k] = <<c, k>>
      OBVIOUS
    <3>1. CASE k <= m
      BY <3>1, <2>3, <2>5, <2>6, <2>7
    <3>2. CASE k > m
      <4>1. n \in Nat
        BY <1>3
      <4>2. k - m \in 1..n /\ k \in m + 1..m + n
        BY <3>2, <2>6, <4>1
      <4>3. t[k - m] = <<c, m + (k - m)>>
        BY <4>2, <2>4
      <4>4. m + (k - m) = k
        BY <2>6, <4>1
      <4> QED
        BY <4>2, <4>3, <4>4, <2>5, <2>7
    <3> QED
      BY <3>1, <3>2, <2>6
  <2>9. \A d \in Clients \ {c} : got'[d] = got[d] /\ sent'[d] - rcv'[d] = sent[d] - rcv[d]
    BY <1>4, <1>5, <1>8
  <2>10. Len(got'[c]) = m + n
    BY <2>5, <2>7
  <2> QED
    BY <2>1, <2>6, <2>8, <2>9, <2>10 DEF EchoIsPrefix
<1> QED
  BY <1>12, <1>13, <1>14, <1>15

LEMMA ExitInv == ASSUME Inv, Exit PROVE Inv'
<1> USE DEF Inv
<1>1. TypeOK'
  BY DEF Exit, EventsAreLive, TypeOK, clientVars
<1>2. EventsAreLive'
  BY <1>1 DEF Exit, EventsAreLive, Readable, Connected, clientVars
<1> QED
  BY <1>2 DEF Exit, Lists, Watched, WorkIsNoted, EchoIsPrefix, clientVars

LEMMA StutterInv == ASSUME Inv, UNCHANGED vars PROVE Inv'
<1> USE DEF Inv, vars, clientVars, serverVars
<1>1. TypeOK'
  BY DEF EventsAreLive, TypeOK
<1>2. EventsAreLive'
  BY <1>1 DEF EventsAreLive, Readable, Connected
<1>3. Lists' /\ EchoIsPrefix'
  BY DEF Lists, Watched, EchoIsPrefix
<1>4. WorkIsNoted'
  BY DEF WorkIsNoted, Evented, Readable, Connected
<1> QED
  BY <1>2, <1>3, <1>4

-----------------------------------------------------------------------------
LEMMA InvAlways == Spec => []Inv
<1>1. Inv /\ [Next]_vars => Inv'
  <2> SUFFICES ASSUME Inv, [Next]_vars PROVE Inv'
    OBVIOUS
  <2>1. ASSUME NEW c \in Clients, Client(c) PROVE Inv'
    BY <2>1, ConnectInv, SendInv, EndSendingInv DEF Client
  <2>2. CASE epoll_wait
    BY <2>2, WaitInv
  <2>3. ASSUME NEW e \in events, Handle(e) PROVE Inv'
    BY <2>3, AcceptInv, ReadNothingInv, ReadInv DEF Handle
  <2>4. CASE Exit
    BY <2>4, ExitInv
  <2>5. CASE UNCHANGED vars
    BY <2>5, StutterInv
  <2> QED
    BY <2>1, <2>2, <2>3, <2>4, <2>5 DEF Next, Server
<1> QED
  BY <1>1, InitInv, PTL DEF Spec

(* What comes back to a client is what it sent, in order, until a read     *)
(* fills the buffer: kBufSize may have any value, and so may the texts.    *)
THEOREM EchoInOrder == Spec => []EchoIsPrefix
<1>1. Inv => EchoIsPrefix
  BY DEF Inv
<1> QED
  BY <1>1, InvAlways, PTL

(* Every event is about an open connection with something to read, or a    *)
(* backlog that is not empty: no read and no accept can block, and nobody  *)
(* is closed who still sends.                                              *)
THEOREM EventsStayLive == Spec => []EventsAreLive
<1>1. Inv => EventsAreLive
  BY DEF Inv
<1> QED
  BY <1>1, InvAlways, PTL

(* The server sleeps in epoll_wait only when all work of the clients that  *)
(* do not rush has an edge that will wake it, until a client ends late:    *)
(* the conditions are on what the clients do, at the moment they do it.    *)
THEOREM WorkRemembered == Spec => []NoForgottenWork
<1>1. Inv => NoForgottenWork
  BY DEF Inv, WorkIsNoted, Lists, Evented, NoForgottenWork
<1> QED
  BY <1>1, InvAlways, PTL
=============================================================================
