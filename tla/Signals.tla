------------------------------- MODULE Signals -------------------------------
(***************************************************************************)
(* The programs of 16_signals: main() tests a flag and pauses; the work is *)
(* done in handlers, which interrupt main() and each other between any two *)
(* instructions.  Each behaviour runs one program, ping-pong in two        *)
(* processes that play with each other.                                    *)
(***************************************************************************)
EXTENDS Integers, Sequences, FiniteSets, SequencesExt

CONSTANTS
  p, q,         \* processes; only ping-pong has a second one
  RtMax,        \* SIGRTMAX - SIGRTMIN, for signalfd-rtsig
  Files,        \* the arguments of signalfd-rtsig that name a file it can open
  Start,        \* first value of do-actions, and of the ball
  MaxSends      \* signals other programs send

BoundAssumption ==
  p # q /\ RtMax \in Nat \ {0} /\ Files \subseteq 1..RtMax /\ Start \in Nat /\ MaxSends \in Nat

(* Signals in the order in which the kernel delivers pending ones.         *)
INT == 2
USR1 == 10
USR2 == 12
TERM == 15
RT(k) == 34 + k
IsRealTime(s) == s >= RT(0)

VARIABLES
  program,
  ready,        \* process -> steps of its set-up it has done
  pc,           \* process -> where main() is
  stack,        \* process -> its running handlers, the last one on top
  pending,      \* process -> queued signals, with their values
  num,          \* process -> counter, or num
  exit_trigger, \* process -> the flag
  printed,      \* process -> numbers of the lines printed
  seen          \* history: what was sent, merged, meant, counted by SIGTERM; accidents

vars == <<program, ready, pc, stack, pending, num, exit_trigger, printed, seen>>

Programs == {"count", "actions", "rtsig", "pingpong"}
Procs == {p, q}

(* What main() does before its loop, in order.                             *)
Install(s) == [install |-> {s}, only |-> {}]
Unblock(S) == [install |-> {}, only |-> S]
SetUp ==
  CASE program = "count" -> <<Install(INT), Install(TERM)>>
    [] program = "actions" -> <<Install(USR1), Install(USR2), Install(TERM), Install(INT)>>
    [] program = "rtsig" -> [k \in 1..RtMax |-> Install(RT(k - 1))]
                              \o <<Unblock({RT(k) : k \in 0..RtMax - 1})>>
    [] program = "pingpong" -> <<Unblock({RT(0)}), Install(RT(0))>>
    [] OTHER -> <<>>

Installed(x) == UNION {SetUp[k].install : k \in 1..ready[x]}
Masks(x) == {SetUp[k].only : k \in 1..ready[x]} \ {{}}

(* The mask set last, and the signals whose handlers run.                  *)
OnlyMasked(x, s) == \E only \in Masks(x) : s \notin only
Blocked(x, s) ==
  \/ \E only \in Masks(x) : s \notin only
  \/ \E k \in DOMAIN stack[x] : stack[x][k].sig = s

Gone(x) == pc[x] \in {"ended", "killed"}

NothingSeen == [sends |-> 0, sent |-> [s \in {} |-> 0], merged |-> 0, meant |-> Start,
                told |-> 0, crossed |-> FALSE, missed |-> FALSE]

InitWith(programs) ==
  /\ program \in programs
  /\ ready = [x \in Procs |-> IF x = p THEN 0 ELSE Len(SetUp)]
  /\ pc = [x \in Procs |->
             IF x = p THEN "setup" ELSE IF program = "pingpong" THEN "test" ELSE "ended"]
  /\ stack = [x \in Procs |-> <<>>] /\ pending = [x \in Procs |-> <<>>]
  /\ num = [x \in Procs |-> IF program = "actions" THEN Start ELSE 0]
  /\ exit_trigger = [x \in Procs |-> FALSE]
  /\ printed = [x \in Procs |-> <<>>]
  /\ seen = NothingSeen

Init == InitWith(Programs)
Unmounted == InitWith({"none"})

-----------------------------------------------------------------------------
(* kill() and sigqueue(): of a standard signal one is pending at most.     *)
Queue(x, s, value) ==
  IF ~IsRealTime(s) /\ \E k \in DOMAIN pending[x] : pending[x][k].sig = s
  THEN pending ELSE [pending EXCEPT ![x] = Append(@, [sig |-> s, value |-> value])]

Sent(s) == IF s \in DOMAIN seen.sent THEN seen.sent[s] ELSE 0

(* What users send.  count-sigint tells them its number when it is ready;  *)
(* one ball is in play.                                                    *)
Sendable ==
  CASE program = "count" -> IF pc[p] # "setup" THEN {INT, TERM} ELSE {}
    [] program = "actions" -> {USR1, USR2, TERM, INT}
    [] program = "rtsig" -> {RT(k) : k \in 0..RtMax}
    [] program = "pingpong" -> IF seen.sends = 0 THEN {RT(0)} ELSE {}

Send ==
  /\ seen.sends < MaxSends
  /\ \E s \in Sendable :
       /\ pending' = Queue(p, s, Start)
       /\ seen' = [seen EXCEPT !.sends = @ + 1,
                               !.sent = [t \in DOMAIN @ \cup {s} |-> Sent(t) + IF t = s THEN 1 ELSE 0],
                               !.merged = IF s = INT /\ pending' = pending THEN @ + 1 ELSE @]
  /\ ~Gone(p)
  /\ UNCHANGED <<program, ready, pc, stack, num, exit_trigger, printed>>

(* The next pending signal: the lowest number, the first of its kind.      *)
Deliverable(x) == {k \in DOMAIN pending[x] : ~Blocked(x, pending[x][k].sig)}
Next_(x) == CHOOSE k \in Deliverable(x) : \A j \in Deliverable(x) :
              LET s == pending[x][k].sig  r == pending[x][j].sig
              IN s < r \/ (s = r /\ k <= j)

Meant(s, n) == IF s = USR1 THEN n + 1 ELSE IF s = USR2 THEN -n ELSE n
Acts(x) == \E k \in DOMAIN stack[x] : stack[x][k].sig \in {USR1, USR2}
InHandler(x, s) == Cardinality({k \in DOMAIN stack[x] : stack[x][k].sig = s})

(* Without a handler the process is killed.  pause() returns once the      *)
(* handler has run.                                                        *)
Deliver(x) ==
  LET k == Next_(x)
      s == pending[x][k].sig
  IN
  /\ ~Gone(x) /\ Deliverable(x) # {}
  /\ pending' = [pending EXCEPT ![x] = RemoveAt(@, k)]
  /\ IF s \notin Installed(x)
     THEN pc' = [pc EXCEPT ![x] = "killed"] /\ UNCHANGED <<stack, seen>>
     ELSE /\ stack' = [stack EXCEPT ![x] =
                         Append(@, [sig |-> s, value |-> pending[x][k].value, at |-> "enter", reg |-> 0])]
          /\ pc' = [pc EXCEPT ![x] = IF @ = "paused" THEN "test" ELSE @]
          /\ seen' = [seen EXCEPT !.meant = Meant(s, @),
                                  !.told = IF program = "count" /\ s = TERM /\ ~exit_trigger[x]
                                           THEN num[x] + InHandler(x, INT) ELSE @,
                                  !.crossed = @ \/ (s \in {USR1, USR2} /\ Acts(x))]
  /\ UNCHANGED <<program, ready, num, exit_trigger, printed>>

-----------------------------------------------------------------------------
(* The steps of the handler on top.                                        *)
Running(x) == stack[x] # <<>> /\ ~Gone(x)
Handler(x) == Last(stack[x])
Set(x, h) == stack' = [stack EXCEPT ![x] = Append(Front(@), h)]
Return(x) == stack' = [stack EXCEPT ![x] = Front(@)]
Counts(s) == s \in {USR1, USR2} \/ (s = INT /\ program = "count")

Load(x) ==
  /\ Running(x) /\ Counts(Handler(x).sig) /\ Handler(x).at = "enter"
  /\ Set(x, [Handler(x) EXCEPT !.at = "store", !.reg = num[x]])
  /\ UNCHANGED <<program, ready, pc, pending, num, exit_trigger, printed, seen>>

Result(s, n) == IF s = USR2 THEN -n ELSE n + 1

Store(x) ==
  /\ Running(x) /\ Handler(x).at = "store"
  /\ num' = [num EXCEPT ![x] = Result(Handler(x).sig, Handler(x).reg)]
  /\ IF program = "count" THEN Return(x) ELSE Set(x, [Handler(x) EXCEPT !.at = "print"])
  /\ UNCHANGED <<program, ready, pc, pending, exit_trigger, printed, seen>>

(* printf reads num once more.                                             *)
PrintNum(x) ==
  /\ Running(x) /\ Handler(x).at = "print"
  /\ printed' = [printed EXCEPT ![x] = Append(@, num[x])]
  /\ Return(x)
  /\ UNCHANGED <<program, ready, pc, pending, num, exit_trigger, seen>>

(* Every request opens the file anew and prints its first word: fscanf's   *)
(* %s stops at a blank.                                                    *)
PrintLine(x) ==
  /\ Running(x) /\ program = "rtsig" /\ Handler(x).sig \in {RT(k) : k \in Files}
  /\ printed' = [printed EXCEPT ![x] = Append(@, Handler(x).sig)]
  /\ Return(x)
  /\ UNCHANGED <<program, ready, pc, pending, num, exit_trigger, seen>>

(* fopen gives NULL for a file that is missing and beyond the arguments,   *)
(* and fscanf crashes on it.                                               *)
FileFails(x) ==
  /\ Running(x) /\ program = "rtsig"
  /\ Handler(x).sig \in {RT(k) : k \in (1..RtMax) \ Files}
  /\ pc' = [pc EXCEPT ![x] = "killed"]
  /\ UNCHANGED <<program, ready, stack, pending, num, exit_trigger, printed, seen>>

SetTrigger(x) ==
  /\ exit_trigger' = [exit_trigger EXCEPT ![x] = TRUE]
  /\ seen' = [seen EXCEPT !.missed = @ \/ pc[x] = "pause"]
  /\ Return(x)

Ends(x) ==
  \/ program = "rtsig" /\ Handler(x).sig = RT(0)
  \/ program = "count" /\ Handler(x).sig = TERM
  \/ program = "actions" /\ Handler(x).sig \in {TERM, INT}
  \/ program = "pingpong" /\ Handler(x).value = 0

TermHandler(x) ==
  /\ Running(x) /\ Ends(x) /\ SetTrigger(x)
  /\ UNCHANGED <<program, ready, pc, pending, num, printed>>

(* The ball goes back to the process that sent it.                         *)
SameBall(n) == n
NextBall(n) == n - 1
ReturnBall(x) ==
  /\ Running(x) /\ program = "pingpong" /\ ~Ends(x)
  /\ LET y == IF x = p THEN q ELSE p IN
     pending' = IF Gone(y) THEN pending ELSE Queue(y, RT(0), NextBall(Handler(x).value))
  /\ Return(x)
  /\ UNCHANGED <<program, ready, pc, num, exit_trigger, printed, seen>>

-----------------------------------------------------------------------------
(* main(), while no handler runs.                                          *)
MainRuns(x) == stack[x] = <<>> /\ ~Gone(x)

Prepare(x) ==
  /\ MainRuns(x) /\ pc[x] = "setup"
  /\ ready' = [ready EXCEPT ![x] = @ + 1]
  /\ pc' = [pc EXCEPT ![x] = IF ready[x] + 1 = Len(SetUp) THEN "test" ELSE @]
  /\ UNCHANGED <<program, stack, pending, num, exit_trigger, printed, seen>>

Test(x) ==
  /\ MainRuns(x) /\ pc[x] = "test"
  /\ pc' = [pc EXCEPT ![x] = IF exit_trigger[x] THEN "report" ELSE "pause"]
  /\ UNCHANGED <<program, ready, stack, pending, num, exit_trigger, printed, seen>>

Pause(x) ==
  /\ MainRuns(x) /\ pc[x] = "pause"
  /\ pc' = [pc EXCEPT ![x] = "paused"]
  /\ UNCHANGED <<program, ready, stack, pending, num, exit_trigger, printed, seen>>

(* Signals still come between the loop's end, printf's load and the exit.  *)
Report(x) ==
  /\ MainRuns(x) /\ pc[x] = "report"
  /\ pc' = [pc EXCEPT ![x] = "leaving"]
  /\ printed' = IF program = "count" THEN [printed EXCEPT ![x] = Append(@, num[x])] ELSE printed
  /\ UNCHANGED <<program, ready, stack, pending, num, exit_trigger, seen>>

Leave(x) ==
  /\ MainRuns(x) /\ pc[x] = "leaving"
  /\ pc' = [pc EXCEPT ![x] = "ended"]
  /\ UNCHANGED <<program, ready, stack, pending, num, exit_trigger, printed, seen>>

Step(x) ==
  \/ Deliver(x) \/ Load(x) \/ Store(x) \/ PrintNum(x) \/ PrintLine(x) \/ FileFails(x)
  \/ TermHandler(x) \/ ReturnBall(x) \/ Prepare(x) \/ Test(x) \/ Pause(x) \/ Report(x) \/ Leave(x)

Next == Send \/ \E x \in Procs : Step(x)
Fairness == \A x \in Procs : WF_vars(Step(x))
Spec == Init /\ [][Next]_vars
FairSpec == Spec /\ Fairness
-----------------------------------------------------------------------------
Pending(x, s) == Cardinality({k \in DOMAIN pending[x] : pending[x][k].sig = s})
Lines(x, s) == Cardinality({k \in DOMAIN printed[x] : printed[x][k] = s})

(* Every SIGINT is counted, unless it came while another one waited, and   *)
(* no signal kills count-sigint.  It prints one number, once: no fewer than *)
(* the SIGINTs handled before SIGTERM came, and those handled by the time   *)
(* printf reads the counter, which may be more: problem.md:6-7 asks for    *)
(* those that came before.                                                 *)
CountIsRight ==
  program = "count" =>
    /\ Sent(INT) = num[p] + seen.merged + Pending(p, INT) + InHandler(p, INT)
    /\ pc[p] # "killed"
    /\ printed[p] = <<>> \/ \E n \in seen.told..num[p] : printed[p] = <<n>>
    /\ pc[p] = "ended" => printed[p] # <<>>

(* The number of do-actions is what the delivered signals make of it, and  *)
(* is printed, as long as no handler of it interrupts the other: then an   *)
(* addition may be lost, which problem.md:6 of 16_signals/1 asks for.      *)
ActionsAreRight ==
  program = "actions" /\ ~seen.crossed /\ ~Acts(p) =>
    num[p] = seen.meant /\ (printed[p] # <<>> => Last(printed[p]) = num[p])

(* Each request is answered with one line: all but those of the last       *)
(* signal, which stays blocked, although problem.md:9-10 of 16_signals/2   *)
(* names it too.                                                           *)
LinesAreRight ==
  program = "rtsig" =>
    /\ \A k \in 1..RtMax : ~Gone(p) =>
         Sent(RT(k)) = Lines(p, RT(k)) + Pending(p, RT(k)) + InHandler(p, RT(k))
    /\ Lines(p, RT(RtMax)) = 0

(* One ball is in play until a player is gone, and the player who receives *)
(* 0 is the one who stops.                                                 *)
BallIsRight ==
  program = "pingpong" =>
    /\ Pending(p, RT(0)) + Pending(q, RT(0)) + InHandler(p, RT(0)) + InHandler(q, RT(0)) <= 1
    /\ ~(exit_trigger[p] /\ exit_trigger[q])
    /\ \A x \in Procs : \A k \in DOMAIN pending[x] :
         x = p <=> (Start - pending[x][k].value) % 2 = 0

(* Only a process that is not ready yet can be killed, and signalfd-rtsig   *)
(* by a request for a file it cannot open.                                 *)
SignalsKept ==
  /\ \A x \in Procs : pc[x] = "killed" =>
       \/ ready[x] < Len(SetUp)
       \/ program = "rtsig" /\ \E k \in (1..RtMax - 1) \ Files : Sent(RT(k)) > 0
  /\ CountIsRight /\ ActionsAreRight /\ LinesAreRight /\ BallIsRight

(* A process told to stop stops, unless it was told between its test of    *)
(* the flag and pause(); then it waits for another signal, although all    *)
(* four tasks ask it to end.  A ball that is served to a player who is     *)
(* ready comes to its end.                                                 *)
SignalsEnd ==
  /\ \A x \in Procs : exit_trigger[x] ~> Gone(x) \/ (seen.missed /\ pc[x] = "paused")
  /\ (program = "pingpong" /\ pc[p] \notin {"setup", "killed"} /\ pending[p] # <<>>)
       ~> \E x \in Procs : exit_trigger[x]
=============================================================================
