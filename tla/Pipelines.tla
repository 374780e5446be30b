----------------------------- MODULE Pipelines -----------------------------
(***************************************************************************)
(* 15_pipes/1 and 15_pipes/3: start CMD1 | CMD2 and CMD1 | ... | CMDN.     *)
(* Processes, descriptor tables, pipes and the commands are the kernel's   *)
(* and other people's; which ends each process is left holding, and who    *)
(* waits for whom in what order, is the programs'.  What a child does from *)
(* fork to exec touches its own descriptors only and is one step.          *)
(***************************************************************************)
EXTENDS Integers, SequencesExt

CONSTANTS CommandLines, \* the arguments the programs are given
          MaxCommands,  \* commands in a line
          InputLen,     \* items on the standard input
          Capacity,     \* items a pipe holds
          MaxOut        \* output is counted up to here

(* What a command does: write for ever, copy, copy one item, not exist.    *)
Kinds == {"yes", "cat", "head", "missing"}

ASSUME BoundsAssumption == /\ Capacity \in Nat \ {0} /\ InputLen \in Nat
                           /\ MaxOut \in Nat /\ MaxOut > InputLen
ASSUME LinesAssumption ==
  /\ MaxCommands \in Nat
  /\ \A line \in CommandLines :
       line \in Seq(Kinds) /\ Len(line) \in 1..MaxCommands

VARIABLES
  prog,    \* the program: "connect2" or "connectn"
  kinds,   \* the commands, argv[1], argv[2], ...
  proc,    \* the processes: program counter and local variables
  fd,      \* their descriptor tables
  pipes,   \* pipe -> items in it
  input, out  \* items left on the standard input, items written to the output

vars == <<prog, kinds, proc, fd, pipes, input, out>>

n == Len(kinds)

(* A process is named by the levels of the forks that lead to it, and so is *)
(* the pipe made before that fork.                                         *)
root == <<>>
Processes == DOMAIN proc
Terminal == <<-1>>
ReadEnd(p) == <<p, "r">>
WriteEnd(p) == <<p, "w">>
Names == {s \in UNION {[1..len -> 0..MaxCommands - 1] : len \in 0..MaxCommands} :
            \A a, b \in DOMAIN s : a < b => s[a] < s[b]}

Init ==
  /\ prog \in {"connect2", "connectn"}
  /\ kinds \in CommandLines /\ (prog = "connect2" => n = 2)
  /\ proc = [q \in {root} |->
               [pc |-> IF prog = "connect2" THEN "pipe" ELSE "start",
                i |-> 0, prev_out |-> 0, fds_pair |-> <<0, 0>>,
                pids |-> <<>>, item |-> 0]]
  /\ fd = [q \in {root} |-> [d \in 0..1 |-> IF d = 0 THEN ReadEnd(Terminal)
                                                     ELSE WriteEnd(Terminal)]]
  /\ pipes = [p \in {} |-> 0] /\ input = InputLen /\ out = 0

At(q, pc) == q \in Processes /\ proc[q].pc = pc
Become(q, new) == proc' = [proc EXCEPT ![q] = new]
Goto(q, pc) == Become(q, [proc[q] EXCEPT !.pc = pc])

-----------------------------------------------------------------------------
(* The kernel.                                                             *)

Dup2(f, old, new) ==
  IF old \notin DOMAIN f THEN f
  ELSE [d \in DOMAIN f \cup {new} |-> IF d = new THEN f[old] ELSE f[d]]

Close(f, ds) == [d \in DOMAIN f \ ds |-> f[d]]

(* Descriptors are the lowest free ones; 2 is the standard error.          *)
FreePair(f) == CHOOSE rw \in (3..6) \X (3..6) :
  /\ rw[1] < rw[2] /\ rw[1] \notin DOMAIN f /\ rw[2] \notin DOMAIN f
  /\ \A d \in 3..rw[2] : d \in DOMAIN f \cup {rw[1], rw[2]}

Holds(q, end) == q \in Processes /\ \E d \in DOMAIN fd[q] : fd[q][d] = end
Holders(end) == {q \in Processes : Holds(q, end)}

Exit(q) ==
  /\ Goto(q, "exited")
  /\ fd' = [fd EXCEPT ![q] = [d \in {} |-> 0]]

Children(q) == {c \in Processes : Len(c) > 0 /\ Front(c) = q /\ proc[c].pc # "reaped"}

-----------------------------------------------------------------------------
(* The programs.                                                           *)

last(q) == proc[q].i + 1 = n

(* StartProcess: the read end of the previous pipe becomes descriptor 0.   *)
StartProcess(q) ==
  /\ At(q, "start")
  /\ Goto(q, IF proc[q].i < n THEN "pipe" ELSE "wait")
  /\ fd' = IF proc[q].i \in 1..n - 1
           THEN [fd EXCEPT ![q] = Close(Dup2(@, proc[q].prev_out, 0),
                                        {proc[q].prev_out})]
           ELSE fd
  /\ UNCHANGED <<prog, kinds, pipes, input, out>>

Pipe(q) ==
  /\ At(q, "pipe")
  /\ LET rw == FreePair(fd[q])
         p == Append(q, proc[q].i) IN
       /\ Become(q, [proc[q] EXCEPT !.pc = "fork", !.fds_pair = rw])
       /\ fd' = [fd EXCEPT ![q] = [d \in DOMAIN @ \cup {rw[1], rw[2]} |->
                                     IF d = rw[1] THEN ReadEnd(p)
                                     ELSE IF d = rw[2] THEN WriteEnd(p) ELSE @[d]]]
       /\ pipes' = [x \in DOMAIN pipes \cup {p} |-> IF x = p THEN 0 ELSE pipes[x]]
  /\ UNCHANGED <<prog, kinds, input, out>>

(* The pids to wait for: the recursion of connectn returns to the newest    *)
(* first.  A child has 0 there, which is root's name.                      *)
RememberLast(pids, pid) == <<pid>>
Remember(pids, pid) == IF prog = "connect2" THEN Append(pids, pid)
                                            ELSE <<pid>> \o pids

(* Where a process goes on after a fork, the child too if its exec fails.  *)
AfterFork(s) ==
  IF prog = "connect2" /\ s.i = 0 THEN [s EXCEPT !.pc = "fork", !.i = 1]
                                  ELSE [s EXCEPT !.pc = "close"]

Fork(q) ==
  /\ At(q, "fork")
  /\ LET c == Append(q, proc[q].i)
         mine == [proc[q] EXCEPT !.pids = Remember(@, c)]
         its == [proc[q] EXCEPT !.pids = Remember(@, root), !.pc = "child"] IN
       /\ proc' = [x \in Processes \cup {c} |->
                     IF x = c THEN its ELSE IF x = q THEN AfterFork(mine) ELSE proc[x]]
       /\ fd' = [x \in Processes \cup {c} |-> IF x = c THEN fd[q] ELSE fd[x]]
  /\ UNCHANGED <<prog, kinds, pipes, input, out>>

RedirectedOpen(q) ==
  IF last(q) THEN fd[q] ELSE Dup2(fd[q], proc[q].fds_pair[2], 1)
RedirectedAll(q) ==
  Close(Dup2(fd[q], proc[q].fds_pair[2], 1),
        {proc[q].fds_pair[1], proc[q].fds_pair[2]})

(* The child of level i: connect2 also sets descriptor 0 here.             *)
Redirected(q) ==
  LET f == fd[q]
      r == proc[q].fds_pair[1]
      w == proc[q].fds_pair[2]
      g == IF prog = "connect2" /\ last(q) THEN Dup2(f, r, 0)
           ELSE IF last(q) THEN f ELSE Dup2(f, w, 1) IN
    Close(g, {r, w})

Child(q) ==
  /\ At(q, "child")
  /\ fd' = [fd EXCEPT ![q] = Redirected(q)]
  /\ Goto(q, "exec")
  /\ UNCHANGED <<prog, kinds, pipes, input, out>>

Kind(q) == kinds[proc[q].i + 1]

Execlp(q) ==
  /\ At(q, "exec")
  /\ \/ Kind(q) # "missing" /\ Goto(q, "run")
     \/ Kind(q) = "missing" /\ Become(q, AfterFork(proc[q]))
  /\ UNCHANGED <<prog, kinds, fd, pipes, input, out>>

CloseReadOnly(q) == {proc[q].fds_pair[1]}
ToClose(q) == IF prog = "connect2" THEN {proc[q].fds_pair[1], proc[q].fds_pair[2]}
                                   ELSE {proc[q].fds_pair[2]}

CloseEnds(q) ==
  /\ At(q, "close")
  /\ fd' = [fd EXCEPT ![q] = Close(@, ToClose(q))]
  /\ Become(q, IF prog = "connect2" THEN [proc[q] EXCEPT !.pc = "wait"]
               ELSE [proc[q] EXCEPT !.pc = "start", !.i = @ + 1,
                                    !.prev_out = proc[q].fds_pair[1]])
  /\ UNCHANGED <<prog, kinds, pipes, input, out>>

(* waitpid: of 0 any child will do; without a child to wait for it fails    *)
(* at once.                                                                *)
Waitpid(q) ==
  /\ At(q, "wait") /\ proc[q].pids # <<>>
  /\ LET pid == Head(proc[q].pids)
         awaited == IF pid = root THEN Children(q) ELSE Children(q) \cap {pid}
         next == [proc[q] EXCEPT !.pids = Tail(@)] IN
       \/ awaited = {} /\ Become(q, next)
       \/ \E c \in awaited :
            At(c, "exited") /\ proc' = [proc EXCEPT ![c].pc = "reaped", ![q] = next]
  /\ UNCHANGED <<prog, kinds, fd, pipes, input, out>>

Return(q) ==
  /\ At(q, "wait") /\ proc[q].pids = <<>>
  /\ Exit(q)
  /\ UNCHANGED <<prog, kinds, pipes, input, out>>

Program(q) == \/ StartProcess(q) \/ Pipe(q) \/ Fork(q) \/ Child(q) \/ Execlp(q)
              \/ CloseEnds(q) \/ Waitpid(q) \/ Return(q)

-----------------------------------------------------------------------------
(* The commands.                                                           *)

Stdin(q) == fd[q][0][1]
Stdout(q) == fd[q][1][1]
Got(q, k) == Become(q, [proc[q] EXCEPT !.item = k])

Read(q) ==
  /\ At(q, "run") /\ Kind(q) # "yes" /\ proc[q].item = 0
  /\ LET p == Stdin(q) IN
       \/ p = Terminal /\ input > 0 /\ input' = input - 1
          /\ Got(q, 1) /\ UNCHANGED <<pipes, fd>>
       \/ p # Terminal /\ pipes[p] > 0 /\ pipes' = [pipes EXCEPT ![p] = @ - 1]
          /\ Got(q, 1) /\ UNCHANGED <<input, fd>>
       \/ (IF p = Terminal THEN input = 0 ELSE pipes[p] = 0 /\ Holders(WriteEnd(p)) = {})
          /\ Exit(q) /\ UNCHANGED <<pipes, input>>
  /\ UNCHANGED <<prog, kinds, out>>

Written(q) == IF Kind(q) = "head" THEN Exit(q) ELSE Got(q, 0) /\ UNCHANGED fd

Write(q) ==
  /\ At(q, "run") /\ (Kind(q) = "yes" \/ proc[q].item = 1)
  /\ LET p == Stdout(q) IN
       \/ p = Terminal /\ out' = (IF out < MaxOut THEN out + 1 ELSE out)
          /\ Written(q) /\ UNCHANGED pipes
       \/ p # Terminal /\ Holders(ReadEnd(p)) # {} /\ pipes[p] < Capacity
          /\ pipes' = [pipes EXCEPT ![p] = @ + 1] /\ Written(q) /\ UNCHANGED out
       \/ p # Terminal /\ Holders(ReadEnd(p)) = {}   \* SIGPIPE
          /\ Exit(q) /\ UNCHANGED <<pipes, out>>
  /\ UNCHANGED <<prog, kinds, input>>

-----------------------------------------------------------------------------
Step(q) == Program(q) \/ Read(q) \/ Write(q)
Done == At(root, "exited")

Next == (\E q \in Processes : Step(q)) \/ (Done /\ UNCHANGED vars)

Spec == Init /\ [][Next]_vars

(* The kernel runs every process that is not blocked.                      *)
FairSpec == Spec /\ \A q \in Names : WF_vars(q \in Processes /\ Step(q))

-----------------------------------------------------------------------------
(* Properties.                                                             *)

(* Every variable has its type, and descriptors refer to pipes that exist. *)
TypeOK ==
  /\ kinds \in CommandLines
  /\ Processes \subseteq Names /\ DOMAIN fd = Processes
  /\ \A q \in Processes :
       /\ DOMAIN fd[q] \subseteq 0..4
       /\ \A d \in DOMAIN fd[q] : fd[q][d][1] \in DOMAIN pipes \cup {Terminal}
       /\ proc[q].i \in 0..n /\ proc[q].item \in 0..1
  /\ \A p \in DOMAIN pipes : p \in Names /\ pipes[p] \in 0..Capacity
  /\ input \in 0..InputLen /\ out \in 0..MaxOut

(* A running command holds its two ends and no other, and the write end of *)
(* a pipe is left only with the command that feeds it once the program     *)
(* waits: else its reader never sees the end of its input.  Every          *)
(* descriptor refers to a pipe that exists.                                *)
NoStrayWriter ==
  /\ TypeOK
  /\ \A q \in Processes : At(q, "run") => DOMAIN fd[q] = {0, 1}
  /\ \A q \in Processes : At(q, "wait") /\ q = root =>
       \A p \in DOMAIN pipes : ~Holds(q, WriteEnd(p))

(* The parent exits last: nothing it started, directly or not, runs on.    *)
ParentLast == Done => \A q \in Processes \ {root} : At(q, "reaped")

(* The number of items CMD1 | ... | CMDN writes.                           *)
NoneMissing == \A j \in 1..n : kinds[j] # "missing"
Ideal ==
  LET items[j \in 0..n] ==
        IF j = 0 THEN InputLen
        ELSE IF kinds[j] = "yes" THEN MaxOut
        ELSE IF kinds[j] = "head" /\ items[j - 1] > 0 THEN 1 ELSE items[j - 1]
  IN items[n]

(* What was written is what the command line would write.                  *)
OutputAsShell == Done /\ NoneMissing => out = Ideal

(* A pipeline ends if after every command that writes for ever there is    *)
(* one that stops reading.                                                 *)
Finite == \A j \in 1..n : kinds[j] = "yes" =>
            \E k \in j + 1..n : kinds[k] \in {"head", "missing"}

(* A command line that ends, ends when started by the programs.            *)
Terminates == Finite => <>Done

(* The last pipe of connectn is full, its reader is gone, and the parent,  *)
(* whose descriptor 0 is still its read end, waits for its writer.         *)
KeptOpen ==
  /\ prog = "connectn" /\ At(root, "wait")
  /\ \E p \in DOMAIN pipes :
       pipes[p] = Capacity /\ Holders(ReadEnd(p)) # {}
         /\ \A q \in Holders(ReadEnd(p)) : At(q, "wait")

(* Nothing else ever keeps a finite command line from ending.              *)
TerminatesUnlessKeptOpen == Finite => <>(Done \/ KeptOpen)
=============================================================================
