------------------------------ MODULE Processes ------------------------------
(***************************************************************************)
(* Programs that fork and wait: 11_processes/0-2, 12_exec/1 and 15_pipes/0.*)
(* Each process has its copy of main()'s variables and of stdio's buffer;  *)
(* a fork may fail, and an exec that fails returns into main().            *)
(***************************************************************************)
EXTENDS Naturals, Sequences, FiniteSets

CONSTANTS
  Programs,
  Size,         \* numbers to print, words to count, bytes a command may write
  Buffer,       \* words that one read of stdio fetches
  Slots,        \* processes the system admits
  MaxFailures   \* forks that fail although there is a slot

ProcessAssumption ==
  /\ Programs \subseteq {"limit", "numbers", "words", "gcc", "launch"}
  /\ Size \in Nat \ {0} /\ Buffer \in Nat \ {0} /\ MaxFailures \in Nat
  /\ Slots \in Nat /\ Slots > 3

VARIABLES
  program,
  given,        \* what the program finds: see Init
  procs,        \* the processes in the order of their creation
  left,         \* words of the input that nobody has read
  temp,         \* the file _temp_: "none", left by an "old" run, "new"
  pipe,         \* bytes in the pipe, and those written so far
  out,          \* stdout
  failures      \* history: forks that failed

vars == <<program, given, procs, left, temp, pipe, out, failures>>

NoChild == 0
newline == 0

(* n is counter, i, count, the number of the exec, or total_count.         *)
Process(pc, n, buf) ==
  [pc |-> pc, n |-> n, child |-> NoChild, status |-> 0, buf |-> buf]

(* The input may be a file or a pipe; the command, or gcc, may be missing, *)
(* and the expression may be wrong.                                        *)
InitWith(programs) ==
  /\ program \in programs
  /\ given \in [seekable : IF program = "words" THEN BOOLEAN ELSE {TRUE},
                executable : IF program \in {"gcc", "launch"} THEN BOOLEAN ELSE {TRUE},
                correct : IF program = "gcc" THEN BOOLEAN ELSE {TRUE}]
  /\ procs = <<Process("fork", CASE program \in {"limit", "gcc"} -> 1 [] OTHER -> 0, <<>>)>>
  /\ left = IF program = "words" THEN Size ELSE 0
  /\ temp \in IF program = "gcc" THEN {"none", "old"} ELSE {"none"}
  /\ pipe = [bytes |-> 0, written |-> 0]
  /\ out = <<>> /\ failures = 0
Init == InitWith(Programs)
Unmounted == InitWith({"none"})

-----------------------------------------------------------------------------
me(p) == procs[p]
Alive == Cardinality({p \in DOMAIN procs : procs[p].pc # "exited"})
Goto(p, pc) == procs' = [procs EXCEPT ![p].pc = pc]

(* Where parent and child are after a fork.                                *)
ParentAt == IF program = "launch" THEN "read" ELSE "wait"
ChildAt == CASE program = "limit" -> "fork" [] program = "numbers" -> "print"
             [] program = "words" -> "scanf" [] OTHER -> "exec"

Fork(p) ==
  /\ me(p).pc = "fork" /\ Alive < Slots
  /\ LET n == IF program = "limit" THEN me(p).n + 1 ELSE me(p).n
     IN procs' = Append([procs EXCEPT ![p].pc = ParentAt, ![p].n = n, ![p].child = Len(procs) + 1],
                        Process(ChildAt, n, me(p).buf))
  /\ UNCHANGED <<program, given, left, temp, pipe, out, failures>>

(* Only 11_processes/0 looks at -1; the others take it for a child.        *)
ForkFails(p) ==
  /\ me(p).pc = "fork" /\ (Alive = Slots \/ failures < MaxFailures)
  /\ failures' = failures + 1
  /\ procs' = [procs EXCEPT ![p].pc = IF program = "limit" THEN "print" ELSE ParentAt,
                            ![p].child = NoChild]
  /\ UNCHANGED <<program, given, left, temp, pipe, out>>

(* waitpid(pid, &status): where there is no child it fails at once, and    *)
(* status is what it was, or what was on the stack.                        *)
ChildGone(p) == me(p).child # NoChild => procs[me(p).child].pc = "exited"
Status(p) == IF me(p).child # NoChild THEN {procs[me(p).child].status} ELSE {0, 1}

Waitpid(p) ==
  /\ me(p).pc = "wait" /\ ChildGone(p)
  /\ \/ program = "limit" /\ Goto(p, "exit")
     \/ program = "numbers"
        /\ procs' = [procs EXCEPT ![p].n = @ + 1,
                                  ![p].pc = IF me(p).n + 1 = Size THEN "print" ELSE "fork"]
     \/ program = "words"
        /\ \E status \in Status(p) :
             procs' = [procs EXCEPT ![p].n = IF status = 0 THEN @ ELSE @ + 1,
                                    ![p].pc = IF status = 0 THEN "print" ELSE "fork"]
     \/ program = "gcc"
        /\ procs' = [procs EXCEPT ![p].n = 2, ![p].child = NoChild,
                                  ![p].pc = IF me(p).n = 1 THEN "fork" ELSE "remove"]
     \/ program = "launch" /\ Goto(p, "print")
  /\ UNCHANGED <<program, given, left, temp, pipe, out, failures>>

(* printf fills the process's own buffer, which exit writes; a child of    *)
(* 11_processes/1 prints i + 1 and main() the end of the line.             *)
Printed(p) == CASE program = "numbers" -> IF p = 1 THEN newline ELSE me(p).n + 1
                [] OTHER -> me(p).n
StaysInLoop(p) == IF program = "numbers" /\ me(p).n + 1 < Size THEN "fork" ELSE "exit"
AfterPrint(p) == "exit"

Printf(p) ==
  /\ me(p).pc = "print"
  /\ procs' = [procs EXCEPT ![p].buf = Append(@, Printed(p)), ![p].pc = AfterPrint(p)]
  /\ UNCHANGED <<program, given, left, temp, pipe, out, failures>>

Exit(p) ==
  /\ me(p).pc = "exit"
  /\ out' = out \o me(p).buf
  /\ Goto(p, "exited")
  /\ UNCHANGED <<program, given, left, temp, pipe, failures>>

-----------------------------------------------------------------------------
(* 11_processes/2: scanf fetches a buffer full of words and takes one; the *)
(* exit gives the others back where the input can be sought.               *)
Fetched == IF left < Buffer THEN left ELSE Buffer

Scanf(p) ==
  /\ me(p).pc = "scanf"
  /\ left' = IF left = 0 THEN 0 ELSE IF given.seekable THEN left - 1 ELSE left - Fetched
  /\ procs' = [procs EXCEPT ![p].status = IF left = 0 THEN 0 ELSE 1, ![p].pc = "exit"]
  /\ UNCHANGED <<program, given, temp, pipe, out, failures>>

(* 12_exec/1: a child that cannot execute goes on as its parent does, with *)
(* no child to wait for; that of 15_pipes/0 returns.                       *)
CanExecute(p) == IF program = "gcc" /\ me(p).n = 2 THEN temp # "none" ELSE given.executable

Exec(p) ==
  /\ me(p).pc = "exec"
  /\ \/ /\ CanExecute(p)
        /\ procs' = [procs EXCEPT ![p].pc = "executed", ![p].buf = <<>>]
     \/ ~CanExecute(p) /\ Goto(p, IF program = "gcc" THEN "wait" ELSE "exit")
  /\ UNCHANGED <<program, given, left, temp, pipe, out, failures>>

(* The programs executed: gcc, which may or may not delete what it could   *)
(* not make, the compiled program, and a command that writes as it likes.  *)
Executed(p) ==
  /\ me(p).pc = "executed"
  /\ \/ /\ program = "gcc" /\ me(p).n = 1
        /\ temp' \in IF given.correct THEN {"new"} ELSE {temp, "none"}
        /\ Goto(p, "exited") /\ UNCHANGED <<pipe, out>>
     \/ /\ program = "gcc" /\ me(p).n = 2
        /\ out' = Append(out, temp)
        /\ Goto(p, "exited") /\ UNCHANGED <<temp, pipe>>
     \/ /\ program = "launch" /\ pipe.written < Size
        /\ pipe' = [bytes |-> pipe.bytes + 1, written |-> pipe.written + 1]
        /\ UNCHANGED <<procs, temp, out>>
     \/ program = "launch" /\ Goto(p, "exited") /\ UNCHANGED <<temp, pipe, out>>
  /\ UNCHANGED <<program, given, left, failures>>

Remove(p) ==
  /\ me(p).pc = "remove"
  /\ temp' = "none" /\ Goto(p, "exit")
  /\ UNCHANGED <<program, given, left, pipe, out, failures>>

(* 15_pipes/0: read until the child, the last writer of the pipe, is gone. *)
Read(p) ==
  /\ me(p).pc = "read"
  /\ \/ \E count \in 1..pipe.bytes :
          /\ procs' = [procs EXCEPT ![p].n = @ + count]
          /\ pipe' = [pipe EXCEPT !.bytes = @ - count]
     \/ pipe.bytes = 0 /\ ChildGone(p) /\ Goto(p, "wait") /\ UNCHANGED pipe
  /\ UNCHANGED <<program, given, left, temp, out, failures>>

-----------------------------------------------------------------------------
Step(p) ==
  /\ p \in DOMAIN procs
  /\ \/ Fork(p) \/ ForkFails(p) \/ Waitpid(p) \/ Printf(p) \/ Exit(p)
     \/ Scanf(p) \/ Exec(p) \/ Executed(p) \/ Remove(p) \/ Read(p)
Next == \E p \in DOMAIN procs : Step(p)
Ended == program # "none" => procs[1].pc = "exited"

-----------------------------------------------------------------------------
(* Nobody is left behind: when the first process has ended, all have.      *)
AllWaitedFor == procs[1].pc = "exited" => \A p \in DOMAIN procs : procs[p].pc = "exited"

(* Numbers come in order, each once, and main() ends the line; only those  *)
(* are missing whose fork failed.                                          *)
NumbersInOrder ==
  /\ \A i, j \in DOMAIN out : i < j /\ out[j] # newline => out[i] < out[j]
  /\ \A i \in DOMAIN out : out[i] = newline => i = Len(out)
  /\ procs[1].pc = "exited" => out # <<>> /\ out[Len(out)] = newline
                                 /\ Len(out) - 1 = Size - failures

(* The words of a file are counted; of a pipe one for each buffer full,    *)
(* although problem.md:6-7 of 11_processes/2 asks for all words.           *)
WordsCounted ==
  (procs[1].pc = "exited" /\ failures = 0) =>
     out = <<IF given.seekable THEN Size ELSE (Size + Buffer - 1) \div Buffer>>

(* The value is printed once, or nothing is, or the value of an old run    *)
(* that left its program behind; nothing is left behind by this one.       *)
ValuePrinted ==
  /\ Len(out) <= 1
  /\ procs[1].pc = "exited" =>
       /\ temp = "none"
       /\ (given.executable /\ given.correct /\ failures = 0) => out = <<"new">>

(* 11_processes/0 prints the length of the chain, once; 15_pipes/0 prints  *)
(* how many bytes the command has written.                                 *)
ProcessesRight ==
  /\ AllWaitedFor
  /\ program = "limit" => out = <<>> \/ out = <<Len(procs)>>
  /\ program = "numbers" => NumbersInOrder
  /\ program = "words" => WordsCounted
  /\ program = "gcc" => ValuePrinted
  /\ (program = "launch" /\ Ended) => out = <<pipe.written>>

(* The first process ends, whatever fails, if no more than MaxFailures     *)
(* forks do.  While every fork fails, 11_processes/2 counts on for as long *)
(* as the status it finds is not 0, which may be for ever.                 *)
ProcessesEnd == <>Ended
=============================================================================
