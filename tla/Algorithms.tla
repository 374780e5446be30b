----------------------------- MODULE Algorithms ------------------------------
(***************************************************************************)
(* The programs that compute, one job after another: a program is given    *)
(* an input from a small set, and its answer is compared with what it      *)
(* should be.                                                              *)
(***************************************************************************)
EXTENDS Integers, Sequences, FiniteSets

Sort == INSTANCE Sorting
Num == INSTANCE Numbers WITH Bits <- 4, Bytes <- 2
Text == INSTANCE Texts
Debugger == INSTANCE PyDbg
File == INSTANCE Files

VARIABLE job   \* [task, input], where input is a pair

UpTo(n, S) == UNION {[1..k -> S] : k \in 0..n}
Arrays(n) == UNION {[0..k - 1 -> 1..3] : k \in 0..n}

Idle == [task |-> "none", input |-> <<>>]
Init == job = Idle
Give(task, inputs) == \E input \in inputs : job' = [task |-> task, input |-> input]

SortArray == Give("mergesort", Arrays(5) \X (0..1))
SortFile == Give("Sort", Arrays(6) \X {0})
AddNumbers == Give("sum", (0..15) \X (0..15))
ClassifyDouble == Give("classify", (0..63) \X {<<2, 3>>})
SumPacket == Give("checksum", UpTo(5, 0..3) \X {0})
FactorNumber == Give("Factorize", (1..60) \X {0})
MakeSpiral == Give("spiral", (1..4) \X (1..3))
CountSymbols == Give("utf8", {<<text, cut>> \in UpTo(3, {"ascii", "two", "three", "four"}) \X (0..12) :
                                cut <= Len(Text!Encode(text))})
NormalizePath == Give("path", UpTo(5, {"a", "b", "", ".", ".."}) \X BOOLEAN)
PrintList ==
  \E n \in 0..4 :
    Give("list", {[k \in 1..n |-> 10 * k]} \X
                 {places \in [1..n -> {0, 8, 12, 16, 20, 28}] :
                    /\ n > 0 => places[1] = 0
                    /\ \A i, j \in 1..n : i # j => places[i] - places[j] \notin -7..7})
ResolveName == Give("dns", (UpTo(3, {<<97>>, <<98, 99>>, <<97, 98, 99>>}) \ {<<>>}) \X UpTo(2, {1, 4, 5}))
DebugProgram == Give("pydbg", (UpTo(3, 0..2) \ {<<>>}) \X UpTo(4, {"next", "step", "print", "continue"}))
ReverseLines == Give("reverse", UpTo(5, {"a", "NL"}) \X UpTo(4, 1..3))
FindSubstrings == Give("find", UpTo(6, 1..2) \X (UpTo(3, 1..2) \ {<<>>}))
PrintTitle ==
  LET tags == {"<title>", "</title>", "<TITLE>", "text"}
  IN Give("title", {<<chunks, 0>> : chunks \in UNION {UpTo(3, tags) \X UpTo(4, tags), {<<c>> : c \in UpTo(4, tags)}}})
Done == job # Idle /\ job' = Idle

Next == \/ /\ job = Idle
           /\ \/ SortArray \/ SortFile \/ AddNumbers \/ ClassifyDouble \/ SumPacket \/ FactorNumber
              \/ MakeSpiral \/ CountSymbols \/ NormalizePath \/ PrintList \/ ResolveName \/ DebugProgram
              \/ ReverseLines \/ FindSubstrings \/ PrintTitle
        \/ Done
Spec == Init /\ [][Next]_job

-----------------------------------------------------------------------------
First == job.input[1]
Second == job.input[2]

SortsRight ==
  LET n == Cardinality(DOMAIN First) IN
  /\ (job.task = "mergesort" /\ Second <= n) =>
       Sort!Sorts(Sort!mergesort(Second, n, First), n - Second, First, Second)
  /\ job.task = "Sort" => Sort!Sorts(Sort!Sort(First, n), n, First, 0)

NumbersRight ==
  /\ job.task = "sum" => Num!SumIsRight(First, Second)
  /\ job.task = "classify" => Num!ClassIsRight(First, Second[1], Second[2])
  /\ job.task = "checksum" => Num!ChecksumIsRight(First)
  /\ job.task = "Factorize" => Num!FactorsAreRight(First)
  /\ job.task = "spiral" => Num!SpiralIsRight(First, Second)

TextsRight ==
  /\ job.task = "utf8" => Text!CountIsRight(First, Second)
  /\ job.task = "path" => Text!PathIsRight(First, Second)
  /\ job.task = "list" => Text!ListIsRight(First, Second)
  /\ job.task = "dns" => Text!LookupIsRight(First, Second)
  /\ job.task = "reverse" => File!ReverseIsRight(First, Second)
  /\ job.task = "find" => File!FindIsRight(First, Second)
  /\ job.task = "title" => File!TitleIsRight(First)

(* The sorts of 05_asm_x86/2 and 08_file_io/2 give the numbers they were   *)
(* given, in order.  The sum of 02_c_basics/0 lacks what is still carried, *)
(* the classes of 02_c_basics/2 follow the order of the words, a packet    *)
(* with the checksum of 18_udp/1 sums up to nothing, the factors of        *)
(* 24_python_modules/1 are prime and multiply to the number, the spiral of *)
(* 10_mmap/2 fills its file, every number beside the one before.  The      *)
(* symbols of a text are counted, and of one cut behind a leading byte     *)
(* (02_c_basics/4), the paths that normalize_path can handle come out      *)
(* canonical (09_filesystem/2), a list is printed wherever its items are   *)
(* in the file (08_file_io/1), and a resolver finds the last address of a  *)
(* response (18_udp/2).  07_syscalls/3 writes whole lines from the last to *)
(* the first, 10_mmap/0 finds all the places of a needle, 20_http/2 the    *)
(* title of a page in one piece.  Where the tasks ask for more than that,  *)
(* the references say so.                                                  *)
AlgorithmsRight == SortsRight /\ NumbersRight /\ TextsRight

(* The commands of 24_python_modules/3 and the events of the interpreter   *)
(* stay in step up to the first function, and no further.                  *)
DebuggerRight == job.task = "pydbg" => Debugger!DebuggerIsRight(First, Second)

=============================================================================
