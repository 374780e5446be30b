------------------------------ MODULE MCAnswers ------------------------------
(* Programs that answer what they are asked, over small images, trees,     *)
(* archives and numbers: the three file systems, and, when none of them is *)
(* mounted, the algorithms.                                                *)
EXTENDS FileSystems, TLC

VARIABLE job                                      \* of Algorithms

Compute == INSTANCE Algorithms

(* simplefs: a file of many pages, with a short one behind it, and names   *)
(* that occur twice.                                                       *)
file(n, size) == [name |-> n, size |-> size]
MCImages == {<<>>, <<file("a", 1), file("b", 9), file("c", 3)>>, <<file("b", 6)>>,
             <<file("b", 2), file("a", 7), file("b", 5)>>}
MCNames == {"/", "a", "b", "c"}

(* mergefs: files and directories of one name, of different ages.          *)
newer(mtime, data) == [kind |-> "file", mtime |-> mtime, data |-> data]
dir(mtime) == [kind |-> "dir", mtime |-> mtime, data |-> "none"]
MCTrees == {<<>>,
            <<"x">> :> newer(1, "x1") @@ <<"d">> :> dir(2) @@ <<"d", "y">> :> newer(1, "y1"),
            <<"x">> :> newer(2, "x2") @@ <<"d">> :> newer(1, "d2") @@ <<".z">> :> newer(1, "z2"),
            <<"z">> :> newer(1, "z3") @@ <<"d">> :> dir(1) @@ <<"d", "y">> :> newer(2, "y3")}
MCMergePaths == {<<>>, <<"x">>, <<"d">>, <<"d", "y">>}

(* unzipfs: a directory with and without an entry of its own, and an       *)
(* archive that has a path twice.                                          *)
component(x) == <<x>>
entry(path, isDir, pages) == [path |-> path, dir |-> isDir, pages |-> pages]
d == component("d")
f == component("f")
MCArchives == {<<entry(<<d>>, TRUE, 0), entry(<<d, f>>, FALSE, 3)>>,
               <<entry(<<d, f>>, FALSE, 1), entry(<<f>>, FALSE, 1)>>,
               <<entry(<<f>>, FALSE, 1), entry(<<f>>, FALSE, 2)>>}
MCZipPaths == {<<>>, <<d>>, <<d, f>>, <<f>>}

AnswersInit == Init /\ Compute!Init
AnswersNext ==
  \/ Next /\ UNCHANGED job
  \/ mounted = "none" /\ Compute!Next /\ UNCHANGED vars
AnswersSpec == AnswersInit /\ [][AnswersNext]_<<vars, job>>
Symmetry == Permutations(Threads)

(* What the algorithms and the debugger compute is what their references   *)
(* define: see Algorithms.                                                 *)
AlgorithmsRight == Compute!AlgorithmsRight
DebuggerRight == Compute!DebuggerRight
=============================================================================
