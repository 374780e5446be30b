----------------------------- MODULE FileSystems -----------------------------
(* The three FUSE file systems, each mounted in behaviours of its own: in  *)
(* those, the state of the other two stays as it is before main.           *)
EXTENDS Integers, Sequences, FiniteSets

CONSTANTS
  Images, SimpleNames, Page, WordSize,                                        \* of SimpleFs
  Trees, Directories, MergePaths, Hidden, Pages, kMaxNumberOfFiles, MaxChanges, \* of MergeFs
  Threads, Archives, ZipPaths, BufPages, MaxAlong                          \* of UnzipFs

VARIABLES
  mounted,
  image, FS, reply,                               \* of SimpleFs
  directories, call, fh, leftover, changes,       \* of MergeFs
  archive, name, buf, op, along                   \* of UnzipFs

Simple == INSTANCE SimpleFs WITH Names <- SimpleNames, Word <- WordSize
Merge == INSTANCE MergeFs WITH PathsAsked <- MergePaths
Zip == INSTANCE UnzipFs WITH PathsAsked <- ZipPaths

(* What the modules assume of their parameters.                            *)
ASSUME FileSystemsAssumption ==
  Simple!SizeAssumption /\ Merge!TreeAssumption /\ Zip!ArchiveAssumption

simple == <<image, FS, reply>>
merge == <<directories, call, fh, leftover, changes>>
zip == <<archive, name, buf, op, along>>
vars == <<mounted, simple, merge, zip>>

Init ==
  \/ mounted = "simplefs" /\ Simple!Init /\ Merge!Unmounted /\ Zip!Unmounted
  \/ mounted = "mergefs" /\ Simple!Unmounted /\ Merge!Init /\ Zip!Unmounted
  \/ mounted = "unzipfs" /\ Simple!Unmounted /\ Merge!Unmounted /\ Zip!Init
  \/ mounted = "none" /\ Simple!Unmounted /\ Merge!Unmounted /\ Zip!Unmounted

Next ==
  /\ \/ mounted = "simplefs" /\ Simple!Next /\ UNCHANGED <<merge, zip>>
     \/ mounted = "mergefs" /\ Merge!Next /\ UNCHANGED <<simple, zip>>
     \/ mounted = "unzipfs" /\ Zip!Next /\ UNCHANGED <<simple, merge>>
  /\ UNCHANGED mounted

Spec == Init /\ [][Next]_vars

-----------------------------------------------------------------------------
(* What an open image, the merged directories, an archive answer is what   *)
(* they hold: see SimpleFs, MergeFs and UnzipFs.                           *)
SimpleAnswers == Simple!SimpleAnswers
MergeAnswers == Merge!MergeAnswers
ZipAnswers == Zip!ZipAnswers
=============================================================================
