------------------------------- MODULE SimpleFs ------------------------------
(***************************************************************************)
(* 22_fuse/0_simplefs: a read-only file system in a mapped image, a text   *)
(* with the names and sizes of the files in front of their contents.       *)
(***************************************************************************)
EXTENDS Integers, Sequences, FiniteSets, SequencesExt

CONSTANTS
  Images,       \* images to mount, each a sequence of [name, size]
  Names,        \* names a user may ask for
  Page,         \* size of a page
  Word          \* 2^64

SizeAssumption ==
  /\ Page \in Nat \ {0} /\ Word \in Nat /\ Word > 4 * Page
  /\ \A contents \in Images : contents \in Seq([name : STRING, size : 0..Word - 1])

VARIABLES
  image,        \* the image, as its author thinks of it
  FS,           \* the static FS
  reply         \* the last request and its answer

vars == <<image, FS, reply>>

None == [call |-> "none", name |-> "/", off |-> 0, size |-> 0, answer |-> <<>>]
Closed == [files |-> <<>>, memory |-> <<>>, mounted |-> FALSE]
Init == image \in Images /\ FS = Closed /\ reply = None
Unmounted == image = <<>> /\ FS = Closed /\ reply = None

-----------------------------------------------------------------------------
(* The image: the count, a line for each file, the empty line, contents.   *)
Contents(i) == [k \in 1..image[i].size |-> <<i, k>>]
Memory ==
  <<<<"count", Len(image)>>>> \o [i \in DOMAIN image |-> <<"line", i>>] \o <<<<"blank", 0>>>>
    \o FlattenSeq([i \in DOMAIN image |-> Contents(i)])
new_line == CHOOSE k \in DOMAIN Memory :
              Memory[k][1] = "blank" /\ \A j \in 1..k - 1 : Memory[j][1] # "blank"

(* The files begin behind the empty line, one after another.               *)
OffsetsFromZero == [i \in DOMAIN image |-> IF i = 1 THEN new_line ELSE new_line + image[i - 1].size]
Offsets ==
  LET offset[i \in 1..Len(image) + 1] ==
        IF i = 1 THEN new_line ELSE offset[i - 1] + image[i - 1].size
  IN [i \in DOMAIN image |-> offset[i]]

OpenFilesystem ==
  /\ ~FS.mounted
  /\ FS' = [mounted |-> TRUE, memory |-> Memory,
            files |-> [i \in DOMAIN image |->
                         [name |-> image[i].name, size |-> image[i].size, offset |-> Offsets[i]]]]
  /\ UNCHANGED <<image, reply>>

CloseFilesystem == FS.mounted /\ FS' = Closed /\ reply' = None /\ UNCHANGED image

-----------------------------------------------------------------------------
Named(name) == {i \in DOMAIN FS.files : FS.files[i].name = name}
find_file(name) == FS.files[CHOOSE i \in Named(name) : \A j \in Named(name) : i <= j]

Reply(call, name, off, size, answer) ==
  reply' = [call |-> call, name |-> name, off |-> off, size |-> size, answer |-> answer]

MyStat(name) ==
  Reply("getattr", name, 0, 0,
        IF name = "/" THEN <<"dir">> ELSE IF Named(name) = {} THEN <<"ENOENT">>
        ELSE <<"file", find_file(name).size>>)

MyReaddir(name) ==
  Reply("readdir", name, 0, 0,
        IF name # "/" THEN <<"ENOENT">>
        ELSE <<"names", [i \in DOMAIN FS.files |-> FS.files[i].name]>>)

MyOpen(name, write) ==
  Reply("open", name, 0, IF write THEN 1 ELSE 0,
        IF Named(name) = {} THEN <<"ENOENT">> ELSE IF write THEN <<"EACCES">> ELSE <<"ok">>)

(* The size of an answer: both differences are unsigned.                   *)
SizeRead(size, off, target) ==
  IF (size - off) % Word > (target.size - off) % Word THEN (target.size - off) % Word ELSE size

(* Behind the image, up to the end of its last page, there are zeros.      *)
Cell(k) == IF k <= Len(FS.memory) THEN FS.memory[k]
           ELSE IF k <= ((Len(FS.memory) + Page - 1) \div Page) * Page THEN <<"zero", 0>>
           ELSE <<"outside", 0>>

(* The kernel asks for whole pages, of which the first is in the file.     *)
MyRead(name, off, size) ==
  LET target == find_file(name) IN
  /\ Named(name) # {} /\ off < target.size
  /\ Reply("read", name, off, size,
           <<"data", [k \in 1..SizeRead(size, off, target) |-> Cell(target.offset + off + k)]>>)

Serve ==
  /\ FS.mounted
  /\ \E name \in Names :
       \/ MyStat(name) \/ MyReaddir(name) \/ \E write \in BOOLEAN : MyOpen(name, write)
       \/ \E p \in 0..3, n \in 1..4 : MyRead(name, p * Page, n * Page)
  /\ UNCHANGED <<image, FS>>

Next == OpenFilesystem \/ Serve \/ CloseFilesystem
Spec == Init /\ [][Next]_vars
-----------------------------------------------------------------------------
First(name) == CHOOSE i \in DOMAIN image :
                 image[i].name = name /\ \A j \in 1..i - 1 : image[j].name # name
Exists(name) == \E i \in DOMAIN image : image[i].name = name

(* What was asked for and is in the file comes back.  More comes back only *)
(* when the request begins beyond its own size and the file goes on, or    *)
(* before its size and the file ends within: never when it begins at 0.    *)
ReadAnswers ==
  LET i == First(reply.name)
      end == IF reply.off + reply.size < image[i].size THEN reply.off + reply.size ELSE image[i].size
      wanted == SubSeq(Contents(i), reply.off + 1, end)
      data == reply.answer[2]
  IN /\ IsPrefix(wanted, data)
     /\ Len(data) > reply.size => reply.off > reply.size /\ reply.off + reply.size < image[i].size
     /\ Len(data) > Len(wanted) => reply.off # 0

(* Every file of the image is found, with its size and its own bytes, and  *)
(* nothing else is; nothing can be opened for writing.                     *)
SimpleAnswers ==
  CASE reply.call = "read" -> ReadAnswers
    [] reply.call = "getattr" /\ reply.name # "/" ->
         reply.answer = IF Exists(reply.name) THEN <<"file", image[First(reply.name)].size>>
                        ELSE <<"ENOENT">>
    [] reply.call = "open" -> reply.answer = <<"ok">> <=> Exists(reply.name) /\ reply.size = 0
    [] reply.call = "readdir" /\ reply.name = "/" ->
         reply.answer = <<"names", [i \in DOMAIN image |-> image[i].name]>>
    [] OTHER -> TRUE
=============================================================================
