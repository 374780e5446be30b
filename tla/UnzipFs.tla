------------------------------- MODULE UnzipFs -------------------------------
(***************************************************************************)
(* 22_fuse/2_unzipfs: a read-only file system over a zip archive.  FUSE    *)
(* runs the operations in several threads; all of them build names in one  *)
(* static buffer and use another for directory names and file contents.    *)
(***************************************************************************)
EXTENDS Integers, Sequences, FiniteSets, SequencesExt

CONSTANTS
  Threads,
  Archives,     \* the archives to mount, each a sequence of entries
  PathsAsked,   \* paths a user may ask for
  BufPages,     \* kBufSize, in pages
  MaxAlong      \* operations that a thread may begin while another runs

(* A text is a path and whether a slash ends it; components are sequences  *)
(* so that texts can be appended to each other.  An entry of an archive    *)
(* is a text and the pages of its contents.                                *)
Text(path, dir) == [path |-> path, dir |-> dir]
Root == Text(<<>>, TRUE)
TextOf(e) == Text(e.path, e.dir)

Paths == Seq(Seq(STRING))

ArchiveAssumption ==
  /\ BufPages \in Nat \ {0} /\ MaxAlong \in Nat /\ PathsAsked \subseteq Paths
  /\ \A a \in Archives :
       /\ a \in Seq([path : Paths, dir : BOOLEAN, pages : Nat])
       /\ \A i \in DOMAIN a : a[i].path # <<>>

VARIABLES
  archive,      \* data()->archive
  name,         \* data()->name: the text last built there
  buf,          \* data()->buf: the text of a directory, or the pages of an entry
  op,           \* thread -> the operation it runs, or has answered
  along         \* operations begun beside another so far

vars == <<archive, name, buf, op, along>>

NoEntry == 0

Idle == [pc |-> "done", call |-> "none", path |-> <<>>, write |-> FALSE,
         off |-> 0, size |-> 0, i |-> 1, use |-> "none", entry |-> NoEntry,
         listed |-> <<>>, answer |-> <<>>, alone |-> TRUE]

Init ==
  /\ archive \in Archives
  /\ name = Root /\ buf = [dir |-> Root, entry |-> NoEntry]
  /\ op = [t \in Threads |-> Idle] /\ along = 0

Unmounted ==
  /\ archive = <<>>
  /\ name = Root /\ buf = [dir |-> Root, entry |-> NoEntry]
  /\ op = [t \in Threads |-> Idle] /\ along = 0

-----------------------------------------------------------------------------
(* strcat: the first component of b goes on where the last one of a ends.  *)
Strcat(a, b) ==
  IF a.dir THEN Text(a.path \o b.path, b.dir)
  ELSE IF b.path = <<>> THEN Text(a.path, TRUE)
  ELSE Text(Front(a.path) \o <<Last(a.path) \o Head(b.path)>> \o Tail(b.path), b.dir)

(* The test of get_name: the name is the path, or the path and a slash.    *)
SameOnlyExactly(path) == name = Text(path, FALSE)
SamePath(path) == name.path = path

(* What the archive says.                                                  *)
Here(path) == {i \in DOMAIN archive : archive[i].path = path}
First(path) == CHOOSE i \in Here(path) : \A j \in Here(path) : i <= j
EntryOf(path) == archive[First(path)]

Running(t) == op[t].pc # "done"
Crash == <<"crash">>

Answer(t, a) == op' = [op EXCEPT ![t].pc = "done", ![t].answer = a]
Goto(t, pc) == op' = [op EXCEPT ![t].pc = pc]

Request(c, p, w, o, s) ==
  [Idle EXCEPT !.call = c, !.path = p, !.write = w, !.off = o, !.size = s]

(* The kernel has looked a file up before it opens or reads it, and asks   *)
(* for pages the file has.                                                 *)
Sensible(r) ==
  r.call = "read" =>
    ~EntryOf(r.path).dir /\ r.off + r.size <= EntryOf(r.path).pages

(* get_name(path), whose result goes to use; "/" needs no search.          *)
BeginSearch(r, use) == [r EXCEPT !.pc = "reset", !.i = 1, !.use = use]
NextEntry(r) == [r EXCEPT !.pc = "reset", !.i = r.i + 1]

(* What the operations answer before they touch the buffers.               *)
Enter(r) ==
  CASE r.call = "getattr" /\ r.path = <<>> -> [r EXCEPT !.answer = <<"dir">>]
    [] r.call = "read" /\ r.path = <<>> -> [r EXCEPT !.answer = <<"EACCES">>]
    [] r.call = "open" /\ r.path = <<>> ->
         [r EXCEPT !.answer = IF r.write THEN <<"EACCES">> ELSE <<"ok">>]
    [] r.call = "readdir" /\ r.path = <<>> -> [r EXCEPT !.pc = "clear"]
    [] OTHER -> BeginSearch(r, r.call)

BeginWith(t, r) ==
  LET others == {u \in Threads \ {t} : Running(u)} IN
  /\ ~Running(t) /\ Sensible(r)
  /\ others # {} => along < MaxAlong
  /\ along' = IF others = {} THEN along ELSE along + 1
  /\ op' = [u \in Threads |-> IF u = t THEN Enter([r EXCEPT !.alone = others = {}])
                             ELSE [op[u] EXCEPT !.alone = @ /\ ~Running(u)]]
  /\ UNCHANGED <<archive, name, buf>>

Begin(t) ==
  \/ \E c \in {"getattr", "readdir"}, p \in PathsAsked : BeginWith(t, Request(c, p, FALSE, 0, 0))
  \/ \E p \in PathsAsked, w \in BOOLEAN : BeginWith(t, Request("open", p, w, 0, 0))
  \/ \E i \in {j \in DOMAIN archive : ~archive[j].dir}, o \in 0..BufPages, s \in 1..BufPages + 1 :
       BeginWith(t, Request("read", archive[i].path, FALSE, o, s))

-----------------------------------------------------------------------------
(* get_path_by_id: the slash, then the name of the entry behind it.        *)
Reset(t) ==
  /\ op[t].pc = "reset"
  /\ name' = Root
  /\ Goto(t, IF op[t].use = "dirname" /\ op[t].path = <<>> THEN "dirname"
             ELSE IF op[t].i > Len(archive) THEN "null" ELSE "strcat")
  /\ UNCHANGED <<archive, buf, along>>

AppendName(t) ==
  /\ op[t].pc = "strcat"
  /\ name' = Strcat(name, TextOf(archive[op[t].i]))
  /\ Goto(t, IF op[t].use = "list" THEN "filler" ELSE "compare")
  /\ UNCHANGED <<archive, buf, along>>

Compare(t) ==
  /\ op[t].pc = "compare"
  /\ IF SamePath(op[t].path) THEN Goto(t, op[t].use)
     ELSE op' = [op EXCEPT ![t] = NextEntry(@)]
  /\ UNCHANGED <<archive, name, buf, along>>

(* No entry: my_read and my_readdir do not expect that any more.           *)
NotFound(t) ==
  /\ op[t].pc = "null"
  /\ CASE op[t].use \in {"read", "dirname"} -> Answer(t, Crash)
       [] op[t].use = "list" -> Answer(t, <<"names", op[t].listed>>)
       [] OTHER -> Answer(t, <<"ENOENT">>)
  /\ UNCHANGED <<archive, name, buf, along>>

-----------------------------------------------------------------------------
(* The operations, from the pointer to the name buffer that get_name       *)
(* returned: what is read there is what stands there now.                  *)

MyOpen(t) ==
  /\ op[t].pc = "open"
  /\ Answer(t, IF op[t].write THEN <<"EACCES">> ELSE <<"ok">>)
  /\ UNCHANGED <<archive, name, buf, along>>

IsDirectory(t) ==
  /\ \/ /\ op[t].pc = "getattr"
        /\ IF name.dir THEN Answer(t, <<"dir">>) ELSE Goto(t, "zip_stat")
     \/ /\ op[t].pc = "read"
        /\ IF name.dir THEN Answer(t, <<"EACCES">>) ELSE Goto(t, "zip_fread")
  /\ UNCHANGED <<archive, name, buf, along>>

(* zip_stat and zip_fopen search the archive for the name as it is now.    *)
Entries(text) == {i \in DOMAIN archive : TextOf(archive[i]) = text}
MinOf(a, b) == IF a <= b THEN a ELSE b
FirstEntry(text) == CHOOSE i \in Entries(text) : \A j \in Entries(text) : i <= j

ZipStat(t) ==
  /\ op[t].pc = "zip_stat"
  /\ Answer(t, IF Entries(name) = {} THEN <<"EACCES">>
               ELSE <<"file", archive[FirstEntry(name)].pages>>)
  /\ UNCHANGED <<archive, name, buf, along>>

(* zip_fread reads from the start, up to the end of the request.  Beyond   *)
(* the buffer lie the name and the archive itself.                         *)
was_read(r, i) == MinOf(archive[i].pages, r.off + r.size)

ZipFread(t) ==
  /\ op[t].pc = "zip_fread"
  /\ IF Entries(name) = {} THEN Answer(t, <<"EACCES">>) /\ UNCHANGED buf
     ELSE LET i == FirstEntry(name) IN
          IF was_read(op[t], i) > BufPages THEN Answer(t, Crash) /\ UNCHANGED buf
          ELSE /\ buf' = [dir |-> Root, entry |-> i]
               /\ op' = [op EXCEPT ![t].pc = "memcpy", ![t].entry = i]
  /\ UNCHANGED <<archive, name, along>>

(* What a page of the buffer holds: that of the entry read last, if any.   *)
PageAt(r, k) == <<buf.entry, r.off + k>>

Memcpy(t) ==
  /\ op[t].pc = "memcpy"
  /\ LET r == op[t]
         size == was_read(r, r.entry) - r.off
     IN Answer(t, <<"data", IF size <= 0 THEN <<>> ELSE [k \in 1..size |-> PageAt(r, k)]>>)
  /\ UNCHANGED <<archive, name, buf, along>>

(* my_readdir, after my_open found the path: clear the buffer, search      *)
(* again, copy the name, then walk over all entries.                       *)
FoundToList(t) ==
  /\ op[t].pc = "readdir"
  /\ Goto(t, "clear")
  /\ UNCHANGED <<archive, name, buf, along>>

Clear(t) ==
  /\ op[t].pc = "clear"
  /\ buf' = [dir |-> Text(<<>>, FALSE), entry |-> NoEntry]
  /\ op' = [op EXCEPT ![t] = BeginSearch(@, "dirname")]
  /\ UNCHANGED <<archive, name, along>>

CopyName(t) ==
  LET dirname == IF buf.dir = Text(<<>>, FALSE) THEN name ELSE Strcat(buf.dir, name) IN
  /\ op[t].pc = "dirname"
  /\ buf' = [buf EXCEPT !.dir = dirname]
  /\ IF ~dirname.dir THEN Answer(t, <<"EACCES">>)
     ELSE op' = [op EXCEPT ![t] = BeginSearch(@, "list")]
  /\ UNCHANGED <<archive, name, along>>

(* A child: one component more than the directory.  The slash behind it is *)
(* cut off in the buffer.                                                  *)
Child(dirname) ==
  /\ IsPrefix(dirname.path, name.path)
  /\ Len(name.path) = Len(dirname.path) + 1

WithName(r, last) == [r EXCEPT !.listed = Append(@, last)]

Filler(t) ==
  /\ op[t].pc = "filler"
  /\ IF buf.entry = NoEntry /\ Child(buf.dir)
     THEN /\ name' = [name EXCEPT !.dir = FALSE]
          /\ op' = [op EXCEPT ![t] = NextEntry(WithName(op[t], Last(name.path)))]
     ELSE /\ op' = [op EXCEPT ![t] = NextEntry(op[t])]
          /\ UNCHANGED name
  /\ UNCHANGED <<archive, buf, along>>

-----------------------------------------------------------------------------
Step(t) ==
  \/ Begin(t) \/ Reset(t) \/ AppendName(t) \/ Compare(t) \/ NotFound(t)
  \/ MyOpen(t) \/ IsDirectory(t) \/ ZipStat(t) \/ ZipFread(t) \/ Memcpy(t)
  \/ FoundToList(t) \/ Clear(t) \/ CopyName(t) \/ Filler(t)

(* A crash ends all threads.                                               *)
Next == \E t \in Threads : (\A u \in Threads : op[u].answer # Crash) /\ Step(t)

Spec == Init /\ [][Next]_vars
-----------------------------------------------------------------------------
(* What the archive says of a directory, and of its entries up to the one  *)
(* before i: their names, in the order they are in.                        *)
IsDir(path) == path = <<>> \/ (Here(path) # {} /\ EntryOf(path).dir)
Inside(j, path) ==
  Len(archive[j].path) = Len(path) + 1 /\ IsPrefix(path, archive[j].path)
AreNamesBefore(i, names, path) ==
  \E at \in [DOMAIN names -> 1..i - 1] :
    /\ \A j, k \in DOMAIN names : j < k => at[j] < at[k]
    /\ \A j \in 1..i - 1 : Inside(j, path) <=> \E k \in DOMAIN names : at[k] = j
    /\ \A k \in DOMAIN names : names[k] = Last(archive[at[k]].path)

Expected(r) ==
  IF r.path # <<>> /\ Here(r.path) = {} THEN <<"ENOENT">>
  ELSE CASE r.call = "getattr" -> IF IsDir(r.path) THEN <<"dir">>
                                  ELSE <<"file", EntryOf(r.path).pages>>
         [] r.call = "open" -> IF r.write THEN <<"EACCES">> ELSE <<"ok">>
         [] r.call = "readdir" -> <<"EACCES">>
         [] OTHER -> <<"data", [k \in 1..r.size |-> <<First(r.path), r.off + k>>]>>

IsRight(r) ==
  \/ r.call = "read" /\ r.off + r.size > BufPages
  \/ IF r.call = "readdir" /\ IsDir(r.path)
     THEN /\ r.answer[1] = "names"
          /\ AreNamesBefore(Len(archive) + 1, r.answer[2], r.path)
     ELSE r.answer = Expected(r)

(* Whatever earlier operations left in the buffers, one that no other      *)
(* overlaps answers what the archive says, and does not crash: except for  *)
(* a read that ends beyond the static buffer.                              *)
ZipAnswers ==
  \A t \in Threads :
    ~Running(t) /\ op[t].call # "none" /\ op[t].alone => IsRight(op[t])
=============================================================================
