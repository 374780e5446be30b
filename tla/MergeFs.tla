------------------------------- MODULE MergeFs -------------------------------
(***************************************************************************)
(* 22_fuse/1_mergefs: the union of several directories, read-only.  An     *)
(* operation asks the directories one after another, while other programs  *)
(* may change them; the lists of names it collects start uninitialized.    *)
(***************************************************************************)
EXTENDS Naturals, Sequences, FiniteSets

CONSTANTS
  Trees,        \* contents that one of the directories may have
  Directories,  \* f_sys.directories_number
  PathsAsked,   \* paths a user may ask for
  Hidden,       \* names that begin with a dot
  Pages,        \* pages of every file
  kMaxNumberOfFiles,
  MaxChanges    \* changes of the directories by other programs

(* Contents map paths to entities; a file's contents have an identity.     *)
Nothing == [kind |-> "none", mtime |-> 0, data |-> "none"]

TreeAssumption ==
  /\ Directories \in Nat \ {0} /\ Pages \in Nat
  /\ kMaxNumberOfFiles \in Nat /\ MaxChanges \in Nat
  /\ \A tree \in Trees :
       /\ IsFiniteSet(DOMAIN tree)
       /\ \A p \in DOMAIN tree :
            /\ tree[p].kind \in {"file", "dir"} /\ tree[p].mtime \in Nat
            /\ Len(p) > 1 => /\ SubSeq(p, 1, Len(p) - 1) \in DOMAIN tree
                             /\ tree[SubSeq(p, 1, Len(p) - 1)].kind = "dir"

VARIABLES
  directories,  \* what the directories hold now
  call,         \* the operation that runs, or has answered
  fh,           \* the open file: its descriptor's entity and position
  leftover,     \* what the last listing left on the stack
  changes

vars == <<directories, call, fh, leftover, changes>>

Idle == [pc |-> "done", what |-> "none", path |-> <<>>, i |-> 1, found |-> Nothing,
         where |-> 0, errno |-> "ENOENT", write |-> FALSE, off |-> 0, size |-> 0,
         files_dict |-> {}, listed |-> <<>>, answer |-> <<>>,
         undisturbed |-> TRUE, clean |-> TRUE]
Closed == [is |-> Nothing, pos |-> 0, inOrder |-> TRUE]

Unmounted ==
  /\ directories = [i \in 1..Directories |-> <<>>]
  /\ call = Idle /\ fh = Closed /\ leftover = {} /\ changes = 0

Init ==
  /\ directories \in [1..Directories -> Trees]
  /\ call = Idle /\ fh = Closed /\ leftover = {} /\ changes = 0

Lookup(i, p) == IF p \in DOMAIN directories[i] THEN directories[i][p] ELSE Nothing
Parent(p) == SubSeq(p, 1, Len(p) - 1)
Errno(i, p) == IF Lookup(i, Parent(p)).kind = "file" THEN "ENOTDIR" ELSE "ENOENT"

Answer(a) == call' = [call EXCEPT !.pc = "done", !.answer = a]

-----------------------------------------------------------------------------
(* Requests; the root is known without asking.  files_dict is the stack's  *)
(* memory: clean, or with the names an earlier listing left there.         *)
Begin ==
  /\ call.pc = "done"
  /\ \/ \E p \in PathsAsked, what \in {"getattr", "open"}, w \in BOOLEAN :
          /\ p = <<>> => what = "getattr"
          /\ w => what = "open"
          /\ what = "open" => fh = Closed
          /\ call' = IF p = <<>> THEN [Idle EXCEPT !.what = what, !.answer = <<"dir">>]
                     ELSE [Idle EXCEPT !.pc = "find", !.what = what, !.path = p, !.write = w]
     \/ \E p \in PathsAsked, dict \in {{}, leftover} :
          call' = [Idle EXCEPT !.pc = "list", !.what = "readdir", !.path = p,
                               !.files_dict = dict, !.clean = dict = {}]
     \/ \E o \in 0..Pages, s \in 1..Pages :
          /\ fh # Closed
          /\ call' = [Idle EXCEPT !.pc = "read", !.what = "read", !.off = o, !.size = s]
  /\ UNCHANGED <<directories, fh, leftover, changes>>

(* find(): the entity with the latest time, the first one of equal ones.   *)
FirstWins(e) == call.found = Nothing
Better(e) == call.found = Nothing \/ e.mtime > call.found.mtime

Stat ==
  LET e == Lookup(call.i, call.path) IN
  /\ call.pc = "find" /\ call.i <= Directories
  /\ call' =
       IF e # Nothing /\ Better(e)
       THEN [call EXCEPT !.i = @ + 1, !.found = e, !.where = call.i]
       ELSE IF e = Nothing /\ call.found = Nothing
       THEN [call EXCEPT !.i = @ + 1, !.errno = Errno(call.i, call.path)]
       ELSE [call EXCEPT !.i = @ + 1]
  /\ UNCHANGED <<directories, fh, leftover, changes>>

Found ==
  /\ call.pc = "find" /\ call.i > Directories
  /\ IF call.found = Nothing THEN Answer(<<call.errno>>)
     ELSE IF call.what = "getattr" THEN Answer(<<call.found.kind, call.found>>)
     ELSE IF call.write THEN Answer(<<"EACCES">>)
     ELSE call' = [call EXCEPT !.pc = "open"]
  /\ UNCHANGED <<directories, fh, leftover, changes>>

(* open() looks the path up once more.                                     *)
Open ==
  LET e == Lookup(call.where, call.path) IN
  /\ call.pc = "open"
  /\ IF e = Nothing THEN Answer(<<Errno(call.where, call.path)>>) /\ UNCHANGED fh
     ELSE Answer(<<"ok">>) /\ fh' = [Closed EXCEPT !.is = e]
  /\ UNCHANGED <<directories, leftover, changes>>

Release == call.pc = "done" /\ fh # Closed /\ fh' = Closed
           /\ UNCHANGED <<directories, call, leftover, changes>>

(* read() goes on where the last one ended, whatever the offset asked for. *)
Least(a, b) == IF a <= b THEN a ELSE b
ReadFrom == fh.pos
Read ==
  LET size == Least(call.size, Pages - ReadFrom) IN
  /\ call.pc = "read"
  /\ IF fh.is.kind = "dir" THEN Answer(<<"EISDIR">>) /\ UNCHANGED fh
     ELSE /\ Answer(<<"data", [k \in 1..size |-> <<fh.is.data, ReadFrom + k>>]>>)
          /\ fh' = [fh EXCEPT !.pos = ReadFrom + size, !.inOrder = @ /\ call.off = fh.pos]
  /\ UNCHANGED <<directories, leftover, changes>>

-----------------------------------------------------------------------------
(* my_readdir: the visible names of one directory, in any order; those the *)
(* dictionary has already, or has no room for, are left out.               *)
Name(p) == p[Len(p)]
Visible(i, p) ==
  {q \in DOMAIN directories[i] :
     q # <<>> /\ Parent(q) = p /\ Name(q) \notin Hidden}
NamesIn(i, p) == {Name(q) : q \in Visible(i, p)}

NewNames(names) == names \ call.files_dict
Orders(names) == {s \in [1..Cardinality(names) -> names] :
                    \A j, k \in DOMAIN s : j # k => s[j] # s[k]}

ListDirectory ==
  LET new == NewNames(NamesIn(call.i, call.path)) IN
  /\ call.pc = "list" /\ call.i <= Directories
  /\ \E order \in Orders(new) :
       LET room == Least(Cardinality(new), kMaxNumberOfFiles - Cardinality(call.files_dict))
           filled == SubSeq(order, 1, room)
       IN call' = [call EXCEPT !.i = @ + 1, !.listed = @ \o filled,
                               !.files_dict = @ \cup {filled[k] : k \in 1..room}]
  /\ UNCHANGED <<directories, fh, leftover, changes>>

Listed ==
  /\ call.pc = "list" /\ call.i > Directories
  /\ Answer(<<"names", call.listed>>)
  /\ leftover' = call.files_dict
  /\ UNCHANGED <<directories, fh, changes>>

(* Other programs change one of the directories.                           *)
Change ==
  /\ changes < MaxChanges /\ changes' = changes + 1
  /\ \E i \in 1..Directories, tree \in Trees : directories' = [directories EXCEPT ![i] = tree]
  /\ call' = [call EXCEPT !.undisturbed = FALSE]
  /\ UNCHANGED <<fh, leftover>>

Next == Begin \/ Stat \/ Found \/ Open \/ Release \/ Read \/ ListDirectory \/ Listed \/ Change

Spec == Init /\ [][Next]_vars
-----------------------------------------------------------------------------
(* What the union holds.                                                   *)
Present(p) == {i \in 1..Directories : Lookup(i, p) # Nothing}
IsNewest(e, p) ==
  /\ \E i \in Present(p) : e = Lookup(i, p)
  /\ \A i \in Present(p) : e.mtime >= Lookup(i, p).mtime
Union(p) == UNION {NamesIn(i, p) : i \in 1..Directories}
SetOf(s) == {s[k] : k \in DOMAIN s}

AnswersFound ==
  IF Present(call.path) = {} THEN call.answer[1] \in {"ENOENT", "ENOTDIR"}
  ELSE IF call.what = "getattr" THEN IsNewest(call.answer[2], call.path)
  ELSE IF call.write THEN call.answer = <<"EACCES">>
  ELSE call.answer = <<"ok">> /\ (fh # Closed => IsNewest(fh.is, call.path))

AnswersNames ==
  LET names == call.answer[2] IN
  /\ Cardinality(SetOf(names)) = Len(names) /\ SetOf(names) \subseteq Union(call.path)
  /\ call.clean => Len(names) = Least(Cardinality(Union(call.path)), kMaxNumberOfFiles)

(* While nobody else touches the directories, an operation finds the       *)
(* newest of the entities with a name, and a listing has every visible     *)
(* name of the union once: as many as fit, if it found its table clean.    *)
(* A file read in order gives its pages, whatever happens to directories.  *)
(* This is less than problem.md asks: the whole union (:7), where names an *)
(* earlier listing left on the stack count as listed (line 115), and a     *)
(* read-only file system (:3), whose reads go on where the last one ended, *)
(* whatever their offset (line 146).                                       *)
MergeAnswers ==
  call.pc = "done" =>
    /\ call.undisturbed /\ call.what \in {"getattr", "open"} /\ call.path # <<>> => AnswersFound
    /\ call.undisturbed /\ call.what = "readdir" => AnswersNames
    /\ call.what = "read" /\ fh # Closed /\ fh.inOrder /\ fh.is.kind = "file" =>
         call.answer = <<"data", [k \in 1..Least(call.size, Pages - call.off)
                                    |-> <<fh.is.data, call.off + k>>]>>
=============================================================================
