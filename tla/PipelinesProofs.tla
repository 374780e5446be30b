--------------------------- MODULE PipelinesProofs ---------------------------
(***************************************************************************)
(* The processes of 15_pipes/1 and 15_pipes/3 hold what they should, and   *)
(* the parent exits last, for command lines of any length, commands of any *)
(* kind, a failed exec included, and pipes of any capacity.  If all the    *)
(* commands exist, they write what a shell's would.                        *)
(***************************************************************************)
EXTENDS Pipelines, FiniteSetTheorems, TLAPS

(* A process, its name being a sequence of levels.                         *)
Levels == Seq(Nat)
Points == {"start", "pipe", "fork", "child", "exec", "run", "close", "wait",
           "exited", "reaped"}
Process == [pc : Points, i : 0..n, prev_out : {0, 3}, fds_pair : {<<0, 0>>, <<3, 4>>},
            pids : Seq(Levels), item : 0..1]
Ends == (DOMAIN pipes \cup {Terminal}) \X {"r", "w"}

Types ==
  /\ prog \in {"connect2", "connectn"} /\ (prog = "connect2" => n = 2)
  /\ kinds \in CommandLines
  /\ proc \in [Processes -> Process] /\ root \in Processes
  /\ DOMAIN fd = Processes /\ fd = [q \in Processes |-> fd[q]]
  /\ \A q \in Processes : q \in Levels /\ fd[q] \in [DOMAIN fd[q] -> Ends]
  /\ pipes \in [DOMAIN pipes -> 0..Capacity]
  /\ input \in 0..InputLen /\ out \in 0..MaxOut

(* Names are rising, and so short enough.                                  *)
Rising(s) == \A a, b \in DOMAIN s : a < b => s[a] < s[b]
Named(q) ==
  /\ Rising(q) /\ Len(q) <= n
  /\ \A a \in DOMAIN q : q[a] < n
PipesNamed == \A p \in DOMAIN pipes : p \in Levels /\ Named(p)

(* The level a process is at, with respect to its own name.                *)
LevelAt(q, s) ==
  LET pc == s.pc i == s.i IN
  /\ pc \in {"pipe", "fork", "child", "exec", "close", "run"} => i < n
  /\ pc \in {"start", "pipe", "fork"} =>
       Len(q) <= i /\ \A a \in DOMAIN q : q[a] < i
  /\ pc \in {"child", "exec", "close"} =>
       Len(q) <= i + 1 /\ \A a \in DOMAIN q : q[a] <= i
  /\ pc = "start" => prog = "connectn"
  /\ q = root => pc \notin {"child", "exec", "run"}
Level(q) == LevelAt(q, proc[q])

(* What a process has open at each point.                                  *)
OpenAt(s, open) ==
  LET pc == s.pc IN
  /\ pc \in {"pipe", "exec", "run"} => open = {0, 1}
  /\ pc = "start" => /\ {0, 1} \subseteq open /\ open \subseteq {0, 1, 3}
                     /\ (IF s.i = 0 THEN open = {0, 1} ELSE s.prev_out = 3)
  /\ pc \in {"fork", "child", "close"} => {0, 1} \subseteq open /\ open \subseteq {0, 1, 3, 4}
  /\ pc \in {"fork", "child", "close", "exec"} => s.fds_pair = <<3, 4>>
  /\ pc = "wait" => open \subseteq {0, 1, 3}
  /\ pc \in {"exited", "reaped"} => open = {}
Open(q) == OpenAt(proc[q], DOMAIN fd[q])

(* The parent writes to the terminal, and reads with all the others.       *)
ParentAt(f) ==
  \A d \in DOMAIN f :
    /\ d \in {0, 3} => f[d][2] = "r"
    /\ d = 1 => f[d] = WriteEnd(Terminal)
    /\ d = 4 => f[d][2] = "w"
Parent == ParentAt(fd[root])

(* The tree of processes.                                                  *)
Kid(y, x) == Len(y) = Len(x) + 1 /\ \A a \in 1..Len(x) : y[a] = x[a]
Below(y, x) == Len(y) > Len(x) /\ \A a \in 1..Len(x) : y[a] = x[a]
Tree == \A y \in Processes : \A m \in 0..Len(y) :
          \E x \in Processes : Len(x) = m /\ \A a \in 1..m : x[a] = y[a]

Awaited(s) == {s.pids[k] : k \in DOMAIN s.pids}

(* A child is named by the level it was forked at, and is waited for.      *)
FamilyAt(y, s) ==
  LET pc == s.pc i == s.i IN
  /\ pc \notin {"child", "exec", "run"}
  /\ pc \in {"start", "pipe", "fork"} => y[Len(y)] < i
  /\ pc = "close" => y[Len(y)] <= i
  /\ proc[y].pc # "reaped" => y \in Awaited(s)
Family(y, x) == FamilyAt(y, proc[x])
Families == \A x, y \in Processes : Kid(y, x) => Family(y, x)

(* Who has left has left nobody behind.                                    *)
NobodyLeft ==
  \A x, y \in Processes :
    proc[x].pc \in {"exited", "reaped"} /\ Below(y, x) => proc[y].pc = "reaped"

PipeInv ==
  /\ Types /\ PipesNamed
  /\ \A q \in Processes : Named(q) /\ Level(q) /\ Open(q)
  /\ Parent /\ Tree /\ Families /\ NobodyLeft

-----------------------------------------------------------------------------
LEMMA LineFacts == Types => n \in Nat /\ n >= 1 /\ n <= MaxCommands /\ MaxCommands \in Nat
BY LinesAssumption DEF Types, n

LEMMA RootIsLevel == root \in Levels /\ Len(root) = 0 /\ DOMAIN root = {}
BY DEF root, Levels

(* Sequences of levels.                                                    *)
LEMMA Appended ==
  ASSUME NEW q \in Levels, NEW l \in Nat
  PROVE  /\ Append(q, l) \in Levels /\ Len(Append(q, l)) = Len(q) + 1
         /\ \A a \in 1..Len(q) : Append(q, l)[a] = q[a]
         /\ Append(q, l)[Len(q) + 1] = l
         /\ DOMAIN Append(q, l) = 1..Len(q) + 1
BY DEF Levels

LEMMA SameLevels ==
  ASSUME NEW x \in Levels, NEW y \in Levels, Len(x) = Len(y),
         \A a \in 1..Len(x) : x[a] = y[a]
  PROVE  x = y
BY DEF Levels

LEMMA Beginning ==
  ASSUME NEW s \in Seq(Nat), NEW m \in 0..Len(s)
  PROVE  /\ SubSeq(s, 1, m) \in Seq(Nat) /\ Len(SubSeq(s, 1, m)) = m
         /\ \A a \in 1..m : SubSeq(s, 1, m)[a] = s[a]
OBVIOUS

LEMMA FrontKid ==
  ASSUME NEW x \in Levels, NEW y \in Levels
  PROVE  Len(y) > 0 /\ Front(y) = x <=> Kid(y, x)
<1>1. Len(x) \in Nat /\ Len(y) \in Nat
  BY DEF Levels
<1>2. CASE Len(y) = 0
  BY <1>1, <1>2 DEF Kid
<1>3. CASE Len(y) > 0
  <2>1. /\ Front(y) \in Levels /\ Len(Front(y)) = Len(y) - 1
        /\ \A a \in 1..Len(y) - 1 : Front(y)[a] = y[a]
    <3>1. y \in Seq(Nat) /\ Len(y) - 1 \in 0..Len(y) /\ Front(y) = SubSeq(y, 1, Len(y) - 1)
      BY <1>1, <1>3 DEF Front, Levels
    <3>2. /\ SubSeq(y, 1, Len(y) - 1) \in Seq(Nat)
          /\ Len(SubSeq(y, 1, Len(y) - 1)) = Len(y) - 1
          /\ \A a \in 1..Len(y) - 1 : SubSeq(y, 1, Len(y) - 1)[a] = y[a]
      BY <1>1, <1>3, <3>1, Beginning
    <3> QED
      BY <3>1, <3>2 DEF Levels
  <2>2. Front(y) = x => Kid(y, x)
    BY <1>1, <2>1 DEF Kid
  <2>3. ASSUME Kid(y, x) PROVE Front(y) = x
    <3>1. Len(Front(y)) = Len(x)
      BY <1>1, <2>1, <2>3 DEF Kid
    <3>2. \A a \in 1..Len(Front(y)) : Front(y)[a] = x[a]
      BY <1>1, <2>1, <2>3, <3>1 DEF Kid
    <3> QED
      BY <2>1, <3>1, <3>2, SameLevels
  <2> QED
    BY <1>3, <2>2, <2>3
<1> QED
  BY <1>1, <1>2, <1>3

LEMMA ChildrenAre ==
  ASSUME Types, NEW q \in Processes
  PROVE  Children(q) = {c \in Processes : Kid(c, q) /\ proc[c].pc # "reaped"}
BY FrontKid DEF Types, Children

(* Whoever is below a process is one of its children, or below one.        *)
LEMMA KidAbove ==
  ASSUME Types, Tree, NEW x \in Processes, NEW y \in Processes, Below(y, x)
  PROVE  \E c \in Processes : Kid(c, x) /\ (c = y \/ Below(y, c))
<1>1. x \in Levels /\ y \in Levels /\ Len(x) \in Nat /\ Len(y) \in Nat
  BY DEF Types, Levels
<1>2. Len(x) + 1 \in 0..Len(y)
  BY <1>1 DEF Below
<1>3. PICK c \in Processes : Len(c) = Len(x) + 1 /\ \A a \in 1..Len(x) + 1 : c[a] = y[a]
  BY <1>2 DEF Tree
<1>4. Kid(c, x)
  BY <1>1, <1>3 DEF Kid, Below
<1>5. CASE Len(y) = Len(c)
  <2>1. c = y
    BY <1>1, <1>3, <1>5, SameLevels DEF Types
  <2> QED
    BY <1>4, <2>1
<1>6. CASE Len(y) # Len(c)
  BY <1>1, <1>3, <1>4, <1>6 DEF Below
<1> QED
  BY <1>5, <1>6

LEMMA Pair34 == ASSUME NEW f, DOMAIN f = {0, 1} PROVE FreePair(f) = <<3, 4>>
<1> DEFINE P(rw) == /\ rw[1] < rw[2] /\ rw[1] \notin DOMAIN f /\ rw[2] \notin DOMAIN f
                    /\ \A d \in 3..rw[2] : d \in DOMAIN f \cup {rw[1], rw[2]}
<1>1. << 3, 4 >> \in (3..6) \X (3..6) /\ P(<< 3, 4 >>)
  OBVIOUS
<1>2. ASSUME NEW rw \in (3..6) \X (3..6), P(rw) PROVE rw = << 3, 4 >>
  <2>1. PICK r \in 3..6, w \in 3..6 : rw = <<r, w>>
    OBVIOUS
  <2>2. r < w /\ \A d \in 3..w : d = r \/ d = w
    BY <1>2, <2>1
  <2>3. r = 3
    BY <2>2
  <2>4. w = 4
    <3>1. 4 \in 3..w
      BY <2>2
    <3> QED
      BY <2>2, <2>3, <3>1
  <2> QED
    BY <2>1, <2>3, <2>4
<1> QED
  BY <1>1, <1>2 DEF FreePair

LEMMA InitInv == Init => PipeInv
<1> SUFFICES ASSUME Init PROVE PipeInv
  OBVIOUS
<1>1. Processes = {root} /\ root \in Levels /\ Len(root) = 0 /\ DOMAIN root = {}
  BY RootIsLevel DEF Init, Processes
<1>2. n \in Nat /\ n >= 1 /\ kinds \in CommandLines
  BY LinesAssumption DEF Init, n
<1>3. /\ proc[root] = [pc |-> IF prog = "connect2" THEN "pipe" ELSE "start", i |-> 0,
                       prev_out |-> 0, fds_pair |-> <<0, 0>>, pids |-> <<>>, item |-> 0]
      /\ proc[root] \in Process /\ DOMAIN pipes = {}
  <2>1. << >> \in Seq(Levels)
    OBVIOUS
  <2> QED
    BY <1>2, <2>1 DEF Init, Process, Points
<1>4. /\ DOMAIN fd = {root} /\ DOMAIN fd[root] = {0, 1}
      /\ fd[root][0] = ReadEnd(Terminal) /\ fd[root][1] = WriteEnd(Terminal)
      /\ fd[root] \in [{0, 1} -> Ends] /\ fd = [q \in {root} |-> fd[q]]
  BY DEF Init, Ends, ReadEnd, WriteEnd
<1>5. Types
  BY <1>1, <1>2, <1>3, <1>4, BoundsAssumption DEF Types, Init, Processes
<1>6. PipesNamed
  BY <1>3 DEF PipesNamed
<1>7. Named(root) /\ Level(root) /\ Open(root)
  BY <1>1, <1>2, <1>3, <1>4 DEF Named, Rising, Level, LevelAt, Open, OpenAt, Init
<1>8. Parent
  BY <1>4 DEF Parent, ParentAt, ReadEnd
<1>9. Tree /\ Families /\ NobodyLeft
  BY <1>1 DEF Tree, Families, NobodyLeft, Kid, Below
<1> QED
  BY <1>1, <1>5, <1>6, <1>7, <1>8, <1>9 DEF PipeInv

-----------------------------------------------------------------------------
(* A step of one process that starts and ends none.                        *)
Moves(q, new) ==
  /\ q \in Processes /\ new \in Process
  /\ proc' = [proc EXCEPT ![q] = new]
  /\ UNCHANGED <<prog, kinds>>
  /\ DOMAIN fd' = DOMAIN fd /\ fd' = [x \in DOMAIN fd |-> fd'[x]]
  /\ \A x \in Processes : x # q => fd'[x] = fd[x]

LEMMA MovesFacts ==
  ASSUME Types, NEW q, NEW new, Moves(q, new)
  PROVE  /\ Processes' = Processes /\ n' = n /\ prog' = prog
         /\ proc'[q] = new /\ \A x \in Processes : x # q => proc'[x] = proc[x]
         /\ proc' \in [Processes -> Process]
         /\ DOMAIN fd' = Processes /\ fd' = [x \in Processes |-> fd'[x]]
BY DEF Types, Moves, Processes, n

(* Who does not move keeps what holds for it.                              *)
LEMMA MovesLocal ==
  ASSUME Types, NEW q, NEW new, Moves(q, new),
         \A x \in Processes : Named(x) /\ Level(x) /\ Open(x),
         Level(q)', Open(q)'
  PROVE  \A x \in Processes' : (Named(x) /\ Level(x) /\ Open(x))'
<1>1. /\ Processes' = Processes /\ n' = n /\ prog' = prog
      /\ \A x \in Processes : x # q => proc'[x] = proc[x] /\ fd'[x] = fd[x]
  BY MovesFacts DEF Moves
<1>2. ASSUME NEW x \in Processes PROVE Named(x)'
  BY <1>1 DEF Named, Rising
<1>3. ASSUME NEW x \in Processes, x # q PROVE Level(x)' /\ Open(x)'
  <2>1. proc'[x] = proc[x] /\ fd'[x] = fd[x]
    BY <1>1, <1>3
  <2> QED
    BY <1>1, <2>1 DEF Level, LevelAt, Open, OpenAt
<1> QED
  BY <1>1, <1>2, <1>3

LEMMA MovesTree ==
  ASSUME Types, Tree, NEW q, NEW new, Moves(q, new) PROVE Tree'
BY MovesFacts DEF Tree

LEMMA MovesFamilies ==
  ASSUME Types, Families, NEW q, NEW new, Moves(q, new),
         new.pc = "reaped" <=> proc[q].pc = "reaped",
         \A y \in Processes : y # q /\ Kid(y, q) => Family(y, q)'
  PROVE  Families'
<1>1. /\ Processes' = Processes /\ proc'[q] = new
      /\ \A x \in Processes : x # q => proc'[x] = proc[x]
  BY MovesFacts
<1>2. ASSUME NEW x \in Processes, NEW y \in Processes, Kid(y, x) PROVE Family(y, x)'
  <2>1. y # x
    <3>1. Len(x) \in Nat
      BY DEF Types, Levels
    <3> QED
      BY <1>2, <3>1 DEF Kid
  <2>2. CASE x = q
    BY <1>2, <2>1, <2>2
  <2>3. CASE x # q
    <3>1. Family(y, x) /\ proc'[x] = proc[x]
      BY <1>1, <1>2, <2>3 DEF Families
    <3>2. proc'[y].pc = "reaped" <=> proc[y].pc = "reaped"
      BY <1>1
    <3> QED
      BY <3>1, <3>2 DEF Family, FamilyAt, Awaited
  <2> QED
    BY <2>2, <2>3
<1> QED
  BY <1>1, <1>2 DEF Families, Kid

LEMMA MovesNobody ==
  ASSUME Types, NobodyLeft, NEW q, NEW new, Moves(q, new),
         proc[q].pc \notin {"exited", "reaped"},
         new.pc # "reaped",
         new.pc = "exited" => \A y \in Processes : Below(y, q) => proc[y].pc = "reaped"
  PROVE  NobodyLeft'
<1>1. /\ Processes' = Processes /\ proc'[q] = new
      /\ \A x \in Processes : x # q => proc'[x] = proc[x]
  BY MovesFacts
<1>2. ASSUME NEW x \in Processes, NEW y \in Processes, Below(y, x),
             proc'[x].pc \in {"exited", "reaped"}
      PROVE  proc'[y].pc = "reaped"
  <2>1. proc[y].pc = "reaped"
    <3>1. CASE x = q
      BY <1>1, <1>2, <3>1
    <3>2. CASE x # q
      BY <1>1, <1>2, <3>2 DEF NobodyLeft
    <3> QED
      BY <3>1, <3>2
  <2>2. y # q
    BY <2>1
  <2> QED
    BY <1>1, <2>1, <2>2
<1> QED
  BY <1>1, <1>2 DEF NobodyLeft, Below

(* The invariant from what a step leaves of it.                            *)
LEMMA MovesInv ==
  ASSUME PipeInv, NEW q, NEW new, Moves(q, new),
         proc[q].pc \notin {"exited", "reaped"}, new.pc # "reaped",
         new.pc = "exited" => \A y \in Processes : Below(y, q) => proc[y].pc = "reaped",
         \A x \in Processes : fd'[x] \in [DOMAIN fd'[x] -> Ends'],
         pipes' \in [DOMAIN pipes' -> 0..Capacity], PipesNamed',
         input' \in 0..InputLen, out' \in 0..MaxOut,
         Level(q)', Open(q)', Parent',
         \A y \in Processes : y # q /\ Kid(y, q) => Family(y, q)'
  PROVE  PipeInv'
<1>1. Types /\ Families /\ Tree /\ NobodyLeft
  BY DEF PipeInv
<1>2. /\ Processes' = Processes /\ n' = n /\ proc' \in [Processes -> Process]
      /\ DOMAIN fd' = Processes /\ fd' = [x \in Processes |-> fd'[x]]
      /\ UNCHANGED <<prog, kinds>>
  BY <1>1, MovesFacts DEF Moves
<1>3. Process' = Process
  BY <1>2 DEF Process
<1>4. Types'
  BY <1>1, <1>2, <1>3 DEF Types
<1>5. \A x \in Processes' : (Named(x) /\ Level(x) /\ Open(x))'
  BY <1>1, MovesLocal DEF PipeInv
<1>6. Tree'
  BY <1>1, MovesTree
<1>7. Families'
  BY <1>1, MovesFamilies
<1>8. NobodyLeft'
  BY <1>1, MovesNobody
<1> QED
  BY <1>4, <1>5, <1>6, <1>7, <1>8 DEF PipeInv


(* The same from the process's new state s and its new descriptors g.      *)
LEMMA OneMoves ==
  ASSUME PipeInv, NEW q \in Processes, NEW s \in Process, NEW g,
         Become(q, s), fd' = [fd EXCEPT ![q] = g], UNCHANGED <<prog, kinds>>,
         proc[q].pc \notin {"exited", "reaped"}, s.pc # "reaped",
         s.pc = "exited" => \A y \in Processes : Below(y, q) => proc[y].pc = "reaped",
         g \in [DOMAIN g -> Ends'], DOMAIN pipes \subseteq DOMAIN pipes',
         pipes' \in [DOMAIN pipes' -> 0..Capacity], PipesNamed',
         input' \in 0..InputLen, out' \in 0..MaxOut,
         LevelAt(q, s), OpenAt(s, DOMAIN g), q = root => ParentAt(g),
         \A y \in Processes : y # q /\ Kid(y, q) => FamilyAt(y, s)
  PROVE  PipeInv'
<1>1. Types /\ DOMAIN fd = Processes
  BY DEF PipeInv, Types
<1>2. /\ Moves(q, s) /\ fd'[q] = g
      /\ \A x \in Processes : x # q => fd'[x] = fd[x]
  BY <1>1 DEF Moves, Become
<1>3. /\ n' = n /\ prog' = prog /\ proc'[q] = s
      /\ \A x \in Processes : x # q => proc'[x] = proc[x]
  BY <1>1, <1>2, MovesFacts
<1>4. \A x \in Processes : fd'[x] \in [DOMAIN fd'[x] -> Ends']
  <2>1. Ends \subseteq Ends'
    BY DEF Ends
  <2>2. ASSUME NEW x \in Processes, x # q PROVE fd'[x] \in [DOMAIN fd'[x] -> Ends']
    <3>1. fd'[x] \in [DOMAIN fd'[x] -> Ends]
      BY <1>1, <1>2, <2>2 DEF Types
    <3> QED
      BY <2>1, <3>1
  <2> QED
    BY <1>2, <2>2
<1>5. Level(q)' /\ Open(q)'
  BY <1>2, <1>3 DEF Level, LevelAt, Open, OpenAt
<1>6. Parent'
  BY <1>1, <1>2 DEF Parent, ParentAt, PipeInv, Types
<1>7. \A y \in Processes : y # q /\ Kid(y, q) => Family(y, q)'
  <2>1. ASSUME NEW y \in Processes, y # q, Kid(y, q) PROVE Family(y, q)'
    <3>1. FamilyAt(y, s) /\ proc'[y] = proc[y] /\ proc'[q] = s
      BY <1>3, <2>1
    <3> QED
      BY <3>1 DEF Family, FamilyAt, Awaited
  <2> QED
    BY <2>1
<1> QED
  BY <1>2, <1>4, <1>5, <1>6, <1>7, MovesInv

(* What holds of a process.                                                *)
LEMMA Facts ==
  ASSUME PipeInv, NEW q \in Processes
  PROVE  /\ fd = [fd EXCEPT ![q] = fd[q]]
         /\ proc[q] \in Process /\ q \in Levels /\ Len(q) \in Nat
         /\ fd[q] \in [DOMAIN fd[q] -> Ends] /\ DOMAIN fd = Processes
         /\ Named(q) /\ LevelAt(q, proc[q]) /\ OpenAt(proc[q], DOMAIN fd[q])
         /\ q = root => ParentAt(fd[q])
         /\ \A y \in Processes : Kid(y, q) => FamilyAt(y, proc[q])
         /\ \A y \in Processes : Kid(y, q) => y # q
         /\ n \in Nat /\ n >= 1 /\ pipes \in [DOMAIN pipes -> 0..Capacity]
         /\ PipesNamed /\ input \in 0..InputLen /\ out \in 0..MaxOut
         /\ kinds \in CommandLines /\ Types
         /\ prog = "connect2" => n = 2
<1>1. Types
  BY DEF PipeInv
<1>2. n \in Nat /\ n >= 1
  BY <1>1, LineFacts
<1>3. q \in Levels /\ Len(q) \in Nat
  BY <1>1 DEF Types, Levels
<1>4. \A y \in Processes : Kid(y, q) => y # q
  BY <1>3 DEF Kid
<1>5. Named(q) /\ LevelAt(q, proc[q]) /\ OpenAt(proc[q], DOMAIN fd[q])
  BY DEF PipeInv, Level, Open
<1>6. q = root => ParentAt(fd[q])
  BY DEF PipeInv, Parent
<1>7. \A y \in Processes : Kid(y, q) => FamilyAt(y, proc[q])
  BY DEF PipeInv, Families, Family
<1>8. fd = [fd EXCEPT ![q] = fd[q]]
  BY <1>1 DEF Types
<1> QED
  BY <1>1, <1>2, <1>3, <1>4, <1>5, <1>6, <1>7, <1>8 DEF PipeInv, Types

-----------------------------------------------------------------------------
(* What the operations on descriptor tables leave.                         *)
LEMMA Dup2Not ==
  ASSUME NEW f, NEW old, NEW new, old \notin DOMAIN f PROVE Dup2(f, old, new) = f
BY DEF Dup2

LEMMA CloseIs ==
  ASSUME NEW f, NEW E, f \in [DOMAIN f -> E], NEW ds
  PROVE  /\ Close(f, ds) \in [DOMAIN f \ ds -> E]
         /\ \A d \in DOMAIN f \ ds : Close(f, ds)[d] = f[d]
BY DEF Close

(* A step that changes no descriptor but the process's, and no pipe.       *)
LEMMA QuietMoves ==
  ASSUME PipeInv, NEW q \in Processes, NEW s \in Process, NEW g,
         Become(q, s), fd' = [fd EXCEPT ![q] = g], UNCHANGED <<prog, kinds, pipes>>,
         proc[q].pc \notin {"exited", "reaped"}, s.pc # "reaped",
         s.pc = "exited" => \A y \in Processes : Below(y, q) => proc[y].pc = "reaped",
         g \in [DOMAIN g -> Ends],
         input' \in 0..InputLen, out' \in 0..MaxOut,
         LevelAt(q, s), OpenAt(s, DOMAIN g), q = root => ParentAt(g),
         \A y \in Processes : y # q /\ Kid(y, q) => FamilyAt(y, s)
  PROVE  PipeInv'
<1>1. Ends' = Ends /\ DOMAIN pipes' = DOMAIN pipes
  BY DEF Ends
<1>2. PipesNamed'
  BY Facts DEF PipesNamed, Named, Rising, n
<1>3. pipes' \in [DOMAIN pipes' -> 0..Capacity]
  BY Facts
<1> QED
  BY <1>1, <1>2, <1>3, OneMoves

LEMMA StartProcessInv ==
  ASSUME PipeInv, NEW q \in Processes, StartProcess(q) PROVE PipeInv'
<1> DEFINE s == [proc[q] EXCEPT !.pc = IF proc[q].i < n THEN "pipe" ELSE "wait"]
           g == IF proc[q].i \in 1..n - 1
                THEN Close(Dup2(fd[q], proc[q].prev_out, 0), {proc[q].prev_out})
                ELSE fd[q]
<1>1. /\ proc[q].pc = "start" /\ Become(q, s)
      /\ UNCHANGED <<prog, kinds, pipes, input, out>>
  BY DEF StartProcess, At, Goto
<1>2. fd' = [fd EXCEPT ![q] = g]
  <2>1. fd = [fd EXCEPT ![q] = fd[q]]
    BY Facts
  <2> QED
    BY <2>1 DEF StartProcess
<1>3. /\ proc[q].i \in 0..n /\ n \in Nat /\ proc[q] \in Process
  BY Facts DEF Process
<1>4. s \in Process /\ s.pc = (IF proc[q].i < n THEN "pipe" ELSE "wait") /\ s.i = proc[q].i
      /\ s.pids = proc[q].pids
  BY <1>3 DEF Process, Points
<1>5. /\ {0, 1} \subseteq DOMAIN fd[q] /\ DOMAIN fd[q] \subseteq {0, 1, 3}
      /\ (IF proc[q].i = 0 THEN DOMAIN fd[q] = {0, 1} ELSE proc[q].prev_out = 3)
  BY <1>1, Facts DEF OpenAt
<1>6. fd[q] \in [DOMAIN fd[q] -> Ends]
  BY Facts
<1>7. /\ g \in [DOMAIN g -> Ends]
      /\ proc[q].i < n => DOMAIN g = {0, 1}
      /\ DOMAIN g \subseteq {0, 1, 3}
      /\ q = root => ParentAt(g)
  <2>1. CASE proc[q].i \notin 1..n - 1
    <3>1. proc[q].i < n => proc[q].i = 0
      BY <1>3, <2>1
    <3> QED
      BY <1>5, <1>6, <2>1, <3>1, Facts
  <2>2. CASE proc[q].i \in 1..n - 1 /\ 3 \notin DOMAIN fd[q]
    <3>1. Dup2(fd[q], 3, 0) = fd[q] /\ g = Close(fd[q], {3})
      BY <1>5, <2>2, Dup2Not
    <3>2. /\ g \in [DOMAIN fd[q] \ {3} -> Ends]
          /\ \A d \in DOMAIN fd[q] \ {3} : g[d] = fd[q][d]
      <4> HIDE DEF g
      <4> QED
        BY <1>6, <3>1 DEF Close
    <3>3. DOMAIN fd[q] \ {3} = {0, 1}
      BY <1>5
    <3> HIDE DEF g
    <3>4. q = root => ParentAt(g)
      BY <3>2, Facts DEF ParentAt
    <3> QED
      BY <3>2, <3>3, <3>4
  <2>3. CASE proc[q].i \in 1..n - 1 /\ 3 \in DOMAIN fd[q]
    <3> DEFINE f == Dup2(fd[q], 3, 0)
    <3>1. /\ f \in [DOMAIN fd[q] \cup {0} -> Ends] /\ f[0] = fd[q][3]
          /\ \A d \in DOMAIN fd[q] : d # 0 => f[d] = fd[q][d]
      BY <1>6, <2>3 DEF Dup2
    <3>2. g = Close(f, {3})
      BY <1>5, <2>3
    <3> HIDE DEF f, g
    <3>3. DOMAIN f = {0, 1, 3} /\ f \in [DOMAIN f -> Ends]
      BY <1>5, <2>3, <3>1
    <3>4. /\ g \in [DOMAIN f \ {3} -> Ends]
          /\ \A d \in DOMAIN f \ {3} : g[d] = f[d]
      BY <3>2, <3>3 DEF Close
    <3>5. DOMAIN g = {0, 1} /\ g[0] = fd[q][3] /\ g[1] = fd[q][1]
      BY <1>5, <3>1, <3>3, <3>4
    <3>6. q = root => ParentAt(g)
      BY <1>5, <2>3, <3>5, Facts DEF ParentAt
    <3> QED
      BY <3>3, <3>4, <3>5, <3>6
  <2> QED
    BY <2>1, <2>2, <2>3
<1> HIDE DEF g, s
<1>8. OpenAt(s, DOMAIN g)
  BY <1>4, <1>7 DEF OpenAt
<1>9. LevelAt(q, s)
  BY <1>1, <1>3, <1>4, Facts DEF LevelAt
<1>10. \A y \in Processes : y # q /\ Kid(y, q) => FamilyAt(y, s)
  <2>1. Awaited(s) = Awaited(proc[q])
    BY <1>4 DEF Awaited
  <2> QED
    BY <1>1, <1>4, <2>1, Facts DEF FamilyAt
<1> QED
  BY <1>1, <1>2, <1>4, <1>7, <1>8, <1>9, <1>10, Facts, QuietMoves

LEMMA CloseEndsInv ==
  ASSUME PipeInv, NEW q \in Processes, CloseEnds(q) PROVE PipeInv'
<1> DEFINE s == IF prog = "connect2" THEN [proc[q] EXCEPT !.pc = "wait"]
                ELSE [proc[q] EXCEPT !.pc = "start", !.i = @ + 1,
                                     !.prev_out = proc[q].fds_pair[1]]
           g == Close(fd[q], ToClose(q))
<1>1. /\ proc[q].pc = "close" /\ Become(q, s) /\ fd' = [fd EXCEPT ![q] = g]
      /\ UNCHANGED <<prog, kinds, pipes, input, out>>
  BY Facts DEF CloseEnds, At
<1>2. /\ proc[q].i \in 0..n /\ n \in Nat /\ proc[q] \in Process /\ proc[q].i < n
      /\ proc[q].fds_pair = << 3, 4 >> /\ prog \in {"connect2", "connectn"}
  <2>1. proc[q].i < n /\ proc[q].fds_pair = << 3, 4 >>
    BY <1>1, Facts DEF LevelAt, OpenAt
  <2>2. n \in Nat /\ proc[q] \in Process /\ prog \in {"connect2", "connectn"}
    BY Facts DEF Types
  <2> QED
    BY <2>1, <2>2 DEF Process
<1>3. /\ s \in Process /\ s.pids = proc[q].pids
      /\ prog = "connect2" => s.pc = "wait"
      /\ prog = "connectn" => s.pc = "start" /\ s.i = proc[q].i + 1 /\ s.prev_out = 3
  <2>1. proc[q].i + 1 \in 0..n
    BY <1>2
  <2>2. << 3, 4 >>[1] = 3
    OBVIOUS
  <2>3. CASE prog = "connect2"
    BY <1>2, <2>3 DEF Process, Points
  <2>4. CASE prog = "connectn"
    <3>1. s = [proc[q] EXCEPT !.pc = "start", !.i = @ + 1, !.prev_out = 3]
      BY <1>2, <2>2, <2>4
    <3> QED
      BY <1>2, <2>1, <2>4, <3>1 DEF Process, Points
  <2> QED
    BY <1>2, <2>3, <2>4
<1>4. /\ {0, 1} \subseteq DOMAIN fd[q] /\ DOMAIN fd[q] \subseteq {0, 1, 3, 4}
      /\ fd[q] \in [DOMAIN fd[q] -> Ends]
  BY <1>1, Facts DEF OpenAt
<1>5. ToClose(q) = IF prog = "connect2" THEN {3, 4} ELSE {4}
  BY <1>2 DEF ToClose
<1>6. /\ g \in [DOMAIN fd[q] \ ToClose(q) -> Ends]
      /\ \A d \in DOMAIN fd[q] \ ToClose(q) : g[d] = fd[q][d]
  BY <1>4, CloseIs
<1> HIDE DEF s, g
<1>7. {0, 1} \subseteq DOMAIN g /\ DOMAIN g \subseteq {0, 1, 3} /\ g \in [DOMAIN g -> Ends]
  BY <1>4, <1>5, <1>6
<1>8. q = root => ParentAt(g)
  BY <1>6, Facts DEF ParentAt
<1>9. OpenAt(s, DOMAIN g)
  BY <1>2, <1>3, <1>7 DEF OpenAt
<1>10. LevelAt(q, s)
  <2>1. Len(q) <= proc[q].i + 1 /\ \A a \in DOMAIN q : q[a] <= proc[q].i
    BY <1>1, Facts DEF LevelAt
  <2>2. \A a \in DOMAIN q : q[a] \in Nat
    BY Facts DEF Levels
  <2>3. \A a \in DOMAIN q : q[a] < proc[q].i + 1
    BY <1>2, <2>1, <2>2
  <2> QED
    BY <1>2, <1>3, <2>1, <2>3 DEF LevelAt
<1>11. \A y \in Processes : y # q /\ Kid(y, q) => FamilyAt(y, s)
  <2>1. Awaited(s) = Awaited(proc[q])
    BY <1>3 DEF Awaited
  <2>2. ASSUME NEW y \in Processes, Kid(y, q) PROVE y[Len(y)] \in Nat
    BY <2>2, Facts DEF Types, Levels, Kid
  <2>3. ASSUME NEW y \in Processes, Kid(y, q) PROVE y[Len(y)] < proc[q].i + 1
    <3>1. y[Len(y)] <= proc[q].i
      BY <1>1, <2>3, Facts DEF FamilyAt
    <3> QED
      BY <1>2, <2>2, <2>3, <3>1
  <2> QED
    BY <1>1, <1>2, <1>3, <2>1, <2>3, Facts DEF FamilyAt
<1>12. s.pc \notin {"exited", "reaped"}
  BY <1>2, <1>3
<1> QED
  BY <1>1, <1>3, <1>7, <1>8, <1>9, <1>10, <1>11, <1>12, Facts, QuietMoves

LEMMA ExeclpInv ==
  ASSUME PipeInv, NEW q \in Processes, Execlp(q) PROVE PipeInv'
<1>1. /\ proc[q].pc = "exec" /\ UNCHANGED <<prog, kinds, fd, pipes, input, out>>
  BY DEF Execlp, At
<1>2. /\ proc[q] \in Process /\ proc[q].i < n /\ proc[q].i \in Nat
      /\ n \in Nat /\ DOMAIN fd[q] = {0, 1} /\ proc[q].fds_pair = << 3, 4 >>
      /\ q # root /\ Len(q) <= proc[q].i + 1 /\ \A a \in DOMAIN q : q[a] <= proc[q].i
  BY <1>1, Facts DEF LevelAt, OpenAt, Process
<1>3. PICK s : Become(q, s) /\ s \in {[proc[q] EXCEPT !.pc = "run"], AfterFork(proc[q])}
  BY DEF Execlp, Goto
<1>4. s \in Process /\ s.pc \in {"run", "fork", "close"} /\ s.fds_pair = proc[q].fds_pair
      /\ (s.pc = "fork" => prog = "connect2" /\ s.i = 1 /\ proc[q].i = 0)
      /\ (s.pc # "fork" => s.i = proc[q].i)
  <2>1. 1 \in 0..n
    BY Facts
  <2> QED
    BY <1>2, <1>3, <2>1 DEF AfterFork, Process, Points
<1>5. fd' = [fd EXCEPT ![q] = fd[q]]
  BY <1>1, Facts
<1>6. OpenAt(s, DOMAIN fd[q])
  BY <1>2, <1>4 DEF OpenAt
<1>7. LevelAt(q, s)
  <2>1. CASE s.pc = "fork"
    <3>1. n = 2 /\ Len(q) \in Nat /\ \A a \in DOMAIN q : q[a] \in Nat
      <4>1. prog = "connect2"
        BY <1>4, <2>1
      <4>2. n = 2 /\ Len(q) \in Nat /\ q \in Levels
        BY <4>1, Facts
      <4> QED
        BY <4>2 DEF Levels
    <3>2. Len(q) <= 1 /\ \A a \in DOMAIN q : q[a] < 1
      BY <1>2, <1>4, <2>1, <3>1
    <3> QED
      BY <1>2, <1>4, <2>1, <3>1, <3>2 DEF LevelAt
  <2>2. CASE s.pc = "run" \/ s.pc = "close"
    BY <1>2, <1>4, <2>2 DEF LevelAt
  <2> QED
    BY <1>4, <2>1, <2>2
<1>8. \A y \in Processes : ~Kid(y, q)
  BY <1>1, Facts DEF FamilyAt
<1> QED
  BY <1>1, <1>2, <1>3, <1>4, <1>5, <1>6, <1>7, <1>8, Facts, QuietMoves

LEMMA ChildInv ==
  ASSUME PipeInv, NEW q \in Processes, Child(q) PROVE PipeInv'
<1> DEFINE s == [proc[q] EXCEPT !.pc = "exec"]
           f == fd[q]
           h == IF prog = "connect2" /\ last(q) THEN Dup2(f, 3, 0)
                ELSE IF last(q) THEN f ELSE Dup2(f, 4, 1)
<1>1. /\ proc[q].pc = "child" /\ Become(q, s) /\ fd' = [fd EXCEPT ![q] = Redirected(q)]
      /\ UNCHANGED <<prog, kinds, pipes, input, out>>
  BY DEF Child, At, Goto
<1>2. /\ {0, 1} \subseteq DOMAIN f /\ DOMAIN f \subseteq {0, 1, 3, 4}
      /\ f \in [DOMAIN f -> Ends] /\ q # root
      /\ proc[q] \in Process /\ proc[q].fds_pair = << 3, 4 >>
  BY <1>1, Facts DEF OpenAt, LevelAt
<1>3. Redirected(q) = Close(h, {3, 4})
  BY <1>2 DEF Redirected
<1>4. h \in [DOMAIN f -> Ends]
  <2>1. Dup2(f, 3, 0) \in [DOMAIN f -> Ends]
    <3>1. CASE 3 \in DOMAIN f
      <4>1. DOMAIN f \cup {0} = DOMAIN f
        BY <1>2
      <4> QED
        BY <1>2, <3>1, <4>1 DEF Dup2
    <3>2. CASE 3 \notin DOMAIN f
      BY <1>2, <3>2, Dup2Not
    <3> QED
      BY <3>1, <3>2
  <2>2. Dup2(f, 4, 1) \in [DOMAIN f -> Ends]
    <3>1. CASE 4 \in DOMAIN f
      <4>1. DOMAIN f \cup {1} = DOMAIN f
        BY <1>2
      <4> QED
        BY <1>2, <3>1, <4>1 DEF Dup2
    <3>2. CASE 4 \notin DOMAIN f
      BY <1>2, <3>2, Dup2Not
    <3> QED
      BY <3>1, <3>2
  <2> QED
    BY <1>2, <2>1, <2>2
<1> HIDE DEF h
<1>5. Redirected(q) \in [DOMAIN f \ {3, 4} -> Ends]
  BY <1>3, <1>4, CloseIs
<1>6. DOMAIN f \ {3, 4} = {0, 1}
  BY <1>2
<1>7. s \in Process /\ s.pc = "exec" /\ s.i = proc[q].i /\ s.fds_pair = << 3, 4 >>
  BY <1>2 DEF Process, Points
<1> HIDE DEF s, f
<1>8. DOMAIN Redirected(q) = {0, 1} /\ Redirected(q) \in [DOMAIN Redirected(q) -> Ends]
  BY <1>5, <1>6
<1>9. OpenAt(s, DOMAIN Redirected(q))
  BY <1>7, <1>8 DEF OpenAt
<1>10. LevelAt(q, s)
  BY <1>1, <1>2, <1>7, Facts DEF LevelAt
<1>11. \A y \in Processes : ~Kid(y, q)
  BY <1>1, Facts DEF FamilyAt
<1> QED
  BY <1>1, <1>2, <1>7, <1>8, <1>9, <1>10, <1>11, Facts, QuietMoves

(* The name of a child, and of the pipe made before it is forked.          *)
LEMMA AppendNamed ==
  ASSUME NEW q \in Levels, Named(q), NEW l \in Nat, n \in Nat, l < n, Len(q) <= l,
         \A a \in DOMAIN q : q[a] < l
  PROVE  /\ Append(q, l) \in Levels /\ Named(Append(q, l))
         /\ Len(Append(q, l)) = Len(q) + 1 /\ Append(q, l)[Len(q) + 1] = l
         /\ \A a \in 1..Len(q) : Append(q, l)[a] = q[a]
<1> DEFINE p == Append(q, l)
<1>1. /\ p \in Levels /\ Len(p) = Len(q) + 1 /\ p[Len(q) + 1] = l
      /\ \A a \in 1..Len(q) : p[a] = q[a]
      /\ DOMAIN p = 1..Len(q) + 1
  BY Appended
<1>2. Len(q) \in Nat /\ DOMAIN q = 1..Len(q) /\ \A a \in 1..Len(q) : q[a] \in Nat
  BY DEF Levels
<1> HIDE DEF p
<1>3. Rising(p)
  <2>1. ASSUME NEW a \in 1..Len(q) + 1, NEW b \in 1..Len(q) + 1, a < b PROVE p[a] < p[b]
    <3>1. a \in 1..Len(q) /\ p[a] = q[a]
      BY <1>1, <1>2, <2>1
    <3>2. CASE b = Len(q) + 1
      BY <1>1, <1>2, <3>1, <3>2
    <3>3. CASE b \in 1..Len(q)
      BY <1>1, <1>2, <2>1, <3>1, <3>3 DEF Named, Rising
    <3> QED
      BY <1>2, <3>2, <3>3
  <2> QED
    BY <1>1, <2>1 DEF Rising
<1>4. \A a \in 1..Len(q) + 1 : p[a] < n
  <2>1. ASSUME NEW a \in 1..Len(q) PROVE p[a] < n
    BY <1>1, <1>2 DEF Named
  <2> QED
    BY <1>1, <1>2, <2>1
<1>5. Named(p)
  BY <1>1, <1>2, <1>3, <1>4 DEF Named
<1> QED
  BY <1>1, <1>5 DEF p

LEMMA PipeStepInv ==
  ASSUME PipeInv, NEW q \in Processes, Pipe(q) PROVE PipeInv'
<1> DEFINE s == [proc[q] EXCEPT !.pc = "fork", !.fds_pair = << 3, 4 >>]
           p == Append(q, proc[q].i)
           f == fd[q]
           g == [d \in DOMAIN f \cup {3, 4} |->
                   IF d = 3 THEN ReadEnd(p) ELSE IF d = 4 THEN WriteEnd(p) ELSE f[d]]
<1>1. proc[q].pc = "pipe" /\ DOMAIN f = {0, 1} /\ FreePair(f) = << 3, 4 >>
  <2>1. proc[q].pc = "pipe"
    BY DEF Pipe, At
  <2>2. DOMAIN f = {0, 1}
    BY <2>1, Facts DEF OpenAt
  <2> QED
    BY <2>1, <2>2, Pair34
<1>2. /\ Become(q, s) /\ UNCHANGED <<prog, kinds, input, out>>
      /\ fd' = [fd EXCEPT ![q] = g]
      /\ pipes' = [x \in DOMAIN pipes \cup {p} |-> IF x = p THEN 0 ELSE pipes[x]]
  <2> DEFINE rw == FreePair(f)
  <2>1. rw[1] = 3 /\ rw[2] = 4 /\ rw = << 3, 4 >>
    BY <1>1
  <2>2. /\ Become(q, [proc[q] EXCEPT !.pc = "fork", !.fds_pair = rw])
        /\ fd' = [fd EXCEPT ![q] = [d \in DOMAIN @ \cup {rw[1], rw[2]} |->
                                      IF d = rw[1] THEN ReadEnd(p)
                                      ELSE IF d = rw[2] THEN WriteEnd(p) ELSE @[d]]]
        /\ pipes' = [x \in DOMAIN pipes \cup {p} |-> IF x = p THEN 0 ELSE pipes[x]]
        /\ UNCHANGED <<prog, kinds, input, out>>
    BY DEF Pipe
  <2> HIDE DEF rw
  <2>3. fd' = [fd EXCEPT ![q] = g]
    BY <2>1, <2>2
  <2> QED
    BY <2>1, <2>2, <2>3
<1>3. /\ proc[q] \in Process /\ proc[q].i < n /\ proc[q].i \in Nat /\ n \in Nat
      /\ q \in Levels /\ Named(q) /\ Len(q) <= proc[q].i
      /\ \A a \in DOMAIN q : q[a] < proc[q].i
  BY <1>1, Facts DEF LevelAt, Process
<1>4. p \in Levels /\ Named(p)
  BY <1>3, AppendNamed
<1>5. /\ s \in Process /\ s.pc = "fork" /\ s.i = proc[q].i /\ s.pids = proc[q].pids
      /\ s.fds_pair = << 3, 4 >>
  BY <1>3 DEF Process, Points
<1> HIDE DEF s, p
<1>6. /\ DOMAIN g = {0, 1, 3, 4} /\ g[3] = ReadEnd(p) /\ g[4] = WriteEnd(p)
      /\ g[0] = f[0] /\ g[1] = f[1]
  BY <1>1
<1>7. DOMAIN pipes \subseteq DOMAIN pipes' /\ p \in DOMAIN pipes'
  BY <1>2
<1>8. g \in [DOMAIN g -> Ends']
  <2>1. f[0] \in Ends /\ f[1] \in Ends
    BY <1>1, Facts
  <2>2. Ends \subseteq Ends'
    BY <1>7 DEF Ends
  <2>3. ReadEnd(p) \in Ends' /\ WriteEnd(p) \in Ends'
    BY <1>7 DEF Ends, ReadEnd, WriteEnd
  <2>4. g[0] \in Ends' /\ g[1] \in Ends' /\ g[3] \in Ends' /\ g[4] \in Ends'
    BY <1>6, <2>1, <2>2, <2>3
  <2>5. g = [d \in DOMAIN g |-> g[d]]
    OBVIOUS
  <2> HIDE DEF g
  <2> QED
    BY <1>6, <2>4, <2>5
<1> HIDE DEF g
<1>9. pipes' \in [DOMAIN pipes' -> 0..Capacity]
  BY <1>2, Facts, BoundsAssumption
<1>10. PipesNamed'
  <2>1. n' = n
    BY <1>2 DEF n
  <2>2. \A x \in DOMAIN pipes \cup {p} : x \in Levels /\ Named(x)
    BY <1>4, Facts DEF PipesNamed
  <2> QED
    BY <1>2, <2>1, <2>2 DEF PipesNamed, Named, Rising
<1>11. q = root => ParentAt(g)
  <2>1. ASSUME q = root PROVE f[0][2] = "r" /\ f[1] = WriteEnd(Terminal)
    BY <1>1, <2>1, Facts DEF ParentAt
  <2> QED
    BY <1>6, <2>1 DEF ParentAt, ReadEnd, WriteEnd
<1>12. LevelAt(q, s) /\ OpenAt(s, DOMAIN g)
  BY <1>3, <1>5, <1>6, <1>1, Facts DEF LevelAt, OpenAt
<1>13. \A y \in Processes : y # q /\ Kid(y, q) => FamilyAt(y, s)
  <2>1. Awaited(s) = Awaited(proc[q])
    BY <1>5 DEF Awaited
  <2> QED
    BY <1>1, <1>5, <2>1, Facts DEF FamilyAt
<1>14. input' \in 0..InputLen /\ out' \in 0..MaxOut
  BY <1>2, Facts
<1>15. proc[q].pc \notin {"exited", "reaped"} /\ s.pc \notin {"exited", "reaped"}
  BY <1>1, <1>5
<1> QED
  BY <1>2, <1>5, <1>7, <1>8, <1>9, <1>10, <1>11, <1>12, <1>13, <1>14, <1>15, OneMoves

LEMMA ReturnInv ==
  ASSUME PipeInv, NEW q \in Processes, Return(q) PROVE PipeInv'
<1> DEFINE s == [proc[q] EXCEPT !.pc = "exited"]
           g == [d \in {} |-> 0]
<1>1. /\ proc[q].pc = "wait" /\ proc[q].pids = << >> /\ Become(q, s)
      /\ fd' = [fd EXCEPT ![q] = g] /\ UNCHANGED <<prog, kinds, pipes, input, out>>
  BY DEF Return, At, Exit, Goto
<1>2. s \in Process /\ s.pc = "exited" /\ s.pids = << >>
  BY <1>1, Facts DEF Process, Points
<1>3. g \in [DOMAIN g -> Ends] /\ DOMAIN g = {}
  OBVIOUS
<1> HIDE DEF g, s
<1>4. \A y \in Processes : Kid(y, q) => proc[y].pc = "reaped"
  <2>1. Awaited(proc[q]) = {}
    BY <1>1 DEF Awaited
  <2> QED
    BY <2>1, Facts DEF FamilyAt
<1>5. ASSUME NEW y \in Processes, Below(y, q) PROVE proc[y].pc = "reaped"
  <2>1. PICK c \in Processes : Kid(c, q) /\ (c = y \/ Below(y, c))
    BY <1>5, KidAbove DEF PipeInv
  <2>2. proc[c].pc = "reaped"
    BY <1>4, <2>1
  <2> QED
    BY <2>1, <2>2 DEF PipeInv, NobodyLeft
<1>6. LevelAt(q, s) /\ OpenAt(s, DOMAIN g) /\ ParentAt(g)
  BY <1>2, <1>3 DEF LevelAt, OpenAt, ParentAt
<1>7. \A y \in Processes : y # q /\ Kid(y, q) => FamilyAt(y, s)
  BY <1>2, <1>4 DEF FamilyAt
<1>8. input' \in 0..InputLen /\ out' \in 0..MaxOut
  BY <1>1, Facts
<1>9. proc[q].pc \notin {"exited", "reaped"} /\ s.pc # "reaped"
  BY <1>1, <1>2
<1> QED
  BY <1>1, <1>2, <1>3, <1>5, <1>6, <1>7, <1>8, <1>9, QuietMoves

-----------------------------------------------------------------------------
(* A command goes on or exits: it has no children.                         *)
LEMMA CommandMoves ==
  ASSUME PipeInv, NEW q \in Processes, NEW s \in Process, NEW g,
         proc[q].pc = "run", s.pc \in {"run", "exited"}, s.i = proc[q].i,
         Become(q, s), fd' = [fd EXCEPT ![q] = g],
         s.pc = "run" => g = fd[q], s.pc = "exited" => g = [d \in {} |-> 0],
         UNCHANGED <<prog, kinds>>,
         DOMAIN pipes' = DOMAIN pipes, pipes' \in [DOMAIN pipes -> 0..Capacity],
         input' \in 0..InputLen, out' \in 0..MaxOut
  PROVE  PipeInv'
<1>1. Ends' = Ends
  BY DEF Ends
<1>2. n' = n
  BY DEF n
<1>3. PipesNamed'
  BY <1>2, Facts DEF PipesNamed, Named, Rising
<1>4. g \in [DOMAIN g -> Ends]
  <2>1. CASE s.pc = "run"
    BY <2>1, Facts
  <2>2. CASE s.pc = "exited"
    BY <2>2
  <2> QED
    BY <2>1, <2>2
<1>5. q # root /\ LevelAt(q, proc[q]) /\ OpenAt(proc[q], DOMAIN fd[q])
  BY Facts DEF LevelAt
<1>6. LevelAt(q, s)
  BY <1>5 DEF LevelAt
<1>7. OpenAt(s, DOMAIN g)
  BY <1>5 DEF OpenAt
<1>8. \A y \in Processes : ~Kid(y, q)
  BY Facts DEF FamilyAt
<1>9. \A y \in Processes : ~Below(y, q)
  BY <1>8, KidAbove DEF PipeInv
<1> QED
  BY <1>1, <1>3, <1>4, <1>5, <1>6, <1>7, <1>8, <1>9, OneMoves

LEMMA GoesOn ==
  ASSUME PipeInv, NEW q \in Processes, proc[q].pc = "run", NEW k \in 0..1, Got(q, k),
         UNCHANGED <<prog, kinds, fd>>,
         DOMAIN pipes' = DOMAIN pipes, pipes' \in [DOMAIN pipes -> 0..Capacity],
         input' \in 0..InputLen, out' \in 0..MaxOut
  PROVE  PipeInv'
<1> DEFINE s == [proc[q] EXCEPT !.item = k]
<1>1. proc[q] \in Process
  BY Facts
<1>2. s \in Process /\ s.pc = "run" /\ s.i = proc[q].i
  BY <1>1 DEF Process
<1>3. Become(q, s) /\ fd' = [fd EXCEPT ![q] = fd[q]]
  BY Facts DEF Got
<1> HIDE DEF s
<1> QED
  BY <1>2, <1>3, CommandMoves

LEMMA Exits ==
  ASSUME PipeInv, NEW q \in Processes, proc[q].pc = "run", Exit(q),
         UNCHANGED <<prog, kinds>>,
         DOMAIN pipes' = DOMAIN pipes, pipes' \in [DOMAIN pipes -> 0..Capacity],
         input' \in 0..InputLen, out' \in 0..MaxOut
  PROVE  PipeInv'
<1> DEFINE s == [proc[q] EXCEPT !.pc = "exited"]
           g == [d \in {} |-> 0]
<1>1. proc[q] \in Process
  BY Facts
<1>2. s \in Process /\ s.pc = "exited" /\ s.i = proc[q].i
  BY <1>1 DEF Process, Points
<1>3. Become(q, s) /\ fd' = [fd EXCEPT ![q] = g]
  BY DEF Exit, Goto
<1> HIDE DEF s
<1> QED
  BY <1>2, <1>3, CommandMoves

(* A command's two ends are of pipes there are, or of the terminal.        *)
LEMMA TwoEnds ==
  ASSUME PipeInv, NEW q \in Processes, proc[q].pc = "run"
  PROVE  /\ Stdin(q) # Terminal => Stdin(q) \in DOMAIN pipes
         /\ Stdout(q) # Terminal => Stdout(q) \in DOMAIN pipes
<1>1. DOMAIN fd[q] = {0, 1} /\ fd[q] \in [DOMAIN fd[q] -> Ends]
  BY Facts DEF OpenAt
<1> QED
  BY <1>1 DEF Stdin, Stdout, Ends

LEMMA ReadInv ==
  ASSUME PipeInv, NEW q \in Processes, Read(q) PROVE PipeInv'
<1>1. /\ proc[q].pc = "run" /\ UNCHANGED <<prog, kinds, out>>
  BY DEF Read, At
<1>2. /\ pipes \in [DOMAIN pipes -> 0..Capacity]
      /\ input \in 0..InputLen /\ out \in 0..MaxOut
  BY Facts
<1>3. Capacity \in Nat /\ InputLen \in Nat
  BY BoundsAssumption
<1>4. CASE input > 0 /\ input' = input - 1 /\ Got(q, 1) /\ UNCHANGED <<pipes, fd>>
  <2>1. input' \in 0..InputLen
    BY <1>2, <1>3, <1>4
  <2>2. pipes' \in [DOMAIN pipes -> 0..Capacity] /\ out' \in 0..MaxOut
    BY <1>1, <1>2, <1>4
  <2> QED
    BY <1>1, <1>4, <2>1, <2>2, GoesOn
<1>5. ASSUME Stdin(q) # Terminal, pipes[Stdin(q)] > 0,
             pipes' = [pipes EXCEPT ![Stdin(q)] = @ - 1],
             Got(q, 1), UNCHANGED <<input, fd>>
      PROVE  PipeInv'
  <2>1. Stdin(q) \in DOMAIN pipes
    BY <1>1, <1>5, TwoEnds
  <2>2. pipes[Stdin(q)] - 1 \in 0..Capacity
    BY <1>2, <1>3, <1>5, <2>1
  <2>3. pipes' \in [DOMAIN pipes -> 0..Capacity] /\ DOMAIN pipes' = DOMAIN pipes
    BY <1>2, <1>5, <2>2
  <2> QED
    BY <1>1, <1>2, <1>5, <2>3, GoesOn
<1>6. CASE Exit(q) /\ UNCHANGED <<pipes, input>>
  BY <1>1, <1>2, <1>6, Exits
<1> QED
  BY <1>4, <1>5, <1>6 DEF Read

LEMMA WriteInv ==
  ASSUME PipeInv, NEW q \in Processes, Write(q) PROVE PipeInv'
<1>1. /\ proc[q].pc = "run" /\ UNCHANGED <<prog, kinds, input>>
  BY DEF Write, At
<1>2. /\ pipes \in [DOMAIN pipes -> 0..Capacity]
      /\ input \in 0..InputLen /\ out \in 0..MaxOut
  BY Facts
<1>3. Capacity \in Nat /\ MaxOut \in Nat
  BY BoundsAssumption
<1>4. ASSUME Written(q), DOMAIN pipes' = DOMAIN pipes,
             pipes' \in [DOMAIN pipes -> 0..Capacity], out' \in 0..MaxOut
      PROVE  PipeInv'
  <2>1. CASE Exit(q)
    BY <1>1, <1>2, <1>4, <2>1, Exits
  <2>2. CASE Got(q, 0) /\ UNCHANGED fd
    BY <1>1, <1>2, <1>4, <2>2, GoesOn
  <2> QED
    BY <1>4, <2>1, <2>2 DEF Written
<1>5. CASE out' = (IF out < MaxOut THEN out + 1 ELSE out) /\ Written(q) /\ UNCHANGED pipes
  <2>1. out' \in 0..MaxOut
    BY <1>2, <1>3, <1>5
  <2> QED
    BY <1>2, <1>4, <1>5, <2>1
<1>6. ASSUME Stdout(q) # Terminal, pipes[Stdout(q)] < Capacity,
             pipes' = [pipes EXCEPT ![Stdout(q)] = @ + 1], Written(q), UNCHANGED out
      PROVE  PipeInv'
  <2>1. Stdout(q) \in DOMAIN pipes
    BY <1>1, <1>6, TwoEnds
  <2>2. pipes[Stdout(q)] + 1 \in 0..Capacity
    BY <1>2, <1>3, <1>6, <2>1
  <2>3. pipes' \in [DOMAIN pipes -> 0..Capacity] /\ DOMAIN pipes' = DOMAIN pipes
    BY <1>2, <1>6, <2>2
  <2> QED
    BY <1>2, <1>4, <1>6, <2>3
<1>7. CASE Exit(q) /\ UNCHANGED <<pipes, out>>
  BY <1>1, <1>2, <1>7, Exits
<1> QED
  BY <1>5, <1>6, <1>7 DEF Write

-----------------------------------------------------------------------------
(* Whoever is not the first waited for is still waited for.                *)
LEMMA StillAwaited ==
  ASSUME NEW s \in Process, NEW new, s.pids # << >>, new.pids = Tail(s.pids),
         NEW y \in Awaited(s), y # Head(s.pids)
  PROVE  y \in Awaited(new)
<1>1. s.pids \in Seq(Levels)
  BY DEF Process
<1>2. PICK k \in 1..Len(s.pids) : y = s.pids[k]
  BY <1>1 DEF Awaited
<1>3. k # 1
  BY <1>1, <1>2
<1>4. k - 1 \in DOMAIN Tail(s.pids) /\ Tail(s.pids)[k - 1] = y
  BY <1>1, <1>2, <1>3
<1> QED
  BY <1>4 DEF Awaited

LEMMA WaitpidInv ==
  ASSUME PipeInv, NEW q \in Processes, Waitpid(q) PROVE PipeInv'
<1> DEFINE pid == Head(proc[q].pids)
           awaited == IF pid = root THEN Children(q) ELSE Children(q) \cap {pid}
           s == [proc[q] EXCEPT !.pids = Tail(@)]
<1>1. /\ proc[q].pc = "wait" /\ proc[q].pids # << >>
      /\ UNCHANGED <<prog, kinds, fd, pipes, input, out>>
      /\ \/ awaited = {} /\ Become(q, s)
         \/ \E c \in awaited :
              At(c, "exited") /\ proc' = [proc EXCEPT ![c].pc = "reaped", ![q] = s]
  BY DEF Waitpid, At
<1>2. proc[q] \in Process /\ proc[q].pids \in Seq(Levels)
  BY Facts DEF Process
<1>3. /\ s \in Process /\ s.pc = "wait" /\ s.i = proc[q].i /\ s.pids = Tail(proc[q].pids)
  <2>1. Tail(proc[q].pids) \in Seq(Levels)
    BY <1>1, <1>2
  <2> QED
    BY <1>1, <1>2, <2>1 DEF Process
<1>4. Children(q) = {c \in Processes : Kid(c, q) /\ proc[c].pc # "reaped"}
  BY ChildrenAre, Facts
<1>5. \A y \in Processes : Kid(y, q) => y # root
  <2>1. Len(q) \in Nat
    BY Facts
  <2> QED
    BY <2>1, RootIsLevel DEF Kid
<1> HIDE DEF s
<1>6. ASSUME NEW y \in Processes, Kid(y, q), proc[y].pc # "reaped",
             y # pid
      PROVE  y \in Awaited(s)
  <2>1. y \in Awaited(proc[q])
    BY <1>6, Facts DEF FamilyAt
  <2> QED
    BY <1>1, <1>2, <1>3, <1>6, <2>1, StillAwaited
<1>7. LevelAt(q, s) /\ OpenAt(s, DOMAIN fd[q])
  BY <1>1, <1>3, Facts DEF LevelAt, OpenAt
<1>8. CASE awaited = {} /\ Become(q, s)
  <2>1. \A y \in Processes : y # q /\ Kid(y, q) => FamilyAt(y, s)
    <3>1. ASSUME NEW y \in Processes, Kid(y, q), proc[y].pc # "reaped" PROVE y # pid
      <4>1. y \in Children(q) /\ y # root
        BY <1>4, <1>5, <3>1
      <4> QED
        BY <1>8, <4>1
    <3> QED
      BY <1>3, <1>6, <3>1 DEF FamilyAt
  <2>2. fd' = [fd EXCEPT ![q] = fd[q]]
    BY <1>1, Facts
  <2> QED
    BY <1>1, <1>3, <1>7, <1>8, <2>1, <2>2, Facts, QuietMoves
<1>9. ASSUME NEW c \in awaited, At(c, "exited"),
             proc' = [proc EXCEPT ![c].pc = "reaped", ![q] = s]
      PROVE  PipeInv'
  <2>1. c \in Processes /\ Kid(c, q) /\ proc[c].pc = "exited" /\ c # q /\ c # root
    BY <1>1, <1>4, <1>5, <1>9 DEF At
  <2>2. pid = root \/ pid = c
    BY <1>9
  <2>3. Types /\ proc[c] \in Process /\ Tree /\ NobodyLeft
    BY <2>1, Facts DEF PipeInv
  <2>4. /\ Processes' = Processes /\ n' = n
        /\ proc'[q] = s /\ proc'[c] = [proc[c] EXCEPT !.pc = "reaped"]
        /\ \A x \in Processes : x # q /\ x # c => proc'[x] = proc[x]
    BY <1>1, <1>9, <2>1, <2>3 DEF Types, Processes, n
  <2>5. proc'[c].pc = "reaped" /\ proc'[c] \in Process
    BY <2>3, <2>4 DEF Process, Points
  <2>6. Types'
    <3>1. proc' \in [Processes -> Process]
      BY <1>3, <1>9, <2>1, <2>3, <2>4, <2>5 DEF Types
    <3>2. Process' = Process /\ Ends' = Ends
      BY <1>1, <2>4 DEF Process, Ends
    <3> QED
      BY <1>1, <2>3, <2>4, <3>1, <3>2 DEF Types
  <2>7. PipesNamed'
    BY <1>1, <2>4, Facts DEF PipesNamed, Named, Rising
  <2>8. ASSUME NEW x \in Processes PROVE (Named(x) /\ Level(x) /\ Open(x))'
    <3>1. Named(x)'
      BY <2>4, Facts DEF Named, Rising
    <3>2. CASE x = q
      <4>1. proc'[x] = s /\ DOMAIN fd'[x] = DOMAIN fd[q]
        BY <1>1, <2>4, <3>2
      <4> QED
        BY <1>1, <1>7, <2>4, <3>1, <3>2, <4>1 DEF Level, LevelAt, Open, OpenAt
    <3>3. CASE x = c
      <4>1. OpenAt(proc[c], DOMAIN fd[c])
        BY <2>1, Facts
      <4>2. DOMAIN fd'[x] = {}
        BY <1>1, <2>1, <3>3, <4>1 DEF OpenAt
      <4> QED
        BY <2>1, <2>5, <3>1, <3>3, <4>2 DEF Level, LevelAt, Open, OpenAt
    <3>4. CASE x # q /\ x # c
      <4>1. proc'[x] = proc[x] /\ fd'[x] = fd[x]
        BY <1>1, <2>4, <3>4
      <4>2. LevelAt(x, proc[x]) /\ OpenAt(proc[x], DOMAIN fd[x])
        BY Facts
      <4> QED
        BY <1>1, <2>4, <3>1, <4>1, <4>2 DEF Level, LevelAt, Open, OpenAt
    <3> QED
      BY <3>2, <3>3, <3>4
  <2>9. Parent' /\ Tree'
    BY <1>1, <2>3, <2>4 DEF Parent, ParentAt, PipeInv, Tree
  <2>10. \A y \in Processes : proc[y].pc = "reaped" => proc'[y].pc = "reaped"
    BY <1>1, <2>1, <2>4
  <2>11. \A y \in Processes : proc'[y].pc # "reaped" => proc[y].pc # "reaped" /\ y # c
    BY <2>5, <2>10
  <2>12. Families'
    <3>1. ASSUME NEW x \in Processes, NEW y \in Processes, Kid(y, x) PROVE Family(y, x)'
      <4>1. FamilyAt(y, proc[x])
        BY <3>1, Facts
      <4>2. CASE x = q
        <5>1. proc'[y].pc # "reaped" => y \in Awaited(s)
          <6>1. ASSUME proc'[y].pc # "reaped" PROVE y # pid
            BY <1>5, <2>2, <2>11, <3>1, <4>2, <6>1
          <6> QED
            BY <1>6, <2>11, <3>1, <4>2, <6>1
        <5>2. proc'[x] = s
          BY <2>4, <4>2
        <5> QED
          BY <1>3, <5>1, <5>2 DEF Family, FamilyAt, Awaited
      <4>3. CASE x = c
        <5>1. Len(c) \in Nat /\ Len(y) \in Nat
          BY <2>1, Facts
        <5>2. Below(y, c)
          BY <3>1, <4>3, <5>1 DEF Kid, Below
        <5>3. proc[y].pc = "reaped"
          BY <2>1, <2>3, <5>2 DEF NobodyLeft
        <5> QED
          BY <2>5, <2>10, <4>3, <5>3 DEF Family, FamilyAt
      <4>4. CASE x # q /\ x # c
        <5>1. proc'[x] = proc[x]
          BY <2>4, <4>4
        <5> QED
          BY <2>11, <4>1, <5>1 DEF Family, FamilyAt, Awaited
      <4> QED
        BY <4>2, <4>3, <4>4
    <3> QED
      BY <2>4, <3>1 DEF Families, Kid
  <2>13. NobodyLeft'
    <3>1. ASSUME NEW x \in Processes, NEW y \in Processes, Below(y, x),
                 proc'[x].pc \in {"exited", "reaped"}
          PROVE  proc'[y].pc = "reaped"
      <4>1. x # q
        BY <1>3, <2>4, <3>1
      <4>2. proc[x].pc \in {"exited", "reaped"}
        BY <2>1, <2>4, <3>1, <4>1
      <4>3. proc[y].pc = "reaped"
        BY <2>3, <3>1, <4>2 DEF NobodyLeft
      <4> QED
        BY <2>10, <4>3
    <3> QED
      BY <2>4, <3>1 DEF NobodyLeft, Below
  <2> QED
    BY <2>4, <2>6, <2>7, <2>8, <2>9, <2>12, <2>13 DEF PipeInv
<1> QED
  BY <1>1, <1>8, <1>9

-----------------------------------------------------------------------------
(* What is waited for after a fork: what was, and the child.               *)
LEMMA Remembered ==
  ASSUME NEW pids \in Seq(Levels), NEW pid \in Levels
  PROVE  /\ Remember(pids, pid) \in Seq(Levels)
         /\ \E k \in DOMAIN Remember(pids, pid) : Remember(pids, pid)[k] = pid
         /\ \A j \in DOMAIN pids : \E k \in DOMAIN Remember(pids, pid) :
              Remember(pids, pid)[k] = pids[j]
<1>1. CASE prog = "connect2"
  <2> DEFINE r == Append(pids, pid)
  <2>1. /\ r \in Seq(Levels) /\ DOMAIN r = 1..Len(pids) + 1 /\ Len(pids) \in Nat
        /\ r[Len(pids) + 1] = pid /\ DOMAIN pids = 1..Len(pids)
        /\ \A j \in 1..Len(pids) : r[j] = pids[j]
    OBVIOUS
  <2>2. Remember(pids, pid) = r
    BY <1>1 DEF Remember
  <2> HIDE DEF r
  <2>3. Len(pids) + 1 \in DOMAIN r /\ \A j \in DOMAIN pids : j \in DOMAIN r
    BY <2>1
  <2> QED
    BY <2>1, <2>2, <2>3
<1>2. CASE prog # "connect2"
  <2> DEFINE r == <<pid>> \o pids
  <2>1. /\ r \in Seq(Levels) /\ DOMAIN r = 1..Len(pids) + 1 /\ Len(pids) \in Nat
        /\ r[1] = pid /\ DOMAIN pids = 1..Len(pids)
        /\ \A j \in 1..Len(pids) : r[j + 1] = pids[j]
    OBVIOUS
  <2>2. Remember(pids, pid) = r
    BY <1>2 DEF Remember
  <2> HIDE DEF r
  <2>3. 1 \in DOMAIN r /\ \A j \in DOMAIN pids : j + 1 \in DOMAIN r
    BY <2>1
  <2> QED
    BY <2>1, <2>2, <2>3
<1> QED
  BY <1>1, <1>2

LEMMA ForkInv ==
  ASSUME PipeInv, NEW q \in Processes, Fork(q) PROVE PipeInv'
<1> DEFINE c == Append(q, proc[q].i)
           mine == [proc[q] EXCEPT !.pids = Remember(@, c)]
           its == [proc[q] EXCEPT !.pids = Remember(@, root), !.pc = "child"]
           s == AfterFork(mine)
<1>1. /\ proc[q].pc = "fork" /\ UNCHANGED <<prog, kinds, pipes, input, out>>
      /\ proc' = [x \in Processes \cup {c} |->
                    IF x = c THEN its ELSE IF x = q THEN s ELSE proc[x]]
      /\ fd' = [x \in Processes \cup {c} |-> IF x = c THEN fd[q] ELSE fd[x]]
  BY DEF Fork, At
<1>2. /\ proc[q] \in Process /\ proc[q].i < n /\ proc[q].i \in Nat /\ n \in Nat
      /\ q \in Levels /\ Len(q) \in Nat /\ Named(q) /\ Len(q) <= proc[q].i
      /\ proc[q].fds_pair = << 3, 4 >>
      /\ {0, 1} \subseteq DOMAIN fd[q] /\ DOMAIN fd[q] \subseteq {0, 1, 3, 4}
      /\ \A a \in DOMAIN q : q[a] < proc[q].i
  BY <1>1, Facts DEF LevelAt, OpenAt, Process
<1>3. /\ c \in Levels /\ Named(c) /\ Len(c) = Len(q) + 1 /\ c[Len(c)] = proc[q].i
      /\ \A a \in 1..Len(q) : c[a] = q[a]
  BY <1>2, AppendNamed
<1>4. proc[q].pids \in Seq(Levels) /\ DOMAIN c = 1..Len(c) /\ DOMAIN q = 1..Len(q)
  BY <1>2, <1>3 DEF Process, Levels
<1>5. /\ its \in Process /\ its.pc = "child" /\ its.i = proc[q].i
      /\ its.fds_pair = << 3, 4 >>
  <2>1. Remember(proc[q].pids, root) \in Seq(Levels)
    BY <1>4, Remembered, RootIsLevel
  <2> QED
    BY <1>2, <2>1 DEF Process, Points
<1>6. /\ mine \in Process /\ c \in Awaited(mine)
      /\ Awaited(proc[q]) \subseteq Awaited(mine)
      /\ mine.pc = "fork" /\ mine.i = proc[q].i /\ mine.fds_pair = << 3, 4 >>
  <2>1. mine \in Process /\ mine.pids = Remember(proc[q].pids, c)
    BY <1>2, <1>3, <1>4, Remembered DEF Process
  <2>2. c \in Awaited(mine) /\ Awaited(proc[q]) \subseteq Awaited(mine)
    <3> DEFINE r == mine.pids
           w == proc[q].pids
    <3>1. r = Remember(w, c) /\ w \in Seq(Levels) /\ c \in Levels
      BY <1>3, <1>4, <2>1
    <3> HIDE DEF r, w, c, mine
    <3>2. /\ \E k \in DOMAIN r : r[k] = c
          /\ \A j \in DOMAIN w : \E k \in DOMAIN r : r[k] = w[j]
      BY <3>1, Remembered
    <3> QED
      BY <3>2 DEF Awaited, r, w
  <2> QED
    BY <1>1, <1>2, <2>1, <2>2
<1> HIDE DEF its, mine
<1>7. /\ s \in Process /\ Awaited(s) = Awaited(mine) /\ s.fds_pair = << 3, 4 >>
      /\ \/ s.pc = "fork" /\ s.i = 1 /\ proc[q].i = 0 /\ prog = "connect2"
         \/ s.pc = "close" /\ s.i = proc[q].i
  <2>1. 1 \in 0..n
    BY Facts
  <2>2. CASE prog = "connect2" /\ mine.i = 0
    <3>1. s = [mine EXCEPT !.pc = "fork", !.i = 1]
      BY <2>2 DEF AfterFork
    <3>2. s \in Process /\ s.pids = mine.pids /\ s.fds_pair = mine.fds_pair
      BY <1>6, <2>1, <3>1 DEF Process, Points
    <3>3. Awaited(s) = Awaited(mine)
      BY <3>2 DEF Awaited
    <3>4. s.pc = "fork" /\ s.i = 1
      BY <1>6, <3>1 DEF Process
    <3> QED
      BY <1>6, <2>2, <3>2, <3>3, <3>4
  <2>3. CASE ~(prog = "connect2" /\ mine.i = 0)
    <3>1. s = [mine EXCEPT !.pc = "close"]
      BY <2>3 DEF AfterFork
    <3>2. s \in Process /\ s.pids = mine.pids /\ s.fds_pair = mine.fds_pair
      BY <1>6, <2>1, <3>1 DEF Process, Points
    <3>3. Awaited(s) = Awaited(mine)
      BY <3>2 DEF Awaited
    <3>4. s.pc = "close" /\ s.i = mine.i
      BY <1>6, <3>1 DEF Process
    <3> QED
      BY <1>6, <2>3, <3>2, <3>3, <3>4
  <2> QED
    BY <2>2, <2>3
<1> HIDE DEF s
<1>8. Types /\ Tree /\ NobodyLeft
  BY DEF PipeInv
<1>9. Kid(c, q)
  BY <1>2, <1>3 DEF Kid
<1>10. c \notin Processes
  <2>1. ASSUME c \in Processes PROVE FALSE
    <3>1. FamilyAt(c, proc[q])
      BY <1>9, <2>1, Facts
    <3> QED
      BY <1>1, <1>2, <1>3, <3>1 DEF FamilyAt
  <2> QED
    BY <2>1
<1> HIDE DEF c
<1>11. /\ Processes' = Processes \cup {c} /\ n' = n /\ prog' = prog
       /\ proc'[c] = its /\ proc'[q] = s
       /\ \A x \in Processes : x # q => proc'[x] = proc[x]
       /\ fd'[c] = fd[q] /\ \A x \in Processes : fd'[x] = fd[x]
  <2>1. DOMAIN proc' = Processes \cup {c}
    BY <1>1
  <2>2. n' = n /\ prog' = prog
    BY <1>1 DEF n
  <2> QED
    BY <1>1, <1>10, <2>1, <2>2 DEF Processes
<1>12. \A x \in Processes : proc'[x].pc = "reaped" <=> proc[x].pc = "reaped"
  BY <1>1, <1>7, <1>11
<1>13. root \in Processes /\ c # root
  BY <1>8, <1>10 DEF Types
<1>14. Types'
  <2>1. proc' \in [Processes' -> Process]
    <3>1. \A x \in Processes : proc'[x] \in Process
      BY <1>7, <1>8, <1>11 DEF Types
    <3> QED
      BY <1>1, <1>5, <1>11, <3>1
  <2>2. Process' = Process /\ Ends' = Ends
    BY <1>1, <1>11 DEF Process, Ends
  <2>3. DOMAIN fd' = Processes' /\ fd' = [x \in Processes' |-> fd'[x]]
    BY <1>1, <1>11
  <2>4. ASSUME NEW x \in Processes'
        PROVE  x \in Levels /\ fd'[x] \in [DOMAIN fd'[x] -> Ends]
    <3>1. CASE x = c
      BY <1>3, <1>11, <3>1, Facts
    <3>2. CASE x \in Processes
      BY <1>11, <3>2, Facts
    <3> QED
      BY <1>11, <3>1, <3>2
  <2> QED
    BY <1>1, <1>8, <1>11, <1>13, <2>1, <2>2, <2>3, <2>4 DEF Types
<1>15. PipesNamed'
  BY <1>1, <1>11, Facts DEF PipesNamed, Named, Rising
<1>16. ASSUME NEW x \in Processes' PROVE (Named(x) /\ Level(x) /\ Open(x))'
  <2>1. \A a \in DOMAIN q : q[a] \in Nat
    BY <1>2 DEF Levels
  <2>2. CASE x = c
    <3>1. Named(x)'
      BY <1>3, <1>11, <2>2 DEF Named, Rising
    <3>2. \A a \in DOMAIN c : c[a] <= proc[q].i
      BY <1>2, <1>3, <1>4, <2>1
    <3>3. LevelAt(c, its)
      BY <1>2, <1>3, <1>5, <1>13, <3>2 DEF LevelAt
    <3>4. OpenAt(its, DOMAIN fd[q])
      BY <1>2, <1>5 DEF OpenAt
    <3> QED
      BY <1>11, <2>2, <3>1, <3>3, <3>4 DEF Level, LevelAt, Open, OpenAt
  <2>3. CASE x = q
    <3>1. Named(x)'
      BY <1>2, <1>11, <2>3 DEF Named, Rising
    <3>2. CASE s.pc = "fork"
      <4>1. n = 2 /\ s.i = 1 /\ proc[q].i = 0
        BY <1>7, <3>2, Facts
      <4>2. Len(q) <= 1 /\ \A a \in DOMAIN q : q[a] < 1
        BY <1>2, <2>1, <4>1
      <4> QED
        BY <1>2, <1>7, <1>11, <2>3, <3>1, <3>2, <4>1, <4>2
        DEF Level, LevelAt, Open, OpenAt
    <3>3. CASE s.pc = "close"
      <4>1. s.i = proc[q].i /\ Len(q) <= proc[q].i + 1 /\ \A a \in DOMAIN q : q[a] <= proc[q].i
        BY <1>2, <1>7, <2>1, <3>3
      <4> QED
        BY <1>2, <1>7, <1>11, <2>3, <3>1, <3>3, <4>1 DEF Level, LevelAt, Open, OpenAt
    <3> QED
      BY <1>7, <3>2, <3>3
  <2>4. CASE x \in Processes /\ x # q
    <3>1. proc'[x] = proc[x] /\ fd'[x] = fd[x]
      BY <1>11, <2>4
    <3>2. Named(x) /\ LevelAt(x, proc[x]) /\ OpenAt(proc[x], DOMAIN fd[x])
      BY <2>4, Facts
    <3> QED
      BY <1>11, <3>1, <3>2 DEF Named, Rising, Level, LevelAt, Open, OpenAt
  <2> QED
    BY <1>11, <2>2, <2>3, <2>4
<1>17. Parent'
  BY <1>11, <1>13 DEF PipeInv, Parent, ParentAt
<1>18. Tree'
  <2>1. ASSUME NEW y \in Processes, NEW m \in 0..Len(y)
        PROVE  \E x \in Processes' : Len(x) = m /\ \A a \in 1..m : x[a] = y[a]
    BY <1>8, <1>11 DEF Tree
  <2>2. ASSUME NEW m \in 0..Len(c)
        PROVE  \E x \in Processes' : Len(x) = m /\ \A a \in 1..m : x[a] = c[a]
    <3>1. CASE m = Len(c)
      BY <1>11, <3>1
    <3>2. CASE m # Len(c)
      <4>1. m \in 0..Len(q)
        BY <1>2, <1>3, <3>2
      <4>2. PICK x \in Processes : Len(x) = m /\ \A a \in 1..m : x[a] = q[a]
        BY <1>8, <4>1 DEF Tree
      <4>3. \A a \in 1..m : x[a] = c[a]
        BY <1>2, <1>3, <4>1, <4>2
      <4> QED
        BY <1>11, <4>2, <4>3
    <3> QED
      BY <3>1, <3>2
  <2> QED
    BY <1>11, <2>1, <2>2 DEF Tree
<1>19. \A y \in Processes : ~Kid(y, c) /\ ~Below(y, c)
  <2>1. ASSUME NEW y \in Processes, Len(y) > Len(c), \A a \in 1..Len(c) : y[a] = c[a]
        PROVE  FALSE
    <3>1. Len(y) \in Nat /\ Len(c) \in Nat
      BY <1>2, <1>3, Facts
    <3>2. PICK x \in Processes : Len(x) = Len(c) /\ \A a \in 1..Len(c) : x[a] = y[a]
      BY <1>8, <2>1, <3>1 DEF Tree
    <3>3. x = c
      <4>1. x \in Levels /\ \A a \in 1..Len(x) : x[a] = c[a]
        BY <2>1, <3>2, Facts
      <4> QED
        BY <1>3, <3>2, <4>1, SameLevels
    <3> QED
      BY <1>10, <3>3
  <2>2. Len(c) \in Nat
    BY <1>2, <1>3
  <2> QED
    BY <2>1, <2>2 DEF Kid, Below
<1>20. ~Kid(c, c) /\ ~Below(c, c)
  BY <1>2, <1>3 DEF Kid, Below
<1>21. ASSUME NEW x \in Processes, Len(x) = Len(q), \A a \in 1..Len(x) : c[a] = x[a]
       PROVE  x = q
  <2>1. x \in Levels /\ \A a \in 1..Len(x) : x[a] = q[a]
    BY <1>3, <1>21, Facts
  <2> QED
    BY <1>2, <1>21, <2>1, SameLevels
<1>22. Families'
  <2>1. ASSUME NEW x \in Processes', NEW y \in Processes', Kid(y, x) PROVE Family(y, x)'
    <3>1. x \in Processes
      BY <1>11, <1>19, <1>20, <2>1
    <3>2. CASE y = c
      <4>1. x = q
        <5>1. Len(x) \in Nat /\ Len(x) = Len(q) /\ \A a \in 1..Len(x) : c[a] = x[a]
          BY <1>2, <1>3, <2>1, <3>1, <3>2, Facts DEF Kid
        <5> QED
          BY <1>21, <3>1, <5>1
      <4>2. c \in Awaited(s) /\ proc'[q] = s
        BY <1>6, <1>7, <1>11
      <4> QED
        BY <1>2, <1>3, <1>7, <3>2, <4>1, <4>2 DEF Family, FamilyAt, Awaited
    <3>3. CASE y \in Processes /\ x = q
      <4>1. FamilyAt(y, proc[q]) /\ y[Len(y)] \in Nat
        <5>1. y \in Levels /\ Len(y) \in 1..Len(y)
          BY <1>2, <2>1, <3>3, Facts DEF Kid
        <5> QED
          BY <2>1, <3>3, <5>1, Facts DEF Levels
      <4>2. y[Len(y)] < proc[q].i
        BY <1>1, <4>1 DEF FamilyAt
      <4>3. s.pc = "close" => y[Len(y)] <= s.i
        BY <1>2, <1>7, <4>1, <4>2
      <4>4. s.pc = "fork" => y[Len(y)] < s.i
        BY <1>2, <1>7, <4>1, <4>2
      <4>5. proc'[y].pc # "reaped" => y \in Awaited(s)
        BY <1>6, <1>7, <1>12, <3>3, <4>1 DEF FamilyAt
      <4>6. proc'[x] = s /\ s.pc \in {"fork", "close"}
        BY <1>7, <1>11, <3>3
      <4> QED
        BY <4>3, <4>4, <4>5, <4>6 DEF Family, FamilyAt, Awaited
    <3>4. CASE y \in Processes /\ x # q
      <4>1. FamilyAt(y, proc[x]) /\ proc'[x] = proc[x]
        BY <1>11, <2>1, <3>1, <3>4, Facts
      <4> QED
        BY <1>12, <3>4, <4>1 DEF Family, FamilyAt, Awaited
    <3> QED
      BY <1>11, <3>2, <3>3, <3>4
  <2> QED
    BY <2>1 DEF Families, Kid
<1>23. NobodyLeft'
  <2>1. ASSUME NEW x \in Processes', NEW y \in Processes', Below(y, x),
               proc'[x].pc \in {"exited", "reaped"}
        PROVE  proc'[y].pc = "reaped"
    <3>1. x \in Processes /\ x # q /\ proc[x].pc \in {"exited", "reaped"}
      BY <1>5, <1>7, <1>11, <2>1
    <3>2. CASE y = c
      <4>1. Len(x) \in Nat /\ Len(x) <= Len(q) /\ \A a \in 1..Len(x) : c[a] = x[a]
        BY <1>2, <1>3, <2>1, <3>1, <3>2, Facts DEF Below
      <4>2. Len(x) # Len(q)
        BY <1>21, <3>1, <4>1
      <4>3. Below(q, x)
        BY <1>2, <1>3, <4>1, <4>2 DEF Below
      <4>4. proc[q].pc = "reaped"
        BY <1>8, <3>1, <4>3 DEF NobodyLeft
      <4> QED
        BY <1>1, <4>4
    <3>3. CASE y \in Processes
      BY <1>8, <1>12, <2>1, <3>1, <3>3 DEF NobodyLeft
    <3> QED
      BY <1>11, <3>2, <3>3
  <2> QED
    BY <2>1 DEF NobodyLeft, Below
<1> QED
  BY <1>14, <1>15, <1>16, <1>17, <1>18, <1>22, <1>23 DEF PipeInv

-----------------------------------------------------------------------------
LEMMA StutterInv == PipeInv /\ UNCHANGED vars => PipeInv'
<1> SUFFICES ASSUME PipeInv, UNCHANGED vars PROVE PipeInv'
  OBVIOUS
<1>1. /\ prog' = prog /\ kinds' = kinds /\ proc' = proc /\ fd' = fd
      /\ pipes' = pipes /\ input' = input /\ out' = out
  BY DEF vars
<1>2. Processes' = Processes /\ n' = n
  BY <1>1 DEF Processes, n
<1>3. Process' = Process /\ Ends' = Ends
  BY <1>1, <1>2 DEF Process, Ends
<1>4. Types' /\ PipesNamed' /\ Parent' /\ Tree'
  BY <1>1, <1>2, <1>3 DEF PipeInv, Types, PipesNamed, Named, Rising, Parent, ParentAt, Tree
<1>5. Families' /\ NobodyLeft'
  BY <1>1, <1>2 DEF PipeInv, Families, Family, FamilyAt, Awaited, NobodyLeft, Kid, Below
<1>6. \A q \in Processes' : (Named(q) /\ Level(q) /\ Open(q))'
  BY <1>1, <1>2 DEF PipeInv, Named, Rising, Level, LevelAt, Open, OpenAt
<1> QED
  BY <1>4, <1>5, <1>6 DEF PipeInv

(* Every step of every process keeps the invariant.                        *)
THEOREM PipesAndProcesses == Spec => []PipeInv
<1>1. PipeInv /\ [Next]_vars => PipeInv'
  <2> SUFFICES ASSUME PipeInv, [Next]_vars PROVE PipeInv'
    OBVIOUS
  <2>1. ASSUME NEW q \in Processes, Step(q) PROVE PipeInv'
    <3>1. CASE Program(q)
      BY <3>1, StartProcessInv, PipeStepInv, ForkInv, ChildInv, ExeclpInv, CloseEndsInv,
         WaitpidInv, ReturnInv DEF Program
    <3>2. CASE Read(q) \/ Write(q)
      BY <3>2, ReadInv, WriteInv
    <3> QED
      BY <2>1, <3>1, <3>2 DEF Step
  <2>2. CASE UNCHANGED vars
    BY <2>2, StutterInv
  <2> QED
    BY <2>1, <2>2 DEF Next
<1> QED
  BY <1>1, InitInv, PTL DEF Spec

(* A name is one of those a command line of this length can give.          *)
LEMMA IsName ==
  ASSUME NEW q \in Levels, Named(q), n \in Nat, MaxCommands \in Nat, n <= MaxCommands
  PROVE  q \in Names
<1>1. Len(q) \in 0..MaxCommands /\ DOMAIN q = 1..Len(q)
  BY DEF Named, Levels
<1>2. \A a \in 1..Len(q) : q[a] \in 0..MaxCommands - 1
  BY <1>1 DEF Named, Levels
<1>3. q \in [1..Len(q) -> 0..MaxCommands - 1]
  BY <1>1, <1>2 DEF Levels
<1> QED
  BY <1>1, <1>3 DEF Names, Named, Rising

LEMMA TypesHold == PipeInv => TypeOK
<1> SUFFICES ASSUME PipeInv PROVE TypeOK
  OBVIOUS
<1>1. Types /\ PipesNamed
  BY DEF PipeInv
<1>2. n \in Nat /\ n <= MaxCommands /\ MaxCommands \in Nat
  BY <1>1, LineFacts
<1>3. ASSUME NEW q \in Processes
      PROVE  /\ q \in Names /\ DOMAIN fd[q] \subseteq 0..4
             /\ \A d \in DOMAIN fd[q] : fd[q][d][1] \in DOMAIN pipes \cup {Terminal}
             /\ proc[q].i \in 0..n /\ proc[q].item \in 0..1
  <2>1. q \in Names
    BY <1>2, Facts, IsName
  <2>2. proc[q] \in Process
    BY Facts
  <2>3. DOMAIN fd[q] \subseteq {0, 1, 3, 4}
    <3>1. OpenAt(proc[q], DOMAIN fd[q])
      BY Facts
    <3> QED
      BY <2>2, <3>1 DEF OpenAt, Process, Points
  <2>4. \A d \in DOMAIN fd[q] : fd[q][d] \in Ends
    BY Facts
  <2> QED
    BY <2>1, <2>2, <2>3, <2>4 DEF Process, Ends
<1>4. \A p \in DOMAIN pipes : p \in Names /\ pipes[p] \in 0..Capacity
  BY <1>1, <1>2, IsName DEF PipesNamed, Types
<1> QED
  BY <1>1, <1>3, <1>4 DEF TypeOK, Types

(* A running command holds its two ends only, and the waiting program has  *)
(* closed every pipe's write end: the reader of a pipe sees the end of its *)
(* input when the command that writes to it is gone.                       *)
THEOREM NoStrayWriterAlways == Spec => []NoStrayWriter
<1>1. PipeInv => NoStrayWriter
  <2> SUFFICES ASSUME PipeInv PROVE NoStrayWriter
    OBVIOUS
  <2>1. ASSUME NEW q \in Processes, At(q, "run") PROVE DOMAIN fd[q] = {0, 1}
    <3>1. OpenAt(proc[q], DOMAIN fd[q])
      BY Facts
    <3> QED
      BY <2>1, <3>1 DEF OpenAt, At
  <2>2. ASSUME root \in Processes, At(root, "wait"), NEW p \in DOMAIN pipes
        PROVE  ~Holds(root, WriteEnd(p))
    <3>1. DOMAIN fd[root] \subseteq {0, 1, 3} /\ ParentAt(fd[root])
      <4>1. OpenAt(proc[root], DOMAIN fd[root]) /\ ParentAt(fd[root])
        BY <2>2, Facts
      <4> QED
        BY <2>2, <4>1 DEF OpenAt, At
    <3>2. p # Terminal
      <4>1. p \in Seq(Nat)
        BY <2>2 DEF PipeInv, PipesNamed, Levels
      <4>2. p = << -1 >> => FALSE
        <5>1. p = << -1 >> => p[1] = -1 /\ 1 \in DOMAIN p
          OBVIOUS
        <5>2. \A a \in DOMAIN p : p[a] \in Nat
          BY <4>1
        <5> QED
          BY <5>1, <5>2
      <4> QED
        BY <4>2 DEF Terminal
    <3>3. ASSUME NEW d \in DOMAIN fd[root], fd[root][d] = WriteEnd(p) PROVE FALSE
      <4>1. CASE d = 1
        BY <3>1, <3>2, <3>3, <4>1 DEF ParentAt, WriteEnd
      <4>2. CASE d \in {0, 3}
        BY <3>1, <3>3, <4>2 DEF ParentAt, WriteEnd
      <4> QED
        BY <3>1, <4>1, <4>2
    <3> QED
      BY <3>3 DEF Holds
  <2> QED
    BY <2>1, <2>2, TypesHold DEF NoStrayWriter
<1> QED
  BY <1>1, PipesAndProcesses, PTL

(* When the parent has exited, all that it started, its children's         *)
(* children included, have exited and been waited for.                     *)
THEOREM ParentExitsLast == Spec => []ParentLast
<1>1. PipeInv => ParentLast
  <2> SUFFICES ASSUME PipeInv, Done, NEW q \in Processes \ {root} PROVE At(q, "reaped")
    BY DEF ParentLast
  <2>1. q \in Levels /\ Len(q) \in Nat /\ root \in Processes /\ proc[root].pc = "exited"
    BY Facts DEF Done, At
  <2>2. Len(q) > 0
    BY <2>1, RootIsLevel, SameLevels
  <2>3. Below(q, root)
    BY <2>2, RootIsLevel DEF Below
  <2> QED
    BY <2>1, <2>3 DEF PipeInv, NobodyLeft, At
<1> QED
  BY <1>1, PipesAndProcesses, PTL

-----------------------------------------------------------------------------
(* What a line writes.                                                     *)

(* A line whose commands all exist is started level by level: the process  *)
(* of level a is <<a>>, and these have been forked when root is at s.      *)
Born(s) == IF s.pc \in {"start", "pipe", "fork"} THEN s.i
           ELSE IF s.pc = "close" THEN s.i + 1 ELSE n
Dug(s) == IF s.pc \in {"start", "pipe"} THEN s.i
          ELSE IF s.pc \in {"fork", "close"} THEN s.i + 1 ELSE n
Gone == {"exited", "reaped"}

Flat ==
  /\ \A q \in Processes : q = root \/ \E a \in 0..Born(proc[root]) - 1 : q = <<a>>
  /\ \A a \in 0..Born(proc[root]) - 1 : <<a>> \in Processes
  /\ \A a \in Nat : <<a>> \in DOMAIN pipes => a < Dug(proc[root])

(* What the command of level a reads and writes, and what its process      *)
(* finds as descriptor 0 and as the pipe it is to write to.                *)
Source(a) == IF a = 0 THEN Terminal ELSE <<a - 1>>
Sink(a) == IF a = n - 1 THEN Terminal ELSE <<a>>
Given(a) == IF prog = "connect2" THEN Terminal ELSE Source(a)
Newest(a) == IF prog = "connect2" THEN <<0>> ELSE <<a>>
Paired(f, p) == {3, 4} \subseteq DOMAIN f /\ f[3] = ReadEnd(p) /\ f[4] = WriteEnd(p)

RootWired(s, f) ==
  /\ s.pc \notin {"child", "exec", "run", "reaped"} /\ s.item = 0
  /\ prog = "connect2" => /\ s.pc = "pipe" => s.i = 0
                          /\ s.pc = "close" => s.i = 1
  /\ s.pc = "start" /\ s.i = 0 => f[0] = ReadEnd(Terminal)
  /\ s.pc = "start" /\ s.i > 0 => 3 \in DOMAIN f /\ f[3] = ReadEnd(<<s.i - 1>>)
  /\ s.pc = "pipe" => f[0] = ReadEnd(Source(s.i))
  /\ s.pc \in {"fork", "close"} => f[0] = ReadEnd(Given(s.i)) /\ Paired(f, Newest(s.i))

ChildWired(a, s, f) ==
  /\ s.i = a /\ s.pc \in {"child", "exec", "run"} \cup Gone
  /\ s.pc = "child" => /\ f[0] = ReadEnd(Given(a)) /\ f[1] = WriteEnd(Terminal)
                       /\ Paired(f, Newest(a))
  /\ s.pc \in {"exec", "run"} => f[0] = ReadEnd(Source(a)) /\ f[1] = WriteEnd(Sink(a))

Wired == /\ RootWired(proc[root], fd[root])
         /\ \A a \in 0..Born(proc[root]) - 1 : ChildWired(a, proc[<<a>>], fd[<<a>>])

(* What the command of level a has yet to write if m items are yet to be   *)
(* written to the pipe it reads, or to the terminal.                       *)
Cap(m) == IF m < MaxOut THEN m ELSE MaxOut
Through(kind, m) == IF kind = "yes" THEN MaxOut
                    ELSE IF kind = "head" /\ m > 0 THEN 1 ELSE Cap(m)
Left(a) == <<a>> \in Processes /\ proc[<<a>>].pc \in Gone
InHand(a) == IF <<a>> \in Processes THEN proc[<<a>>].item ELSE 0
InPipe(a) == IF a > 0 /\ <<a - 1>> \in DOMAIN pipes THEN pipes[<<a - 1>>] ELSE 0
Yields(a, m) == IF Left(a) THEN 0 ELSE Through(kinds[a + 1], m + InPipe(a) + InHand(a))

(* e[a] items are yet to come from the first a commands, or, with a = 0,   *)
(* from the terminal.                                                      *)
Ahead(e) == /\ e \in [0..n -> 0..MaxOut] /\ e[0] = input
            /\ \A a \in 0..n - 1 : e[a + 1] = Yields(a, e[a])
Promised == \E e : Ahead(e) /\ Cap(out + e[n]) = Ideal

FlowInv == NoneMissing => Flat /\ Wired /\ Promised

(* A process of a flat line is root or that of a level.                    *)
LEMMA Single ==
  /\ \A a, b : <<a>> = <<b>> => a = b
  /\ \A a : <<a>> # root
  /\ \A a \in Nat : <<a>> # Terminal
  /\ \A a \in Nat : Append(root, a) = <<a>>
<1>1. \A a \in Nat : Append(<< >>, a) = <<a>>
  OBVIOUS
<1>2. \A a, b : <<a>> = <<b>> => a = b
  <2> TAKE a, b
  <2>1. << a >>[1] = a /\ << b >>[1] = b
    OBVIOUS
  <2> QED
    BY <2>1
<1>3. \A a \in Nat : <<a>> # << -1 >>
  BY <1>2
<1>4. \A a : <<a>> # << >>
  OBVIOUS
<1> QED
  BY <1>1, <1>2, <1>3, <1>4 DEF root, Terminal

LEMMA RootFacts ==
  ASSUME PipeInv, Flat, Wired
  PROVE  /\ root \in Processes /\ RootWired(proc[root], fd[root])
         /\ Born(proc[root]) \in 0..n /\ n \in Nat /\ n >= 1
         /\ proc[root].i \in 0..n /\ ParentAt(fd[root])
         /\ LevelAt(root, proc[root]) /\ OpenAt(proc[root], DOMAIN fd[root])
         /\ 1 \in DOMAIN fd[root] => fd[root][1] = WriteEnd(Terminal)
<1>1. root \in Processes
  BY DEF PipeInv, Types
<1>2. /\ proc[root].i \in 0..n /\ ParentAt(fd[root]) /\ n \in Nat /\ n >= 1
      /\ LevelAt(root, proc[root]) /\ OpenAt(proc[root], DOMAIN fd[root])
  BY <1>1, Facts DEF Process
<1>3. Born(proc[root]) \in 0..n
  BY <1>2 DEF Born, LevelAt
<1> QED
  BY <1>1, <1>2, <1>3 DEF Wired, ParentAt

LEMMA StageFacts ==
  ASSUME PipeInv, Flat, Wired, NEW q \in Processes, q # root
  PROVE  \E a \in 0..n - 1 : /\ q = <<a>> /\ a < Born(proc[root])
                             /\ ChildWired(a, proc[q], fd[q])
<1>1. PICK a \in 0..Born(proc[root]) - 1 : q = <<a>>
  BY DEF Flat
<1>2. a \in 0..n - 1 /\ a < Born(proc[root])
  BY RootFacts
<1> QED
  BY <1>1, <1>2 DEF Wired

LEMMA StageIs ==
  ASSUME PipeInv, Flat, Wired, NEW a \in Nat, <<a>> \in Processes
  PROVE  a \in 0..n - 1 /\ a < Born(proc[root]) /\ ChildWired(a, proc[<<a>>], fd[<<a>>])
BY StageFacts, Single

-----------------------------------------------------------------------------
(* The processes and their descriptors.                                    *)

(* A step of the process of level a.                                       *)
LEMMA ChildMoves ==
  ASSUME PipeInv, Flat, Wired, NEW a \in Nat, <<a>> \in Processes, NEW s, NEW g,
         proc' = [proc EXCEPT ![<<a>>] = s], fd' = [fd EXCEPT ![<<a>>] = g],
         UNCHANGED <<prog, kinds>>, DOMAIN pipes' = DOMAIN pipes, ChildWired(a, s, g)
  PROVE  (Flat /\ Wired)'
<1>1. /\ Processes' = Processes /\ n' = n /\ prog' = prog /\ proc'[<<a>>] = s /\ fd'[<<a>>] = g
      /\ \A q \in Processes : q # <<a>> => proc'[q] = proc[q] /\ fd'[q] = fd[q]
  BY DEF PipeInv, Types, Processes, n
<1>2. proc'[root] = proc[root] /\ fd'[root] = fd[root]
  BY <1>1, Single, RootFacts
<1>3. Born(proc[root])' = Born(proc[root]) /\ Dug(proc[root])' = Dug(proc[root])
  BY <1>1, <1>2 DEF Born, Dug
<1>4. Flat'
  BY <1>1, <1>3 DEF Flat
<1>5. RootWired(proc[root], fd[root])'
  BY <1>1, <1>2, RootFacts DEF RootWired, Source, Given, Newest
<1>6. ASSUME NEW b \in 0..Born(proc[root]) - 1 PROVE ChildWired(b, proc[<<b>>], fd[<<b>>])'
  <2>1. ChildWired(b, proc'[<<b>>], fd'[<<b>>])
    <3>1. CASE b = a
      BY <1>1, <3>1
    <3>2. CASE b # a
      <4>1. <<b>> \in Processes /\ <<b>> # <<a>>
        BY <3>2, Single DEF Flat
      <4> QED
        BY <1>1, <4>1 DEF Wired
    <3> QED
      BY <3>1, <3>2
  <2> QED
    BY <1>1, <2>1 DEF ChildWired, Source, Sink, Given, Newest
<1> QED
  BY <1>3, <1>4, <1>5, <1>6 DEF Wired

(* A step of root that forks nobody.                                       *)
LEMMA RootMoves ==
  ASSUME PipeInv, Flat, Wired, NEW s, NEW g,
         proc' = [proc EXCEPT ![root] = s], fd' = [fd EXCEPT ![root] = g],
         UNCHANGED <<prog, kinds>>, RootWired(s, g), Born(s) = Born(proc[root]),
         \A a \in Nat : <<a>> \in DOMAIN pipes' => a < Dug(s)
  PROVE  (Flat /\ Wired)'
<1>1. /\ Processes' = Processes /\ n' = n /\ prog' = prog /\ proc'[root] = s /\ fd'[root] = g
      /\ \A q \in Processes : q # root => proc'[q] = proc[q] /\ fd'[q] = fd[q]
  BY RootFacts DEF PipeInv, Types, Processes, n
<1>2. Born(proc[root])' = Born(proc[root]) /\ Dug(proc[root])' = Dug(s)
  BY <1>1 DEF Born, Dug
<1>3. Flat'
  BY <1>1, <1>2 DEF Flat
<1>4. RootWired(proc[root], fd[root])'
  BY <1>1 DEF RootWired, Source, Given, Newest
<1>5. ASSUME NEW b \in 0..Born(proc[root]) - 1 PROVE ChildWired(b, proc[<<b>>], fd[<<b>>])'
  <2>1. <<b>> \in Processes /\ <<b>> # root
    BY Single DEF Flat
  <2>2. ChildWired(b, proc'[<<b>>], fd'[<<b>>])
    BY <1>1, <2>1 DEF Wired
  <2> QED
    BY <1>1, <2>2 DEF ChildWired, Source, Sink, Given, Newest
<1> QED
  BY <1>2, <1>3, <1>4, <1>5 DEF Wired

(* Who runs the program, and who the commands.                             *)
LEMMA WhoMoves ==
  ASSUME PipeInv, Flat, Wired, NEW q \in Processes
  PROVE  /\ proc[q].pc \in {"start", "pipe", "fork", "close", "wait"} => q = root
         /\ proc[q].pc \in {"child", "exec", "run"} =>
              \E a \in 0..n - 1 : q = <<a>> /\ ChildWired(a, proc[q], fd[q])
<1>1. q # root => \E a \in 0..n - 1 : q = <<a>> /\ ChildWired(a, proc[q], fd[q])
  BY StageFacts
<1>2. CASE q = root
  BY <1>2, RootFacts DEF RootWired
<1>3. CASE q # root
  BY <1>1, <1>3 DEF ChildWired, Gone
<1> QED
  BY <1>2, <1>3

LEMMA StartProcessFlow ==
  ASSUME PipeInv, Flat, Wired, NEW q \in Processes, StartProcess(q) PROVE (Flat /\ Wired)'
<1> DEFINE i == proc[root].i
           s == [proc[root] EXCEPT !.pc = IF i < n THEN "pipe" ELSE "wait"]
           f == fd[root]
           g == IF i \in 1..n - 1 THEN Close(Dup2(f, 3, 0), {3}) ELSE f
<1>1. q = root /\ proc[root].pc = "start" /\ UNCHANGED <<prog, kinds, pipes>>
  BY WhoMoves DEF StartProcess, At
<1>2. /\ proc[root] \in Process /\ i \in 0..n /\ n \in Nat /\ f \in [DOMAIN f -> Ends]
      /\ fd = [fd EXCEPT ![root] = f] /\ {0, 1} \subseteq DOMAIN f
      /\ i # 0 => proc[root].prev_out = 3
  BY <1>1, RootFacts, Facts DEF OpenAt
<1>3. /\ i = 0 => f[0] = ReadEnd(Terminal)
      /\ i > 0 => 3 \in DOMAIN f /\ f[3] = ReadEnd(<<i - 1>>)
      /\ proc[root].item = 0 /\ prog # "connect2"
  BY <1>1, RootFacts DEF RootWired, LevelAt
<1>4. proc' = [proc EXCEPT ![root] = s] /\ fd' = [fd EXCEPT ![root] = g]
  <2>1. proc' = [proc EXCEPT ![root] = s]
    BY <1>1 DEF StartProcess, Goto, Become
  <2>2. CASE i \in 1..n - 1
    <3>1. proc[root].prev_out = 3
      BY <1>2, <2>2
    <3>2. g = Close(Dup2(fd[root], proc[root].prev_out, 0), {proc[root].prev_out})
      BY <2>2, <3>1
    <3>3. fd' = [fd EXCEPT ![root] = Close(Dup2(fd[root], proc[root].prev_out, 0),
                                           {proc[root].prev_out})]
      BY <1>1, <2>2 DEF StartProcess
    <3> HIDE DEF g, s
    <3> QED
      BY <2>1, <3>2, <3>3
  <2>3. CASE i \notin 1..n - 1
    BY <1>1, <1>2, <2>1, <2>3 DEF StartProcess
  <2> QED
    BY <2>2, <2>3
<1>5. /\ s.pc = (IF i < n THEN "pipe" ELSE "wait") /\ s.i = i /\ s.item = 0
  BY <1>2, <1>3 DEF Process
<1>6. i < n => g[0] = ReadEnd(Source(i))
  <2>1. CASE i = 0
    BY <1>3, <2>1 DEF Source
  <2>2. CASE i \in 1..n - 1
    <3>1. 0 \in DOMAIN Dup2(f, 3, 0) /\ Dup2(f, 3, 0)[0] = f[3]
      <4>1. 3 \in DOMAIN f
        BY <1>3, <2>2
      <4> QED
        BY <1>2, <4>1 DEF Dup2
    <3>2. g[0] = f[3]
      BY <1>2, <2>2, <3>1 DEF Close
    <3> QED
      BY <1>3, <2>2, <3>2 DEF Source
  <2> QED
    BY <1>2, <2>1, <2>2
<1> HIDE DEF s, g
<1>7. RootWired(s, g)
  BY <1>3, <1>5, <1>6 DEF RootWired
<1>8. Born(s) = Born(proc[root]) /\ Dug(s) = Dug(proc[root])
  BY <1>1, <1>2, <1>5 DEF Born, Dug
<1>9. \A a \in Nat : <<a>> \in DOMAIN pipes' => a < Dug(s)
  BY <1>1, <1>8 DEF Flat
<1> QED
  BY <1>1, <1>4, <1>7, <1>8, <1>9, RootMoves

LEMMA PipeFlow ==
  ASSUME PipeInv, Flat, Wired, NEW q \in Processes, Pipe(q) PROVE (Flat /\ Wired)'
<1> DEFINE i == proc[root].i
           s == [proc[root] EXCEPT !.pc = "fork", !.fds_pair = << 3, 4 >>]
           f == fd[root]
           g == [d \in DOMAIN f \cup {3, 4} |-> IF d = 3 THEN ReadEnd(<<i>>)
                                                ELSE IF d = 4 THEN WriteEnd(<<i>>) ELSE f[d]]
<1>1. q = root /\ proc[root].pc = "pipe" /\ UNCHANGED <<prog, kinds>>
  BY WhoMoves DEF Pipe, At
<1>2. /\ proc[root] \in Process /\ i \in Nat /\ i < n /\ DOMAIN f = {0, 1}
      /\ f[0] = ReadEnd(Source(i)) /\ proc[root].item = 0 /\ (prog = "connect2" => i = 0)
  BY <1>1, RootFacts, Facts DEF OpenAt, RootWired, LevelAt
<1>3. FreePair(f) = << 3, 4 >> /\ Append(root, i) = <<i>>
  BY <1>2, Pair34, Single
<1>4. << 3, 4 >>[1] = 3 /\ << 3, 4 >>[2] = 4
  OBVIOUS
<1>5. /\ proc' = [proc EXCEPT ![root] = s]
      /\ fd' = [fd EXCEPT ![root] = g]
      /\ DOMAIN pipes' = DOMAIN pipes \cup {<<i>>}
  BY <1>1, <1>3, <1>4 DEF Pipe, Become
<1>6. s.pc = "fork" /\ s.i = i /\ s.item = 0
  BY <1>2 DEF Process
<1>7. g[0] = f[0] /\ Paired(g, <<i>>)
  BY <1>2 DEF Paired
<1> HIDE DEF s, g
<1>8. RootWired(s, g)
  BY <1>2, <1>6, <1>7 DEF RootWired, Source, Given, Newest
<1>9. Born(s) = Born(proc[root]) /\ Dug(proc[root]) = i /\ Dug(s) = i + 1
  BY <1>1, <1>6 DEF Born, Dug
<1>10. \A a \in Nat : <<a>> \in DOMAIN pipes' => a < Dug(s)
  <2> SUFFICES ASSUME NEW a \in Nat, <<a>> \in DOMAIN pipes' PROVE a < i + 1
    BY <1>9
  <2>1. CASE <<a>> \in DOMAIN pipes
    BY <1>2, <1>9, <2>1 DEF Flat
  <2>2. CASE <<a>> = <<i>>
    BY <1>2, <2>2, Single
  <2> QED
    BY <1>5, <2>1, <2>2
<1> QED
  BY <1>1, <1>5, <1>8, <1>9, <1>10, RootMoves

LEMMA CloseEndsFlow ==
  ASSUME PipeInv, Flat, Wired, NEW q \in Processes, CloseEnds(q) PROVE (Flat /\ Wired)'
<1> DEFINE i == proc[root].i
           s == IF prog = "connect2" THEN [proc[root] EXCEPT !.pc = "wait"]
                ELSE [proc[root] EXCEPT !.pc = "start", !.i = i + 1, !.prev_out = 3]
           f == fd[root]
           g == Close(f, ToClose(root))
<1>1. q = root /\ proc[root].pc = "close" /\ UNCHANGED <<prog, kinds, pipes>>
  BY WhoMoves DEF CloseEnds, At
<1>2. /\ proc[root] \in Process /\ i \in Nat /\ i < n /\ f \in [DOMAIN f -> Ends]
      /\ proc[root].fds_pair = << 3, 4 >> /\ prog \in {"connect2", "connectn"}
      /\ (prog = "connect2" => i = 1 /\ n = 2) /\ proc[root].item = 0
      /\ Paired(f, Newest(i))
  BY <1>1, RootFacts, Facts DEF OpenAt, RootWired, LevelAt, Types
<1>3. << 3, 4 >>[1] = 3 /\ << 3, 4 >>[2] = 4
  OBVIOUS
<1>4. proc' = [proc EXCEPT ![root] = s] /\ fd' = [fd EXCEPT ![root] = g]
  <2>1. fd = [fd EXCEPT ![root] = f]
    BY <1>1, Facts
  <2> QED
    BY <1>1, <1>2, <1>3, <2>1 DEF CloseEnds, Become
<1>5. /\ s.item = 0 /\ (prog = "connect2" => s.pc = "wait")
      /\ prog = "connectn" => s.pc = "start" /\ s.i = i + 1
  BY <1>2 DEF Process
<1>6. prog = "connectn" => 3 \in DOMAIN g /\ g[3] = ReadEnd(<<i>>)
  BY <1>2, <1>3 DEF Close, ToClose, Paired, Newest
<1> HIDE DEF s, g
<1>7. RootWired(s, g)
  BY <1>2, <1>5, <1>6 DEF RootWired
<1>8. /\ Born(s) = Born(proc[root]) /\ Dug(s) = Dug(proc[root])
  BY <1>1, <1>2, <1>5 DEF Born, Dug
<1>9. \A a \in Nat : <<a>> \in DOMAIN pipes' => a < Dug(s)
  BY <1>1, <1>8 DEF Flat
<1> QED
  BY <1>1, <1>4, <1>7, <1>8, <1>9, RootMoves

LEMMA ReturnFlow ==
  ASSUME PipeInv, Flat, Wired, NEW q \in Processes, Return(q) PROVE (Flat /\ Wired)'
<1> DEFINE s == [proc[root] EXCEPT !.pc = "exited"]
           g == [d \in {} |-> 0]
<1>1. q = root /\ proc[root].pc = "wait" /\ UNCHANGED <<prog, kinds, pipes>>
  BY WhoMoves DEF Return, At
<1>2. proc' = [proc EXCEPT ![root] = s] /\ fd' = [fd EXCEPT ![root] = g]
  BY <1>1 DEF Return, Exit, Goto, Become
<1>3. proc[root] \in Process /\ proc[root].item = 0
  BY <1>1, RootFacts, Facts DEF RootWired
<1>4. s.pc = "exited" /\ s.item = 0
  BY <1>3 DEF Process
<1> HIDE DEF s, g
<1>5. RootWired(s, g)
  BY <1>4 DEF RootWired
<1>6. Born(s) = Born(proc[root]) /\ Dug(s) = Dug(proc[root])
  BY <1>1, <1>4 DEF Born, Dug
<1>7. \A a \in Nat : <<a>> \in DOMAIN pipes' => a < Dug(s)
  BY <1>1, <1>6 DEF Flat
<1> QED
  BY <1>1, <1>2, <1>5, <1>6, <1>7, RootMoves

LEMMA ForkFlow ==
  ASSUME PipeInv, Flat, Wired, NEW q \in Processes, Fork(q) PROVE (Flat /\ Wired)'
<1> DEFINE i == proc[root].i
           mine == [proc[root] EXCEPT !.pids = Remember(@, <<i>>)]
           its == [proc[root] EXCEPT !.pids = Remember(@, root), !.pc = "child"]
           f == fd[root]
<1>1. q = root /\ proc[root].pc = "fork" /\ UNCHANGED <<prog, kinds, pipes>>
  BY WhoMoves DEF Fork, At
<1>2. /\ proc[root] \in Process /\ i \in Nat /\ i < n /\ f \in [DOMAIN f -> Ends]
      /\ f[0] = ReadEnd(Given(i)) /\ f[1] = WriteEnd(Terminal) /\ Paired(f, Newest(i))
      /\ (prog = "connect2" => n = 2) /\ proc[root].item = 0
  BY <1>1, RootFacts, Facts DEF OpenAt, RootWired, LevelAt, Types
<1>3. Append(root, i) = <<i>> /\ <<i>> # root
  BY <1>2, Single
<1>4. /\ Processes' = Processes \cup {<<i>>} /\ n' = n /\ prog' = prog
      /\ proc'[<<i>>] = its /\ fd'[<<i>>] = f
      /\ proc'[root] = AfterFork(mine) /\ fd'[root] = f
      /\ \A x \in Processes : x \notin {root, <<i>>} => proc'[x] = proc[x] /\ fd'[x] = fd[x]
  <2>1. root \in Processes
    BY RootFacts
  <2> QED
    BY <1>1, <1>3, <2>1 DEF Fork, Processes, n
<1>5. /\ mine.pc = "fork" /\ mine.i = i /\ mine.item = 0 /\ mine = [mine EXCEPT !.pc = "fork"]
      /\ its.pc = "child" /\ its.i = i
  BY <1>1, <1>2 DEF Process
<1> DEFINE s == AfterFork(mine)
<1>6. /\ s.item = 0
      /\ IF prog = "connect2" /\ i = 0 THEN s.pc = "fork" /\ s.i = 1
                                       ELSE s.pc = "close" /\ s.i = i
  BY <1>2, <1>5 DEF AfterFork, Process
<1> HIDE DEF mine, its, s
<1>7. Born(proc[root]) = i /\ Born(s) = i + 1 /\ Dug(s) = Dug(proc[root]) + (s.i - i)
  BY <1>1, <1>2, <1>6 DEF Born, Dug
<1>8. Born(proc[root])' = i + 1 /\ Dug(proc[root])' = Dug(s)
  BY <1>4, <1>7 DEF Born, Dug, s
<1>9. Flat'
  <2>1. \A b \in 0..i : b = i \/ b \in 0..i - 1
    BY <1>2
  <2>2. \A a \in Nat : <<a>> \in DOMAIN pipes' => a < Dug(s)
    <3>1. Dug(s) \in {i + 1, i + 2} /\ Dug(proc[root]) = i + 1
      BY <1>1, <1>2, <1>6 DEF Dug
    <3> QED
      BY <1>1, <1>2, <3>1 DEF Flat
  <2>3. \A x \in Processes' : x = root \/ \E a \in 0..i : x = <<a>>
    BY <1>2, <1>4, <1>7 DEF Flat
  <2>4. \A a \in 0..i : <<a>> \in Processes'
    BY <1>4, <1>7, <2>1 DEF Flat
  <2> QED
    BY <1>2, <1>8, <2>2, <2>3, <2>4 DEF Flat
<1>10. RootWired(proc[root], fd[root])'
  <2>1. RootWired(s, f)
    BY <1>2, <1>6 DEF RootWired, Given, Newest
  <2> QED
    BY <1>4, <2>1 DEF RootWired, Source, Given, Newest, s
<1>11. ASSUME NEW b \in 0..i PROVE ChildWired(b, proc[<<b>>], fd[<<b>>])'
  <2>1. ChildWired(b, proc'[<<b>>], fd'[<<b>>])
    <3>1. CASE b = i
      BY <1>2, <1>4, <1>5, <3>1 DEF ChildWired
    <3>2. CASE b # i
      <4>1. b \in 0..i - 1 /\ <<b>> # <<i>> /\ <<b>> # root
        BY <1>2, <3>2, Single
      <4>2. <<b>> \in Processes
        BY <1>7, <4>1 DEF Flat
      <4> QED
        BY <1>4, <1>7, <4>1, <4>2 DEF Wired
    <3> QED
      BY <3>1, <3>2
  <2> QED
    BY <1>4, <2>1 DEF ChildWired, Source, Sink, Given, Newest
<1> QED
  BY <1>2, <1>8, <1>9, <1>10, <1>11 DEF Wired

LEMMA ChildFlow ==
  ASSUME PipeInv, Flat, Wired, NEW q \in Processes, Child(q) PROVE (Flat /\ Wired)'
<1>1. /\ proc[q].pc = "child" /\ UNCHANGED <<prog, kinds, pipes>>
      /\ proc' = [proc EXCEPT ![q] = [proc[q] EXCEPT !.pc = "exec"]]
      /\ fd' = [fd EXCEPT ![q] = Redirected(q)]
  BY DEF Child, At, Goto, Become
<1>2. PICK a \in 0..n - 1 : q = <<a>> /\ ChildWired(a, proc[q], fd[q])
  BY <1>1, WhoMoves
<1> DEFINE f == fd[q]
           g == IF prog = "connect2" /\ last(q) THEN Dup2(f, 3, 0)
                ELSE IF last(q) THEN f ELSE Dup2(f, 4, 1)
           h == Redirected(q)
           s == [proc[q] EXCEPT !.pc = "exec"]
<1>3. /\ proc[q] \in Process /\ proc[q].i = a /\ proc[q].fds_pair = << 3, 4 >>
      /\ f \in [DOMAIN f -> Ends] /\ {0, 1} \subseteq DOMAIN f
      /\ f[0] = ReadEnd(Given(a)) /\ f[1] = WriteEnd(Terminal) /\ Paired(f, Newest(a))
      /\ n \in Nat /\ (prog = "connect2" => n = 2)
  BY <1>1, <1>2, Facts DEF OpenAt, ChildWired
<1>4. h = Close(g, {3, 4})
  BY <1>3 DEF Redirected
<1>5. last(q) <=> a = n - 1
  BY <1>3 DEF last
<1>6. {0, 1} \subseteq DOMAIN g /\ g[0] = ReadEnd(Source(a)) /\ g[1] = WriteEnd(Sink(a))
  <2>1. CASE prog = "connect2" /\ last(q)
    <3>1. Dup2(f, 3, 0)[0] = f[3] /\ Dup2(f, 3, 0)[1] = f[1]
          /\ DOMAIN Dup2(f, 3, 0) = DOMAIN f \cup {0}
      BY <1>3 DEF Dup2, Paired
    <3>2. Newest(a) = Source(a) /\ Sink(a) = Terminal
      BY <1>3, <1>5, <2>1 DEF Newest, Source, Sink
    <3> QED
      BY <1>3, <2>1, <3>1, <3>2 DEF Paired
  <2>2. CASE prog # "connect2" /\ last(q)
    BY <1>3, <1>5, <2>2 DEF Given, Sink
  <2>3. CASE ~last(q)
    <3>1. Dup2(f, 4, 1)[1] = f[4] /\ Dup2(f, 4, 1)[0] = f[0]
          /\ DOMAIN Dup2(f, 4, 1) = DOMAIN f \cup {1}
      BY <1>3 DEF Dup2, Paired
    <3>2. Newest(a) = Sink(a) /\ Given(a) = Source(a)
      BY <1>2, <1>3, <1>5, <2>3 DEF Newest, Source, Sink, Given
    <3> QED
      BY <1>3, <2>3, <3>1, <3>2 DEF Paired
  <2> QED
    BY <2>1, <2>2, <2>3
<1> HIDE DEF g, h
<1>7. h[0] = g[0] /\ h[1] = g[1]
  BY <1>4, <1>6 DEF Close
<1>8. s.pc = "exec" /\ s.i = a
  BY <1>3 DEF Process
<1> HIDE DEF s
<1>9. ChildWired(a, s, h)
  BY <1>6, <1>7, <1>8 DEF ChildWired
<1>10. proc' = [proc EXCEPT ![<<a>>] = s] /\ fd' = [fd EXCEPT ![<<a>>] = h]
  BY <1>1, <1>2 DEF s, h
<1>11. a \in Nat /\ <<a>> \in Processes
  BY <1>2
<1> QED
  BY <1>1, <1>9, <1>10, <1>11, ChildMoves

LEMMA ExeclpFlow ==
  ASSUME PipeInv, NoneMissing, Flat, Wired, NEW q \in Processes, Execlp(q)
  PROVE  (Flat /\ Wired)'
<1>1. proc[q].pc = "exec" /\ UNCHANGED <<prog, kinds, pipes, fd>>
  BY DEF Execlp, At
<1>2. PICK a \in 0..n - 1 : q = <<a>> /\ ChildWired(a, proc[q], fd[q])
  BY <1>1, WhoMoves
<1>3. Kind(q) # "missing"
  <2>1. proc[q].i + 1 \in 1..n
    BY <1>2, RootFacts DEF ChildWired
  <2> QED
    BY <2>1 DEF NoneMissing, Kind
<1> DEFINE s == [proc[q] EXCEPT !.pc = "run"]
<1>4. proc' = [proc EXCEPT ![<<a>>] = s] /\ fd' = [fd EXCEPT ![<<a>>] = fd[<<a>>]]
  BY <1>1, <1>2, <1>3, Facts DEF Execlp, Goto, Become
<1>5. s.pc = "run" /\ s.i = a
  BY <1>2, Facts DEF Process, ChildWired
<1> HIDE DEF s
<1>6. ChildWired(a, s, fd[<<a>>])
  BY <1>1, <1>2, <1>5 DEF ChildWired
<1>7. a \in Nat /\ <<a>> \in Processes
  BY <1>2
<1> QED
  BY <1>1, <1>4, <1>6, <1>7, ChildMoves

(* A command goes on, with or without an item, or exits.                   *)
LEMMA CommandFlow ==
  ASSUME PipeInv, Flat, Wired, NEW q \in Processes, At(q, "run"),
         UNCHANGED <<prog, kinds>>, DOMAIN pipes' = DOMAIN pipes,
         Exit(q) \/ (UNCHANGED fd /\ \E k : Got(q, k))
  PROVE  (Flat /\ Wired)'
<1>1. PICK a \in 0..n - 1 : q = <<a>> /\ ChildWired(a, proc[q], fd[q])
  BY WhoMoves DEF At
<1>2. a \in Nat /\ <<a>> \in Processes /\ proc[q] \in Process /\ proc[q].i = a
  BY <1>1, Facts DEF ChildWired
<1>3. CASE Exit(q)
  <2> DEFINE s == [proc[q] EXCEPT !.pc = "exited"]
             g == [d \in {} |-> 0]
  <2>1. proc' = [proc EXCEPT ![<<a>>] = s] /\ fd' = [fd EXCEPT ![<<a>>] = g]
    BY <1>1, <1>3 DEF Exit, Goto, Become
  <2>2. s.pc = "exited" /\ s.i = a
    BY <1>2 DEF Process
  <2> HIDE DEF s, g
  <2>3. ChildWired(a, s, g)
    BY <2>2 DEF ChildWired, Gone
  <2> QED
    BY <1>2, <2>1, <2>3, ChildMoves
<1>4. ASSUME UNCHANGED fd, NEW k, Got(q, k) PROVE (Flat /\ Wired)'
  <2> DEFINE s == [proc[q] EXCEPT !.item = k]
  <2>1. /\ proc' = [proc EXCEPT ![<<a>>] = s]
        /\ fd' = [fd EXCEPT ![<<a>>] = fd[<<a>>]]
    BY <1>1, <1>4, Facts DEF Got, Become
  <2>2. s.pc = "run" /\ s.i = a
    BY <1>2 DEF Process, At
  <2> HIDE DEF s
  <2>3. ChildWired(a, s, fd[<<a>>])
    BY <1>1, <2>2 DEF ChildWired, At
  <2> QED
    BY <1>2, <2>1, <2>3, ChildMoves
<1> QED
  BY <1>3, <1>4

LEMMA CommandsFlow ==
  ASSUME PipeInv, Flat, Wired, NEW q \in Processes, Read(q) \/ Write(q)
  PROVE  (Flat /\ Wired)'
<1>1. At(q, "run") /\ UNCHANGED <<prog, kinds>> /\ DOMAIN pipes' = DOMAIN pipes
  BY Facts DEF Read, Write
<1>2. Exit(q) \/ (UNCHANGED fd /\ \E k : Got(q, k))
  BY DEF Read, Write, Written
<1> QED
  BY <1>1, <1>2, CommandFlow

LEMMA WaitpidFlow ==
  ASSUME PipeInv, Flat, Wired, NEW q \in Processes, Waitpid(q) PROVE (Flat /\ Wired)'
<1> DEFINE s == [proc[root] EXCEPT !.pids = Tail(@)]
<1>1. /\ q = root /\ proc[root].pc = "wait" /\ root \in Processes
      /\ UNCHANGED <<prog, kinds, fd, pipes>>
  BY WhoMoves DEF Waitpid, At
<1>2. /\ proc[root] \in Process /\ fd = [fd EXCEPT ![root] = fd[root]]
      /\ RootWired(proc[root], fd[root])
  BY <1>1, RootFacts, Facts
<1>3. s.pc = "wait" /\ s.item = proc[root].item
  BY <1>1, <1>2 DEF Process
<1>4. s = [proc[q] EXCEPT !.pids = Tail(@)]
  BY <1>1
<1>5. \/ proc' = [proc EXCEPT ![root] = s]
      \/ \E c \in Processes : At(c, "exited") /\ proc' = [proc EXCEPT ![c].pc = "reaped", ![root] = s]
  BY <1>1, <1>4 DEF Waitpid, Become, Children
<1> HIDE DEF s
<1>6. RootWired(s, fd[root])
  BY <1>1, <1>2, <1>3 DEF RootWired
<1>7. Born(s) = Born(proc[root]) /\ Dug(s) = Dug(proc[root])
  BY <1>1, <1>3 DEF Born, Dug
<1>8. \A a \in Nat : <<a>> \in DOMAIN pipes' => a < Dug(s)
  BY <1>1, <1>7 DEF Flat
<1>9. CASE proc' = [proc EXCEPT ![root] = s]
  BY <1>1, <1>2, <1>6, <1>7, <1>8, <1>9, RootMoves
<1>10. ASSUME NEW c \in Processes, At(c, "exited"),
              proc' = [proc EXCEPT ![c].pc = "reaped", ![root] = s]
       PROVE  (Flat /\ Wired)'
  <2> DEFINE t == [proc[c] EXCEPT !.pc = "reaped"]
  <2>1. c # root /\ proc \in [Processes -> Process]
    BY <1>1, <1>10 DEF At, PipeInv, Types
  <2>2. /\ Processes' = Processes /\ n' = n /\ prog' = prog /\ proc'[root] = s
        /\ proc'[c] = t
        /\ \A x \in Processes : x \notin {root, c} => proc'[x] = proc[x]
    BY <1>1, <1>10, <2>1 DEF Processes, n
  <2>3. t.i = proc[c].i /\ t.pc = "reaped" /\ proc[c].pc = "exited"
    BY <1>10, <2>1 DEF Process, At
  <2> HIDE DEF t
  <2>4. Born(proc[root])' = Born(proc[root]) /\ Dug(proc[root])' = Dug(proc[root])
    BY <1>1, <1>7, <2>2 DEF Born, Dug
  <2>5. Flat'
    BY <1>1, <2>2, <2>4 DEF Flat
  <2>6. RootWired(proc[root], fd[root])'
    BY <1>1, <1>6, <2>2 DEF RootWired, Source, Given, Newest
  <2>7. ASSUME NEW b \in 0..Born(proc[root]) - 1 PROVE ChildWired(b, proc[<<b>>], fd[<<b>>])'
    <3>1. <<b>> \in Processes /\ <<b>> # root /\ ChildWired(b, proc[<<b>>], fd[<<b>>])
      BY Single DEF Flat, Wired
    <3>2. ChildWired(b, proc'[<<b>>], fd'[<<b>>])
      <4>1. CASE <<b>> = c
        BY <1>1, <2>2, <2>3, <3>1, <4>1 DEF ChildWired, Gone
      <4>2. CASE <<b>> # c
        BY <1>1, <2>2, <3>1, <4>2
      <4> QED
        BY <4>1, <4>2
    <3> QED
      BY <1>1, <2>2, <3>2 DEF ChildWired, Source, Sink, Given, Newest
  <2> QED
    BY <2>4, <2>5, <2>6, <2>7 DEF Wired
<1> QED
  BY <1>5, <1>9, <1>10

-----------------------------------------------------------------------------
(* What is yet to be written.                                              *)

LEMMA Numbers ==
  ASSUME PipeInv, NEW a \in Nat
  PROVE  /\ InPipe(a) \in Nat /\ InHand(a) \in 0..1
         /\ input \in 0..InputLen /\ out \in 0..MaxOut /\ n \in Nat /\ n >= 1
         /\ MaxOut \in Nat /\ InputLen \in Nat /\ MaxOut > InputLen
<1>1. /\ root \in Processes /\ pipes \in [DOMAIN pipes -> 0..Capacity]
      /\ proc \in [Processes -> Process]
  BY DEF PipeInv, Types
<1>2. input \in 0..InputLen /\ out \in 0..MaxOut /\ n \in Nat /\ n >= 1
  BY <1>1, Facts
<1>3. InPipe(a) \in Nat
  <2>1. 0..Capacity \subseteq Nat
    BY BoundsAssumption
  <2> QED
    BY <1>1, <2>1 DEF InPipe
<1>4. InHand(a) \in 0..1
  BY <1>1 DEF InHand, Process
<1> QED
  BY <1>2, <1>3, <1>4, BoundsAssumption

(* Numbers that cannot be told apart, and an item more written for one     *)
(* less to come.                                                           *)
LEMMA SameThrough ==
  ASSUME NEW kind, NEW u \in Nat, NEW v \in Nat, u = v \/ (u >= MaxOut /\ v >= MaxOut)
  PROVE  Through(kind, u) = Through(kind, v)
<1>1. MaxOut \in Nat /\ MaxOut > 0
  BY BoundsAssumption
<1>2. CASE u >= MaxOut /\ v >= MaxOut
  <2>1. Cap(u) = MaxOut /\ Cap(v) = MaxOut /\ u > 0 /\ v > 0
    BY <1>1, <1>2 DEF Cap
  <2> QED
    BY <2>1 DEF Through
<1> QED
  BY <1>2

LEMMA OneWritten ==
  ASSUME NEW x \in 0..MaxOut, NEW e \in 0..MaxOut, NEW o \in 0..MaxOut,
         x + 1 = e \/ (x = MaxOut /\ e = MaxOut)
  PROVE  Cap(Cap(o + 1) + x) = Cap(o + e)
<1>1. MaxOut \in Nat /\ MaxOut > 0
  BY BoundsAssumption
<1>2. CASE x + 1 = e
  BY <1>1, <1>2 DEF Cap
<1>3. CASE x = MaxOut /\ e = MaxOut
  BY <1>1, <1>3 DEF Cap
<1> QED
  BY <1>2, <1>3

(* A command that exits or not once it has written, and what is left then. *)
LEMMA OnePassed ==
  ASSUME NEW kind \in Kinds, kind # "missing", NEW m \in Nat, NEW h \in 0..1,
         kind = "yes" \/ h = 1
  PROVE  LET x == IF kind = "head" THEN 0 ELSE Through(kind, m)
             e == Through(kind, m + h)
         IN  x \in 0..MaxOut /\ (x + 1 = e \/ (x = MaxOut /\ e = MaxOut))
BY BoundsAssumption DEF Through, Cap, Kinds

(* The promise is kept by what neither adds nor takes an item, and starts  *)
(* or ends no command.                                                     *)
LEMMA PromiseKept ==
  ASSUME Promised, UNCHANGED <<kinds, input, out>>,
         \A b \in Nat : (Left(b)' <=> Left(b)) /\ InHand(b)' = InHand(b) /\ InPipe(b)' = InPipe(b)
  PROVE  Promised'
<1>1. PICK e : Ahead(e) /\ Cap(out + e[n]) = Ideal
  BY DEF Promised
<1>2. n' = n /\ Ideal' = Ideal
  BY DEF Ideal, n
<1>3. Ahead(e)'
  <2>1. ASSUME NEW b \in 0..n - 1 PROVE Yields(b, e[b])' = Yields(b, e[b])
    BY DEF Yields
  <2> QED
    BY <1>1, <1>2, <2>1 DEF Ahead
<1> QED
  BY <1>1, <1>2, <1>3 DEF Promised, Cap

(* The same, from the processes and the pipes.                             *)
LEMMA StagesKept ==
  ASSUME PipeInv, Promised, UNCHANGED <<kinds, input, out>>,
         \A b \in Nat : <<b>> \in Processes =>
           /\ <<b>> \in Processes' /\ proc'[<<b>>].item = proc[<<b>>].item
           /\ proc'[<<b>>].pc \in Gone <=> proc[<<b>>].pc \in Gone,
         \A b \in Nat : <<b>> \in Processes' /\ <<b>> \notin Processes =>
           proc'[<<b>>].item = 0 /\ proc'[<<b>>].pc \notin Gone,
         \A b \in Nat : <<b>> \in DOMAIN pipes =>
           <<b>> \in DOMAIN pipes' /\ pipes'[<<b>>] = pipes[<<b>>],
         \A b \in Nat : <<b>> \in DOMAIN pipes' /\ <<b>> \notin DOMAIN pipes =>
           pipes'[<<b>>] = 0
  PROVE  Promised'
<1>1. ASSUME NEW b \in Nat PROVE Left(b)' <=> Left(b)
  BY DEF Left
<1>2. ASSUME NEW b \in Nat PROVE InHand(b)' = InHand(b)
  BY DEF InHand
<1>3. ASSUME NEW b \in Nat PROVE InPipe(b)' = InPipe(b)
  <2>1. b > 0 => b - 1 \in Nat
    OBVIOUS
  <2> QED
    BY <2>1 DEF InPipe
<1> QED
  BY <1>1, <1>2, <1>3, PromiseKept

LEMMA ProgramPromise ==
  ASSUME PipeInv, NoneMissing, Flat, Wired, Promised, NEW q \in Processes, Program(q)
  PROVE  Promised'
<1>1. /\ proc \in [Processes -> Process] /\ root \in Processes
      /\ \A b : <<b>> # root
  BY Single DEF PipeInv, Types
<1>2. CASE StartProcess(q) \/ CloseEnds(q) \/ Return(q)
  <2>1. q = root /\ UNCHANGED <<kinds, input, out, pipes>>
    BY <1>2, WhoMoves DEF StartProcess, CloseEnds, Return, At
  <2>2. \E s : proc' = [proc EXCEPT ![root] = s]
    BY <1>2, <2>1 DEF StartProcess, CloseEnds, Return, Exit, Goto, Become
  <2>3. Processes' = Processes /\ \A b : <<b>> \in Processes => proc'[<<b>>] = proc[<<b>>]
    BY <1>1, <2>2 DEF Processes
  <2> QED
    BY <2>1, <2>3, StagesKept
<1>3. CASE Pipe(q)
  <2> DEFINE i == proc[root].i
  <2>1. q = root /\ UNCHANGED <<kinds, input, out>> /\ proc[root].pc = "pipe"
    BY <1>3, WhoMoves DEF Pipe, At
  <2>2. i \in Nat /\ <<i>> \notin DOMAIN pipes /\ Append(root, i) = <<i>>
    <3>1. i \in Nat /\ Dug(proc[root]) = i
      BY <2>1, RootFacts DEF Dug
    <3> QED
      BY <3>1, Single DEF Flat
  <2>3. \E s : proc' = [proc EXCEPT ![root] = s]
    BY <1>3, <2>1 DEF Pipe, Become
  <2>4. Processes' = Processes /\ \A b : <<b>> \in Processes => proc'[<<b>>] = proc[<<b>>]
    BY <1>1, <2>3 DEF Processes
  <2>5. pipes' = [x \in DOMAIN pipes \cup {<<i>>} |-> IF x = <<i>> THEN 0 ELSE pipes[x]]
    BY <1>3, <2>1, <2>2 DEF Pipe
  <2> HIDE DEF i
  <2> QED
    BY <2>1, <2>2, <2>4, <2>5, StagesKept
<1>4. CASE Fork(q)
  <2> DEFINE i == proc[root].i
             its == [proc[root] EXCEPT !.pids = Remember(@, root), !.pc = "child"]
  <2>1. /\ q = root /\ UNCHANGED <<kinds, input, out, pipes>> /\ proc[root].pc = "fork"
        /\ proc[root] \in Process /\ proc[root].item = 0
    BY <1>1, <1>4, WhoMoves, RootFacts DEF Fork, At, RootWired
  <2>2. i \in Nat /\ <<i>> \notin Processes /\ Append(root, i) = <<i>>
    <3>1. i \in Nat /\ Born(proc[root]) = i
      BY <2>1, RootFacts DEF Born
    <3> QED
      BY <3>1, Single, StageIs
  <2>3. its.item = 0 /\ its.pc = "child"
    BY <2>1 DEF Process
  <2>4. /\ Processes' = Processes \cup {<<i>>} /\ proc'[<<i>>] = its
        /\ \A b : <<b>> \in Processes => proc'[<<b>>] = proc[<<b>>]
    BY <1>1, <1>4, <2>1, <2>2 DEF Fork, Processes
  <2> HIDE DEF i, its
  <2>5. "child" \notin Gone
    BY DEF Gone
  <2> QED
    BY <2>1, <2>2, <2>3, <2>4, <2>5, StagesKept
<1>5. CASE Child(q) \/ Execlp(q)
  <2>1. PICK a \in 0..n - 1 : q = <<a>> /\ ChildWired(a, proc[q], fd[q])
    BY <1>5, WhoMoves DEF Child, Execlp, At
  <2>2. Kind(q) # "missing"
    <3>1. proc[q].i + 1 \in 1..n
      BY <2>1, RootFacts DEF ChildWired
    <3> QED
      BY <3>1 DEF NoneMissing, Kind
  <2>3. PICK s : /\ proc' = [proc EXCEPT ![q] = s] /\ s.item = proc[q].item
                 /\ s.pc \notin Gone /\ proc[q].pc \notin Gone
                 /\ UNCHANGED <<kinds, input, out, pipes>>
    <3>1. proc[q] \in Process
      BY <1>1
    <3>2. CASE Child(q)
      BY <3>1, <3>2 DEF Child, At, Goto, Become, Gone, Process
    <3>3. CASE Execlp(q)
      BY <2>2, <3>1, <3>3 DEF Execlp, At, Goto, Become, Gone, Process
    <3> QED
      BY <1>5, <3>2, <3>3
  <2>4. /\ Processes' = Processes /\ proc'[q] = s
        /\ \A x \in Processes : x # q => proc'[x] = proc[x]
    BY <1>1, <2>3 DEF Processes
  <2> QED
    BY <2>3, <2>4, StagesKept
<1>6. CASE Waitpid(q)
  <2>1. q = root /\ UNCHANGED <<kinds, input, out, pipes>>
    BY <1>6, WhoMoves DEF Waitpid, At
  <2>2. \/ \E s : proc' = [proc EXCEPT ![root] = s]
        \/ \E c \in Processes : \E s :
             At(c, "exited") /\ proc' = [proc EXCEPT ![c].pc = "reaped", ![root] = s]
    BY <1>6, <2>1 DEF Waitpid, Become, Children
  <2>3. ASSUME NEW s, proc' = [proc EXCEPT ![root] = s] PROVE Promised'
    <3>1. Processes' = Processes /\ \A b : <<b>> \in Processes => proc'[<<b>>] = proc[<<b>>]
      BY <1>1, <2>3 DEF Processes
    <3> QED
      BY <2>1, <3>1, StagesKept
  <2>4. ASSUME NEW c \in Processes, NEW s, At(c, "exited"),
               proc' = [proc EXCEPT ![c].pc = "reaped", ![root] = s]
        PROVE  Promised'
    <3> DEFINE t == [proc[c] EXCEPT !.pc = "reaped"]
    <3>1. Processes' = Processes /\ \A x \in Processes : x \notin {root, c} => proc'[x] = proc[x]
      BY <1>1, <2>4 DEF Processes
    <3>2. c # root => proc'[c] = t
      BY <1>1, <2>4
    <3>3. t.pc \in Gone /\ proc[c].pc \in Gone /\ t.item = proc[c].item
      BY <1>1, <2>4 DEF Process, Gone, At
    <3> HIDE DEF t
    <3>4. \A b : <<b>> \in Processes =>
            /\ proc'[<<b>>].item = proc[<<b>>].item
            /\ proc'[<<b>>].pc \in Gone <=> proc[<<b>>].pc \in Gone
      BY <1>1, <3>1, <3>2, <3>3
    <3> QED
      BY <2>1, <3>1, <3>4, StagesKept
  <2> QED
    BY <2>2, <2>3, <2>4
<1> QED
  BY <1>2, <1>3, <1>4, <1>5, <1>6 DEF Program

(* A pipe no process can write to, or read from, has lost its command.     *)
LEMMA Held ==
  ASSUME NEW x, NEW end, Holders(end) = {}, x \in Processes, NEW d \in DOMAIN fd[x]
  PROVE  fd[x][d] # end
BY DEF Holders, Holds

LEMMA WriterGone ==
  ASSUME PipeInv, Flat, Wired, NEW a \in Nat, a > 0, <<a>> \in Processes,
         Holders(WriteEnd(<<a - 1>>)) = {}
  PROVE  Left(a - 1)
<1> DEFINE b == a - 1
           c == <<b>>
<1>1. /\ b \in Nat /\ a < n /\ n \in Nat /\ c \in Processes
      /\ ChildWired(b, proc[c], fd[c]) /\ OpenAt(proc[c], DOMAIN fd[c])
      /\ (prog = "connect2" => n = 2)
  <2>1. a \in 0..n - 1 /\ a < Born(proc[root]) /\ Born(proc[root]) \in 0..n /\ n \in Nat
    BY StageIs, RootFacts
  <2>2. b \in Nat /\ b \in 0..Born(proc[root]) - 1
    BY <2>1
  <2>3. c \in Processes
    BY <2>2 DEF Flat
  <2> QED
    BY <2>1, <2>2, <2>3, StageIs, Facts
<1>2. Newest(b) = c /\ Sink(b) = c
  BY <1>1 DEF Newest, Sink
<1>3. Holders(WriteEnd(c)) = {}
  OBVIOUS
<1> HIDE DEF b, c
<1>4. proc[c].pc # "child"
  BY <1>1, <1>2, <1>3, Held DEF ChildWired, Paired
<1>5. proc[c].pc \notin {"exec", "run"}
  BY <1>1, <1>2, <1>3, Held DEF ChildWired, OpenAt
<1>6. proc[c].pc \in Gone
  BY <1>1, <1>4, <1>5 DEF ChildWired
<1> QED
  BY <1>1, <1>6 DEF Left, b, c

LEMMA ReaderGone ==
  ASSUME PipeInv, Flat, Wired, NEW a \in Nat, a < n - 1, <<a>> \in Processes,
         Holders(ReadEnd(<<a>>)) = {}
  PROVE  Left(a + 1)
<1> DEFINE b == a + 1
           c == <<b>>
           p == <<a>>
<1>1. /\ b \in Nat /\ a \in Nat /\ b < n /\ n \in Nat /\ a < Born(proc[root])
      /\ Source(b) = p /\ (prog = "connect2" => n = 2) /\ Newest(a) = p
      /\ (prog = "connect2" => Newest(b) = p) /\ (prog # "connect2" => Given(b) = p)
  <2>1. n \in Nat /\ a < Born(proc[root]) /\ (prog = "connect2" => n = 2)
    BY StageIs, RootFacts, Facts
  <2> QED
    BY <2>1 DEF Source, Newest, Given
<1>2. Holders(ReadEnd(p)) = {}
  OBVIOUS
<1>3. c \in Processes
  <2> SUFFICES ASSUME c \notin Processes PROVE FALSE
    OBVIOUS
  <2> DEFINE s == proc[root]
             f == fd[root]
  <2>1. Born(s) = b
    <3>1. b \notin 0..Born(s) - 1 /\ Born(s) \in Nat
      BY RootFacts DEF Flat
    <3> QED
      BY <1>1, <3>1
  <2>2. /\ RootWired(s, f) /\ OpenAt(s, DOMAIN f) /\ root \in Processes /\ s.i \in Nat
        /\ s.pc \in Points
    BY RootFacts, Facts DEF Process
  <2>3. \A d \in DOMAIN f : f[d] # ReadEnd(p)
    BY <1>2, <2>2, Held
  <2>4. \/ s.pc \in {"start", "pipe", "fork"} /\ s.i = b
        \/ s.pc = "close" /\ s.i = a
    BY <1>1, <2>1, <2>2 DEF Born
  <2>5. b > 0 /\ <<b - 1>> = p
    BY <1>1
  <2> HIDE DEF b, p, s, f
  <2>6. CASE s.pc = "start"
    BY <2>2, <2>3, <2>4, <2>5, <2>6 DEF RootWired
  <2>7. CASE s.pc = "pipe"
    BY <1>1, <2>2, <2>3, <2>4, <2>7 DEF RootWired, OpenAt
  <2>8. CASE s.pc = "fork"
    BY <1>1, <2>2, <2>3, <2>4, <2>8 DEF RootWired, OpenAt, Paired
  <2>9. CASE s.pc = "close"
    BY <1>1, <2>2, <2>3, <2>4, <2>9 DEF RootWired, OpenAt, Paired
  <2> QED
    BY <2>4, <2>6, <2>7, <2>8, <2>9
<1>4. ChildWired(b, proc[c], fd[c]) /\ OpenAt(proc[c], DOMAIN fd[c])
  BY <1>1, <1>3, StageIs, Facts
<1>5. \A d \in DOMAIN fd[c] : fd[c][d] # ReadEnd(p)
  BY <1>2, <1>3, Held
<1> HIDE DEF b, c, p
<1>6. proc[c].pc # "child"
  BY <1>1, <1>4, <1>5 DEF ChildWired, OpenAt, Paired
<1>7. proc[c].pc \notin {"exec", "run"}
  BY <1>1, <1>4, <1>5 DEF ChildWired, OpenAt
<1>8. proc[c].pc \in Gone
  BY <1>4, <1>6, <1>7 DEF ChildWired
<1> QED
  BY <1>3, <1>8 DEF Left, b, c

(* A running command.                                                      *)
LEMMA Running ==
  ASSUME PipeInv, NoneMissing, Flat, Wired, NEW q \in Processes, At(q, "run")
  PROVE  \E a \in 0..n - 1 :
           /\ q = <<a>> /\ kinds[a + 1] = Kind(q) /\ Kind(q) \in Kinds \ {"missing"}
           /\ Stdin(q) = Source(a) /\ Stdout(q) = Sink(a)
           /\ ~Left(a) /\ InHand(a) = proc[q].item /\ proc[q] \in Process
<1>1. PICK a \in 0..n - 1 : q = <<a>> /\ ChildWired(a, proc[q], fd[q])
  BY WhoMoves DEF At
<1>2. Kind(q) = kinds[a + 1] /\ a + 1 \in 1..n /\ n \in Nat
  BY <1>1, RootFacts DEF Kind, ChildWired
<1>3. Kind(q) \in Kinds \ {"missing"}
  <2>1. kinds \in Seq(Kinds)
    BY Facts, LinesAssumption
  <2> QED
    BY <1>2, <2>1 DEF NoneMissing, n
<1>4. Stdin(q) = Source(a) /\ Stdout(q) = Sink(a)
  BY <1>1 DEF ChildWired, At, Stdin, Stdout, ReadEnd, WriteEnd
<1>5. ~Left(a) /\ InHand(a) = proc[q].item
  BY <1>1 DEF Left, InHand, At, Gone
<1> QED
  BY <1>1, <1>2, <1>3, <1>4, <1>5, Facts

(* What a step of the process of level a leaves of the others.             *)
LEMMA OthersKept ==
  ASSUME PipeInv, NEW a \in Nat, <<a>> \in Processes, NEW s, proc' = [proc EXCEPT ![<<a>>] = s]
  PROVE  /\ (Left(a)' <=> s.pc \in Gone) /\ InHand(a)' = s.item
         /\ \A b \in Nat : b # a => (Left(b)' <=> Left(b)) /\ InHand(b)' = InHand(b)
<1>1. /\ Processes' = Processes /\ proc'[<<a>>] = s
      /\ \A q \in Processes : q # <<a>> => proc'[q] = proc[q]
  BY DEF PipeInv, Types, Processes
<1>2. ASSUME NEW b \in Nat, b # a PROVE (Left(b)' <=> Left(b)) /\ InHand(b)' = InHand(b)
  <2>1. <<b>> # <<a>>
    BY <1>2, Single
  <2> QED
    BY <1>1, <2>1 DEF Left, InHand
<1> QED
  BY <1>1, <1>2 DEF Left, InHand

LEMMA OtherPipes ==
  ASSUME PipeInv, NEW c \in Nat, <<c>> \in DOMAIN pipes, NEW v,
         pipes' = [pipes EXCEPT ![<<c>>] = v]
  PROVE  /\ InPipe(c + 1)' = v /\ InPipe(c + 1) = pipes[<<c>>]
         /\ \A b \in Nat : b # c + 1 => InPipe(b)' = InPipe(b)
<1>1. /\ DOMAIN pipes' = DOMAIN pipes /\ pipes'[<<c>>] = v
      /\ \A p \in DOMAIN pipes : p # <<c>> => pipes'[p] = pipes[p]
  BY DEF PipeInv, Types
<1>2. c + 1 > 0 /\ (c + 1) - 1 = c
  OBVIOUS
<1>3. ASSUME NEW b \in Nat, b # c + 1 PROVE InPipe(b)' = InPipe(b)
  <2>1. b > 0 => <<b - 1>> # <<c>>
    BY <1>3, Single
  <2> QED
    BY <1>1, <2>1 DEF InPipe
<1> QED
  BY <1>1, <1>2, <1>3 DEF InPipe

(* The promise after a step of level a: what level a and the next yield.   *)
LEMMA PromiseMoves ==
  ASSUME PipeInv, kinds' = kinds,
         NEW e, Ahead(e), Cap(out + e[n]) = Ideal, NEW a \in 0..n - 1, NEW x \in 0..MaxOut,
         \A b \in Nat : b # a /\ b # a + 1 =>
           (Left(b)' <=> Left(b)) /\ InHand(b)' = InHand(b) /\ InPipe(b)' = InPipe(b),
         input' \in 0..MaxOut, a # 0 => input' = input,
         \A m : m = (IF a = 0 THEN input' ELSE e[a]) => x = Yields(a, m)',
         a + 1 < n => Yields(a + 1, x)' = Yields(a + 1, e[a + 1]),
         Cap(out' + (IF a + 1 = n THEN x ELSE e[n])) = Cap(out + e[n])
  PROVE  Promised'
<1>1. n' = n /\ Ideal' = Ideal /\ n \in Nat /\ n >= 1
  BY RootIsLevel, LineFacts DEF Ideal, n, PipeInv
<1>2. /\ e \in [0..n -> 0..MaxOut] /\ e[0] = input
      /\ \A b \in 0..n - 1 : e[b + 1] = Yields(b, e[b])
  BY DEF Ahead
<1>3. PICK d : /\ d \in [0..n -> 0..MaxOut] /\ d[0] = input' /\ d[a + 1] = x
                /\ \A b \in 0..n : b # 0 /\ b # a + 1 => d[b] = e[b]
  <2> DEFINE d == [b \in 0..n |-> IF b = 0 THEN input' ELSE IF b = a + 1 THEN x ELSE e[b]]
  <2>1. /\ d \in [0..n -> 0..MaxOut] /\ d[0] = input' /\ d[a + 1] = x
        /\ \A b \in 0..n : b # 0 /\ b # a + 1 => d[b] = e[b]
    BY <1>1, <1>2
  <2> HIDE DEF d
  <2> QED
    BY <2>1
<1>4. ASSUME NEW b \in 0..n - 1 PROVE d[b + 1] = Yields(b, d[b])'
  <2>1. CASE b = a
    <3>1. d[a] = IF a = 0 THEN input' ELSE e[a]
      BY <1>1, <1>3
    <3> QED
      BY <1>3, <2>1, <3>1
  <2>2. CASE b = a + 1
    <3>1. d[b] = x /\ d[b + 1] = e[b + 1] /\ b < n
      BY <1>1, <1>3, <2>2
    <3> QED
      BY <1>2, <2>2, <3>1
  <2>3. CASE b # a /\ b # a + 1
    <3>1. d[b + 1] = e[b + 1]
      BY <1>1, <1>3, <2>3
    <3>2. d[b] = e[b]
      BY <1>1, <1>2, <1>3, <2>3
    <3>3. Yields(b, d[b])' = Yields(b, d[b])
      <4>1. (Left(b)' <=> Left(b)) /\ InHand(b)' = InHand(b) /\ InPipe(b)' = InPipe(b)
        BY <2>3
      <4>2. \A m : Yields(b, m)' = Yields(b, m)
        BY <4>1 DEF Yields
      <4> QED
        BY <4>2
    <3> QED
      BY <1>2, <3>1, <3>2, <3>3
  <2> QED
    BY <2>1, <2>2, <2>3
<1>5. Ahead(d)'
  BY <1>1, <1>3, <1>4 DEF Ahead
<1>6. d[n] = IF a + 1 = n THEN x ELSE e[n]
  BY <1>1, <1>3
<1>7. Cap(out' + d[n]) = Ideal'
  BY <1>1, <1>6
<1> QED
  BY <1>1, <1>5, <1>7 DEF Promised, Cap

LEMMA ReadPromise ==
  ASSUME PipeInv, NoneMissing, Flat, Wired, Promised, NEW q \in Processes, Read(q)
  PROVE  Promised'
<1>1. At(q, "run") /\ Kind(q) # "yes" /\ proc[q].item = 0 /\ UNCHANGED <<prog, kinds, out>>
  BY DEF Read
<1>2. PICK a \in 0..n - 1 :
        /\ q = <<a>> /\ kinds[a + 1] = Kind(q) /\ Stdin(q) = Source(a)
        /\ ~Left(a) /\ InHand(a) = proc[q].item /\ proc[q] \in Process
  BY <1>1, Running
<1>3. PICK e : Ahead(e) /\ Cap(out + e[n]) = Ideal
  BY DEF Promised
<1>4. /\ a \in Nat /\ n \in Nat /\ a + 1 \in 0..n /\ a \in 0..n
      /\ e \in [0..n -> 0..MaxOut] /\ e[0] = input
      /\ e[a + 1] = Through(kinds[a + 1], e[a] + InPipe(a))
  <2>1. n \in Nat /\ a \in Nat /\ a + 1 \in 0..n /\ a \in 0..n
    BY RootFacts
  <2>2. e[a] \in Nat /\ InPipe(a) \in Nat
    <3>1. InPipe(a) \in Nat /\ MaxOut \in Nat
      BY <2>1, Numbers
    <3> QED
      BY <1>3, <2>1, <3>1 DEF Ahead
  <2>3. e[a + 1] = Yields(a, e[a])
    BY <1>3 DEF Ahead
  <2>4. e[a] + InPipe(a) + 0 = e[a] + InPipe(a)
    BY <2>2
  <2> QED
    BY <1>1, <1>2, <1>3, <2>1, <2>3, <2>4 DEF Ahead, Yields
<1>5. /\ InPipe(a) \in Nat /\ input \in 0..InputLen /\ MaxOut \in Nat /\ InputLen \in Nat
      /\ MaxOut > InputLen /\ e[a] \in 0..MaxOut /\ e[a + 1] \in 0..MaxOut
      /\ out \in 0..MaxOut
  BY <1>4, Numbers
<1>6. \A m : Left(a)' => Yields(a, m)' = 0
  BY DEF Yields
<1>7. \A m : ~Left(a)' => Yields(a, m)' = Through(kinds[a + 1], m + InPipe(a)' + InHand(a)')
  BY <1>1 DEF Yields, Through, Cap
<1>8. Cap(out' + (IF a + 1 = n THEN e[a + 1] ELSE e[n])) = Cap(out + e[n])
  BY <1>1
(* If this level yields what it did, so do the others.                     *)
<1>9. ASSUME NEW s, proc' = [proc EXCEPT ![q] = s],
             \A b \in Nat : b # a => InPipe(b)' = InPipe(b)
      PROVE  /\ (Left(a)' <=> s.pc \in Gone) /\ InHand(a)' = s.item
             /\ \A b \in Nat : b # a =>
                  (Left(b)' <=> Left(b)) /\ InHand(b)' = InHand(b) /\ InPipe(b)' = InPipe(b)
  BY <1>2, <1>4, <1>9, OthersKept
<1>10. ASSUME NEW s, proc' = [proc EXCEPT ![q] = s],
              \A b \in Nat : b # a => InPipe(b)' = InPipe(b),
              input' \in 0..MaxOut, a # 0 => input' = input,
              \A m : m = (IF a = 0 THEN input' ELSE e[a]) => Yields(a, m)' = e[a + 1]
       PROVE  Promised'
  <2>1. /\ \A b \in Nat : b # a =>
             (Left(b)' <=> Left(b)) /\ InHand(b)' = InHand(b) /\ InPipe(b)' = InPipe(b)
    BY <1>9, <1>10
  <2>2. a + 1 \in Nat /\ a + 1 # a
    BY <1>4
  <2>3. Yields(a + 1, e[a + 1])' = Yields(a + 1, e[a + 1])
    BY <1>1, <2>1, <2>2 DEF Yields, Through, Cap
  <2>4. \A b \in Nat : b # a /\ b # a + 1 =>
          (Left(b)' <=> Left(b)) /\ InHand(b)' = InHand(b) /\ InPipe(b)' = InPipe(b)
    BY <2>1
  <2>5. \A m : m = (IF a = 0 THEN input' ELSE e[a]) => e[a + 1] = Yields(a, m)'
    BY <1>10
  <2>6. kinds' = kinds /\ e[a + 1] \in 0..MaxOut
    BY <1>1, <1>5
  <2> QED
    BY <1>3, <1>8, <1>10, <2>3, <2>4, <2>5, <2>6, PromiseMoves
<1> DEFINE s == [proc[q] EXCEPT !.item = 1]
           t == [proc[q] EXCEPT !.pc = "exited"]
<1>11. s.item = 1 /\ s.pc \notin Gone /\ t.pc \in Gone
  BY <1>1, <1>2 DEF Process, At, Gone
<1>12. /\ Got(q, 1) => proc' = [proc EXCEPT ![q] = s]
       /\ Exit(q) => proc' = [proc EXCEPT ![q] = t]
  BY DEF Got, Exit, Goto, Become
<1> HIDE DEF s, t
<1>13. ASSUME Stdin(q) = Terminal, input > 0, input' = input - 1, Got(q, 1), UNCHANGED pipes
       PROVE  Promised'
  <2>1. a = 0 /\ InPipe(a) = 0
    BY <1>2, <1>4, <1>13, Single DEF Source, InPipe
  <2>2. proc' = [proc EXCEPT ![q] = s] /\ \A b \in Nat : InPipe(b)' = InPipe(b)
    BY <1>12, <1>13 DEF InPipe
  <2>3. ~Left(a)' /\ InHand(a)' = 1
    BY <1>9, <1>11, <2>2
  <2>4. ASSUME NEW m, m = input' PROVE Yields(a, m)' = e[a + 1]
    <3>1. m + InPipe(a)' + InHand(a)' = e[a] + InPipe(a)
      BY <1>4, <1>5, <1>13, <2>1, <2>2, <2>3, <2>4
    <3> QED
      BY <1>4, <1>7, <2>3, <3>1
  <2>5. input' \in 0..MaxOut
    BY <1>5, <1>13
  <2> QED
    BY <1>10, <2>1, <2>2, <2>4, <2>5
<1>14. ASSUME Stdin(q) # Terminal, pipes[Stdin(q)] > 0, Got(q, 1), UNCHANGED input,
              pipes' = [pipes EXCEPT ![Stdin(q)] = @ - 1]
       PROVE  Promised'
  <2> DEFINE c == a - 1
  <2>1. a > 0 /\ c \in Nat /\ c + 1 = a /\ Stdin(q) = <<c>> /\ <<c>> \in DOMAIN pipes
    <3>1. fd[q][0] \in Ends /\ fd[q][0][1] = Stdin(q)
      <4>1. OpenAt(proc[q], DOMAIN fd[q]) /\ fd[q] \in [DOMAIN fd[q] -> Ends]
        BY Facts
      <4>2. DOMAIN fd[q] = {0, 1}
        BY <1>1, <4>1 DEF OpenAt, At
      <4> QED
        BY <4>1, <4>2 DEF Stdin
    <3>2. Stdin(q) \in DOMAIN pipes
      BY <1>14, <3>1 DEF Ends
    <3> QED
      BY <1>2, <1>4, <1>14, <3>2 DEF Source
  <2> HIDE DEF c
  <2>2. /\ InPipe(c + 1)' = pipes[<<c>>] - 1 /\ InPipe(c + 1) = pipes[<<c>>]
        /\ \A b \in Nat : b # c + 1 => InPipe(b)' = InPipe(b)
    <3>1. pipes' = [pipes EXCEPT ![<<c>>] = pipes[<<c>>] - 1]
      BY <1>14, <2>1
    <3> QED
      BY <2>1, <3>1, OtherPipes
  <2>3. proc' = [proc EXCEPT ![q] = s]
    BY <1>12, <1>14
  <2>4. ~Left(a)' /\ InHand(a)' = 1 /\ InPipe(a)' = InPipe(a) - 1
    BY <1>9, <1>11, <2>1, <2>2, <2>3
  <2>5. ASSUME NEW m, m = e[a] PROVE Yields(a, m)' = e[a + 1]
    <3>1. m + InPipe(a)' + InHand(a)' = e[a] + InPipe(a)
      BY <1>5, <2>4, <2>5
    <3> QED
      BY <1>4, <1>7, <2>4, <3>1
  <2>6. input' \in 0..MaxOut /\ input' = input
    BY <1>5, <1>14
  <2>7. \A b \in Nat : b # a => InPipe(b)' = InPipe(b)
    BY <2>1, <2>2
  <2>8. \A m : m = (IF a = 0 THEN input' ELSE e[a]) => Yields(a, m)' = e[a + 1]
    BY <2>1, <2>5
  <2> QED
    BY <1>10, <2>3, <2>6, <2>7, <2>8
<1>15. ASSUME Exit(q), UNCHANGED <<pipes, input>>,
              IF Stdin(q) = Terminal THEN input = 0
              ELSE pipes[Stdin(q)] = 0 /\ Holders(WriteEnd(Stdin(q))) = {}
       PROVE  Promised'
  <2>1. proc' = [proc EXCEPT ![q] = t] /\ \A b \in Nat : InPipe(b)' = InPipe(b)
    BY <1>12, <1>15 DEF InPipe
  <2>2. Left(a)'
    BY <1>9, <1>11, <2>1
  <2>3. e[a] = 0 /\ InPipe(a) = 0
    <3>1. CASE a = 0
      BY <1>2, <1>4, <1>15, <3>1 DEF Source, InPipe
    <3>2. CASE a > 0
      <4>1. Stdin(q) = <<a - 1>> /\ a - 1 \in Nat /\ Stdin(q) # Terminal
        BY <1>2, <1>4, <3>2, Single DEF Source
      <4>2. Left(a - 1)
        BY <1>2, <1>4, <1>15, <3>2, <4>1, WriterGone
      <4>3. e[a] = 0
        <5>1. a - 1 \in 0..n - 1 /\ (a - 1) + 1 = a
          BY <1>4, <3>2
        <5>2. e[(a - 1) + 1] = Yields(a - 1, e[a - 1])
          BY <1>3, <5>1 DEF Ahead
        <5> QED
          BY <4>2, <5>1, <5>2 DEF Yields
      <4>4. pipes[<<a - 1>>] = 0
        BY <1>15, <4>1
      <4> QED
        BY <4>3, <4>4 DEF InPipe
    <3> QED
      BY <1>4, <3>1, <3>2
  <2>4. e[a + 1] = 0
    BY <1>1, <1>2, <1>4, <1>5, <2>3 DEF Through, Cap
  <2>5. input' \in 0..MaxOut /\ input' = input
    BY <1>5, <1>15
  <2> QED
    BY <1>6, <1>10, <2>1, <2>2, <2>4, <2>5
<1> QED
  BY <1>13, <1>14, <1>15 DEF Read

LEMMA WritePromise ==
  ASSUME PipeInv, NoneMissing, Flat, Wired, Promised, NEW q \in Processes, Write(q)
  PROVE  Promised'
<1>1. /\ At(q, "run") /\ (Kind(q) = "yes" \/ proc[q].item = 1)
      /\ UNCHANGED <<prog, kinds, input>>
  BY DEF Write
<1>2. PICK a \in 0..n - 1 :
        /\ q = <<a>> /\ kinds[a + 1] = Kind(q) /\ Kind(q) \in Kinds \ {"missing"}
        /\ Stdout(q) = Sink(a)
        /\ ~Left(a) /\ InHand(a) = proc[q].item /\ proc[q] \in Process
  BY <1>1, Running
<1>3. PICK e : Ahead(e) /\ Cap(out + e[n]) = Ideal
  BY DEF Promised
<1> DEFINE k == kinds[a + 1]
           h == InHand(a)
           m == e[a] + InPipe(a)
<1>4. a \in Nat /\ n \in Nat /\ a + 1 \in 0..n /\ a \in 0..n
  BY RootFacts
<1>5. /\ InPipe(a) \in Nat /\ h \in 0..1 /\ InPipe(a + 1) \in Nat /\ InHand(a + 1) \in Nat
      /\ input \in 0..MaxOut /\ out \in 0..MaxOut /\ MaxOut \in Nat
      /\ e \in [0..n -> 0..MaxOut] /\ e[0] = input
  <2>1. a + 1 \in Nat
    BY <1>4
  <2>2. InPipe(a + 1) \in Nat /\ InHand(a + 1) \in 0..1
    BY <2>1, Numbers
  <2>3. /\ InPipe(a) \in Nat /\ h \in 0..1 /\ input \in 0..InputLen /\ out \in 0..MaxOut
        /\ MaxOut \in Nat /\ InputLen \in Nat /\ MaxOut > InputLen
    BY <1>4, Numbers
  <2> HIDE DEF h
  <2>4. input \in 0..MaxOut
    BY <2>3
  <2> QED
    BY <1>3, <2>2, <2>3, <2>4 DEF Ahead
<1>6. /\ e[a] \in 0..MaxOut /\ e[a + 1] \in 0..MaxOut /\ m \in Nat
      /\ (k = "yes" \/ h = 1) /\ k \in Kinds /\ k # "missing"
      /\ e[a + 1] = Through(k, m + h)
  <2>1. e[a] \in 0..MaxOut /\ e[a + 1] \in 0..MaxOut /\ m \in Nat
    BY <1>4, <1>5
  <2>2. e[a + 1] = Yields(a, e[a])
    BY <1>3 DEF Ahead
  <2> QED
    BY <1>1, <1>2, <2>1, <2>2 DEF Yields
<1>7. PICK x \in 0..MaxOut :
        /\ x = (IF k = "head" THEN 0 ELSE Through(k, m))
        /\ x + 1 = e[a + 1] \/ (x = MaxOut /\ e[a + 1] = MaxOut)
  <2> HIDE DEF m, h, k
  <2> QED
    BY <1>5, <1>6, OnePassed
<1>8. ASSUME NEW z, proc' = [proc EXCEPT ![q] = z]
      PROVE  /\ (Left(a)' <=> z.pc \in Gone) /\ InHand(a)' = z.item
             /\ \A b \in Nat : b # a => (Left(b)' <=> Left(b)) /\ InHand(b)' = InHand(b)
  BY <1>2, <1>4, <1>8, OthersKept
<1> DEFINE s == [proc[q] EXCEPT !.item = 0]
           t == [proc[q] EXCEPT !.pc = "exited"]
<1>9. s.item = 0 /\ s.pc \notin Gone /\ t.pc \in Gone
  BY <1>1, <1>2 DEF Process, At, Gone
<1>10. /\ Got(q, 0) => proc' = [proc EXCEPT ![q] = s]
       /\ Exit(q) => proc' = [proc EXCEPT ![q] = t]
  BY DEF Got, Exit, Goto, Become
<1> HIDE DEF s, t
(* What this level yields once it has written.                             *)
<1>11. ASSUME Written(q), InPipe(a)' = InPipe(a)
       PROVE  /\ Yields(a, e[a])' = x
              /\ \A b \in Nat : b # a => (Left(b)' <=> Left(b)) /\ InHand(b)' = InHand(b)
  <2>1. CASE k = "head"
    <3>1. proc' = [proc EXCEPT ![q] = t]
      BY <1>2, <1>10, <1>11, <2>1 DEF Written
    <3>2. Left(a)'
      BY <1>8, <1>9, <3>1
    <3> QED
      BY <1>7, <1>8, <2>1, <3>1, <3>2 DEF Yields
  <2>2. CASE k # "head"
    <3>1. proc' = [proc EXCEPT ![q] = s]
      BY <1>2, <1>10, <1>11, <2>2 DEF Written
    <3>2. ~Left(a)' /\ InHand(a)' = 0
      BY <1>8, <1>9, <3>1
    <3>3. e[a] + InPipe(a)' + InHand(a)' = m
      BY <1>5, <1>6, <1>11, <3>2
    <3> HIDE DEF m
    <3> QED
      BY <1>1, <1>7, <1>8, <2>2, <3>1, <3>2, <3>3 DEF Yields, Through, Cap
  <2> QED
    BY <2>1, <2>2
<1>12. ASSUME NEW y \in 0..MaxOut, Yields(a, e[a])' = y,
              \A b \in Nat : b # a => (Left(b)' <=> Left(b)) /\ InHand(b)' = InHand(b),
              \A b \in Nat : b # a + 1 => InPipe(b)' = InPipe(b),
              a + 1 < n => Yields(a + 1, y)' = Yields(a + 1, e[a + 1]),
              Cap(out' + (IF a + 1 = n THEN y ELSE e[n])) = Cap(out + e[n])
       PROVE  Promised'
  <2>1. \A b \in Nat : b # a /\ b # a + 1 =>
          (Left(b)' <=> Left(b)) /\ InHand(b)' = InHand(b) /\ InPipe(b)' = InPipe(b)
    BY <1>12
  <2>2. \A v : v = (IF a = 0 THEN input' ELSE e[a]) => y = Yields(a, v)'
    <3>1. (IF a = 0 THEN input' ELSE e[a]) = e[a]
      BY <1>1, <1>5
    <3> QED
      BY <1>12, <3>1
  <2>3. kinds' = kinds /\ input' = input /\ input' \in 0..MaxOut
    BY <1>1, <1>5
  <2> QED
    BY <1>3, <1>12, <2>1, <2>2, <2>3, PromiseMoves
<1> HIDE DEF m, h, k
<1>13. ASSUME Stdout(q) = Terminal, out' = (IF out < MaxOut THEN out + 1 ELSE out), Written(q),
              UNCHANGED pipes
       PROVE  Promised'
  <2>1. a + 1 = n
    BY <1>2, <1>4, <1>13, Single DEF Sink
  <2>2. \A b \in Nat : InPipe(b)' = InPipe(b)
    BY <1>13 DEF InPipe
  <2>3. Cap(out' + x) = Cap(out + e[a + 1])
    <3>1. out' = Cap(out + 1)
      BY <1>5, <1>13 DEF Cap
    <3>2. Cap(Cap(out + 1) + x) = Cap(out + e[a + 1])
      BY <1>5, <1>6, <1>7, OneWritten
    <3> QED
      BY <3>1, <3>2
  <2>4. /\ Yields(a, e[a])' = x
        /\ \A b \in Nat : b # a => (Left(b)' <=> Left(b)) /\ InHand(b)' = InHand(b)
    BY <1>4, <1>11, <1>13, <2>2
  <2>5. ~(a + 1 < n) /\ Cap(out' + (IF a + 1 = n THEN x ELSE e[n])) = Cap(out + e[n])
    BY <1>4, <2>1, <2>3
  <2> QED
    BY <1>7, <1>12, <2>2, <2>4, <2>5
<1>14. ASSUME Stdout(q) # Terminal, Written(q), UNCHANGED out,
              pipes' = [pipes EXCEPT ![Stdout(q)] = @ + 1]
       PROVE  Promised'
  <2>1. a + 1 < n /\ Stdout(q) = <<a>> /\ <<a>> \in DOMAIN pipes
    <3>1. fd[q][1] \in Ends /\ fd[q][1][1] = Stdout(q)
      <4>1. OpenAt(proc[q], DOMAIN fd[q]) /\ fd[q] \in [DOMAIN fd[q] -> Ends]
        BY Facts
      <4>2. DOMAIN fd[q] = {0, 1}
        BY <1>1, <4>1 DEF OpenAt, At
      <4> QED
        BY <4>1, <4>2 DEF Stdout
    <3>2. Stdout(q) \in DOMAIN pipes
      BY <1>14, <3>1 DEF Ends
    <3> QED
      BY <1>2, <1>4, <1>14, <3>2 DEF Sink
  <2>2. /\ InPipe(a + 1)' = InPipe(a + 1) + 1
        /\ \A b \in Nat : b # a + 1 => InPipe(b)' = InPipe(b)
    <3>1. pipes' = [pipes EXCEPT ![<<a>>] = pipes[<<a>>] + 1]
      BY <1>14, <2>1
    <3> QED
      BY <1>4, <2>1, <3>1, OtherPipes
  <2>3. /\ Yields(a, e[a])' = x
        /\ \A b \in Nat : b # a => (Left(b)' <=> Left(b)) /\ InHand(b)' = InHand(b)
    BY <1>4, <1>11, <1>14, <2>2
  <2>4. Yields(a + 1, x)' = Yields(a + 1, e[a + 1])
    <3> DEFINE b == a + 1
    <3>1. (Left(b)' <=> Left(b)) /\ InHand(b)' = InHand(b) /\ InPipe(b)' = InPipe(b) + 1
      BY <1>4, <2>2, <2>3
    <3>2. /\ InPipe(b) \in Nat /\ InHand(b) \in Nat /\ e[b] \in 0..MaxOut
          /\ x + 1 = e[b] \/ (x = MaxOut /\ e[b] = MaxOut)
      BY <1>5, <1>6, <1>7
    <3> HIDE DEF b
    <3>3. Through(kinds[b + 1], x + (InPipe(b) + 1) + InHand(b))
            = Through(kinds[b + 1], e[b] + InPipe(b) + InHand(b))
      <4>1. PICK p \in Nat, i \in Nat, y \in 0..MaxOut :
              p = InPipe(b) /\ i = InHand(b) /\ y = e[b]
        BY <3>2
      <4> DEFINE u == x + (p + 1) + i
                 v == y + p + i
      <4>2. x + 1 = y \/ (x = MaxOut /\ y = MaxOut)
        BY <3>2, <4>1
      <4>3. /\ u \in Nat /\ v \in Nat
            /\ u = v \/ (u >= MaxOut /\ v >= MaxOut)
        <5>1. MaxOut \in Nat
          BY <1>5
        <5> QED
          BY <4>2, <5>1
      <4> HIDE DEF u, v
      <4>4. Through(kinds[b + 1], u) = Through(kinds[b + 1], v)
        BY <4>3, SameThrough
      <4> QED
        BY <4>1, <4>4 DEF u, v
    <3>4. Yields(b, x)' = IF Left(b) THEN 0
                          ELSE Through(kinds[b + 1], x + (InPipe(b) + 1) + InHand(b))
      <4>1. ASSUME NEW v PROVE Yields(b, v)' = IF Left(b) THEN 0
                          ELSE Through(kinds[b + 1], v + (InPipe(b) + 1) + InHand(b))
        BY <1>1, <3>1 DEF Yields, Through, Cap
      <4> QED
        BY <4>1
    <3>5. Yields(b, e[b]) = IF Left(b) THEN 0
                            ELSE Through(kinds[b + 1], e[b] + InPipe(b) + InHand(b))
      BY DEF Yields
    <3>6. Yields(b, x)' = Yields(b, e[b])
      BY <3>4, <3>5, <3>3
    <3> QED
      BY <3>6 DEF b
  <2>5. Cap(out' + (IF a + 1 = n THEN x ELSE e[n])) = Cap(out + e[n])
    BY <1>4, <1>14, <2>1
  <2> QED
    BY <1>7, <1>12, <2>2, <2>3, <2>4, <2>5
<1>15. ASSUME Stdout(q) # Terminal, Holders(ReadEnd(Stdout(q))) = {}, Exit(q),
              UNCHANGED <<pipes, out>>
       PROVE  Promised'
  <2>1. a + 1 < n /\ Stdout(q) = <<a>>
    BY <1>2, <1>4, <1>15 DEF Sink
  <2>2. proc' = [proc EXCEPT ![q] = t] /\ \A b \in Nat : InPipe(b)' = InPipe(b)
    BY <1>10, <1>15 DEF InPipe
  <2>3. /\ Left(a)'
        /\ \A b \in Nat : b # a => (Left(b)' <=> Left(b)) /\ InHand(b)' = InHand(b)
    BY <1>8, <1>9, <2>2
  <2>4. Left(a + 1)
    <3>1. a < n - 1
      BY <1>4, <2>1
    <3> QED
      BY <1>2, <1>4, <1>15, <2>1, <3>1, ReaderGone
  <2>5. Left(a + 1)' /\ Left(a + 1)
    BY <1>4, <2>3, <2>4
  <2>6. Yields(a, e[a])' = 0 /\ Yields(a + 1, 0)' = 0 /\ Yields(a + 1, e[a + 1]) = 0
    BY <2>3, <2>5 DEF Yields
  <2>7. Cap(out' + (IF a + 1 = n THEN 0 ELSE e[n])) = Cap(out + e[n])
    BY <1>4, <1>15, <2>1
  <2>8. 0 \in 0..MaxOut
    BY <1>5
  <2> QED
    BY <1>12, <2>2, <2>3, <2>6, <2>7, <2>8
<1> QED
  BY <1>13, <1>14, <1>15 DEF Write

-----------------------------------------------------------------------------
(* What a line writes, defined by recursion over its commands.             *)

(* Induction, by the pigeon-hole principle: below the first number missing *)
(* from S, adding one would map a finite set into a smaller one.           *)
LEMMA Induction ==
  ASSUME NEW S, 0 \in S, \A k \in Nat : k \in S => k + 1 \in S
  PROVE  Nat \subseteq S
<1> SUFFICES ASSUME NEW N \in Nat, N \notin S PROVE FALSE
  OBVIOUS
<1> DEFINE X == S \cap 0..N
           up == [x \in X |-> x + 1]
<1>1. IsFiniteSet(X)
  <2>1. IsFiniteSet(0..N)
    BY FS_Interval
  <2> QED
    BY <2>1, FS_Intersection
<1>2. 0 \in X /\ \A x \in X : x + 1 \in X \ {0}
  OBVIOUS
<1>3. /\ IsFiniteSet(X \ {0}) /\ Cardinality(X) \in Nat
      /\ Cardinality(X \ {0}) = Cardinality(X) - 1
  <2> HIDE DEF X
  <2> QED
    BY <1>1, <1>2, FS_RemoveElement, FS_CardinalityType
<1>4. up \in [X -> X \ {0}]
  BY <1>2
<1>5. PICK x \in X, y \in X : x # y /\ up[x] = up[y]
  <2> HIDE DEF X, up
  <2>1. Cardinality(X \ {0}) < Cardinality(X)
    BY <1>3
  <2> QED
    BY <1>1, <1>3, <1>4, <2>1, FS_PigeonHole
<1> QED
  BY <1>5

NextItems(ks, j, m) == IF ks[j] = "yes" THEN MaxOut ELSE IF ks[j] = "head" /\ m > 0 THEN 1 ELSE m
IsItems(g, ks, m) == g = [j \in 0..m |-> IF j = 0 THEN InputLen ELSE NextItems(ks, j, g[j - 1])]

LEMMA ItemsDefined == \A ks : \A m \in Nat : \E g : IsItems(g, ks, m)
<1> SUFFICES ASSUME NEW ks PROVE \A m \in Nat : \E g : IsItems(g, ks, m)
  OBVIOUS
<1> DEFINE S == {m \in Nat : \E g : IsItems(g, ks, m)}
<1>1. 0 \in S
  <2> DEFINE g == [j \in 0..0 |-> InputLen]
  <2>1. g = [j \in 0..0 |-> IF j = 0 THEN InputLen ELSE NextItems(ks, j, g[j - 1])]
    OBVIOUS
  <2> HIDE DEF g
  <2> QED
    BY <2>1 DEF IsItems
<1>2. \A m \in Nat : m \in S => m + 1 \in S
  <2> SUFFICES ASSUME NEW m \in Nat, NEW g, IsItems(g, ks, m) PROVE m + 1 \in S
    OBVIOUS
  <2> DEFINE h == [j \in 0..m + 1 |-> IF j = m + 1 THEN NextItems(ks, j, g[m]) ELSE g[j]]
  <2>1. h = [j \in 0..m + 1 |-> h[j]] /\ h[m + 1] = NextItems(ks, m + 1, g[m])
        /\ \A j \in 0..m : h[j] = g[j]
    OBVIOUS
  <2> HIDE DEF h
  <2>2. ASSUME NEW j \in 0..m + 1
        PROVE  h[j] = IF j = 0 THEN InputLen ELSE NextItems(ks, j, h[j - 1])
    <3>1. CASE j = m + 1
      <4>1. j # 0 /\ j - 1 = m /\ m \in 0..m
        BY <3>1
      <4>2. h[j - 1] = g[m]
        BY <2>1, <4>1
      <4> QED
        BY <2>1, <3>1, <4>1, <4>2
    <3>2. CASE j # m + 1
      <4>1. j \in 0..m /\ (j # 0 => j - 1 \in 0..m)
        BY <3>2
      <4>2. j \in 0..m /\ h[j] = g[j] /\ (j # 0 => h[j - 1] = g[j - 1])
        BY <2>1, <4>1
      <4>3. g[j] = IF j = 0 THEN InputLen ELSE NextItems(ks, j, g[j - 1])
        BY <4>2 DEF IsItems
      <4> QED
        BY <4>2, <4>3
    <3> QED
      BY <3>1, <3>2
  <2>3. IsItems(h, ks, m + 1)
    BY <2>1, <2>2 DEF IsItems
  <2> QED
    BY <2>3
<1>3. Nat \subseteq S
  <2> HIDE DEF S
  <2> QED
    BY <1>1, <1>2, Induction
<1> QED
  BY <1>3

LEMMA IdealIs ==
  ASSUME n \in Nat
  PROVE  \E g : IsItems(g, kinds, n) /\ Ideal = g[n]
<1> DEFINE items == CHOOSE g : g = [j \in 0..n |->
             IF j = 0 THEN InputLen
             ELSE IF kinds[j] = "yes" THEN MaxOut
             ELSE IF kinds[j] = "head" /\ g[j - 1] > 0 THEN 1 ELSE g[j - 1]]
<1>1. \A g : IsItems(g, kinds, n) <=> g = [j \in 0..n |->
             IF j = 0 THEN InputLen
             ELSE IF kinds[j] = "yes" THEN MaxOut
             ELSE IF kinds[j] = "head" /\ g[j - 1] > 0 THEN 1 ELSE g[j - 1]]
  BY DEF IsItems, NextItems
<1>2. \E g : IsItems(g, kinds, n)
  BY ItemsDefined
<1>3. items = [j \in 0..n |->
             IF j = 0 THEN InputLen
             ELSE IF kinds[j] = "yes" THEN MaxOut
             ELSE IF kinds[j] = "head" /\ items[j - 1] > 0 THEN 1 ELSE items[j - 1]]
  BY <1>1, <1>2
<1>4. Ideal = items[n]
  BY DEF Ideal
<1> HIDE DEF items
<1>5. IsItems(items, kinds, n)
  BY <1>1, <1>3
<1> QED
  BY <1>4, <1>5

LEMMA ItemsAre ==
  ASSUME n \in Nat, NEW g, IsItems(g, kinds, n)
  PROVE  /\ g \in [0..n -> 0..MaxOut] /\ g[0] = InputLen
         /\ \A a \in 0..n - 1 : g[a + 1] = NextItems(kinds, a + 1, g[a])
<1>1. /\ g = [j \in 0..n |-> g[j]] /\ g[0] = InputLen
      /\ \A a \in 0..n - 1 : g[a + 1] = NextItems(kinds, a + 1, g[a])
  <2>1. \A j \in 0..n : g[j] = IF j = 0 THEN InputLen ELSE NextItems(kinds, j, g[j - 1])
    BY DEF IsItems
  <2>2. g = [j \in 0..n |-> g[j]]
    BY DEF IsItems
  <2>3. ASSUME NEW a \in 0..n - 1 PROVE g[a + 1] = NextItems(kinds, a + 1, g[a])
    <3>1. a + 1 \in 0..n /\ a + 1 # 0 /\ (a + 1) - 1 = a
      OBVIOUS
    <3> QED
      BY <2>1, <3>1
  <2>4. g[0] = InputLen
    <3>1. 0 \in 0..n
      OBVIOUS
    <3> QED
      BY <2>1, <3>1
  <2> QED
    BY <2>2, <2>3, <2>4
<1> DEFINE S == {j \in Nat : j <= n => g[j] \in 0..MaxOut}
<1>2. 0 \in S
  BY <1>1, BoundsAssumption
<1>3. \A j \in Nat : j \in S => j + 1 \in S
  <2> SUFFICES ASSUME NEW j \in Nat, j + 1 <= n, g[j] \in 0..MaxOut PROVE g[j + 1] \in 0..MaxOut
    OBVIOUS
  <2>1. g[j + 1] = NextItems(kinds, j + 1, g[j])
    <3>1. j \in 0..n - 1
      OBVIOUS
    <3> QED
      BY <1>1, <3>1
  <2> QED
    BY <2>1, BoundsAssumption DEF NextItems
<1>4. Nat \subseteq S
  <2> HIDE DEF S
  <2> QED
    BY <1>2, <1>3, Induction
<1>5. \A j \in 0..n : g[j] \in 0..MaxOut
  BY <1>4
<1> HIDE DEF S
<1> QED
  BY <1>1, <1>5

LEMMA InitFlow == Init => FlowInv
<1> SUFFICES ASSUME Init, NoneMissing PROVE Flat /\ Wired /\ Promised
  BY DEF FlowInv
<1>1. /\ Processes = {root} /\ n \in Nat /\ n >= 1 /\ PipeInv /\ DOMAIN pipes = {}
      /\ input = InputLen /\ out = 0
  <2>1. PipeInv
    BY InitInv
  <2> QED
    BY <2>1, Facts DEF Init, Processes
<1>2. /\ proc[root].pc = (IF prog = "connect2" THEN "pipe" ELSE "start")
      /\ proc[root].i = 0 /\ proc[root].item = 0
      /\ fd[root][0] = ReadEnd(Terminal)
  BY DEF Init
<1>3. Flat
  BY <1>1, <1>2 DEF Flat, Born
<1>4. Wired
  BY <1>1, <1>2 DEF Wired, RootWired, Born, Source
<1>5. PICK g : IsItems(g, kinds, n) /\ Ideal = g[n]
  BY <1>1, IdealIs
<1>6. /\ g \in [0..n -> 0..MaxOut] /\ g[0] = InputLen
      /\ \A a \in 0..n - 1 : g[a + 1] = NextItems(kinds, a + 1, g[a])
  BY <1>1, <1>5, ItemsAre
<1>7. ASSUME NEW a \in 0..n - 1 PROVE g[a + 1] = Yields(a, g[a])
  <2>1. <<a>> \notin Processes
    BY <1>1, Single
  <2>2. g[a] \in 0..MaxOut /\ MaxOut \in Nat
    BY <1>1, <1>6, BoundsAssumption
  <2>3. Yields(a, g[a]) = Through(kinds[a + 1], g[a])
    <3>1. ~Left(a) /\ InHand(a) = 0 /\ InPipe(a) = 0
      BY <1>1, <2>1 DEF Left, InHand, InPipe
    <3>2. g[a] + 0 + 0 = g[a]
      BY <2>2
    <3> QED
      BY <3>1, <3>2 DEF Yields
  <2>4. Through(kinds[a + 1], g[a]) = NextItems(kinds, a + 1, g[a])
    BY <2>2 DEF Through, Cap, NextItems
  <2> QED
    BY <1>6, <2>3, <2>4
<1>8. Ahead(g)
  BY <1>1, <1>6, <1>7 DEF Ahead
<1>9. Cap(out + g[n]) = Ideal
  <2>1. g[n] \in 0..MaxOut /\ MaxOut \in Nat
    BY <1>1, <1>6, BoundsAssumption
  <2> QED
    BY <1>1, <1>5, <2>1 DEF Cap
<1> QED
  BY <1>3, <1>4, <1>8, <1>9 DEF Promised

LEMMA FlowStep ==
  ASSUME PipeInv, FlowInv, [Next]_vars PROVE FlowInv'
<1> SUFFICES ASSUME NoneMissing' PROVE (Flat /\ Wired /\ Promised)'
  BY DEF FlowInv
<1>1. NoneMissing
  BY DEF NoneMissing, Next, Step, Program, StartProcess, Pipe, Fork, Child, Execlp, CloseEnds,
     Waitpid, Return, Read, Write, vars, n
<1>2. Flat /\ Wired /\ Promised
  BY <1>1 DEF FlowInv
<1>3. ASSUME NEW q \in Processes, Program(q) PROVE (Flat /\ Wired /\ Promised)'
  <2>1. (Flat /\ Wired)'
    BY <1>1, <1>2, <1>3, StartProcessFlow, PipeFlow, ForkFlow, ChildFlow, ExeclpFlow,
       CloseEndsFlow, WaitpidFlow, ReturnFlow DEF Program
  <2> QED
    BY <1>1, <1>2, <1>3, <2>1, ProgramPromise
<1>4. ASSUME NEW q \in Processes, Read(q) \/ Write(q) PROVE (Flat /\ Wired /\ Promised)'
  BY <1>1, <1>2, <1>4, CommandsFlow, ReadPromise, WritePromise
<1>5. CASE UNCHANGED vars
  <2>1. /\ Processes' = Processes /\ n' = n /\ proc' = proc /\ fd' = fd /\ prog' = prog
        /\ pipes' = pipes /\ UNCHANGED <<kinds, input, out>>
    BY <1>5 DEF vars, Processes, n
  <2>2. Flat' /\ Wired'
    BY <1>2, <2>1 DEF Flat, Wired, Born, Dug, RootWired, ChildWired, Source, Sink, Given, Newest
  <2>3. \A b \in Nat : (Left(b)' <=> Left(b)) /\ InHand(b)' = InHand(b) /\ InPipe(b)' = InPipe(b)
    BY <2>1 DEF Left, InHand, InPipe
  <2> QED
    BY <1>2, <2>1, <2>2, <2>3, PromiseKept
<1> QED
  BY <1>3, <1>4, <1>5 DEF Next, Step

(* A line whose commands all exist has written, when the program has       *)
(* exited, what a shell would have written, however the commands and the   *)
(* pipes between them took turns.                                          *)
THEOREM WritesAsShell == Spec => []OutputAsShell
<1>1. PipeInv /\ FlowInv => OutputAsShell
  <2> SUFFICES ASSUME PipeInv, FlowInv, Done, NoneMissing PROVE out = Ideal
    BY DEF OutputAsShell
  <2>1. Flat /\ Wired /\ Promised
    BY DEF FlowInv
  <2>2. /\ n \in Nat /\ n >= 1 /\ out \in 0..MaxOut /\ MaxOut \in Nat
        /\ Born(proc[root]) = n
    <3>1. n \in Nat /\ n >= 1 /\ out \in 0..MaxOut /\ MaxOut \in Nat
      BY Numbers, RootFacts, <2>1
    <3> QED
      BY <3>1 DEF Done, At, Born
  <2>3. Left(n - 1)
    <3> DEFINE q == <<n - 1>>
    <3>1. n - 1 \in 0..n - 1 /\ q \in Processes
      BY <2>1, <2>2 DEF Flat
    <3>2. q \in Levels /\ Len(q) = 1 /\ root \in Processes
      BY <3>1, <2>1, RootFacts, Facts
    <3>3. Below(q, root)
      BY <3>2, RootIsLevel DEF Below
    <3>4. proc[q].pc = "reaped"
      BY <3>1, <3>2, <3>3 DEF PipeInv, NobodyLeft, Done, At
    <3> QED
      BY <3>1, <3>4 DEF Left, Gone
  <2>4. PICK e : Ahead(e) /\ Cap(out + e[n]) = Ideal
    BY <2>1 DEF Promised
  <2>5. e[n] = 0
    <3>1. n - 1 \in 0..n - 1 /\ (n - 1) + 1 = n
      BY <2>2
    <3>2. e[(n - 1) + 1] = Yields(n - 1, e[n - 1])
      BY <2>4, <3>1 DEF Ahead
    <3> QED
      BY <2>3, <3>1, <3>2 DEF Yields
  <2> QED
    BY <2>2, <2>4, <2>5 DEF Cap
<1>2. PipeInv /\ FlowInv /\ [Next]_vars => FlowInv'
  BY FlowStep
<1> QED
  BY <1>1, <1>2, InitFlow, PipesAndProcesses, PTL DEF Spec
=============================================================================
