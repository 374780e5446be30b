--------------------------- MODULE SwapAllocator ---------------------------
(***************************************************************************)
(* The allocator of 10_mmap/3_swap-file-mem-allocator: malloc and free in  *)
(* a file mapped into memory.  The file is a row of blocks, each a header  *)
(* (a 4-byte size and a 1-byte free flag) followed by the payload; nothing *)
(* but the headers themselves says where the next block starts.  Every     *)
(* iteration of the scans of my_malloc and my_free is a step here.         *)
(***************************************************************************)
EXTENDS Integers

CONSTANTS
  Capacity,      \* st_size of the file passed to myalloc_initialize
  Requests,      \* sizes the client passes to my_malloc
  StoreWidth     \* bytes written by `*(MemBlock*) p = new`: 5 when the
                 \* compiler stores the two fields, 8 when it copies the
                 \* struct with its padding (gcc: 5 at -O1..-O3, 8 at -O0)

size_of_MemBlock == 5

ASSUME CapacityAssumption == Capacity \in Nat /\ Capacity >= size_of_MemBlock
ASSUME RequestsAssumption == Requests \subseteq Nat
ASSUME StoreWidthAssumption == StoreWidth \in {5, 8}

VARIABLES
  mem,    \* address -> header, for the addresses known to hold a header
  live,   \* pointers the client holds, with the size it asked for
  pc,     \* where the running call is; "idle" between calls
  size,   \* my_malloc's argument
  start,  \* my_malloc's cursor
  res,    \* the header my_malloc read last
  ptr,    \* my_free's argument
  adr,    \* my_free's cursor
  fwd,    \* freed_forward
  bwd     \* freed_backward

mallocVars == <<size, start, res>>
freeVars == <<ptr, adr, fwd, bwd>>
vars == <<mem, live, pc, mallocVars, freeVars>>

-----------------------------------------------------------------------------
(* Memory.                                                                 *)

Header == [size : Nat, free : {0, 1}]

(* Load reads the MemBlock at address a.  Bytes that are no header (payload *)
(* the client filled, or a header overrun by a wide store) read as anything *)
(* up to the bound Capacity.                                                *)
Load(a) ==
  IF a \in DOMAIN mem THEN {mem[a]}
                      ELSE [size : 0..Capacity, free : {0, 1}]

(* The memory m after storing a header at a.  Headers that the new payload *)
(* swallows stop being headers; so does every header the store's own bytes *)
(* a .. a+StoreWidth-1 reach, which is the following one when StoreWidth   *)
(* is 8 and the payload is shorter than the padding.                       *)
Overwritten(a, n) ==
  a .. (IF n + size_of_MemBlock > StoreWidth THEN a + n + size_of_MemBlock - 1
                                             ELSE a + StoreWidth - 1)

Store(m, a, n, f) ==
  [x \in (DOMAIN m \ Overwritten(a, n)) \cup {a} |->
     IF x = a THEN [size |-> n, free |-> f] ELSE m[x]]

NoBlock == [size |-> 0, free |-> 0]
NoPointers == [p \in {} |-> 0]
IdleMalloc == size = 0 /\ start = 0 /\ res = NoBlock
IdleFree == ptr = 0 /\ adr = 0 /\ fwd = 0 /\ bwd = 0
EndMalloc == size' = 0 /\ start' = 0 /\ res' = NoBlock
EndFree == ptr' = 0 /\ adr' = 0 /\ fwd' = 0 /\ bwd' = 0

Init ==
  /\ mem = [a \in {} |-> NoBlock]
  /\ live = NoPointers
  /\ pc = "closed"
  /\ IdleMalloc /\ IdleFree

-----------------------------------------------------------------------------
(* A descriptor that is none leaves the allocator as it was: without a     *)
(* file, and no other call may follow.                                     *)
myalloc_initialize ==
  /\ pc = "closed"
  /\ \E fd \in {-1, 3} :
       IF fd < 0 THEN UNCHANGED <<mem, pc>>
       ELSE /\ mem' = Store(mem, 0, Capacity - size_of_MemBlock, 1)
            /\ pc' = "idle"
  /\ UNCHANGED <<live, mallocVars, freeVars>>

(* msync and munmap; what the file keeps is never read again, since the    *)
(* next myalloc_initialize starts from one free block.                     *)
myalloc_finalize ==
  /\ pc = "idle"
  /\ mem' = [a \in {} |-> NoBlock]
  /\ live' = NoPointers
  /\ pc' = "closed"
  /\ UNCHANGED <<mallocVars, freeVars>>

-----------------------------------------------------------------------------
(* my_malloc                                                               *)

MallocCall(n) ==
  /\ pc = "idle"
  /\ size' = n
  /\ start' = 0
  /\ pc' = "scan"
  /\ UNCHANGED <<mem, live, res, freeVars>>

SuitsEvenIfTaken(h) == h.size >= size
SuitsIfLarger(h) == h.free = 1 /\ h.size > size
Suits(h) == h.free = 1 /\ h.size >= size

(* The scan stops early where not even a block of the wanted size is left. *)
RoomAtExclusive(a) == a + size + size_of_MemBlock < Capacity
RoomAt(a) == a + size + size_of_MemBlock <= Capacity

NextBlockUnderstated(a, h) == a + h.size
NextBlock(a, h) == a + h.size + size_of_MemBlock

MallocScan ==
  /\ pc = "scan"
  /\ \E h \in Load(start) :
       /\ res' = h
       /\ start' = NextBlock(start, h)
       /\ pc' = IF ~Suits(h) /\ RoomAt(start') THEN "scan" ELSE "place"
  /\ UNCHANGED <<mem, live, size, freeVars>>

Found == start - res.size - size_of_MemBlock   \* address of the last header

Grant(m) ==
  /\ mem' = m
  /\ live' = [p \in DOMAIN live \cup {start - res.size} |->
                IF p = start - res.size THEN size ELSE live[p]]
  /\ pc' = "idle"
  /\ EndMalloc
  /\ UNCHANGED freeVars

MallocSplit ==
  /\ pc = "place"
  /\ Suits(res)
  /\ res.size - size >= size_of_MemBlock
  /\ Grant(Store(Store(mem, Found, size, 0),
                 start - res.size + size,
                 res.size - size - size_of_MemBlock, 1))

MallocWhole ==
  /\ pc = "place"
  /\ Suits(res)
  /\ res.size - size < size_of_MemBlock
  /\ Grant(Store(mem, Found, res.size, 0))

MallocNull ==
  /\ pc = "place"
  /\ ~Suits(res)
  /\ pc' = "idle"
  /\ EndMalloc
  /\ UNCHANGED <<mem, live, freeVars>>

-----------------------------------------------------------------------------
(* my_free                                                                 *)

FreeCall(p) ==
  /\ pc = "idle"
  /\ live' = [q \in DOMAIN live \ {p} |-> live[q]]
  /\ ptr' = p
  /\ \E h \in Load(p - size_of_MemBlock) : fwd' = h.size /\ adr' = p + h.size
  /\ pc' = "forward"
  /\ UNCHANGED <<mem, bwd, mallocVars>>

(* The header behind the block is loaded before `adr < kCapacity` is       *)
(* tested.  Behind the last block there may be a readable page, and then    *)
(* the load is harmless, or none, and then it ends the program.            *)
MayFault == adr >= Capacity

Joins(h) == adr < Capacity /\ h.free = 1

FreeForward ==
  /\ pc = "forward"
  /\ \E h \in Load(adr) :
       IF Joins(h)
       THEN /\ fwd' = NextBlock(fwd, h)
            /\ adr' = NextBlock(adr, h)
            /\ UNCHANGED <<pc, bwd>>
       ELSE /\ adr' = 0
            /\ bwd' = 0
            /\ pc' = "backward"
            /\ UNCHANGED fwd
  /\ UNCHANGED <<mem, live, ptr, mallocVars>>

FreeFault ==
  /\ pc = "forward"
  /\ MayFault
  /\ pc' = "fault"
  /\ UNCHANGED <<mem, live, mallocVars, freeVars>>

target_adr == ptr - size_of_MemBlock

RunLengthKept(h) == IF h.free = 1 THEN NextBlock(bwd, h) ELSE bwd
RunLength(h) == IF h.free = 1 THEN NextBlock(bwd, h) ELSE 0

FreeBackward ==
  /\ pc = "backward"
  /\ adr < target_adr
  /\ \E h \in Load(adr) :
       /\ bwd' = RunLength(h)
       /\ adr' = NextBlock(adr, h)
  /\ UNCHANGED <<mem, live, pc, ptr, fwd, mallocVars>>

FreeStore ==
  /\ pc = "backward"
  /\ adr >= target_adr
  /\ mem' = Store(mem, adr - bwd, bwd + fwd, 1)
  /\ pc' = "idle"
  /\ EndFree
  /\ UNCHANGED <<live, mallocVars>>

-----------------------------------------------------------------------------
Running == MallocScan \/ MallocSplit \/ MallocWhole \/ MallocNull
             \/ FreeForward \/ FreeFault \/ FreeBackward \/ FreeStore

Next ==
  \/ myalloc_initialize
  \/ myalloc_finalize
  \/ \E n \in Requests : MallocCall(n)
  \/ \E p \in DOMAIN live : FreeCall(p)
  \/ Running
  \/ pc = "fault" /\ UNCHANGED vars

Spec == Init /\ [][Next]_vars

(* A call that was made runs: nothing in the allocator waits.              *)
FairSpec == Spec /\ WF_vars(Running)
-----------------------------------------------------------------------------
(* Properties.                                                             *)

Heads == DOMAIN mem
EndOf(a) == NextBlock(a, mem[a])

(* Every variable has its type.                                            *)
TypeOK ==
  /\ Heads \subseteq 0..Capacity /\ mem \in [Heads -> Header]
  /\ DOMAIN live \subseteq Nat /\ live \in [DOMAIN live -> Nat]
  /\ pc \in {"closed", "idle", "scan", "place", "forward", "backward", "fault"}
  /\ size \in Nat /\ start \in Nat /\ res \in Header
  /\ ptr \in Nat /\ adr \in Nat /\ fwd \in Nat /\ bwd \in Nat

(* The headers cut the whole file into blocks: following the sizes from    *)
(* address 0 visits every header and ends exactly at the end of the file.  *)
BlocksTile ==
  /\ IF pc = "closed" THEN Heads = {} ELSE 0 \in Heads
  /\ \A a \in Heads : EndOf(a) \in Heads \cup {Capacity}
  /\ \A a, b \in Heads : a < b => EndOf(a) <= b

(* The block my_free is working on: already given up by the client, still  *)
(* marked as taken in the file.                                            *)
BeingFreed == IF pc \in {"forward", "backward", "fault"} THEN {ptr} ELSE {}

(* The taken blocks are exactly those the client holds, each at least as   *)
(* long as the request it serves: none leaks and none is freed early.      *)
OwnersMatch ==
  /\ \A p \in DOMAIN live \cup BeingFreed :
       p - size_of_MemBlock \in Heads /\ mem[p - size_of_MemBlock].free = 0
  /\ \A a \in Heads :
       mem[a].free = 0 => a + size_of_MemBlock \in DOMAIN live \cup BeingFreed
  /\ \A p \in DOMAIN live :
       p \notin BeingFreed /\ live[p] <= mem[p - size_of_MemBlock].size

(* Two neighbouring blocks are never both free, so that the free memory is *)
(* as little fragmented as its owners allow.                               *)
NoFreeNeighbours ==
  \A a \in Heads : mem[a].free = 1 /\ EndOf(a) \in Heads => mem[EndOf(a)].free = 0

(* my_malloc takes the first block that suits, and gives up only when no   *)
(* block of the file does, although it does not look at the last ones.     *)
FirstFit ==
  pc = "place" =>
    \A a \in Heads : Suits(mem[a]) => Suits(res) /\ Found <= a

(* What my_malloc knows while it scans: it stands on a header, and nothing *)
(* before it suits.                                                        *)
ScanInv ==
  /\ pc \in {"scan", "place"} => size \in Requests
  /\ pc = "scan" => /\ start \in Heads
                    /\ \A a \in Heads : a < start => ~Suits(mem[a])
  /\ pc = "place" => /\ Found \in Heads
                     /\ res = mem[Found]
                     /\ Suits(res) \/ ~RoomAt(start)
                     /\ \A a \in Heads : a < Found => ~Suits(mem[a])

(* What my_free knows of the free blocks it is about to merge: those after *)
(* its own, up to ptr + fwd, and those before its cursor, from adr - bwd.  *)
MergeInv ==
  /\ pc \in {"forward", "fault"} => adr = ptr + fwd
  /\ pc = "fault" => adr = Capacity
  /\ pc \in {"forward", "backward", "fault"} =>
       /\ ptr + fwd \in Heads \cup {Capacity}
       /\ fwd >= mem[target_adr].size
       /\ \A a \in Heads : target_adr < a /\ a < ptr + fwd => mem[a].free = 1
  /\ pc = "backward" =>
       /\ ptr + fwd \in Heads => mem[ptr + fwd].free = 0
       /\ adr \in Heads /\ adr <= target_adr
       /\ adr - bwd \in Heads
       /\ \A a \in Heads : adr - bwd <= a /\ a < adr => mem[a].free = 1
       /\ \A a \in Heads : EndOf(a) = adr - bwd => mem[a].free = 0

IndInv == /\ BlocksTile /\ OwnersMatch /\ NoFreeNeighbours
          /\ ScanInv /\ MergeInv

(* The bytes of two live pointers, and the header in front of each, never  *)
(* overlap, and all of them lie in the file.                               *)
LiveDisjoint ==
  \A p \in DOMAIN live :
    /\ p >= size_of_MemBlock /\ p + live[p] <= Capacity
    /\ \A q \in DOMAIN live :
         p < q => p + live[p] + size_of_MemBlock <= q

(* A call of my_malloc or my_free returns, or is killed by the load behind *)
(* the file, which malloc and free, whose ways problem.md:16 asks for,     *)
(* would not do.                                                           *)
CallsReturn == (pc \notin {"closed", "idle"}) ~> (pc \in {"idle", "fault"})

(* The allocator does what an arena does: a pointer it grants is fresh and *)
(* owns its bytes alone, and nothing but my_free takes them away.          *)
A == INSTANCE Arena
Refinement == A!Spec

(* The program dies only in my_free, and only on a block that, with the    *)
(* free ones after it, is the file's last.                                 *)
FaultOnlyAtEnd == pc = "fault" => ptr + fwd = Capacity
=============================================================================
