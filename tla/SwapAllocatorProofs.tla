------------------------ MODULE SwapAllocatorProofs ------------------------
(***************************************************************************)
(* What the allocator guarantees for every file length and every sequence  *)
(* of requests, in a build whose header stores write the two fields only.  *)
(***************************************************************************)
EXTENDS SwapAllocator, TLAPS

Inv == TypeOK /\ IndInv

(* What a narrow store leaves in memory: the new header, and every header  *)
(* outside the block it opens.                                             *)
Stored(s, m, a, n, f) ==
  /\ s = [x \in DOMAIN s |-> s[x]]
  /\ DOMAIN s = {x \in DOMAIN m : x < a \/ x >= a + n + 5} \cup {a}
  /\ s[a] = [size |-> n, free |-> f]
  /\ \A x \in DOMAIN m : (x < a \/ x >= a + n + 5) => s[x] = m[x]

LEMMA StoreFacts ==
  ASSUME StoreWidth = 5, NEW m, NEW a \in Nat, NEW n \in Nat,
         NEW f \in {0, 1}, DOMAIN m \subseteq Nat
  PROVE  Stored(Store(m, a, n, f), m, a, n, f)
<1>1. Overwritten(a, n) = a .. (a + n + 4)
  BY DEF Overwritten, size_of_MemBlock
<1>2. (DOMAIN m \ Overwritten(a, n)) \cup {a} =
        {x \in DOMAIN m : x < a \/ x >= a + n + 5} \cup {a}
  BY <1>1
<1> QED
  BY <1>2 DEF Store, Stored

(* Abbreviations that every proof below sees through.                      *)
USE DEF size_of_MemBlock, Heads, EndOf, NextBlock, mallocVars, freeVars, Header

LEMMA InitInv == Init => Inv
BY CapacityAssumption DEF Init, Inv, TypeOK, IndInv, IdleMalloc, IdleFree,
   NoBlock, NoPointers, BlocksTile, OwnersMatch, NoFreeNeighbours, ScanInv,
   MergeInv, BeingFreed

LEMMA StutterInv == Inv /\ UNCHANGED vars => Inv'
BY DEF vars, Inv, TypeOK, IndInv, BlocksTile, OwnersMatch, NoFreeNeighbours,
   ScanInv, MergeInv, BeingFreed, Suits, Found, RoomAt, target_adr

-----------------------------------------------------------------------------
(* Opening and closing the file.                                           *)

LEMMA InitializeInv ==
  ASSUME StoreWidth = 5, Inv, myalloc_initialize PROVE Inv'
<1>0. SUFFICES ASSUME pc' # "closed" PROVE Inv'
  <2>1. pc' = "closed" => UNCHANGED vars
    BY DEF myalloc_initialize, vars
  <2> QED
    BY <2>1, StutterInv
<1>1. /\ Heads = {} /\ DOMAIN live = {}
      /\ pc = "closed" /\ pc' = "idle" /\ UNCHANGED <<live, mallocVars, freeVars>>
      /\ mem' = Store(mem, 0, Capacity - 5, 1)
  BY <1>0 DEF myalloc_initialize, Inv, IndInv, TypeOK, BlocksTile, OwnersMatch,
     BeingFreed
<1>2. Heads' = {0} /\ mem' = [x \in Heads' |-> mem'[x]]
        /\ mem'[0] = [size |-> Capacity - 5, free |-> 1]
  <2>1. Stored(mem', mem, 0, Capacity - 5, 1)
    BY <1>1, StoreFacts, CapacityAssumption
  <2> QED
    BY <1>1, <2>1 DEF Stored
<1>3. TypeOK'
  BY <1>1, <1>2, CapacityAssumption DEF Inv, TypeOK
<1>4. IndInv'
  BY <1>1, <1>2, CapacityAssumption DEF Inv, IndInv, BlocksTile, OwnersMatch,
     NoFreeNeighbours, ScanInv, MergeInv, BeingFreed
<1> QED
  BY <1>3, <1>4 DEF Inv

LEMMA FinalizeInv == ASSUME Inv, myalloc_finalize PROVE Inv'
BY DEF myalloc_finalize, NoBlock, NoPointers, Inv, TypeOK, IndInv, BlocksTile,
   OwnersMatch, NoFreeNeighbours, ScanInv, MergeInv, BeingFreed

-----------------------------------------------------------------------------
(* my_malloc                                                               *)

LEMMA MallocCallInv ==
  ASSUME Inv, NEW n \in Requests, MallocCall(n) PROVE Inv'
BY RequestsAssumption DEF MallocCall, Inv, TypeOK, IndInv, BlocksTile,
   OwnersMatch, NoFreeNeighbours, ScanInv, MergeInv, BeingFreed, Suits

LEMMA MallocScanInv == ASSUME Inv, MallocScan PROVE Inv'
<1>1. /\ pc = "scan" /\ start \in Heads
      /\ res' = mem[start]
      /\ start' = start + mem[start].size + 5
      /\ pc' = IF ~Suits(mem[start]) /\ RoomAt(start') THEN "scan" ELSE "place"
      /\ UNCHANGED <<mem, live, size, freeVars>>
  BY DEF MallocScan, Load, Inv, IndInv, ScanInv
<1>2. /\ TypeOK /\ BlocksTile /\ OwnersMatch /\ NoFreeNeighbours /\ ScanInv
      /\ mem[start] \in Header /\ start' \in Heads \cup {Capacity}
  BY <1>1 DEF Inv, IndInv, TypeOK, BlocksTile
<1>3. TypeOK'
  BY <1>1, <1>2 DEF TypeOK
<1>4. BlocksTile' /\ OwnersMatch' /\ NoFreeNeighbours'
  BY <1>1, <1>2 DEF BlocksTile, OwnersMatch, NoFreeNeighbours, BeingFreed
<1>5. MergeInv'
  BY <1>1 DEF MergeInv
<1>6. CASE pc' = "scan"
  <2>1. start' \in Heads
    BY <1>1, <1>2, <1>6, CapacityAssumption DEF RoomAt, TypeOK
  <2>2. ASSUME NEW a \in Heads, a < start' PROVE ~Suits(mem[a])
    <3>1. a <= start
      BY <1>1, <1>2, <2>2 DEF TypeOK, BlocksTile
    <3> QED
      BY <1>1, <1>2, <1>6, <3>1 DEF TypeOK, ScanInv
  <2> QED
    BY <1>1, <1>2, <1>3, <1>4, <1>5, <1>6, <2>1, <2>2
       DEF Inv, IndInv, ScanInv, Suits
<1>7. CASE pc' = "place"
  <2>1. Found' = start
    BY <1>1, <1>2 DEF Found, TypeOK
  <2>2. ScanInv'
    BY <1>1, <1>2, <1>7, <2>1 DEF ScanInv, Suits, RoomAt
  <2> QED
    BY <1>3, <1>4, <1>5, <2>2 DEF Inv, IndInv
<1> QED
  BY <1>1, <1>6, <1>7

LEMMA MallocNullInv == ASSUME Inv, MallocNull PROVE Inv'
BY DEF MallocNull, EndMalloc, NoBlock, Inv, TypeOK, IndInv, BlocksTile,
   OwnersMatch, NoFreeNeighbours, ScanInv, MergeInv, BeingFreed

(* A granted block was free, so no client holds it.                        *)
LEMMA GrantFacts ==
  ASSUME Inv, pc = "place", Suits(res)
  PROVE  /\ Found \in Heads /\ mem[Found] = res /\ res.free = 1
         /\ res.size \in Nat /\ size \in Nat /\ size <= res.size
         /\ start - res.size = Found + 5
         /\ Found + res.size + 5 \in Heads \cup {Capacity}
         /\ Found + 5 \notin DOMAIN live
BY DEF Inv, TypeOK, IndInv, BlocksTile, OwnersMatch, ScanInv, Found, Suits

LEMMA MallocWholeInv == ASSUME StoreWidth = 5, Inv, MallocWhole PROVE Inv'
<1>0. pc = "place" /\ Suits(res) /\ Grant(Store(mem, Found, res.size, 0))
  BY DEF MallocWhole
<1> DEFINE F == Found
<1>1. /\ F \in Heads /\ F \in Nat /\ mem[F] = res /\ res.free = 1 /\ res.size \in Nat
      /\ size \in Nat /\ size <= res.size
      /\ F + res.size + 5 \in Heads \cup {Capacity} /\ F + 5 \notin DOMAIN live
      /\ start - res.size = F + 5
      /\ mem' = Store(mem, F, res.size, 0)
  BY <1>0, GrantFacts DEF Grant, Inv, TypeOK
<1> HIDE DEF F
<1>2. /\ Heads' = Heads /\ mem' = [x \in Heads |-> mem'[x]]
      /\ mem'[F] = [size |-> res.size, free |-> 0]
      /\ \A x \in Heads : x # F => mem'[x] = mem[x]
  <2>1. \A x \in Heads : x = F \/ x < F \/ x >= F + res.size + 5
    BY <1>0, <1>1 DEF Inv, IndInv, TypeOK, BlocksTile
  <2> QED
    <3>1. Stored(mem', mem, F, res.size, 0)
      BY <1>1, StoreFacts DEF Inv, TypeOK
    <3> QED
      BY <1>1, <2>1, <3>1 DEF Stored
<1>3. /\ DOMAIN live' = DOMAIN live \cup {F + 5}
      /\ live' = [p \in DOMAIN live \cup {F + 5} |->
                    IF p = F + 5 THEN size ELSE live[p]]
      /\ pc' = "idle" /\ UNCHANGED freeVars
      /\ size' = 0 /\ start' = 0 /\ res' = NoBlock
  BY <1>0, <1>1 DEF Grant, EndMalloc
<1>4. TypeOK'
  BY <1>1, <1>2, <1>3 DEF Inv, TypeOK, NoBlock
<1>5. BlocksTile'
  BY <1>0, <1>1, <1>2, <1>3 DEF Inv, IndInv, TypeOK, BlocksTile
<1>6. OwnersMatch'
  <2>1. BeingFreed = {} /\ BeingFreed' = {} /\ OwnersMatch /\ Heads \subseteq Nat
    BY <1>0, <1>3 DEF Inv, IndInv, TypeOK, BeingFreed
  <2>2. \A p \in DOMAIN live' : p - 5 \in Heads' /\ mem'[p - 5].free = 0
    BY <1>1, <1>2, <1>3, <2>1 DEF OwnersMatch
  <2>3. \A a \in Heads' : mem'[a].free = 0 => a + 5 \in DOMAIN live'
    BY <1>2, <1>3, <2>1 DEF OwnersMatch
  <2>4. \A p \in DOMAIN live' : live'[p] <= mem'[p - 5].size
    <3>1. live'[F + 5] = size /\ (F + 5) - 5 = F
      BY <1>1, <1>3
    <3>2. \A p \in DOMAIN live : p # F + 5 /\ p - 5 # F /\ live'[p] = live[p]
      BY <1>1, <1>3 DEF Inv, TypeOK
    <3>3. live'[F + 5] <= mem'[(F + 5) - 5].size
      BY <1>1, <1>2, <3>1
    <3>4. ASSUME NEW p \in DOMAIN live PROVE live'[p] <= mem'[p - 5].size
      BY <1>2, <2>1, <3>2 DEF OwnersMatch
    <3> QED
      BY <3>3, <3>4, <1>3
  <2> QED
    BY <2>1, <2>2, <2>3, <2>4 DEF OwnersMatch
<1>7. NoFreeNeighbours'
  BY <1>1, <1>2 DEF Inv, IndInv, TypeOK, NoFreeNeighbours
<1> QED
  BY <1>3, <1>4, <1>5, <1>6, <1>7 DEF Inv, IndInv, ScanInv, MergeInv

LEMMA MallocSplitInv == ASSUME StoreWidth = 5, Inv, MallocSplit PROVE Inv'
<1> DEFINE F == Found
           G == F + 5 + size
           rest == res.size - size - 5
<1>0. /\ pc = "place" /\ Suits(res) /\ res.size - size >= 5
      /\ Grant(Store(Store(mem, F, size, 0), start - res.size + size,
                     rest, 1))
  BY DEF MallocSplit
<1>1. /\ F \in Heads /\ mem[F] = res /\ res.free = 1 /\ res.size \in Nat
      /\ size \in Nat /\ rest \in Nat /\ F \in Nat /\ G \in Nat
      /\ start - res.size = F + 5 /\ start - res.size + size = G
      /\ G + rest + 5 = F + res.size + 5
      /\ F + res.size + 5 \in Heads \cup {Capacity} /\ F + 5 \notin DOMAIN live
  BY <1>0, GrantFacts DEF Inv, TypeOK
<1>2. \A x \in Heads : x = F \/ x < F \/ x >= G + rest + 5
  <2> HIDE DEF F, G, rest
  <2>1. BlocksTile /\ Heads \subseteq Nat /\ EndOf(F) = F + res.size + 5
    BY <1>1 DEF Inv, IndInv, TypeOK
  <2>2. \A x \in Heads : F < x => EndOf(F) <= x
    BY <1>1, <2>1 DEF BlocksTile
  <2> QED
    BY <1>1, <2>1, <2>2
<1>3. /\ Heads' = Heads \cup {G} /\ mem' = [x \in Heads' |-> mem'[x]]
      /\ mem'[F] = [size |-> size, free |-> 0]
      /\ mem'[G] = [size |-> rest, free |-> 1]
      /\ \A x \in Heads : x # F => mem'[x] = mem[x]
      /\ G \notin Heads
  <2> DEFINE m == Store(mem, F, size, 0)
  <2>1. Stored(m, mem, F, size, 0)
    BY <1>1, StoreFacts DEF Inv, TypeOK
  <2>2. mem' = Store(m, G, rest, 1)
    BY <1>0, <1>1 DEF Grant
  <2> HIDE DEF F, m
  <2>3. /\ DOMAIN m = Heads /\ m[F] = [size |-> size, free |-> 0]
        /\ \A x \in Heads : x # F => m[x] = mem[x]
    BY <1>1, <1>2, <2>1 DEF Stored, Inv, TypeOK
  <2>4. \A x \in Heads : x # G /\ (x < G \/ x >= G + rest + 5)
    BY <1>1, <1>2 DEF Inv, TypeOK
  <2> HIDE DEF G, rest
  <2>5. Stored(mem', m, G, rest, 1)
    BY <1>1, <2>2, <2>3, StoreFacts DEF Inv, TypeOK
  <2> QED
    BY <1>1, <2>3, <2>4, <2>5 DEF Stored
<1>4. /\ DOMAIN live' = DOMAIN live \cup {F + 5}
      /\ live' = [p \in DOMAIN live \cup {F + 5} |->
                    IF p = F + 5 THEN size ELSE live[p]]
      /\ pc' = "idle" /\ UNCHANGED freeVars
      /\ size' = 0 /\ start' = 0 /\ res' = NoBlock
  BY <1>0, <1>1 DEF Grant, EndMalloc
<1> HIDE DEF F
<1>5. TypeOK'
  <2>1. G \in 0..Capacity
    BY <1>1, CapacityAssumption DEF Inv, TypeOK
  <2> QED
    BY <1>1, <1>3, <1>4, <2>1 DEF Inv, TypeOK, NoBlock
<1>6. BlocksTile'
  <2>1. BlocksTile /\ 0 \in Heads /\ Heads \subseteq 0..Capacity /\ mem \in [Heads -> Header]
    BY <1>0 DEF Inv, IndInv, BlocksTile, TypeOK
  <2>2. \A a \in Heads' : EndOf(a)' \in Heads' \cup {Capacity}
    BY <1>0, <1>1, <1>3, <2>1 DEF BlocksTile
  <2>3. \A a, b \in Heads' : a < b => EndOf(a)' <= b
    BY <1>0, <1>1, <1>2, <1>3, <2>1 DEF BlocksTile
  <2> QED
    BY <1>3, <1>4, <2>1, <2>2, <2>3 DEF BlocksTile
<1>7. OwnersMatch'
  <2>1. BeingFreed = {} /\ BeingFreed' = {} /\ OwnersMatch /\ Heads \subseteq Nat
    BY <1>0, <1>4 DEF Inv, IndInv, TypeOK, BeingFreed
  <2>2. \A p \in DOMAIN live' : p - 5 \in Heads' /\ mem'[p - 5].free = 0
    BY <1>1, <1>3, <1>4, <2>1 DEF OwnersMatch
  <2>3. \A a \in Heads' : mem'[a].free = 0 => a + 5 \in DOMAIN live'
    BY <1>3, <1>4, <2>1 DEF OwnersMatch
  <2>4. \A p \in DOMAIN live' : live'[p] <= mem'[p - 5].size
    <3>1. live'[F + 5] = size /\ (F + 5) - 5 = F
      BY <1>1, <1>4
    <3>2. \A p \in DOMAIN live : p # F + 5 /\ p - 5 # F /\ live'[p] = live[p]
      BY <1>1, <1>4 DEF Inv, TypeOK
    <3>3. live'[F + 5] <= mem'[(F + 5) - 5].size
      BY <1>1, <1>3, <3>1
    <3>4. ASSUME NEW p \in DOMAIN live PROVE live'[p] <= mem'[p - 5].size
      BY <1>3, <2>1, <3>2 DEF OwnersMatch
    <3> QED
      BY <3>3, <3>4, <1>4
  <2> QED
    BY <2>1, <2>2, <2>3, <2>4 DEF OwnersMatch
<1>8. NoFreeNeighbours'
  BY <1>0, <1>1, <1>2, <1>3 DEF Inv, IndInv, TypeOK, BlocksTile, NoFreeNeighbours
<1> QED
  BY <1>4, <1>5, <1>6, <1>7, <1>8 DEF Inv, IndInv, ScanInv, MergeInv

-----------------------------------------------------------------------------
(* my_free                                                                 *)

LEMMA FreeCallInv == ASSUME Inv, NEW p \in DOMAIN live, FreeCall(p) PROVE Inv'
BY DEF FreeCall, Load, Inv, TypeOK, IndInv, BlocksTile, OwnersMatch,
   NoFreeNeighbours, ScanInv, MergeInv, BeingFreed, target_adr

LEMMA FreeFaultInv == ASSUME Inv, FreeFault PROVE Inv'
BY CapacityAssumption
   DEF FreeFault, MayFault, Inv, TypeOK, IndInv, BlocksTile, OwnersMatch,
       NoFreeNeighbours, ScanInv, MergeInv, BeingFreed, target_adr

(* The block being freed starts on a header, and the free run that follows *)
(* it ends on a header or at the end of the file.                          *)
LEMMA FreeFacts ==
  ASSUME Inv, pc \in {"forward", "backward"}
  PROVE  /\ target_adr \in Heads /\ mem[target_adr].free = 0
         /\ ptr = target_adr + 5 /\ ptr \notin DOMAIN live
         /\ ptr + fwd \in Heads \cup {Capacity}
         /\ fwd >= mem[target_adr].size
BY DEF Inv, IndInv, TypeOK, OwnersMatch, MergeInv, BeingFreed, target_adr

LEMMA FreeForwardInv == ASSUME Inv, FreeForward PROVE Inv'
<1>0. pc = "forward" /\ UNCHANGED <<mem, live, ptr, mallocVars>>
  BY DEF FreeForward
<1>1. /\ TypeOK /\ BlocksTile /\ OwnersMatch /\ NoFreeNeighbours /\ MergeInv
      /\ 0 \in Heads /\ Heads \subseteq 0..Capacity /\ mem \in [Heads -> Header]
      /\ adr = ptr + fwd /\ adr \in Heads \cup {Capacity}
  BY <1>0 DEF Inv, IndInv, TypeOK, BlocksTile, MergeInv
<1>2. PICK h \in Load(adr) :
        IF Joins(h)
        THEN /\ fwd' = fwd + h.size + 5 /\ adr' = adr + h.size + 5
             /\ UNCHANGED <<pc, bwd>>
        ELSE adr' = 0 /\ bwd' = 0 /\ pc' = "backward" /\ UNCHANGED fwd
  BY DEF FreeForward
<1>3. CASE Joins(h)
  <2>1. adr \in Heads /\ h = mem[adr] /\ mem[adr].free = 1
    BY <1>1, <1>2, <1>3, CapacityAssumption DEF Joins, Load
  <2>2. adr' = EndOf(adr) /\ adr' \in Heads \cup {Capacity} /\ adr' = ptr' + fwd'
    BY <1>0, <1>1, <1>2, <1>3, <2>1 DEF TypeOK, BlocksTile
  <2>3. \A a \in Heads : a < adr' => a <= adr
    BY <1>0, <1>1, <2>1, <2>2 DEF BlocksTile
  <2>4. TypeOK'
    BY <1>0, <1>1, <1>2, <1>3, <2>1 DEF TypeOK
  <2>5. MergeInv'
    <3>1. fwd' = EndOf(adr) - ptr /\ fwd' >= fwd /\ pc' = "forward"
      BY <1>0, <1>1, <1>2, <1>3, <2>1 DEF TypeOK
    <3>2. \A a \in Heads : target_adr < a /\ a < adr' => mem[a].free = 1
      BY <1>0, <1>1, <2>1, <2>3 DEF MergeInv, TypeOK
    <3>3. target_adr \in Heads /\ fwd >= mem[target_adr].size
      BY <1>0, FreeFacts
    <3> QED
      BY <1>0, <1>1, <2>2, <3>1, <3>2, <3>3 DEF MergeInv, TypeOK, target_adr
  <2> QED
    BY <1>0, <1>1, <1>2, <1>3, <2>4, <2>5
       DEF Inv, IndInv, BlocksTile, OwnersMatch, NoFreeNeighbours, ScanInv, BeingFreed
<1>4. CASE ~Joins(h)
  <2>1. ptr + fwd \in Heads => mem[ptr + fwd].free = 0
    <3>1. ASSUME adr \in Heads PROVE adr < Capacity /\ h = mem[adr]
      BY <1>0, <1>1, <1>2, <3>1, CapacityAssumption DEF Load, BlocksTile
    <3> QED
      BY <1>1, <1>4, <3>1 DEF Joins
  <2>2. \A a \in Heads : a >= 0 /\ EndOf(a) # 0
    BY <1>1
  <2>3. target_adr \in Heads /\ target_adr >= 0
    BY <1>0, <1>1, FreeFacts
  <2>4. MergeInv'
    BY <1>0, <1>1, <1>2, <1>4, <2>1, <2>2, <2>3 DEF MergeInv, TypeOK, target_adr
  <2> QED
    BY <1>0, <1>1, <1>2, <1>4, <2>4
       DEF Inv, IndInv, TypeOK, BlocksTile, OwnersMatch, NoFreeNeighbours,
           ScanInv, BeingFreed
<1> QED
  BY <1>3, <1>4

LEMMA FreeBackwardInv == ASSUME Inv, FreeBackward PROVE Inv'
<1>0. /\ pc = "backward" /\ adr < target_adr
      /\ UNCHANGED <<mem, live, pc, ptr, fwd, mallocVars>>
  BY DEF FreeBackward
<1>1. /\ TypeOK /\ BlocksTile /\ OwnersMatch /\ NoFreeNeighbours /\ MergeInv
      /\ 0 \in Heads /\ Heads \subseteq 0..Capacity /\ mem \in [Heads -> Header]
      /\ adr \in Heads /\ adr - bwd \in Heads
  BY <1>0 DEF Inv, IndInv, TypeOK, BlocksTile, MergeInv
<1>2. /\ bwd' = RunLength(mem[adr]) /\ adr' = EndOf(adr)
  BY <1>1 DEF FreeBackward, Load
<1>3. target_adr \in Heads /\ adr' \in Heads /\ adr' <= target_adr
  BY <1>0, <1>1, <1>2, FreeFacts DEF BlocksTile
<1>4. \A a \in Heads : a < adr' => a <= adr
  BY <1>0, <1>1, <1>2 DEF BlocksTile
<1>5. /\ adr' - bwd' \in Heads
      /\ \A a \in Heads : adr' - bwd' <= a /\ a < adr' => mem[a].free = 1
      /\ \A a \in Heads : EndOf(a) = adr' - bwd' => mem[a].free = 0
  <2>1. CASE mem[adr].free = 1
    <3>1. adr' - bwd' = adr - bwd
      BY <1>1, <1>2, <2>1 DEF RunLength, TypeOK
    <3> QED
      BY <1>0, <1>1, <1>4, <2>1, <3>1 DEF MergeInv, TypeOK
  <2>2. CASE mem[adr].free = 0
    <3>1. adr' - bwd' = adr'
      BY <1>1, <1>2, <2>2 DEF RunLength
    <3>2. \A a \in Heads : EndOf(a) = adr' => a = adr
      BY <1>0, <1>1, <1>2 DEF BlocksTile
    <3> QED
      BY <1>1, <1>3, <2>2, <3>1, <3>2
  <2> QED
    BY <1>1, <2>1, <2>2
<1>6. TypeOK'
  BY <1>0, <1>1, <1>2 DEF TypeOK, RunLength
<1>7. MergeInv'
  BY <1>0, <1>1, <1>3, <1>5 DEF MergeInv, target_adr
<1> QED
  BY <1>0, <1>1, <1>6, <1>7
     DEF Inv, IndInv, BlocksTile, OwnersMatch, NoFreeNeighbours, ScanInv, BeingFreed

LEMMA FreeStoreInv == ASSUME StoreWidth = 5, Inv, FreeStore PROVE Inv'
<1> DEFINE lo == adr - bwd
           hi == ptr + fwd
<1>0. /\ pc = "backward" /\ pc' = "idle" /\ UNCHANGED <<live, mallocVars>>
      /\ mem' = Store(mem, lo, bwd + fwd, 1)
      /\ ptr' = 0 /\ adr' = 0 /\ fwd' = 0 /\ bwd' = 0
  BY DEF FreeStore, EndFree
<1>1. /\ TypeOK /\ BlocksTile /\ OwnersMatch /\ NoFreeNeighbours /\ MergeInv
      /\ 0 \in Heads /\ Heads \subseteq 0..Capacity /\ mem \in [Heads -> Header]
      /\ adr = target_adr /\ bwd \in Nat /\ fwd \in Nat
  <2>1. TypeOK /\ BlocksTile /\ OwnersMatch /\ NoFreeNeighbours /\ MergeInv
    BY DEF Inv, IndInv
  <2>2. adr >= target_adr /\ adr <= target_adr /\ adr \in Nat /\ ptr \in Nat
    BY <1>0, <2>1 DEF FreeStore, MergeInv, TypeOK
  <2> QED
    BY <1>0, <2>1, <2>2 DEF TypeOK, BlocksTile, target_adr
<1>2. /\ lo \in Heads /\ lo \in Nat /\ lo <= target_adr
      /\ hi \in Heads \cup {Capacity} /\ hi \in Nat
      /\ lo + (bwd + fwd) + 5 = hi
      /\ target_adr \in Heads /\ ptr = target_adr + 5 /\ ptr \notin DOMAIN live
      /\ EndOf(target_adr) <= hi
      /\ \A a \in Heads : EndOf(a) = lo => mem[a].free = 0
      /\ hi \in Heads => mem[hi].free = 0
  BY <1>0, <1>1, FreeFacts, CapacityAssumption DEF MergeInv
<1>3. \A a \in Heads : lo <= a /\ a < hi /\ a # target_adr => mem[a].free = 1
  BY <1>0, <1>1 DEF MergeInv
<1> HIDE DEF lo, hi
<1>4. /\ Heads' = {x \in Heads : x <= lo \/ x >= hi}
      /\ mem' = [x \in Heads' |-> mem'[x]]
      /\ mem'[lo] = [size |-> bwd + fwd, free |-> 1]
      /\ \A x \in Heads' : x # lo => mem'[x] = mem[x]
  <2>1. Heads \subseteq Nat /\ bwd + fwd \in Nat
    BY <1>1
  <2>2. Stored(mem', mem, lo, bwd + fwd, 1)
    BY <1>0, <1>2, <2>1, StoreFacts
  <2> QED
    BY <1>2, <2>1, <2>2 DEF Stored
<1>5. \A a \in Heads : a < lo => EndOf(a) <= lo
  BY <1>0, <1>1, <1>2 DEF BlocksTile
<1>6. TypeOK'
  BY <1>0, <1>1, <1>4 DEF TypeOK
<1>7. BlocksTile'
  <2>1. NextBlock(lo, mem'[lo]) = hi /\ lo < hi
    BY <1>1, <1>2, <1>4
  <2>2. \A a \in Heads' : a >= hi => EndOf(a)' = EndOf(a) /\ EndOf(a) > hi
    BY <1>1, <1>2, <1>4, <2>1
  <2>3. \A a \in Heads' : a < lo => EndOf(a)' = EndOf(a) /\ EndOf(a) <= lo
    BY <1>2, <1>4, <1>5
  <2>4. \A a \in Heads' : EndOf(a)' \in Heads' \cup {Capacity}
    <3> SUFFICES ASSUME NEW a \in Heads'
                 PROVE  EndOf(a)' \in Heads' \cup {Capacity}
      OBVIOUS
    <3>1. a \in Heads /\ EndOf(a) \in Heads \cup {Capacity}
      BY <1>1, <1>4 DEF BlocksTile
    <3>2. \A x \in Heads : x \in Nat /\ (x <= lo \/ x >= hi => x \in Heads')
      BY <1>1, <1>4
    <3>3. CASE a = lo
      BY <1>2, <2>1, <3>2, <3>3
    <3>4. CASE a # lo
      BY <1>2, <1>4, <2>2, <2>3, <3>1, <3>2, <3>4
    <3> QED
      BY <3>3, <3>4
  <2>5. \A a, b \in Heads' : a < b => EndOf(a)' <= b
    <3> SUFFICES ASSUME NEW a \in Heads', NEW b \in Heads', a < b
                 PROVE  EndOf(a)' <= b
      OBVIOUS
    <3>1. a \in Heads /\ b \in Heads /\ EndOf(a) <= b
      BY <1>1, <1>4 DEF BlocksTile
    <3>2. CASE a = lo
      BY <1>1, <1>2, <1>4, <2>1, <3>2
    <3>3. CASE a # lo
      BY <1>2, <1>4, <2>2, <2>3, <3>1, <3>3
    <3> QED
      BY <3>2, <3>3
  <2>6. 0 \in Heads'
    BY <1>1, <1>2, <1>4
  <2> QED
    BY <1>0, <2>4, <2>5, <2>6 DEF BlocksTile
<1>8. OwnersMatch'
  <2>1. \A p \in DOMAIN live : p - 5 \in Heads' /\ p - 5 # lo
    BY <1>0, <1>1, <1>2, <1>3, <1>4 DEF OwnersMatch, TypeOK
  <2>2. \A a \in Heads' : mem'[a].free = 0 => a + 5 \in DOMAIN live
    BY <1>0, <1>1, <1>2, <1>3, <1>4 DEF OwnersMatch, BeingFreed
  <2> QED
    BY <1>0, <1>1, <1>4, <2>1, <2>2 DEF OwnersMatch, BeingFreed
<1>9. NoFreeNeighbours'
  BY <1>0, <1>1, <1>2, <1>4, <1>5, <1>7 DEF NoFreeNeighbours, BlocksTile
<1> QED
  BY <1>0, <1>6, <1>7, <1>8, <1>9 DEF Inv, IndInv, ScanInv, MergeInv

-----------------------------------------------------------------------------
(* The theorems.                                                           *)

LEMMA StepInv == ASSUME StoreWidth = 5, Inv, [Next]_vars PROVE Inv'
<1>1. CASE myalloc_initialize BY <1>1, InitializeInv
<1>2. CASE myalloc_finalize BY <1>2, FinalizeInv
<1>3. CASE \E n \in Requests : MallocCall(n) BY <1>3, MallocCallInv
<1>4. CASE \E p \in DOMAIN live : FreeCall(p) BY <1>4, FreeCallInv
<1>5. CASE MallocScan BY <1>5, MallocScanInv
<1>6. CASE MallocSplit BY <1>6, MallocSplitInv
<1>7. CASE MallocWhole BY <1>7, MallocWholeInv
<1>8. CASE MallocNull BY <1>8, MallocNullInv
<1>9. CASE FreeForward BY <1>9, FreeForwardInv
<1>10. CASE FreeFault BY <1>10, FreeFaultInv
<1>11. CASE FreeBackward BY <1>11, FreeBackwardInv
<1>12. CASE FreeStore BY <1>12, FreeStoreInv
<1>13. CASE UNCHANGED vars BY <1>13, StutterInv
<1> QED
  BY <1>1, <1>2, <1>3, <1>4, <1>5, <1>6, <1>7, <1>8, <1>9, <1>10, <1>11,
     <1>12, <1>13 DEF Next, Running

(* With field-wise header stores the inductive invariant holds: the blocks *)
(* tile the file, taken blocks and live pointers match, free blocks are    *)
(* always merged, and both scans know where they stand.                    *)
THEOREM HeapWellFormed == ASSUME StoreWidth = 5 PROVE Spec => [](TypeOK /\ IndInv)
<1>1. Init => Inv
  BY InitInv
<1>2. Inv /\ [Next]_vars => Inv'
  BY StepInv
<1>3. Inv => TypeOK /\ IndInv
  BY DEF Inv
<1> QED
  BY <1>1, <1>2, <1>3, PTL DEF Spec

LEMMA InvDisjoint == Inv => LiveDisjoint
<1> SUFFICES ASSUME Inv, NEW p \in DOMAIN live
             PROVE  /\ p >= 5 /\ p + live[p] <= Capacity
                    /\ \A q \in DOMAIN live : p < q => p + live[p] + 5 <= q
  BY DEF LiveDisjoint
<1>1. /\ \A q \in DOMAIN live : q - 5 \in Heads /\ q \in Nat
      /\ live[p] <= mem[p - 5].size /\ live[p] \in Nat
      /\ Heads \subseteq 0..Capacity /\ mem \in [Heads -> Header]
      /\ BlocksTile
  BY DEF Inv, IndInv, TypeOK, OwnersMatch
<1>2. /\ EndOf(p - 5) = p + mem[p - 5].size /\ mem[p - 5].size \in Nat
      /\ EndOf(p - 5) <= Capacity
  BY <1>1, CapacityAssumption DEF BlocksTile
<1>3. ASSUME NEW q \in DOMAIN live, p < q PROVE p + live[p] + 5 <= q
  <2>1. p - 5 < q - 5 /\ p - 5 \in Heads /\ q - 5 \in Heads
    BY <1>1, <1>3
  <2>2. EndOf(p - 5) <= q - 5
    BY <1>1, <2>1 DEF BlocksTile
  <2> QED
    BY <1>1, <1>2, <2>2
<1>4. p >= 5 /\ p + live[p] <= Capacity
  <2>1. p \in Nat /\ p - 5 >= 0
    BY <1>1
  <2>2. p + mem[p - 5].size <= Capacity
    BY <1>2
  <2> QED
    BY <1>1, <1>2, <2>1, <2>2, CapacityAssumption
<1> QED
  BY <1>3, <1>4

(* No two allocations ever share a byte, whatever the file and the calls.  *)
THEOREM Disjointness == ASSUME StoreWidth = 5 PROVE Spec => []LiveDisjoint
<1>1. Inv => LiveDisjoint
  BY InvDisjoint
<1>2. TypeOK /\ IndInv => Inv
  BY DEF Inv
<1> QED
  BY <1>1, <1>2, HeapWellFormed, PTL

(* my_malloc takes the lowest block that suits and refuses only when none  *)
(* does, although its scan stops before the end of the file.               *)
THEOREM FirstFitHolds == ASSUME StoreWidth = 5 PROVE Spec => []FirstFit
<1>1. ASSUME Inv PROVE FirstFit
  <2> SUFFICES ASSUME pc = "place", NEW a \in Heads, Suits(mem[a])
               PROVE  Suits(res) /\ Found <= a
    BY DEF FirstFit
  <2>1. /\ Heads \subseteq Nat /\ mem \in [Heads -> Header] /\ BlocksTile
        /\ Found \in Heads /\ res = mem[Found] /\ size \in Nat
        /\ Suits(res) \/ ~RoomAt(start)
        /\ start = EndOf(Found)
    BY <1>1 DEF Inv, IndInv, TypeOK, ScanInv, Found
  <2>2. Found <= a
    BY <1>1, <2>1 DEF Inv, IndInv, ScanInv
  <2>3. ASSUME ~Suits(res) PROVE FALSE
    <3>1. a # Found /\ Found < a
      BY <2>1, <2>2, <2>3
    <3>2. start <= a /\ EndOf(a) <= Capacity
      BY <1>1, <2>1, <3>1, CapacityAssumption DEF BlocksTile, Inv, TypeOK
    <3> QED
      BY <1>1, <2>1, <2>3, <3>2, CapacityAssumption DEF RoomAt, Suits, Inv, TypeOK
  <2> QED
    BY <2>2, <2>3
<1>2. TypeOK /\ IndInv => Inv
  BY DEF Inv
<1> QED
  BY <1>1, <1>2, HeapWellFormed, PTL

(* Behind the file my_free looks only when it frees a block which, with    *)
(* the free ones that follow it, reaches the file's end.                   *)
THEOREM TailFaults == ASSUME StoreWidth = 5 PROVE Spec => []FaultOnlyAtEnd
<1>1. TypeOK /\ IndInv => FaultOnlyAtEnd
  BY DEF IndInv, MergeInv, FaultOnlyAtEnd
<1> QED
  BY <1>1, HeapWellFormed, PTL

-----------------------------------------------------------------------------
(* The refinement.                                                         *)

LEMMA GrantAllocates ==
  ASSUME Inv, size \in Requests, pc = "place", Suits(res), NEW m, Grant(m)
  PROVE  A!Allocate(Found + 5, size) /\ Found + 5 \in 0..Capacity
<1>1. /\ Found \in Heads /\ mem[Found] = res /\ res.free = 1
      /\ res.size \in Nat /\ size \in Nat /\ size <= res.size
      /\ start - res.size = Found + 5
      /\ Found + 5 \notin DOMAIN live
      /\ BlocksTile /\ OwnersMatch /\ TypeOK
  BY GrantFacts DEF Inv, IndInv
<1> DEFINE F == Found
<1>2. F \in Nat /\ EndOf(F) = F + res.size + 5 /\ EndOf(F) <= Capacity
  BY <1>1, CapacityAssumption DEF TypeOK, BlocksTile
<1>3. live' = [q \in DOMAIN live \cup {F + 5} |->
                 IF q = F + 5 THEN size ELSE live[q]]
  BY <1>1 DEF Grant
<1>4. ASSUME NEW q \in DOMAIN live
      PROVE  q # F + 5 /\ (F + 5 + size <= q \/ q + live[q] <= F + 5)
  <2>1. /\ q - 5 \in Heads /\ q \in Nat /\ live[q] <= mem[q - 5].size
        /\ mem[q - 5].size \in Nat /\ live[q] \in Nat /\ q # F + 5
    BY <1>1 DEF OwnersMatch, TypeOK
  <2>2. CASE F < q - 5
    <3>1. EndOf(F) <= q - 5
      BY <1>1, <2>1, <2>2 DEF BlocksTile
    <3> QED
      BY <1>1, <1>2, <2>1, <3>1
  <2>3. CASE q - 5 < F
    <3>1. EndOf(q - 5) <= F
      BY <1>1, <2>1, <2>3 DEF BlocksTile
    <3> QED
      BY <1>1, <1>2, <2>1, <3>1
  <2> QED
    BY <1>2, <2>1, <2>2, <2>3
<1> HIDE DEF F
<1>5. A!Fits(F + 5, size)
  BY <1>1, <1>2, <1>4, CapacityAssumption DEF A!Fits
<1> QED
  BY <1>1, <1>2, <1>3, <1>5, CapacityAssumption DEF A!Allocate, F

LEMMA StepRefines ==
  ASSUME StoreWidth = 5, Inv, [Next]_vars PROVE [A!Next]_live
<1>1. CASE \E p \in DOMAIN live : FreeCall(p)
  <2>1. PICK p \in DOMAIN live : FreeCall(p)
    BY <1>1
  <2>2. A!Release(p)
    BY <2>1 DEF FreeCall, A!Release
  <2> QED
    BY <2>2 DEF A!Next
<1>2. CASE MallocSplit \/ MallocWhole
  <2>1. size \in Requests /\ pc = "place" /\ Suits(res)
    BY <1>2 DEF Inv, IndInv, ScanInv, MallocSplit, MallocWhole
  <2>2. A!Allocate(Found + 5, size) /\ Found + 5 \in 0..Capacity
    BY <1>2, <2>1, GrantAllocates DEF MallocSplit, MallocWhole
  <2> QED
    BY <2>1, <2>2 DEF A!Next
<1>3. CASE myalloc_finalize
  BY <1>3 DEF myalloc_finalize, NoPointers, A!Next, A!Reset
<1>4. CASE UNCHANGED live
  BY <1>4
<1> QED
  BY <1>1, <1>2, <1>3, <1>4 DEF Next, Running, vars, myalloc_initialize,
     MallocCall, MallocScan, MallocNull, FreeForward, FreeFault, FreeBackward,
     FreeStore

(* The allocator implements the arena: what the client holds changes only  *)
(* by fresh grants, by its own my_free, and by unmapping the file.         *)
THEOREM ImplementsArena == ASSUME StoreWidth = 5 PROVE Spec => Refinement
<1>1. Init => A!Init
  BY DEF Init, NoPointers, A!Init
<1>2. Inv /\ [Next]_vars => [A!Next]_live
  BY StepRefines
<1>3. TypeOK /\ IndInv => Inv
  BY DEF Inv
<1> QED
  BY <1>1, <1>2, <1>3, HeapWellFormed, PTL DEF Spec, Refinement, A!Spec
=============================================================================
