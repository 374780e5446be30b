-------------------------- MODULE FileSystemsProofs --------------------------
(* Proofs about the three file systems: what they answer is what the       *)
(* image, the directories and the archive hold, whatever earlier           *)
(* operations left in the memory they use again.                           *)
EXTENDS FileSystems, FiniteSetTheorems, SequenceTheorems, TLAPS

(* Induction over the numbers, from the pigeon-hole principle: were N the  *)
(* first number missing, adding one would map the numbers below it into    *)
(* those of them that are not 0.                                           *)
LEMMA Induction ==
  ASSUME NEW S, 0 \in S, \A k \in Nat : k \in S => k + 1 \in S
  PROVE  Nat \subseteq S
<1> SUFFICES ASSUME NEW N \in Nat, N \notin S PROVE FALSE
  OBVIOUS
<1> DEFINE X == S \cap 0..N
           up == [x \in X |-> x + 1]
<1>1. IsFiniteSet(X)
  <2>1. IsFiniteSet(0..N)
    BY FS_Interval
  <2> QED
    BY <2>1, FS_Intersection
<1>2. 0 \in X /\ \A x \in X : x + 1 \in X \ {0}
  OBVIOUS
<1>3. /\ IsFiniteSet(X \ {0}) /\ Cardinality(X) \in Nat
      /\ Cardinality(X \ {0}) = Cardinality(X) - 1
  <2> HIDE DEF X
  <2> QED
    BY <1>1, <1>2, FS_RemoveElement, FS_CardinalityType
<1>4. up \in [X -> X \ {0}]
  BY <1>2
<1>5. PICK x \in X, y \in X : x # y /\ up[x] = up[y]
  <2> HIDE DEF X, up
  <2>1. Cardinality(X \ {0}) < Cardinality(X)
    BY <1>3
  <2> QED
    BY <1>1, <1>3, <1>4, <2>1, FS_PigeonHole
<1> QED
  BY <1>5

-----------------------------------------------------------------------------
(* 22_fuse/0_simplefs.                                                     *)

LEMMA ImageFacts ==
  ASSUME image \in Images
  PROVE  /\ Len(image) \in Nat /\ DOMAIN image = 1..Len(image)
         /\ \A i \in DOMAIN image : image[i].size \in 0..WordSize - 1
         /\ Page \in Nat /\ Page > 0 /\ WordSize \in Nat /\ WordSize > 4 * Page
<1>1. image \in Seq([name : STRING, size : 0..WordSize - 1])
  BY FileSystemsAssumption DEF Simple!SizeAssumption
<1>2. Len(image) \in Nat /\ DOMAIN image = 1..Len(image)
      /\ \A i \in 1..Len(image) : image[i] \in [name : STRING, size : 0..WordSize - 1]
  BY <1>1, LenProperties
<1>3. \A i \in 1..Len(image) : image[i].size \in 0..WordSize - 1
  BY <1>2
<1> QED
  BY <1>2, <1>3, FileSystemsAssumption DEF Simple!SizeAssumption

(* Recursion over the files of an image: the function is what its equation *)
(* says.                                                                   *)
IsJoined(g, C, m) == g = [i \in 1..m |-> IF i = 1 THEN C[i] ELSE g[i - 1] \o C[i]]
IsOffsets(g, base, sz, m) == g = [i \in 1..m |-> IF i = 1 THEN base ELSE g[i - 1] + sz[i - 1]]

LEMMA JoinedDefined == \A C : \A L \in Nat : \E g : IsJoined(g, C, L)
<1> SUFFICES ASSUME NEW C PROVE \A L \in Nat : \E g : IsJoined(g, C, L)
  OBVIOUS
<1> DEFINE S == {m \in Nat : \E g : IsJoined(g, C, m)}
<1>1. 0 \in S
  <2>1. IsJoined(<<>>, C, 0)
    BY DEF IsJoined
  <2> QED
    BY <2>1
<1>2. \A m \in Nat : m \in S => m + 1 \in S
  <2> SUFFICES ASSUME NEW m \in Nat, NEW g, IsJoined(g, C, m) PROVE m + 1 \in S
    OBVIOUS
  <2> DEFINE last == IF m = 0 THEN C[1] ELSE g[m] \o C[m + 1]
             h == [i \in 1..m + 1 |-> IF i = m + 1 THEN last ELSE g[i]]
  <2>1. \A i \in 1..m + 1 : h[i] = IF i = 1 THEN C[i] ELSE h[i - 1] \o C[i]
    <3> SUFFICES ASSUME NEW i \in 1..m + 1
                 PROVE  h[i] = IF i = 1 THEN C[i] ELSE h[i - 1] \o C[i]
      OBVIOUS
    <3>1. CASE i = m + 1
      <4>1. m # 0 => h[m] = g[m]
        OBVIOUS
      <4> QED
        BY <3>1, <4>1
    <3>2. CASE i # m + 1
      <4>1. i \in 1..m /\ h[i] = g[i] /\ (i # 1 => h[i - 1] = g[i - 1])
        BY <3>2
      <4>2. g[i] = IF i = 1 THEN C[i] ELSE g[i - 1] \o C[i]
        BY <4>1 DEF IsJoined
      <4> HIDE DEF h
      <4> QED
        BY <4>1, <4>2
    <3> QED
      BY <3>1, <3>2
  <2>2. h = [i \in 1..m + 1 |-> h[i]]
    OBVIOUS
  <2>3. IsJoined(h, C, m + 1)
    <3> HIDE DEF h
    <3> QED
      BY <2>1, <2>2 DEF IsJoined
  <2> HIDE DEF h
  <2> QED
    BY <2>3
<1>3. Nat \subseteq S
  <2> HIDE DEF S
  <2> QED
    BY <1>1, <1>2, Induction
<1> QED
  BY <1>3

LEMMA OffsetsDefined == \A base, sz : \A L \in Nat : \E g : IsOffsets(g, base, sz, L)
<1> SUFFICES ASSUME NEW base, NEW sz PROVE \A L \in Nat : \E g : IsOffsets(g, base, sz, L)
  OBVIOUS
<1> DEFINE S == {m \in Nat : \E g : IsOffsets(g, base, sz, m)}
<1>1. 0 \in S
  <2>1. IsOffsets(<<>>, base, sz, 0)
    BY DEF IsOffsets
  <2> QED
    BY <2>1
<1>2. \A m \in Nat : m \in S => m + 1 \in S
  <2> SUFFICES ASSUME NEW m \in Nat, NEW g, IsOffsets(g, base, sz, m) PROVE m + 1 \in S
    OBVIOUS
  <2> DEFINE h == [i \in 1..m + 1 |-> IF i = 1 THEN base ELSE g[i - 1] + sz[i - 1]]
  <2>1. \A i \in 1..m : h[i] = g[i]
    BY DEF IsOffsets
  <2>2. IsOffsets(h, base, sz, m + 1)
    BY <2>1 DEF IsOffsets
  <2> HIDE DEF h
  <2> QED
    BY <2>2
<1>3. Nat \subseteq S
  <2> HIDE DEF S
  <2> QED
    BY <1>1, <1>2, Induction
<1> QED
  BY <1>3

(* Every file begins where the ones before it end.                         *)
Pairs(sz, L) == [i \in 1..L |-> [k \in 1..sz[i] |-> <<i, k>>]]
Placed(f, o, base, sz, m) ==
  /\ f[m] \in Seq(Nat \X Nat) /\ o[m] \in Nat /\ o[m] >= base
  /\ Len(f[m]) = o[m] + sz[m] - base
  /\ \A i \in 1..m : \A k \in 1..sz[i] :
       o[i] - base + k \in 1..Len(f[m]) /\ f[m][o[i] - base + k] = <<i, k>>

LEMMA PairsAre ==
  ASSUME NEW L \in Nat, NEW sz \in [1..L -> Nat], NEW m \in 1..L
  PROVE  /\ Pairs(sz, L)[m] \in Seq(Nat \X Nat) /\ Len(Pairs(sz, L)[m]) = sz[m] /\ sz[m] \in Nat
         /\ \A k \in 1..sz[m] : Pairs(sz, L)[m][k] = <<m, k>>
<1>1. Pairs(sz, L)[m] = [k \in 1..sz[m] |-> <<m, k>>] /\ sz[m] \in Nat /\ m \in Nat
  BY DEF Pairs
<1> DEFINE c == [k \in 1..sz[m] |-> <<m, k>>]
<1>2. \A k \in 1..sz[m] : <<m, k>> \in Nat \X Nat
  BY <1>1
<1>3. c \in [1..sz[m] -> Nat \X Nat]
  BY <1>2
<1>4. c \in Seq(Nat \X Nat) /\ Len(c) = sz[m]
  <2> HIDE DEF c
  <2>1. c \in Seq(Nat \X Nat)
    BY <1>1, <1>3, SeqDef
  <2>2. DOMAIN c = 1..sz[m]
    BY <1>3
  <2>3. Len(c) \in Nat /\ DOMAIN c = 1..Len(c)
    BY <2>1, LenProperties
  <2> QED
    BY <1>1, <2>1, <2>2, <2>3
<1>5. \A k \in 1..sz[m] : c[k] = <<m, k>>
  OBVIOUS
<1> HIDE DEF c
<1> QED
  BY <1>1, <1>4, <1>5 DEF c

LEMMA JoinedStep ==
  ASSUME NEW L \in Nat, NEW C, NEW f, IsJoined(f, C, L), NEW j \in 1..L
  PROVE  f[j] = IF j = 1 THEN C[j] ELSE f[j - 1] \o C[j]
BY DEF IsJoined

LEMMA OffsetsStep ==
  ASSUME NEW L \in Nat, NEW base, NEW sz, NEW o, IsOffsets(o, base, sz, L), NEW j \in 1..L
  PROVE  o[j] = IF j = 1 THEN base ELSE o[j - 1] + sz[j - 1]
BY DEF IsOffsets

LEMMA Layout ==
  ASSUME NEW L \in Nat, NEW base \in Nat, NEW sz \in [1..L -> Nat],
         NEW o, IsOffsets(o, base, sz, L + 1), NEW f, IsJoined(f, Pairs(sz, L), L)
  PROVE  \A m \in 1..L : Placed(f, o, base, sz, m)
<1> DEFINE C == Pairs(sz, L)
           S == {m \in Nat : m + 1 \in 1..L => Placed(f, o, base, sz, m + 1)}
<1>1. \A m \in 1..L : /\ C[m] \in Seq(Nat \X Nat) /\ Len(C[m]) = sz[m] /\ sz[m] \in Nat
                      /\ \A k \in 1..sz[m] : C[m][k] = <<m, k>>
  BY PairsAre
<1>2. \A j \in 1..L : /\ f[j] = IF j = 1 THEN C[j] ELSE f[j - 1] \o C[j]
                      /\ o[j] = IF j = 1 THEN base ELSE o[j - 1] + sz[j - 1]
  BY JoinedStep, OffsetsStep
<1> HIDE DEF C
<1>3. 1 \in 1..L => Placed(f, o, base, sz, 1)
  <2> SUFFICES ASSUME 1 \in 1..L PROVE Placed(f, o, base, sz, 1)
    OBVIOUS
  <2>1. f[1] = C[1] /\ o[1] = base
    BY <1>2
  <2>2. \A i \in 1..1 : i = 1
    OBVIOUS
  <2>3. \A k \in 1..sz[1] : o[1] - base + k = k /\ k \in 1..Len(C[1]) /\ C[1][k] = <<1, k>>
    BY <1>1, <2>1
  <2>4. o[1] \in Nat /\ o[1] >= base /\ f[1] \in Seq(Nat \X Nat) /\ Len(f[1]) = o[1] + sz[1] - base
    BY <1>1, <2>1
  <2> QED
    BY <2>1, <2>2, <2>3, <2>4 DEF Placed
<1>4. ASSUME NEW m \in Nat, m + 2 \in 1..L, Placed(f, o, base, sz, m + 1)
      PROVE  Placed(f, o, base, sz, m + 2)
  <2> DEFINE j == m + 2
             g == f[m + 1]
             c == C[j]
  <2>1. f[j] = g \o c /\ o[j] = o[m + 1] + sz[m + 1]
    <3>1. j \in 1..L /\ j # 1 /\ j - 1 = m + 1
      BY <1>4
    <3> QED
      BY <1>2, <3>1
  <2>2. /\ g \in Seq(Nat \X Nat) /\ o[m + 1] \in Nat /\ o[m + 1] >= base
        /\ Len(g) = o[j] - base /\ sz[m + 1] \in Nat
    <3>1. m + 1 \in 1..L
      BY <1>4
    <3> QED
      BY <1>1, <1>4, <2>1, <3>1 DEF Placed
  <2>3. c \in Seq(Nat \X Nat) /\ Len(c) = sz[j] /\ sz[j] \in Nat
        /\ \A k \in 1..sz[j] : c[k] = <<j, k>>
    BY <1>1, <1>4
  <2>4. \A i \in 1..m + 1 : \A k \in 1..sz[i] :
          o[i] - base + k \in 1..Len(g) /\ g[o[i] - base + k] = <<i, k>>
    BY <1>4 DEF Placed
  <2>5. o[j] \in Nat /\ o[j] >= base
    BY <2>1, <2>2
  <2> HIDE DEF g, c
  <2>6. /\ g \o c \in Seq(Nat \X Nat) /\ Len(g \o c) = Len(g) + Len(c)
        /\ \A k \in 1..Len(g) + Len(c) : (g \o c)[k] = IF k <= Len(g) THEN g[k] ELSE c[k - Len(g)]
        /\ Len(g) \in Nat
    BY <2>2, <2>3, ConcatProperties, LenProperties
  <2>7. ASSUME NEW i \in 1..j, NEW k \in 1..sz[i]
        PROVE  o[i] - base + k \in 1..Len(f[j]) /\ f[j][o[i] - base + k] = <<i, k>>
    <3>1. CASE i = j
      <4>1. k \in 1..Len(c) /\ c[k] = <<i, k>> /\ o[i] - base + k = Len(g) + k /\ Len(c) \in Nat
        <5>1. k \in 1..sz[j]
          BY <3>1
        <5>2. k \in 1..Len(c) /\ c[k] = <<j, k>> /\ Len(c) \in Nat
          BY <2>3, <5>1
        <5>3. Len(g) = o[j] - base
          BY <2>2
        <5>4. o[j] - base + k = Len(g) + k
          BY <5>3
        <5> QED
          BY <3>1, <5>2, <5>4
      <4>2. /\ Len(g) + k \in 1..Len(g) + Len(c) /\ ~(Len(g) + k <= Len(g))
            /\ Len(g) + k - Len(g) = k
        <5>1. k \in Nat /\ k >= 1 /\ k <= Len(c) /\ Len(c) \in Nat /\ Len(g) \in Nat
          BY <2>6, <4>1
        <5>2. Len(g) + k <= Len(g) + Len(c) /\ Len(g) + k >= 1 /\ ~(Len(g) + k <= Len(g))
          BY <5>1
        <5> QED
          BY <5>1, <5>2
      <4>3. (g \o c)[Len(g) + k] = c[k]
        <5>1. (g \o c)[Len(g) + k] = IF Len(g) + k <= Len(g) THEN g[Len(g) + k] ELSE c[Len(g) + k - Len(g)]
          BY <2>6, <4>2
        <5> QED
          BY <4>2, <5>1
      <4>4. o[i] - base + k \in 1..Len(f[j])
        BY <2>1, <2>6, <4>1, <4>2
      <4> QED
        BY <2>1, <4>1, <4>3, <4>4
    <3>2. CASE i # j
      <4>1. i \in 1..m + 1
        BY <3>2
      <4>2. o[i] - base + k \in 1..Len(g) /\ g[o[i] - base + k] = <<i, k>>
        BY <2>4, <4>1
      <4>3. o[i] - base + k \in 1..Len(g) + Len(c) /\ o[i] - base + k <= Len(g)
        BY <2>3, <2>6, <4>2
      <4> QED
        BY <2>1, <2>6, <4>2, <4>3
    <3> QED
      BY <3>1, <3>2
  <2>8. f[j] \in Seq(Nat \X Nat) /\ Len(f[j]) = o[j] + sz[j] - base
    BY <2>1, <2>2, <2>3, <2>5, <2>6
  <2> QED
    BY <2>5, <2>7, <2>8 DEF Placed
<1>5. 0 \in S
  BY <1>3
<1>6. \A m \in Nat : m \in S => m + 1 \in S
  <2> SUFFICES ASSUME NEW m \in Nat, m \in S, m + 1 + 1 \in 1..L
               PROVE  Placed(f, o, base, sz, m + 1 + 1)
    OBVIOUS
  <2>1. m + 1 \in 1..L /\ m + 1 + 1 = m + 2
    OBVIOUS
  <2> QED
    BY <1>4, <2>1
<1>7. Nat \subseteq S
  <2> HIDE DEF S
  <2> QED
    BY <1>5, <1>6, Induction
<1> SUFFICES ASSUME NEW m \in 1..L PROVE Placed(f, o, base, sz, m)
  OBVIOUS
<1>8. m - 1 \in Nat /\ m - 1 + 1 = m
  OBVIOUS
<1>9. m - 1 \in S
  <2> HIDE DEF S
  <2> QED
    BY <1>7, <1>8
<1>10. m - 1 + 1 \in 1..L => Placed(f, o, base, sz, m - 1 + 1)
  BY <1>9
<1> QED
  BY <1>8, <1>10

(* Where the image has the bytes of its files.                             *)
Cells == ({"count", "line", "blank"} \cup Nat) \X Nat
Sizes == [i \in 1..Len(image) |-> image[i].size]
Front3 == <<<<"count", Len(image)>>>> \o [i \in DOMAIN image |-> <<"line", i>>] \o <<<<"blank", 0>>>>

LEMMA FrontIs ==
  ASSUME image \in Images
  PROVE  /\ Front3 \in Seq(Cells) /\ Len(Front3) = Len(image) + 2
         /\ Front3[Len(image) + 2] = <<"blank", 0>>
         /\ \A k \in 1..Len(image) + 1 : Front3[k][1] \in {"count", "line"}
<1> DEFINE a == <<<<"count", Len(image)>>>>
           b == [i \in DOMAIN image |-> <<"line", i>>]
           c == <<<<"blank", 0>>>>
<1>1. Len(image) \in Nat /\ DOMAIN image = 1..Len(image)
  BY ImageFacts
<1>2. a \in Seq(Cells) /\ Len(a) = 1 /\ a[1] = <<"count", Len(image)>>
  <2>1. <<"count", Len(image)>> \in Cells
    BY <1>1 DEF Cells
  <2> QED
    BY <2>1
<1>3. b \in Seq(Cells) /\ Len(b) = Len(image) /\ \A i \in 1..Len(image) : b[i] = <<"line", i>>
  <2>1. \A i \in 1..Len(image) : <<"line", i>> \in Cells
    BY <1>1 DEF Cells
  <2>2. b \in [1..Len(image) -> Cells] /\ \A i \in 1..Len(image) : b[i] = <<"line", i>>
    BY <1>1, <2>1
  <2> HIDE DEF b
  <2>3. b \in Seq(Cells)
    BY <1>1, <2>2, SeqDef
  <2>4. Len(b) \in Nat /\ DOMAIN b = 1..Len(b) /\ DOMAIN b = 1..Len(image)
    BY <2>2, <2>3, LenProperties
  <2> QED
    BY <1>1, <2>2, <2>3, <2>4
<1>4. c \in Seq(Cells) /\ Len(c) = 1 /\ c[1] = <<"blank", 0>>
  <2>1. <<"blank", 0>> \in Cells
    BY DEF Cells
  <2> QED
    BY <2>1
<1> HIDE DEF a, b, c
<1>5. /\ a \o b \in Seq(Cells) /\ Len(a \o b) = 1 + Len(image)
      /\ \A k \in 1..1 + Len(image) : (a \o b)[k] = IF k <= 1 THEN a[k] ELSE b[k - 1]
  <2>1. /\ a \o b \in Seq(Cells) /\ Len(a \o b) = Len(a) + Len(b)
        /\ \A k \in 1..Len(a) + Len(b) : (a \o b)[k] = IF k <= Len(a) THEN a[k] ELSE b[k - Len(a)]
    BY <1>2, <1>3, ConcatProperties
  <2> QED
    BY <1>2, <1>3, <2>1
<1>6. /\ a \o b \o c \in Seq(Cells) /\ Len(a \o b \o c) = Len(image) + 2
      /\ \A k \in 1..Len(image) + 2 :
           (a \o b \o c)[k] = IF k <= 1 + Len(image) THEN (a \o b)[k] ELSE c[k - (1 + Len(image))]
  <2> DEFINE ab == a \o b
  <2>1. ab \in Seq(Cells) /\ Len(ab) = 1 + Len(image)
    BY <1>5
  <2> HIDE DEF ab
  <2>2. /\ ab \o c \in Seq(Cells) /\ Len(ab \o c) = Len(ab) + Len(c)
        /\ \A k \in 1..Len(ab) + Len(c) : (ab \o c)[k] = IF k <= Len(ab) THEN ab[k] ELSE c[k - Len(ab)]
    BY <1>4, <2>1, ConcatProperties
  <2>3. Len(ab) + Len(c) = Len(image) + 2
    BY <1>1, <1>4, <2>1
  <2>4. /\ ab \o c \in Seq(Cells) /\ Len(ab \o c) = Len(image) + 2
        /\ \A k \in 1..Len(image) + 2 :
             (ab \o c)[k] = IF k <= 1 + Len(image) THEN ab[k] ELSE c[k - (1 + Len(image))]
    BY <2>1, <2>2, <2>3
  <2> QED
    BY <2>4 DEF ab
<1>7. (a \o b \o c)[Len(image) + 2] = <<"blank", 0>>
  <2>1. /\ Len(image) + 2 \in 1..Len(image) + 2 /\ ~(Len(image) + 2 <= 1 + Len(image))
        /\ Len(image) + 2 - (1 + Len(image)) = 1
    BY <1>1
  <2> QED
    BY <1>4, <1>6, <2>1
<1>8. ASSUME NEW k \in 1..Len(image) + 1
      PROVE  (a \o b \o c)[k][1] \in {"count", "line"}
  <2>1. k \in 1..Len(image) + 2 /\ k <= 1 + Len(image) /\ k \in 1..1 + Len(image)
    BY <1>1
  <2>2. (a \o b \o c)[k] = IF k <= 1 THEN a[k] ELSE b[k - 1]
    BY <1>5, <1>6, <2>1
  <2>3. CASE k <= 1
    <3>1. k = 1
      BY <2>1, <2>3, <1>1
    <3> QED
      BY <1>2, <2>2, <3>1
  <2>4. CASE ~(k <= 1)
    <3>1. k - 1 \in 1..Len(image)
      BY <2>1, <2>4, <1>1
    <3> QED
      BY <1>3, <2>2, <2>4, <3>1
  <2> QED
    BY <2>3, <2>4
<1>9. Front3 = a \o b \o c
  BY DEF Front3, a, b, c
<1> QED
  BY <1>6, <1>7, <1>8, <1>9

LEMMA FlattenIs ==
  ASSUME NEW C, Len(C) \in Nat, Len(C) # 0
  PROVE  \E f : IsJoined(f, C, Len(C)) /\ Simple!FlattenSeq(C) = f[Len(C)]
<1> DEFINE f == CHOOSE g : g = [i \in 1..Len(C) |-> IF i = 1 THEN C[i] ELSE g[i - 1] \o C[i]]
<1>1. IsJoined(f, C, Len(C))
  <2>1. \E g : g = [i \in 1..Len(C) |-> IF i = 1 THEN C[i] ELSE g[i - 1] \o C[i]]
    BY JoinedDefined DEF IsJoined
  <2> QED
    BY <2>1 DEF IsJoined
<1>2. Simple!FlattenSeq(C) = f[Len(C)]
  BY DEF Simple!FlattenSeq
<1> QED
  BY <1>1, <1>2

LEMMA OffsetsAre ==
  ASSUME image \in Images
  PROVE  \E o : /\ IsOffsets(o, Simple!new_line, Sizes, Len(image) + 1)
                /\ Simple!Offsets = [i \in DOMAIN image |-> o[i]]
<1> DEFINE o == CHOOSE g : g = [i \in 1..Len(image) + 1 |->
                                  IF i = 1 THEN Simple!new_line ELSE g[i - 1] + image[i - 1].size]
<1>1. /\ Len(image) \in Nat
      /\ \A i \in 1..Len(image) + 1 : i # 1 => Sizes[i - 1] = image[i - 1].size
  BY ImageFacts DEF Sizes
<1>2. \E g : IsOffsets(g, Simple!new_line, Sizes, Len(image) + 1)
  BY <1>1, OffsetsDefined
<1>3. \A g : IsOffsets(g, Simple!new_line, Sizes, Len(image) + 1) <=>
             g = [i \in 1..Len(image) + 1 |->
                    IF i = 1 THEN Simple!new_line ELSE g[i - 1] + image[i - 1].size]
  BY <1>1 DEF IsOffsets
<1>4. o = [i \in 1..Len(image) + 1 |->
             IF i = 1 THEN Simple!new_line ELSE o[i - 1] + image[i - 1].size]
  BY <1>2, <1>3
<1>5. Simple!Offsets = [i \in DOMAIN image |-> o[i]]
  BY DEF Simple!Offsets
<1> HIDE DEF o
<1> QED
  BY <1>3, <1>4, <1>5

LEMMA MemoryIs ==
  ASSUME image \in Images
  PROVE  \E f : /\ IsJoined(f, Pairs(Sizes, Len(image)), Len(image))
                /\ Simple!Memory = Front3 \o (IF Len(image) = 0 THEN <<>> ELSE f[Len(image)])
<1> DEFINE C == [i \in DOMAIN image |-> Simple!Contents(i)]
<1>1. Len(image) \in Nat /\ DOMAIN image = 1..Len(image)
  BY ImageFacts
<1>2. C = Pairs(Sizes, Len(image))
  BY <1>1 DEF Simple!Contents, Pairs, Sizes
<1>3. Len(C) = Len(image)
  BY <1>1
<1>4. Simple!Memory = Front3 \o Simple!FlattenSeq(C)
  BY DEF Simple!Memory, Front3
<1> HIDE DEF C
<1>5. CASE Len(image) = 0
  <2>1. C = <<>>
    BY <1>2, <1>5 DEF Pairs
  <2>2. Simple!FlattenSeq(C) = <<>>
    BY <1>3, <1>5, <2>1 DEF Simple!FlattenSeq
  <2>3. PICK f : IsJoined(f, Pairs(Sizes, Len(image)), Len(image))
    BY <1>1, JoinedDefined
  <2> QED
    BY <1>4, <1>5, <2>2, <2>3
<1>6. CASE Len(image) # 0
  <2>1. \E f : IsJoined(f, C, Len(C)) /\ Simple!FlattenSeq(C) = f[Len(C)]
    BY <1>1, <1>3, <1>6, FlattenIs
  <2> QED
    BY <1>2, <1>3, <1>4, <1>6, <2>1
<1> QED
  BY <1>5, <1>6

(* The bytes of file i are behind its offset, and there is nothing behind  *)
(* the last one.                                                           *)
LEMMA WhereFilesAre ==
  ASSUME image \in Images, NEW i \in DOMAIN image
  PROVE  /\ Simple!Offsets[i] \in Nat
         /\ \A k \in 1..image[i].size :
              Simple!Offsets[i] + k <= Len(Simple!Memory) /\ Simple!Memory[Simple!Offsets[i] + k] = <<i, k>>
<1> DEFINE L == Len(image)
           base == L + 2
<1>1. /\ L \in Nat /\ DOMAIN image = 1..L /\ L # 0 /\ i \in 1..L /\ base \in Nat
      /\ Sizes \in [1..L -> Nat] /\ Sizes[i] = image[i].size
  BY ImageFacts DEF Sizes
<1>2. PICK f : IsJoined(f, Pairs(Sizes, L), L) /\ Simple!Memory = Front3 \o f[L]
  BY <1>1, MemoryIs
<1>3. /\ Front3 \in Seq(Cells) /\ Len(Front3) = base /\ Front3[base] = <<"blank", 0>>
      /\ \A k \in 1..L + 1 : Front3[k][1] \in {"count", "line"}
  BY FrontIs
<1>4. PICK o : /\ IsOffsets(o, Simple!new_line, Sizes, L + 1)
               /\ Simple!Offsets = [x \in DOMAIN image |-> o[x]]
  BY OffsetsAre
<1>5. PICK z : IsOffsets(z, base, Sizes, L + 1)
  <2>1. L + 1 \in Nat
    BY <1>1
  <2> QED
    BY <2>1, OffsetsDefined
<1>20. base = L + 2 /\ L \in Nat /\ base \in Nat /\ L + 1 < base /\ base >= 1 /\ L \in 1..L
  BY <1>1
<1> HIDE DEF L, base
<1>6. \A m \in 1..L : Placed(f, z, base, Sizes, m)
  BY <1>1, <1>2, <1>5, Layout
<1>7. f[L] \in Seq(Cells)
  <2>1. f[L] \in Seq(Nat \X Nat)
    BY <1>1, <1>6 DEF Placed
  <2>2. Nat \X Nat \subseteq Cells
    BY DEF Cells
  <2> QED
    BY <2>1, <2>2, SeqMonotonic
<1>8. /\ Len(Simple!Memory) = base + Len(f[L]) /\ Len(f[L]) \in Nat
      /\ \A k \in 1..base + Len(f[L]) :
           Simple!Memory[k] = IF k <= base THEN Front3[k] ELSE f[L][k - base]
      /\ Simple!Memory \in Seq(Cells) /\ DOMAIN Simple!Memory = 1..base + Len(f[L])
  <2>1. Len(f[L]) \in Nat
    BY <1>7, LenProperties
  <2>2. Front3 \o f[L] \in Seq(Cells) /\ Len(Front3 \o f[L]) = base + Len(f[L])
        /\ \A k \in 1..base + Len(f[L]) :
             (Front3 \o f[L])[k] = IF k <= base THEN Front3[k] ELSE f[L][k - base]
    BY <1>3, <1>7, ConcatProperties
  <2>3. DOMAIN (Front3 \o f[L]) = 1..base + Len(f[L])
    BY <2>2, LenProperties
  <2> QED
    BY <1>2, <2>1, <2>2, <2>3
<1>21. PICK len \in Nat : len = Len(f[L])
  BY <1>8
<1>27. base \in Nat /\ len \in Nat /\ base >= 1 /\ L \in Nat
  BY <1>20, <1>21
<1>28. \A j \in 1..base : j \in 1..base + len
  BY <1>27
<1>25. /\ Len(Simple!Memory) = base + len /\ DOMAIN Simple!Memory = 1..base + len
       /\ base \in 1..base + len
  <2>1. base \in 1..base
    BY <1>27
  <2>2. base \in 1..base + len
    BY <1>28, <2>1
  <2> QED
    BY <1>8, <1>21, <2>2
<1>29. \A j \in 1..L + 1 : j \in 1..base /\ j \in 1..base + len /\ j <= base
  <2>1. base = L + 2
    BY <1>20
  <2>2. \A j \in 1..L + 1 : j \in 1..base
    BY <1>27, <2>1
  <2> QED
    BY <1>27, <1>28, <2>2
<1>22. \A k \in 1..base + len :
         Simple!Memory[k] = IF k <= base THEN Front3[k] ELSE f[L][k - base]
  BY <1>8, <1>21
<1>9. Simple!new_line = base
  <2> DEFINE Is(k) == /\ k \in DOMAIN Simple!Memory
                      /\ Simple!Memory[k][1] = "blank"
                      /\ \A j \in 1..k - 1 : Simple!Memory[j][1] # "blank"
  <2>1. base \in DOMAIN Simple!Memory /\ Simple!Memory[base] = <<"blank", 0>>
    <3>1. base \in 1..base + len /\ base <= base
      BY <1>25, <1>27
    <3>2. base \in DOMAIN Simple!Memory
      BY <1>25, <3>1
    <3>3. Simple!Memory[base] = Front3[base]
      BY <1>22, <3>1
    <3> QED
      BY <1>3, <3>2, <3>3
  <2>2. ASSUME NEW j \in 1..L + 1 PROVE j \in DOMAIN Simple!Memory /\ Simple!Memory[j][1] # "blank"
    <3>1. j \in 1..base + len /\ j <= base
      BY <1>29
    <3>2. Simple!Memory[j] = Front3[j]
      BY <1>22, <3>1
    <3>3. Front3[j][1] # "blank" /\ j \in DOMAIN Simple!Memory
      BY <1>3, <1>25, <3>1
    <3> QED
      BY <3>2, <3>3
  <2>3. base - 1 = L + 1
    BY <1>20
  <2>4. Is(base)
    BY <2>1, <2>2, <2>3
  <2>5. ASSUME NEW k, Is(k) PROVE k = base
    <3>1. k \in Nat /\ base \in Nat
      BY <1>20, <1>25, <2>5
    <3>2. CASE k < base
      <4>1. k \in 1..L + 1
        <5>1. k >= 1 /\ base = L + 2 /\ L \in Nat
          BY <1>20, <1>25, <1>27, <2>5
        <5> QED
          BY <3>1, <3>2, <5>1
      <4> QED
        BY <2>2, <2>5, <4>1
    <3>3. CASE k > base
      <4>1. base \in 1..k - 1
        BY <1>20, <3>1, <3>3
      <4> QED
        BY <2>1, <2>5, <4>1
    <3> QED
      BY <3>1, <3>2, <3>3
  <2>6. Simple!new_line = CHOOSE k : Is(k)
    BY DEF Simple!new_line
  <2> HIDE DEF Is
  <2> QED
    BY <2>4, <2>5, <2>6
<1>23. IsOffsets(o, base, Sizes, L + 1)
  BY <1>4, <1>9
<1>24. \A m \in 1..L : Placed(f, o, base, Sizes, m)
  BY <1>1, <1>2, <1>20, <1>23, Layout
<1>10. Placed(f, o, base, Sizes, L)
  BY <1>20, <1>24
<1>11. Simple!Offsets[i] = o[i] /\ o[i] \in Nat /\ o[i] >= base
  <2>1. Placed(f, o, base, Sizes, i)
    BY <1>1, <1>24
  <2> QED
    BY <1>4, <2>1 DEF Placed
<1>12. ASSUME NEW k \in 1..image[i].size
       PROVE  o[i] + k <= Len(Simple!Memory) /\ Simple!Memory[o[i] + k] = <<i, k>>
  <2>1. o[i] - base + k \in 1..len /\ f[L][o[i] - base + k] = <<i, k>>
    BY <1>1, <1>10, <1>21 DEF Placed
  <2>2. k \in Nat /\ base \in Nat /\ k >= 1 /\ o[i] \in Nat /\ o[i] >= base
    BY <1>1, <1>11
  <2>3. o[i] + k \in 1..base + len /\ ~(o[i] + k <= base) /\ o[i] + k - base = o[i] - base + k
        /\ o[i] + k <= base + len
    <3>1. k \in Nat /\ base \in Nat /\ len \in Nat /\ o[i] \in Nat
      BY <1>27, <2>2
    <3>2. o[i] - base + k >= 1 /\ o[i] - base + k <= len /\ k >= 1 /\ o[i] >= base
      BY <1>21, <2>1, <2>2
    <3>3. o[i] + k <= base + len /\ o[i] + k > base
      BY <3>1, <3>2
    <3> QED
      BY <3>1, <3>3
  <2>4. Simple!Memory[o[i] + k] = f[L][o[i] - base + k]
    <3> DEFINE j == o[i] + k
    <3>1. j \in 1..base + len /\ ~(j <= base) /\ j - base = o[i] - base + k
      <4>1. j \in 1..base + len
        BY <2>3
      <4>2. ~(j <= base)
        BY <2>3
      <4>3. j - base = o[i] - base + k
        BY <2>2
      <4> QED
        BY <4>1, <4>2, <4>3
    <3> HIDE DEF j
    <3>2. Simple!Memory[j] = f[L][j - base]
      BY <1>22, <3>1
    <3>3. Simple!Memory[j] = f[L][o[i] - base + k]
      BY <3>1, <3>2
    <3> QED
      BY <3>3 DEF j
  <2>5. o[i] + k <= Len(Simple!Memory)
    BY <1>25, <2>3
  <2> QED
    BY <2>1, <2>4, <2>5
<1> QED
  BY <1>11, <1>12

LEMMA Least ==
  ASSUME NEW T, T \subseteq Nat, T # {}
  PROVE  \E m \in T : \A k \in T : m <= k
<1> SUFFICES ASSUME \A m \in T : \E k \in T : ~(m <= k) PROVE FALSE
  OBVIOUS
<1> DEFINE S == {j \in Nat : \A k \in 0..j : k \notin T}
<1>1. 0 \in S
  <2>1. 0 \notin T
    OBVIOUS
  <2> QED
    BY <2>1
<1>2. \A j \in Nat : j \in S => j + 1 \in S
  <2> SUFFICES ASSUME NEW j \in Nat, \A k \in 0..j : k \notin T, NEW k \in 0..j + 1, k \in T
               PROVE  FALSE
    OBVIOUS
  <2>1. k = j + 1
    OBVIOUS
  <2>2. PICK l \in T : ~(k <= l)
    OBVIOUS
  <2>3. l \in 0..j
    BY <2>1, <2>2
  <2> QED
    BY <2>3
<1>3. Nat \subseteq S
  <2> HIDE DEF S
  <2> QED
    BY <1>1, <1>2, Induction
<1>4. PICK m \in T : m \in Nat
  OBVIOUS
<1>5. m \in S
  BY <1>3, <1>4
<1>6. m \in 0..m
  BY <1>4
<1> QED
  BY <1>4, <1>5, <1>6

(* The table the program fills when it opens the image.                    *)
Opened ==
  [mounted |-> TRUE, memory |-> Simple!Memory,
   files |-> [i \in DOMAIN image |-> [name |-> image[i].name, size |-> image[i].size,
                                      offset |-> Simple!Offsets[i]]]]

SimpleInv == /\ image \in Images /\ Simple!SimpleAnswers
             /\ FS = Simple!Closed \/ FS = Opened
             /\ reply.call \in {"none", "getattr", "readdir", "open", "read"}

LEMMA FirstIs ==
  ASSUME image \in Images, NEW n, Simple!Exists(n)
  PROVE  /\ Simple!First(n) \in DOMAIN image /\ image[Simple!First(n)].name = n
         /\ \A j \in DOMAIN image : image[j].name = n => Simple!First(n) <= j
<1> DEFINE Is(i) == image[i].name = n /\ \A j \in 1..i - 1 : image[j].name # n
<1>1. Len(image) \in Nat /\ DOMAIN image = 1..Len(image)
  BY ImageFacts
<1>2. \E i \in DOMAIN image : Is(i)
  <2> DEFINE T == {i \in DOMAIN image : image[i].name = n}
  <2>1. T # {} /\ T \subseteq Nat
    BY <1>1 DEF Simple!Exists
  <2>2. PICK m \in T : \A k \in T : m <= k
    <3> HIDE DEF T
    <3> QED
      BY <2>1, Least
  <2>3. \A j \in 1..m - 1 : j \in DOMAIN image /\ ~(m <= j)
    BY <1>1
  <2> QED
    BY <2>2, <2>3
<1>3. Simple!First(n) = CHOOSE i \in DOMAIN image : Is(i)
  BY DEF Simple!First
<1> DEFINE f == Simple!First(n)
<1>4. f \in DOMAIN image /\ Is(f)
  <2> HIDE DEF Is
  <2> QED
    BY <1>2, <1>3
<1>5. ASSUME NEW j \in DOMAIN image, image[j].name = n PROVE f <= j
  <2>1. f \in Nat /\ j \in Nat /\ j >= 1
    BY <1>1, <1>4
  <2> HIDE DEF f
  <2>2. ~(f <= j) => j \in 1..f - 1
    BY <2>1
  <2> QED
    BY <1>4, <1>5, <2>2
<1> QED
  BY <1>4, <1>5

LEMMA FindsFirst ==
  ASSUME image \in Images, FS = Opened, NEW n
  PROVE  /\ Simple!Named(n) = {} <=> ~Simple!Exists(n)
         /\ Simple!Exists(n) =>
              /\ Simple!find_file(n).size = image[Simple!First(n)].size
              /\ Simple!find_file(n).offset = Simple!Offsets[Simple!First(n)]
<1>1. /\ DOMAIN FS.files = DOMAIN image
      /\ \A i \in DOMAIN image : /\ FS.files[i].name = image[i].name
                                 /\ FS.files[i].size = image[i].size
                                 /\ FS.files[i].offset = Simple!Offsets[i]
  BY DEF Opened
<1>2. Simple!Named(n) = {i \in DOMAIN image : image[i].name = n}
  BY <1>1 DEF Simple!Named
<1>3. Simple!Named(n) = {} <=> ~Simple!Exists(n)
  BY <1>2 DEF Simple!Exists
<1>4. ASSUME Simple!Exists(n)
      PROVE  Simple!find_file(n) = FS.files[Simple!First(n)] /\ Simple!First(n) \in DOMAIN image
  <2> DEFINE f == Simple!First(n)
             Is(i) == \A j \in Simple!Named(n) : i <= j
  <2>1. f \in DOMAIN image /\ f \in Simple!Named(n) /\ \A j \in Simple!Named(n) : f <= j
    BY <1>2, <1>4, FirstIs
  <2>2. Simple!Named(n) \subseteq Nat
    BY <1>2, ImageFacts
  <2> HIDE DEF f
  <2>3. ASSUME NEW i \in Simple!Named(n), Is(i) PROVE i = f
    <3>1. i <= f /\ f <= i /\ i \in Nat /\ f \in Nat
      BY <2>1, <2>2, <2>3
    <3> QED
      BY <3>1
  <2>4. f \in Simple!Named(n) /\ Is(f)
    BY <2>1
  <2>5. Simple!find_file(n) = FS.files[CHOOSE i \in Simple!Named(n) : Is(i)]
    BY DEF Simple!find_file
  <2> HIDE DEF Is
  <2>6. (CHOOSE i \in Simple!Named(n) : Is(i)) = f
    BY <2>3, <2>4
  <2> QED
    BY <2>1, <2>5, <2>6 DEF f
<1> QED
  BY <1>1, <1>3, <1>4

LEMMA Multiples ==
  ASSUME NEW c \in 0..4, Page \in Nat
  PROVE  c * Page \in Nat /\ c * Page <= 4 * Page
<1>1. c = 0 \/ c = 1 \/ c = 2 \/ c = 3 \/ c = 4
  OBVIOUS
<1> QED
  BY <1>1

(* The length of an answer, with both differences unsigned.                *)
LEMMA LengthRead ==
  ASSUME image \in Images, NEW off \in Nat, NEW size \in Nat, size < WordSize,
         NEW target, target.size \in 0..WordSize - 1, off < target.size
  PROVE  LET n == Simple!SizeRead(size, off, target) IN
           /\ n = size \/ n = target.size - off
           /\ n >= size \/ n = target.size - off
           /\ n > size => off > size /\ off + size < target.size
           /\ n > target.size - off => off # 0
<1> DEFINE rest == target.size - off
           asked == size - off
           W == WordSize
<1>1. W \in Nat /\ W > 0 /\ target.size \in Nat /\ target.size < W
  BY ImageFacts
<1>2. rest % W = rest /\ rest \in Nat /\ rest > 0
  BY <1>1
<1>3. size >= off => asked % W = asked
  BY <1>1
<1>4. size < off => asked % W = asked + W
  <2> SUFFICES ASSUME size < off PROVE asked % W = asked + W
    OBVIOUS
  <2>1. asked + W \in 0..W - 1 /\ asked \in Int
    BY <1>1
  <2>2. asked = W * (-1) + (asked + W)
    BY <1>1, <2>1
  <2> QED
    BY <1>1, <2>1, <2>2
<1>5. Simple!SizeRead(size, off, target) = IF asked % W > rest THEN rest ELSE size
  BY <1>2 DEF Simple!SizeRead
<1>6. CASE size >= off
  BY <1>1, <1>2, <1>3, <1>5, <1>6
<1>7. CASE size < off
  <2>1. asked % W = size - off + W
    BY <1>4, <1>7
  <2>2. asked % W > rest
    BY <1>1, <2>1
  <2>3. Simple!SizeRead(size, off, target) = target.size - off
    BY <1>5, <2>2
  <2> QED
    BY <1>1, <1>7, <2>3
<1> QED
  BY <1>6, <1>7

LEMMA SubSeqIs ==
  ASSUME NEW T, NEW s \in Seq(T), NEW m \in Nat, NEW n \in Nat, m >= 1, n <= Len(s), m <= n + 1
  PROVE  /\ SubSeq(s, m, n) \in Seq(T) /\ Len(SubSeq(s, m, n)) = n - m + 1
         /\ \A k \in 1..n - m + 1 : SubSeq(s, m, n)[k] = s[m + k - 1]
<1>1. Len(s) \in Nat /\ DOMAIN s = 1..Len(s) /\ s \in [1..Len(s) -> T]
  BY LenProperties
<1>2. SubSeq(s, m, n) = [k \in 1..n - m + 1 |-> s[m + k - 1]]
  OBVIOUS
<1>3. n - m + 1 \in Nat
  OBVIOUS
<1> DEFINE r == [k \in 1..n - m + 1 |-> s[m + k - 1]]
<1>4. \A k \in 1..n - m + 1 : m + k - 1 \in 1..Len(s)
  BY <1>1
<1>5. r \in [1..n - m + 1 -> T] /\ \A k \in 1..n - m + 1 : r[k] = s[m + k - 1]
  BY <1>1, <1>4
<1> HIDE DEF r
<1>6. r \in Seq(T)
  BY <1>3, <1>5, SeqDef
<1>7. Len(r) \in Nat /\ DOMAIN r = 1..Len(r) /\ DOMAIN r = 1..n - m + 1
  BY <1>5, <1>6, LenProperties
<1>8. Len(r) = n - m + 1
  BY <1>3, <1>7
<1> QED
  BY <1>2, <1>5, <1>6, <1>8 DEF r

RightRead(f, s, off, size, data) ==
  LET end == IF off + size < s THEN off + size ELSE s
      wanted == SubSeq([k \in 1..s |-> <<f, k>>], off + 1, end)
  IN /\ Simple!IsPrefix(wanted, data)
     /\ Len(data) > size => off > size /\ off + size < s
     /\ Len(data) > Len(wanted) => off # 0

LEMMA ReadRight ==
  ASSUME image \in Images, FS = Opened, NEW n, NEW p \in 0..3, NEW c \in 1..4,
         Simple!MyRead(n, p * Page, c * Page), UNCHANGED image
  PROVE  Simple!ReadAnswers'
<1> DEFINE off == p * Page
           size == c * Page
           target == Simple!find_file(n)
           i == Simple!First(n)
           len == Simple!SizeRead(size, off, target)
           data == [k \in 1..len |-> Simple!Cell(target.offset + off + k)]
<1>1. /\ Simple!Exists(n) /\ off < target.size
      /\ reply' = [call |-> "read", name |-> n, off |-> off, size |-> size,
                   answer |-> <<"data", data>>]
  BY FindsFirst DEF Simple!MyRead, Simple!Reply
<1>2. off \in Nat /\ size \in Nat /\ size < WordSize
  <2>1. p \in 0..4 /\ c \in 0..4 /\ Page \in Nat /\ WordSize \in Nat /\ 4 * Page < WordSize
    BY ImageFacts
  <2>2. off \in Nat /\ size \in Nat /\ size <= 4 * Page
    BY <2>1, Multiples
  <2> HIDE DEF off, size
  <2> QED
    BY <2>1, <2>2
<1>3. i \in DOMAIN image /\ target.size = image[i].size /\ target.offset = Simple!Offsets[i]
  BY <1>1, FirstIs, FindsFirst
<1> DEFINE sz == image[i].size
           begin == Simple!Offsets[i]
<1>4. sz \in Nat /\ sz < WordSize /\ sz = target.size /\ target.size \in 0..WordSize - 1
  BY <1>3, ImageFacts
<1>5. begin \in Nat
      /\ \A k \in 1..sz : begin + k <= Len(Simple!Memory) /\ Simple!Memory[begin + k] = <<i, k>>
  BY <1>3, WhereFilesAre
<1>6. /\ len = size \/ len = sz - off
      /\ len >= size \/ len = sz - off
      /\ len > size => off > size /\ off + size < sz
      /\ len > sz - off => off # 0
  <2> HIDE DEF off, size, target, sz
  <2> QED
    BY <1>1, <1>2, <1>4, LengthRead
<1> DEFINE content == Simple!Contents(i)
           end == IF off + size < sz THEN off + size ELSE sz
           wanted == SubSeq(content, off + 1, end)
<1>7. /\ reply'.name = n /\ reply'.off = off /\ reply'.size = size /\ reply'.answer[2] = data
  BY <1>1
<1>8. Simple!First(n)' = i
  BY DEF Simple!First
<1>9. /\ content \in Seq(Nat \X Nat) /\ Len(content) = sz
      /\ \A k \in 1..sz : content[k] = <<i, k>>
  <2>1. content = Pairs(Sizes, Len(image))[i] /\ i \in 1..Len(image) /\ Sizes \in [1..Len(image) -> Nat]
        /\ Len(image) \in Nat /\ Sizes[i] = sz
    BY <1>3, ImageFacts DEF Simple!Contents, Pairs, Sizes
  <2> HIDE DEF content, i, sz
  <2> QED
    BY <2>1, PairsAre
<1>10. \A k \in 1..len : k <= sz - off => data[k] = <<i, off + k>>
  <2> SUFFICES ASSUME NEW k \in 1..len, k <= sz - off PROVE data[k] = <<i, off + k>>
    OBVIOUS
  <2>1. data[k] = Simple!Cell(target.offset + off + k)
    OBVIOUS
  <2> HIDE DEF off, size, target, sz, begin, len, data, i
  <2>2. k \in Nat /\ k >= 1
    BY <1>2, <1>4, <1>6
  <2>3. off + k \in 1..sz /\ target.offset + off + k = begin + (off + k)
    BY <1>2, <1>3, <1>4, <1>5, <2>2 DEF begin
  <2>4. FS.memory = Simple!Memory
    BY DEF Opened
  <2>5. begin + (off + k) <= Len(FS.memory) /\ FS.memory[begin + (off + k)] = <<i, off + k>>
    BY <1>5, <2>3, <2>4
  <2> QED
    BY <2>1, <2>3, <2>5 DEF Simple!Cell
<1>11. /\ off + 1 \in Nat /\ end \in Nat /\ end <= sz /\ off + 1 <= end + 1
       /\ end - off <= len /\ end - (off + 1) + 1 = end - off /\ end - off \in Nat
       /\ len \in Nat /\ end - off <= sz - off
       /\ len > end - off => off # 0
  <2> HIDE DEF off, size, target, sz, len
  <2>1. off < sz /\ off \in Nat /\ size \in Nat /\ sz \in Nat
    BY <1>1, <1>2, <1>4
  <2> QED
    BY <1>6, <2>1
<1>12. /\ wanted \in Seq(Nat \X Nat) /\ Len(wanted) = end - off
       /\ \A k \in 1..end - off : wanted[k] = content[off + 1 + k - 1]
  <2> HIDE DEF off, end, content, sz
  <2>1. /\ wanted \in Seq(Nat \X Nat) /\ Len(wanted) = end - (off + 1) + 1
        /\ \A k \in 1..end - (off + 1) + 1 : wanted[k] = content[off + 1 + k - 1]
    <3>1. off + 1 >= 1 /\ end <= Len(content)
      BY <1>2, <1>9, <1>11
    <3> DEFINE m == off + 1
    <3>2. m \in Nat /\ m >= 1 /\ end \in Nat /\ end <= Len(content) /\ m <= end + 1
          /\ content \in Seq(Nat \X Nat)
      BY <1>9, <1>11, <3>1
    <3> HIDE DEF m
    <3>3. /\ SubSeq(content, m, end) \in Seq(Nat \X Nat) /\ Len(SubSeq(content, m, end)) = end - m + 1
          /\ \A k \in 1..end - m + 1 : SubSeq(content, m, end)[k] = content[m + k - 1]
      BY <3>2, SubSeqIs
    <3> QED
      BY <3>3 DEF m
  <2> HIDE DEF wanted
  <2> QED
    BY <1>11, <2>1
<1>13. Len(data) = len /\ DOMAIN data = 1..len
  <2>1. len \in Nat
    BY <1>11
  <2> HIDE DEF len
  <2> QED
    BY <2>1
<1>14. \A k \in 1..end - off : wanted[k] = data[k]
  <2> SUFFICES ASSUME NEW k \in 1..end - off PROVE wanted[k] = data[k]
    OBVIOUS
  <2> HIDE DEF off, end, content, sz, wanted, data, len, i
  <2>1. k \in Nat /\ k >= 1 /\ k <= end - off /\ off + 1 + k - 1 = off + k
        /\ off + k \in 1..sz /\ k \in 1..len /\ k <= sz - off
    <3>1. k \in Nat /\ k >= 1 /\ k <= end - off
      BY <1>11
    <3>2. end - off <= len /\ end - off <= sz - off /\ off \in Nat /\ sz \in Nat /\ len \in Nat
          /\ end - off \in Nat
      BY <1>2, <1>4, <1>11
    <3>3. k <= len /\ k <= sz - off /\ off + k <= sz /\ off + k >= 1 /\ off + k \in Nat
          /\ off + 1 + k - 1 = off + k
      BY <3>1, <3>2
    <3> QED
      BY <3>1, <3>2, <3>3
  <2>2. wanted[k] = <<i, off + k>>
    BY <1>9, <1>12, <2>1
  <2> QED
    BY <1>10, <2>1, <2>2
<1>15. Simple!IsPrefix(wanted, data)
  <2> DEFINE w == Len(wanted)
  <2>1. w \in Nat /\ w <= Len(data) /\ w = end - off
    BY <1>11, <1>12, <1>13
  <2>2. SubSeq(wanted, 1, w) = [k \in 1..w |-> wanted[k]]
        /\ SubSeq(data, 1, w) = [k \in 1..w |-> data[k]]
    <3> HIDE DEF w, wanted, data
    <3> QED
      BY <2>1
  <2>3. SubSeq(wanted, 1, w) = SubSeq(data, 1, w)
    <3> HIDE DEF wanted, data, end, off
    <3> QED
      BY <1>14, <2>1, <2>2
  <2> QED
    BY <2>1, <2>3 DEF Simple!IsPrefix
<1>16. Simple!ReadAnswers' <=> RightRead(Simple!First(reply.name)', (image[Simple!First(reply.name)].size)',
                                          reply'.off, reply'.size, reply'.answer[2])
  BY DEF Simple!ReadAnswers, RightRead, Simple!Contents
<1>17. Simple!First(reply.name)' = i /\ (image[Simple!First(reply.name)].size)' = sz
  <2>1. Simple!First(reply.name)' = i
    BY <1>7 DEF Simple!First
  <2> QED
    BY <2>1
<1>18. /\ Len(data) > size => off > size /\ off + size < sz
       /\ Len(data) > Len(wanted) => off # 0
  <2> HIDE DEF off, size, sz, end, len, data, wanted
  <2>1. Len(data) = len /\ Len(wanted) = end - off
    BY <1>12, <1>13
  <2>2. len > size => off > size /\ off + size < sz
    BY <1>6
  <2>3. len > end - off => off # 0
    BY <1>11
  <2> QED
    BY <2>1, <2>2, <2>3
<1>19. RightRead(i, sz, off, size, data)
  <2>1. content = [k \in 1..sz |-> <<i, k>>]
    BY DEF Simple!Contents
  <2> HIDE DEF content, off, size, sz, i, data
  <2> QED
    BY <1>15, <1>18, <2>1 DEF RightRead
<1> HIDE DEF off, size, sz, data, i
<1> QED
  BY <1>7, <1>16, <1>17, <1>19

(* The table and the answers depend on the image and the last request.     *)
LEMMA OpenedStays == UNCHANGED image => Opened' = Opened
BY DEF Opened, Simple!Memory, Simple!Offsets, Simple!new_line, Simple!Contents

LEMMA AnswersStay ==
  ASSUME Simple!SimpleAnswers, UNCHANGED <<image, reply>> PROVE Simple!SimpleAnswers'
<1>1. /\ Simple!First(reply.name)' = Simple!First(reply.name)
      /\ Simple!Exists(reply.name)' = Simple!Exists(reply.name)
  BY DEF Simple!First, Simple!Exists
<1>2. Simple!Contents(Simple!First(reply.name))' = Simple!Contents(Simple!First(reply.name))
  BY <1>1 DEF Simple!Contents
<1>3. Simple!ReadAnswers' = Simple!ReadAnswers
  BY <1>1, <1>2 DEF Simple!ReadAnswers
<1> QED
  BY <1>1, <1>3 DEF Simple!SimpleAnswers

LEMMA SimpleStutter == ASSUME SimpleInv, UNCHANGED <<image, FS, reply>> PROVE SimpleInv'
<1>1. Opened' = Opened
  BY OpenedStays
<1>2. Simple!SimpleAnswers'
  BY AnswersStay DEF SimpleInv
<1> QED
  BY <1>1, <1>2 DEF SimpleInv, Simple!Closed

LEMMA StatRight ==
  ASSUME image \in Images, FS = Opened, NEW n, Simple!MyStat(n), UNCHANGED image
  PROVE  Simple!SimpleAnswers' /\ reply'.call = "getattr"
<1>1. /\ reply'.call = "getattr" /\ reply'.name = n
      /\ n # "/" => reply'.answer = IF Simple!Named(n) = {} THEN <<"ENOENT">>
                                    ELSE <<"file", Simple!find_file(n).size>>
  BY DEF Simple!MyStat, Simple!Reply
<1>2. /\ Simple!Named(n) = {} <=> ~Simple!Exists(n)
      /\ Simple!Exists(n) => Simple!find_file(n).size = image[Simple!First(n)].size
  BY FindsFirst
<1>3. Simple!Exists(reply.name)' <=> Simple!Exists(n)
  BY <1>1 DEF Simple!Exists
<1>4. (image[Simple!First(reply.name)].size)' = image[Simple!First(n)].size
  BY <1>1 DEF Simple!First
<1>5. n # "/" => (reply.answer = IF Simple!Exists(reply.name)
                                 THEN <<"file", image[Simple!First(reply.name)].size>>
                                 ELSE <<"ENOENT">>)'
  BY <1>1, <1>2, <1>3, <1>4
<1> QED
  BY <1>1, <1>5 DEF Simple!SimpleAnswers

LEMMA ReaddirRight ==
  ASSUME image \in Images, FS = Opened, NEW n, Simple!MyReaddir(n), UNCHANGED image
  PROVE  Simple!SimpleAnswers' /\ reply'.call = "readdir"
<1>1. /\ reply'.call = "readdir" /\ reply'.name = n
      /\ n = "/" => reply'.answer = <<"names", [i \in DOMAIN FS.files |-> FS.files[i].name]>>
  BY DEF Simple!MyReaddir, Simple!Reply
<1>2. [i \in DOMAIN FS.files |-> FS.files[i].name] = [i \in DOMAIN image |-> image[i].name]
  BY DEF Opened
<1> QED
  BY <1>1, <1>2 DEF Simple!SimpleAnswers

LEMMA OpenRight ==
  ASSUME image \in Images, FS = Opened, NEW n, NEW write \in BOOLEAN, Simple!MyOpen(n, write),
         UNCHANGED image
  PROVE  Simple!SimpleAnswers' /\ reply'.call = "open"
<1>1. /\ reply'.call = "open" /\ reply'.name = n /\ reply'.size = IF write THEN 1 ELSE 0
      /\ reply'.answer = IF Simple!Named(n) = {} THEN <<"ENOENT">>
                         ELSE IF write THEN <<"EACCES">> ELSE <<"ok">>
  BY DEF Simple!MyOpen, Simple!Reply
<1>2. Simple!Named(n) = {} <=> ~Simple!Exists(n)
  BY FindsFirst
<1>3. Simple!Exists(reply.name)' <=> Simple!Exists(n)
  BY <1>1 DEF Simple!Exists
<1>4. reply'.answer = <<"ok">> <=> Simple!Exists(n) /\ ~write
  BY <1>1, <1>2
<1>5. reply'.size = 0 <=> ~write
  BY <1>1
<1> QED
  BY <1>1, <1>3, <1>4, <1>5 DEF Simple!SimpleAnswers

LEMMA SimpleStep == ASSUME SimpleInv, Simple!Next PROVE SimpleInv'
<1>1. CASE Simple!OpenFilesystem
  <2>1. FS' = Opened /\ UNCHANGED <<image, reply>>
    BY <1>1 DEF Simple!OpenFilesystem, Opened
  <2>2. Simple!SimpleAnswers'
    BY <2>1, AnswersStay DEF SimpleInv
  <2> QED
    BY <2>1, <2>2, OpenedStays DEF SimpleInv
<1>2. CASE Simple!CloseFilesystem
  <2>1. FS' = Simple!Closed /\ reply'.call = "none" /\ UNCHANGED image
    BY <1>2 DEF Simple!CloseFilesystem, Simple!None
  <2>2. Simple!SimpleAnswers'
    BY <2>1 DEF Simple!SimpleAnswers
  <2> QED
    BY <2>1, <2>2 DEF SimpleInv, Simple!Closed
<1>3. CASE Simple!Serve
  <2>1. FS = Opened /\ UNCHANGED <<image, FS>> /\ image \in Images
    BY <1>3 DEF Simple!Serve, SimpleInv, Simple!Closed
  <2>2. PICK n \in SimpleNames :
          \/ Simple!MyStat(n) \/ Simple!MyReaddir(n)
          \/ \E write \in BOOLEAN : Simple!MyOpen(n, write)
          \/ \E p \in 0..3, c \in 1..4 : Simple!MyRead(n, p * Page, c * Page)
    BY <1>3 DEF Simple!Serve
  <2>3. /\ Simple!SimpleAnswers'
        /\ reply'.call \in {"none", "getattr", "readdir", "open", "read"}
    <3>1. CASE Simple!MyStat(n)
      BY <2>1, <3>1, StatRight
    <3>2. CASE Simple!MyReaddir(n)
      BY <2>1, <3>2, ReaddirRight
    <3>3. CASE \E write \in BOOLEAN : Simple!MyOpen(n, write)
      BY <2>1, <3>3, OpenRight
    <3>4. CASE \E p \in 0..3, c \in 1..4 : Simple!MyRead(n, p * Page, c * Page)
      <4>1. Simple!ReadAnswers'
        BY <2>1, <3>4, ReadRight
      <4>2. reply'.call = "read"
        BY <3>4 DEF Simple!MyRead, Simple!Reply
      <4> QED
        BY <4>1, <4>2 DEF Simple!SimpleAnswers
    <3> QED
      BY <2>2, <3>1, <3>2, <3>3, <3>4
  <2> QED
    BY <2>1, <2>3, OpenedStays DEF SimpleInv
<1> QED
  BY <1>1, <1>2, <1>3 DEF Simple!Next

LEMMA SimpleInit == Simple!Init => SimpleInv
BY DEF Simple!Init, Simple!None, SimpleInv, Simple!SimpleAnswers

-----------------------------------------------------------------------------
(* 22_fuse/1_mergefs.                                                      *)

(* What an operation that runs is made of.                                 *)
CallShape ==
  /\ call = [pc |-> call.pc, what |-> call.what, path |-> call.path, i |-> call.i,
             found |-> call.found, where |-> call.where, errno |-> call.errno,
             write |-> call.write, off |-> call.off, size |-> call.size,
             files_dict |-> call.files_dict, listed |-> call.listed,
             answer |-> call.answer, undisturbed |-> call.undisturbed,
             clean |-> call.clean]
  /\ fh = [is |-> fh.is, pos |-> fh.pos, inOrder |-> fh.inOrder]
  /\ directories \in [1..Directories -> Trees]

(* Which operation is at which point.                                      *)
CallPoint ==
  /\ call.pc \in {"done", "find", "open", "list", "read"}
  /\ call.pc = "find" => call.what \in {"getattr", "open"}
  /\ call.pc = "open" => call.what = "open" /\ ~call.write
  /\ call.pc = "list" => call.what = "readdir"
  /\ call.pc = "read" => call.what = "read"
  /\ call.pc \in {"find", "list"} => call.i \in 1..Directories + 1
  /\ call.pc \in {"find", "open"} /\ call.what = "open" => fh = Merge!Closed
  /\ call.pc \in {"find", "open"} => call.errno \in {"ENOENT", "ENOTDIR"}

(* find() has the newest of what it has seen.                              *)
NewestBefore(i) ==
  IF \A j \in 1..i - 1 : Merge!Lookup(j, call.path) = Merge!Nothing THEN call.found = Merge!Nothing
  ELSE /\ call.found # Merge!Nothing /\ call.where \in 1..i - 1
       /\ Merge!Lookup(call.where, call.path) = call.found
       /\ \A j \in 1..i - 1 :
            Merge!Lookup(j, call.path) # Merge!Nothing => call.found.mtime >= Merge!Lookup(j, call.path).mtime

Finding ==
  /\ call.pc = "find" /\ call.undisturbed => NewestBefore(call.i)
  /\ call.pc = "open" /\ call.undisturbed =>
       NewestBefore(Directories + 1) /\ call.found # Merge!Nothing

(* The table of names never outgrows its memory.                           *)
Fits(names) == IsFiniteSet(names) /\ Cardinality(names) <= kMaxNumberOfFiles

(* A listing has each name once, and all of them, or as many as fit.       *)
Distinct(s) == \A j, k \in DOMAIN s : j # k => s[j] # s[k]
Seen(i) == UNION {Merge!NamesIn(j, call.path) : j \in 1..i - 1}

Listing ==
  call.pc = "list" =>
    /\ Fits(call.files_dict)
    /\ call.listed \in Seq(call.files_dict) /\ Distinct(call.listed)
    /\ call.clean => call.files_dict = Merge!SetOf(call.listed)
    /\ call.undisturbed => Merge!SetOf(call.listed) \subseteq Seen(call.i)
    /\ call.undisturbed /\ call.clean =>
         \/ call.files_dict = Seen(call.i)
         \/ Cardinality(call.files_dict) = kMaxNumberOfFiles

MergeInv == CallShape /\ CallPoint /\ Finding /\ Fits(leftover) /\ Listing /\ Merge!MergeAnswers

(* FiniteSets as MergeFs has it, and as the theorems have it.              *)
LEMMA SameSizes == \A S : /\ Merge!IsFiniteSet(S) <=> IsFiniteSet(S)
                          /\ Merge!Cardinality(S) = Cardinality(S)
BY DEF IsFiniteSet, Merge!IsFiniteSet, Cardinality, Merge!Cardinality

LEMMA Parameters ==
  /\ Directories \in Nat /\ Directories >= 1 /\ Pages \in Nat /\ kMaxNumberOfFiles \in Nat
  /\ \A tree \in Trees : /\ IsFiniteSet(DOMAIN tree)
                         /\ \A p \in DOMAIN tree : tree[p].mtime \in Nat
BY FileSystemsAssumption, SameSizes DEF Merge!TreeAssumption

LEMMA NamesFinite ==
  ASSUME CallShape, NEW i \in 1..Directories, NEW p
  PROVE  IsFiniteSet(Merge!NamesIn(i, p))
<1> DEFINE V == Merge!Visible(i, p)
           f == [q \in V |-> Merge!Name(q)]
<1>1. IsFiniteSet(DOMAIN directories[i])
  BY Parameters DEF CallShape
<1>2. V \in SUBSET (DOMAIN directories[i])
  BY DEF Merge!Visible
<1>3. IsFiniteSet(V)
  BY <1>1, <1>2, FS_Subset
<1> HIDE DEF V
<1>4. Merge!NamesIn(i, p) = {Merge!Name(q) : q \in V}
  BY DEF Merge!NamesIn, V
<1>5. f \in Surjection(V, Merge!NamesIn(i, p))
  BY <1>4 DEF Surjection
<1> QED
  BY <1>3, <1>5, FS_Surjection

LEMMA FirstOf ==
  ASSUME NEW S, NEW s \in Seq(S), NEW r \in 0..Len(s)
  PROVE  /\ SubSeq(s, 1, r) \in Seq(S) /\ Len(SubSeq(s, 1, r)) = r
         /\ \A k \in 1..r : SubSeq(s, 1, r)[k] = s[k]
OBVIOUS

(* A sequence without repetitions has as many elements as it is long.      *)
LEMMA AsManyAsLong ==
  ASSUME NEW S, NEW s \in Seq(S), Distinct(s)
  PROVE  IsFiniteSet(Merge!SetOf(s)) /\ Cardinality(Merge!SetOf(s)) = Len(s)
<1>1. Len(s) \in Nat /\ DOMAIN s = 1..Len(s) /\ s = [k \in 1..Len(s) |-> s[k]]
  OBVIOUS
<1>2. Merge!SetOf(s) = {s[k] : k \in 1..Len(s)}
  BY <1>1 DEF Merge!SetOf
<1>3. s \in Bijection(1..Len(s), Merge!SetOf(s))
  BY <1>1, <1>2 DEF Bijection, Injection, Surjection, IsInjective, Distinct
<1>4. ExistsBijection(1..Len(s), Merge!SetOf(s))
  BY <1>3 DEF ExistsBijection
<1>5. IsFiniteSet(1..Len(s)) /\ Cardinality(1..Len(s)) = Len(s)
  <2>1. 1 \in Int /\ Len(s) \in Int
    BY <1>1
  <2>2. /\ IsFiniteSet(1..Len(s))
        /\ Cardinality(1..Len(s)) = IF 1 > Len(s) THEN 0 ELSE Len(s) - 1 + 1
    BY <2>1, FS_Interval
  <2> QED
    BY <1>1, <2>2
<1> QED
  BY <1>4, <1>5, FS_Bijection

LEMMA Filled ==
  ASSUME NEW new, IsFiniteSet(new), NEW order \in Merge!Orders(new),
         NEW room \in 0..Cardinality(new)
  PROVE  LET filled == SubSeq(order, 1, room) IN
           /\ filled \in Seq(new) /\ Len(filled) = room /\ Distinct(filled)
           /\ Merge!SetOf(filled) = {filled[k] : k \in 1..room}
           /\ Merge!SetOf(filled) \subseteq new
           /\ IsFiniteSet(Merge!SetOf(filled)) /\ Cardinality(Merge!SetOf(filled)) = room
           /\ room = Cardinality(new) => Merge!SetOf(filled) = new
<1> DEFINE filled == SubSeq(order, 1, room)
           m == Cardinality(new)
<1>1. m \in Nat
  BY FS_CardinalityType
<1>2. order \in [1..m -> new] /\ Distinct(order)
  BY SameSizes DEF Merge!Orders, Distinct
<1> HIDE DEF m
<1>3. order \in Seq(new) /\ Len(order) = m
  BY <1>1, <1>2
<1>4. /\ filled \in Seq(new) /\ Len(filled) = room
      /\ \A k \in 1..room : filled[k] = order[k]
  BY <1>3, FirstOf DEF m
<1> HIDE DEF filled
<1>5. DOMAIN filled = 1..room /\ \A k \in 1..room : filled[k] \in new
  BY <1>4
<1>6. Distinct(filled)
  <2>1. ASSUME NEW j \in 1..room, NEW k \in 1..room, j # k PROVE filled[j] # filled[k]
    <3>1. j \in DOMAIN order /\ k \in DOMAIN order
      BY <1>1, <1>2 DEF m
    <3> QED
      BY <1>2, <1>4, <2>1, <3>1 DEF Distinct
  <2> QED
    BY <1>5, <2>1 DEF Distinct
<1>7. Merge!SetOf(filled) = {filled[k] : k \in 1..room} /\ Merge!SetOf(filled) \subseteq new
  BY <1>5 DEF Merge!SetOf
<1>8. IsFiniteSet(Merge!SetOf(filled)) /\ Cardinality(Merge!SetOf(filled)) = room
  BY <1>4, <1>6, AsManyAsLong
<1>9. room = Cardinality(new) => Merge!SetOf(filled) = new
  BY <1>7, <1>8, FS_Subset
<1> QED
  BY <1>4, <1>6, <1>7, <1>8, <1>9 DEF filled

(* Two lists without a name in common make one.                            *)
LEMMA Joined ==
  ASSUME NEW S, NEW a \in Seq(S), NEW b \in Seq(S), Distinct(a), Distinct(b),
         Merge!SetOf(a) \cap Merge!SetOf(b) = {}
  PROVE  /\ a \o b \in Seq(S) /\ Distinct(a \o b) /\ Merge!SetOf(a \o b) = Merge!SetOf(a) \cup Merge!SetOf(b)
<1> DEFINE c == a \o b
<1>1. /\ c \in Seq(S) /\ Len(a) \in Nat /\ Len(b) \in Nat /\ Len(c) = Len(a) + Len(b)
      /\ DOMAIN c = 1..Len(a) + Len(b) /\ DOMAIN a = 1..Len(a) /\ DOMAIN b = 1..Len(b)
      /\ \A k \in 1..Len(a) : c[k] = a[k]
      /\ \A k \in 1..Len(b) : c[k + Len(a)] = b[k]
  OBVIOUS
<1> HIDE DEF c
<1>2. ASSUME NEW k \in DOMAIN c
      PROVE  \/ k \in DOMAIN a /\ c[k] = a[k]
             \/ k - Len(a) \in DOMAIN b /\ c[k] = b[k - Len(a)]
  <2>1. CASE k <= Len(a)
    BY <1>1, <2>1
  <2>2. CASE k > Len(a)
    <3>1. k - Len(a) \in 1..Len(b) /\ (k - Len(a)) + Len(a) = k
      BY <1>1, <2>2
    <3> QED
      BY <1>1, <3>1
  <2> QED
    BY <1>1, <2>1, <2>2
<1>3. Merge!SetOf(c) = Merge!SetOf(a) \cup Merge!SetOf(b)
  <2>1. Merge!SetOf(c) \subseteq Merge!SetOf(a) \cup Merge!SetOf(b)
    BY <1>2 DEF Merge!SetOf
  <2>2. Merge!SetOf(a) \subseteq Merge!SetOf(c)
    <3>1. \A k \in DOMAIN a : k \in DOMAIN c /\ c[k] = a[k]
      BY <1>1
    <3> QED
      BY <3>1 DEF Merge!SetOf
  <2>3. Merge!SetOf(b) \subseteq Merge!SetOf(c)
    <3>1. \A k \in DOMAIN b : k + Len(a) \in DOMAIN c /\ c[k + Len(a)] = b[k]
      BY <1>1
    <3> QED
      BY <3>1 DEF Merge!SetOf
  <2> QED
    BY <2>1, <2>2, <2>3
<1>4. Distinct(c)
  <2>1. ASSUME NEW j \in DOMAIN c, NEW k \in DOMAIN c, j # k PROVE c[j] # c[k]
    <3>1. CASE j \in DOMAIN a /\ c[j] = a[j] /\ k \in DOMAIN a /\ c[k] = a[k]
      BY <2>1, <3>1 DEF Distinct
    <3>2. CASE /\ j - Len(a) \in DOMAIN b /\ c[j] = b[j - Len(a)]
               /\ k - Len(a) \in DOMAIN b /\ c[k] = b[k - Len(a)]
      <4>1. j - Len(a) # k - Len(a)
        BY <1>1, <2>1
      <4> QED
        BY <3>2, <4>1 DEF Distinct
    <3>3. CASE /\ j \in DOMAIN a /\ c[j] = a[j]
               /\ k - Len(a) \in DOMAIN b /\ c[k] = b[k - Len(a)]
      BY <3>3 DEF Merge!SetOf
    <3>4. CASE /\ k \in DOMAIN a /\ c[k] = a[k]
               /\ j - Len(a) \in DOMAIN b /\ c[j] = b[j - Len(a)]
      BY <3>4 DEF Merge!SetOf
    <3> QED
      BY <1>2, <3>1, <3>2, <3>3, <3>4
  <2> QED
    BY <2>1 DEF Distinct
<1> QED
  BY <1>1, <1>3, <1>4 DEF c

LEMMA MergeInit == Merge!Init => MergeInv
<1> SUFFICES ASSUME Merge!Init PROVE MergeInv
  OBVIOUS
<1>1. call = Merge!Idle /\ fh = Merge!Closed /\ leftover = {} /\ directories \in [1..Directories -> Trees]
  BY DEF Merge!Init
<1>2. CallShape
  BY <1>1 DEF CallShape, Merge!Idle, Merge!Closed
<1>3. Fits(leftover)
  BY <1>1, FS_EmptySet, Parameters DEF Fits
<1> QED
  BY <1>1, <1>2, <1>3 DEF MergeInv, CallPoint, Finding, Listing,
     Merge!MergeAnswers, Merge!Idle

LEMMA EmptyFits == Fits({})
BY FS_EmptySet, Parameters DEF Fits

LEMMA BeginInv == ASSUME MergeInv, Merge!Begin PROVE MergeInv'
<1>1. /\ UNCHANGED <<directories, fh, leftover, changes>>
      /\ CallShape /\ Fits(leftover)
  BY DEF Merge!Begin, MergeInv
<1>2. Fits(leftover)'
  BY <1>1 DEF Fits
<1>3. ASSUME NEW p \in MergePaths, NEW what \in {"getattr", "open"}, NEW w \in BOOLEAN,
             p = << >> => what = "getattr",
             what = "open" => fh = Merge!Closed,
             call' = IF p = << >> THEN [Merge!Idle EXCEPT !.what = what, !.answer = <<"dir">>]
                     ELSE [Merge!Idle EXCEPT !.pc = "find", !.what = what, !.path = p, !.write = w]
      PROVE  MergeInv'
  <2>1. CASE p = << >>
    <3>1. /\ CallShape' /\ call'.pc = "done" /\ call'.path = << >>
          /\ call'.what = "getattr"
      BY <1>1, <1>3, <2>1 DEF CallShape, Merge!Idle
    <3> QED
      BY <1>2, <3>1 DEF MergeInv, CallPoint, Finding, Listing, Merge!MergeAnswers
  <2>2. CASE p # << >>
    <3>1. /\ CallShape' /\ call'.pc = "find" /\ call'.path = p /\ call'.i = 1
          /\ call'.what = what /\ call'.found = Merge!Nothing /\ call'.errno = "ENOENT"
      BY <1>1, <1>3, <2>2 DEF CallShape, Merge!Idle
    <3>2. NewestBefore(1)'
      BY <3>1 DEF NewestBefore
    <3>3. CallPoint'
      BY <1>1, <1>3, <3>1, Parameters DEF CallPoint
    <3> QED
      BY <1>2, <3>1, <3>2, <3>3 DEF MergeInv, Finding, Listing, Merge!MergeAnswers
  <2> QED
    BY <2>1, <2>2
<1>4. ASSUME NEW p \in MergePaths, NEW dict \in {{}, leftover},
             call' = [Merge!Idle EXCEPT !.pc = "list", !.what = "readdir", !.path = p,
                                  !.files_dict = dict, !.clean = dict = {}]
      PROVE  MergeInv'
  <2>1. /\ CallShape' /\ call'.pc = "list" /\ call'.what = "readdir" /\ call'.i = 1
        /\ call'.files_dict = dict /\ call'.listed = << >> /\ call'.clean = (dict = {})
    BY <1>1, <1>4 DEF CallShape, Merge!Idle
  <2>2. Fits(dict)
    BY <1>1, EmptyFits
  <2>3. Seen(1)' = {}
    BY DEF Seen
  <2>4. << >> \in Seq(dict) /\ Distinct(<< >>) /\ Merge!SetOf(<< >>) = {}
    BY DEF Distinct, Merge!SetOf
  <2>5. Listing'
    BY <2>1, <2>2, <2>3, <2>4 DEF Listing, Fits
  <2>6. CallPoint'
    BY <2>1, Parameters DEF CallPoint
  <2> QED
    BY <1>2, <2>1, <2>5, <2>6 DEF MergeInv, Finding, Merge!MergeAnswers
<1>5. ASSUME NEW o \in 0..Pages, NEW s \in 1..Pages,
             call' = [Merge!Idle EXCEPT !.pc = "read", !.what = "read", !.off = o, !.size = s]
      PROVE  MergeInv'
  <2>1. CallShape' /\ call'.pc = "read" /\ call'.what = "read"
    BY <1>1, <1>5 DEF CallShape, Merge!Idle
  <2> QED
    BY <1>2, <2>1 DEF MergeInv, CallPoint, Finding, Listing, Merge!MergeAnswers
<1> QED
  BY <1>3, <1>4, <1>5 DEF Merge!Begin

-----------------------------------------------------------------------------
(* find(): one directory more.                                             *)
LEMMA Mtimes ==
  ASSUME CallShape, NEW j \in 1..Directories, NEW p, Merge!Lookup(j, p) # Merge!Nothing
  PROVE  Merge!Lookup(j, p).mtime \in Nat
BY Parameters DEF CallShape, Merge!Lookup

LEMMA StatInv == ASSUME MergeInv, Merge!Stat PROVE MergeInv'
<1> DEFINE e == Merge!Lookup(call.i, call.path)
<1>1. /\ call.pc = "find" /\ call.i <= Directories /\ call.i \in 1..Directories
      /\ CallShape /\ Fits(leftover) /\ call.what \in {"getattr", "open"}
      /\ UNCHANGED <<directories, fh, leftover, changes>>
      /\ call.what = "open" => fh = Merge!Closed
      /\ call.errno \in {"ENOENT", "ENOTDIR"}
  BY Parameters DEF Merge!Stat, MergeInv, CallPoint
<1>2. /\ CallShape' /\ call'.pc = "find" /\ call'.i = call.i + 1 /\ call'.what = call.what
      /\ call'.path = call.path /\ call'.undisturbed = call.undisturbed
      /\ \/ e # Merge!Nothing /\ Merge!Better(e) /\ call'.found = e /\ call'.where = call.i
            /\ call'.errno = call.errno
         \/ /\ ~(e # Merge!Nothing /\ Merge!Better(e)) /\ call'.found = call.found
            /\ call'.where = call.where /\ call'.errno \in {call.errno, Merge!Errno(call.i, call.path)}
  <2>1. CASE e # Merge!Nothing /\ Merge!Better(e)
    <3>1. call' = [call EXCEPT !.i = @ + 1, !.found = e, !.where = call.i]
      BY <2>1 DEF Merge!Stat
    <3> QED
      BY <1>1, <2>1, <3>1 DEF CallShape
  <2>2. CASE ~(e # Merge!Nothing /\ Merge!Better(e)) /\ e = Merge!Nothing /\ call.found = Merge!Nothing
    <3>1. call' = [call EXCEPT !.i = @ + 1, !.errno = Merge!Errno(call.i, call.path)]
      BY <2>2 DEF Merge!Stat
    <3> QED
      BY <1>1, <2>2, <3>1 DEF CallShape
  <2>3. CASE ~(e # Merge!Nothing /\ Merge!Better(e)) /\ ~(e = Merge!Nothing /\ call.found = Merge!Nothing)
    <3>1. call' = [call EXCEPT !.i = @ + 1]
      BY <2>3 DEF Merge!Stat
    <3> QED
      BY <1>1, <2>3, <3>1 DEF CallShape
  <2> QED
    BY <2>1, <2>2, <2>3
<1>3. call'.i - 1 = call.i
  BY <1>1, <1>2, Parameters
<1>4. Fits(leftover)'
  BY <1>1 DEF Fits
<1>5. CallPoint'
  BY <1>1, <1>2, Parameters DEF CallPoint, Merge!Errno
<1>6. ASSUME call.undisturbed PROVE NewestBefore(call.i)'
  <2> DEFINE L(j) == Merge!Lookup(j, call.path)
             i == call.i
  <2>1. NewestBefore(i)
    BY <1>1, <1>6 DEF MergeInv, Finding
  <2>2. \A j \in 1..i : L(j) # Merge!Nothing => L(j).mtime \in Nat
    <3>1. \A j \in 1..i : j \in 1..Directories
      BY <1>1, Parameters
    <3> QED
      BY <1>1, <3>1, Mtimes
  <2>3. \A j \in 1..i : j = i \/ j \in 1..i - 1
    BY <1>1
  <2>4. 1..i - 1 \subseteq 1..i /\ i \in 1..i /\ (i + 1) - 1 = i
    BY <1>1
  <2>5. CASE e # Merge!Nothing /\ Merge!Better(e) /\ call'.found = e /\ call'.where = i
    <3>1. CASE call.found = Merge!Nothing
      <4>1. \A j \in 1..i - 1 : L(j) = Merge!Nothing
        BY <2>1, <3>1 DEF NewestBefore
      <4>2. \A j \in 1..i : L(j) # Merge!Nothing => j = i
        BY <2>3, <4>1
      <4>3. \A j \in 1..i : L(j) # Merge!Nothing => e.mtime >= L(j).mtime
        BY <2>2, <4>2
      <4> QED
        BY <1>1, <1>2, <1>3, <2>4, <2>5, <4>3 DEF NewestBefore, Merge!Lookup
    <3>2. CASE call.found # Merge!Nothing
      <4>1. /\ call.where \in 1..i - 1 /\ L(call.where) = call.found
            /\ \A j \in 1..i - 1 : L(j) # Merge!Nothing => call.found.mtime >= L(j).mtime
            /\ e.mtime > call.found.mtime
        BY <2>1, <2>5, <3>2 DEF NewestBefore, Merge!Better
      <4>2. call.found.mtime \in Nat /\ e.mtime \in Nat
        BY <2>2, <2>4, <2>5, <3>2, <4>1
      <4>3. ASSUME NEW j \in 1..i, L(j) # Merge!Nothing PROVE e.mtime >= L(j).mtime
        <5>1. L(j).mtime \in Nat
          BY <2>2, <4>3
        <5>2. CASE j = i
          BY <5>1, <5>2
        <5>3. CASE j \in 1..i - 1
          <6>1. call.found.mtime >= L(j).mtime
            BY <4>1, <4>3, <5>3
          <6> QED
            BY <4>1, <4>2, <5>1, <6>1
        <5> QED
          BY <2>3, <5>2, <5>3
      <4> QED
        BY <1>1, <1>2, <1>3, <2>4, <2>5, <4>3 DEF NewestBefore, Merge!Lookup
    <3> QED
      BY <3>1, <3>2
  <2>6. CASE /\ ~(e # Merge!Nothing /\ Merge!Better(e)) /\ call'.found = call.found
             /\ call'.where = call.where
    <3>1. CASE call.found = Merge!Nothing
      <4>1. e = Merge!Nothing /\ \A j \in 1..i - 1 : L(j) = Merge!Nothing
        BY <2>1, <2>6, <3>1 DEF NewestBefore, Merge!Better
      <4>2. \A j \in 1..i : L(j) = Merge!Nothing
        BY <2>3, <4>1
      <4> QED
        BY <1>1, <1>2, <1>3, <2>4, <2>6, <3>1, <4>2 DEF NewestBefore, Merge!Lookup
    <3>2. CASE call.found # Merge!Nothing
      <4>1. /\ call.where \in 1..i - 1 /\ L(call.where) = call.found
            /\ \A j \in 1..i - 1 : L(j) # Merge!Nothing => call.found.mtime >= L(j).mtime
            /\ e # Merge!Nothing => ~(e.mtime > call.found.mtime)
        BY <2>1, <2>6, <3>2 DEF NewestBefore, Merge!Better
      <4>2. call.found.mtime \in Nat
        BY <2>2, <2>4, <3>2, <4>1
      <4>3. ASSUME NEW j \in 1..i, L(j) # Merge!Nothing PROVE call.found.mtime >= L(j).mtime
        <5>1. L(j).mtime \in Nat
          BY <2>2, <4>3
        <5>2. CASE j = i
          <6>1. ~(L(j).mtime > call.found.mtime)
            BY <4>1, <4>3, <5>2
          <6> QED
            BY <4>2, <5>1, <6>1
        <5>3. CASE j \in 1..i - 1
          BY <4>1, <4>3, <5>3
        <5> QED
          BY <2>3, <5>2, <5>3
      <4>4. call.where \in 1..i /\ L(call.where) # Merge!Nothing
        BY <2>4, <3>2, <4>1
      <4> QED
        BY <1>1, <1>2, <1>3, <2>4, <2>6, <3>2, <4>1, <4>3, <4>4 DEF NewestBefore,
           Merge!Lookup
    <3> QED
      BY <3>1, <3>2
  <2> QED
    BY <1>2, <2>5, <2>6
<1>7. Finding'
  BY <1>2, <1>6 DEF Finding
<1> QED
  BY <1>2, <1>4, <1>5, <1>7 DEF MergeInv, Listing, Merge!MergeAnswers

(* What find() has in the end is what the union holds.                     *)
LEMMA FoundIsNewest ==
  ASSUME NewestBefore(Directories + 1)
  PROVE  /\ call.found = Merge!Nothing <=> Merge!Present(call.path) = {}
         /\ call.found # Merge!Nothing => /\ Merge!IsNewest(call.found, call.path)
                                    /\ Merge!Lookup(call.where, call.path) = call.found
<1>1. (Directories + 1) - 1 = Directories
  BY Parameters
<1> QED
  BY <1>1 DEF NewestBefore, Merge!Present, Merge!IsNewest

LEMMA FoundInv == ASSUME MergeInv, Merge!Found PROVE MergeInv'
<1>1. /\ call.pc = "find" /\ call.i > Directories /\ call.i \in 1..Directories + 1
      /\ CallShape /\ Fits(leftover) /\ call.what \in {"getattr", "open"}
      /\ UNCHANGED <<directories, fh, leftover, changes>>
      /\ call.what = "open" => fh = Merge!Closed
      /\ call.errno \in {"ENOENT", "ENOTDIR"}
      /\ call.undisturbed => NewestBefore(call.i)
  BY DEF Merge!Found, MergeInv, CallPoint, Finding
<1>2. call.i = Directories + 1
  BY <1>1, Parameters
<1>3. Fits(leftover)'
  BY <1>1 DEF Fits
<1>4. \A p : Merge!Present(p)' = Merge!Present(p)
  BY <1>1 DEF Merge!Present, Merge!Lookup
<1>5. \A e, p : Merge!IsNewest(e, p)' = Merge!IsNewest(e, p)
  BY <1>1, <1>4 DEF Merge!IsNewest, Merge!Lookup
<1>6. call.undisturbed =>
        /\ call.found = Merge!Nothing <=> Merge!Present(call.path) = {}
        /\ call.found # Merge!Nothing => Merge!IsNewest(call.found, call.path)
  BY <1>1, <1>2, FoundIsNewest
<1>7. ASSUME NEW a, Merge!Answer(a), call.undisturbed => Merge!AnswersFound' PROVE MergeInv'
  <2>1. /\ CallShape' /\ call'.pc = "done" /\ call'.what = call.what
        /\ call'.undisturbed = call.undisturbed
    BY <1>1, <1>7 DEF Merge!Answer, CallShape
  <2>2. Merge!MergeAnswers'
    BY <1>1, <1>7, <2>1 DEF Merge!MergeAnswers
  <2> QED
    BY <1>3, <2>1, <2>2 DEF MergeInv, CallPoint, Finding, Listing
<1>8. ASSUME NEW a, Merge!Answer(a)
      PROVE  /\ call'.answer = a /\ call'.path = call.path /\ call'.what = call.what
             /\ call'.write = call.write
  BY <1>1, <1>8 DEF Merge!Answer, CallShape
<1>9. CASE call.found = Merge!Nothing
  <2>1. Merge!Answer(<<call.errno>>)
    BY <1>9 DEF Merge!Found
  <2>2. call.undisturbed => Merge!AnswersFound'
    BY <1>1, <1>4, <1>6, <1>8, <1>9, <2>1 DEF Merge!AnswersFound
  <2> QED
    BY <1>7, <2>1, <2>2
<1>10. CASE call.found # Merge!Nothing /\ call.what = "getattr"
  <2>1. Merge!Answer(<<call.found.kind, call.found>>)
    BY <1>10 DEF Merge!Found
  <2>2. call.undisturbed => Merge!AnswersFound'
    BY <1>4, <1>5, <1>6, <1>8, <1>10, <2>1 DEF Merge!AnswersFound
  <2> QED
    BY <1>7, <2>1, <2>2
<1>11. CASE call.found # Merge!Nothing /\ call.what = "open" /\ call.write
  <2>1. Merge!Answer(<<"EACCES">>)
    BY <1>11 DEF Merge!Found
  <2>2. call.undisturbed => Merge!AnswersFound'
    BY <1>4, <1>6, <1>8, <1>11, <2>1 DEF Merge!AnswersFound
  <2> QED
    BY <1>7, <2>1, <2>2
<1>12. CASE call.found # Merge!Nothing /\ call.what = "open" /\ ~call.write
  <2>1. call' = [call EXCEPT !.pc = "open"]
    BY <1>12 DEF Merge!Found
  <2>2. /\ CallShape' /\ call'.pc = "open" /\ call'.what = "open" /\ call'.write = call.write
        /\ call'.found = call.found /\ call'.where = call.where /\ call'.path = call.path
        /\ call'.undisturbed = call.undisturbed /\ call'.errno = call.errno
    BY <1>1, <1>12, <2>1 DEF CallShape
  <2>3. CallPoint'
    BY <1>1, <1>12, <2>2 DEF CallPoint
  <2>4. Finding'
    BY <1>1, <1>2, <1>12, <2>2 DEF Finding, NewestBefore, Merge!Lookup
  <2> QED
    BY <1>3, <2>2, <2>3, <2>4 DEF MergeInv, Listing, Merge!MergeAnswers
<1> QED
  BY <1>1, <1>9, <1>10, <1>11, <1>12

LEMMA OpenInv == ASSUME MergeInv, Merge!Open PROVE MergeInv'
<1> DEFINE e == Merge!Lookup(call.where, call.path)
<1>1. /\ call.pc = "open" /\ call.what = "open" /\ fh = Merge!Closed /\ ~call.write
      /\ CallShape /\ Fits(leftover)
      /\ UNCHANGED <<directories, leftover, changes>>
      /\ call.undisturbed => NewestBefore(Directories + 1) /\ call.found # Merge!Nothing
  BY DEF Merge!Open, MergeInv, CallPoint, Finding
<1>2. Fits(leftover)'
  BY <1>1 DEF Fits
<1>3. call.undisturbed =>
        /\ Merge!Present(call.path) # {} /\ e # Merge!Nothing /\ Merge!IsNewest(e, call.path)
  BY <1>1, FoundIsNewest
<1>4. CASE e = Merge!Nothing
  <2>1. Merge!Answer(<<Merge!Errno(call.where, call.path)>>) /\ UNCHANGED fh
    BY <1>4 DEF Merge!Open
  <2>2. CallShape' /\ call'.pc = "done" /\ call'.undisturbed = call.undisturbed
        /\ call'.what = "open"
    BY <1>1, <2>1 DEF Merge!Answer, CallShape
  <2> QED
    BY <1>2, <1>3, <1>4, <2>2 DEF MergeInv, CallPoint, Finding, Listing,
       Merge!MergeAnswers
<1>5. CASE e # Merge!Nothing
  <2>1. Merge!Answer(<<"ok">>) /\ fh' = [Merge!Closed EXCEPT !.is = e]
    BY <1>5 DEF Merge!Open
  <2>2. CallShape' /\ call'.pc = "done" /\ call'.undisturbed = call.undisturbed
        /\ call'.what = "open" /\ call'.path = call.path /\ call'.answer = <<"ok">>
        /\ call'.write = call.write /\ fh'.is = e
    BY <1>1, <2>1 DEF Merge!Answer, CallShape, Merge!Closed
  <2>3. call.undisturbed => Merge!AnswersFound'
    BY <1>1, <1>3, <2>2 DEF Merge!AnswersFound, Merge!Present, Merge!IsNewest,
       Merge!Lookup
  <2>4. Merge!MergeAnswers'
    BY <2>2, <2>3 DEF Merge!MergeAnswers
  <2> QED
    BY <1>2, <2>2, <2>4 DEF MergeInv, CallPoint, Finding, Listing
<1> QED
  BY <1>4, <1>5

LEMMA ReleaseInv == ASSUME MergeInv, Merge!Release PROVE MergeInv'
<1>1. /\ call.pc = "done" /\ fh' = Merge!Closed /\ UNCHANGED <<directories, call, leftover, changes>>
      /\ CallShape /\ Fits(leftover) /\ Merge!MergeAnswers
  BY DEF Merge!Release, MergeInv
<1>2. CallShape'
  BY <1>1 DEF CallShape, Merge!Closed
<1>3. Merge!MergeAnswers'
  <2>1. ASSUME call.undisturbed, call.what \in {"getattr", "open"}, call.path # << >>
        PROVE  Merge!AnswersFound'
    <3>1. Merge!AnswersFound
      BY <1>1, <2>1 DEF Merge!MergeAnswers
    <3> QED
      BY <1>1, <3>1 DEF Merge!AnswersFound, Merge!Present, Merge!IsNewest,
         Merge!Lookup
  <2>2. ASSUME call.undisturbed, call.what = "readdir" PROVE Merge!AnswersNames'
    <3>1. Merge!AnswersNames
      BY <1>1, <2>2 DEF Merge!MergeAnswers
    <3>2. directories' = directories /\ call' = call
      BY <1>1
    <3>3. Merge!AnswersNames' = Merge!AnswersNames
      BY <3>2 DEF Merge!AnswersNames, Merge!SetOf, Merge!Union, Merge!NamesIn,
         Merge!Visible, Merge!Least
    <3> QED
      BY <3>1, <3>3
  <2> QED
    BY <1>1, <2>1, <2>2 DEF Merge!MergeAnswers
<1> QED
  BY <1>1, <1>2, <1>3 DEF MergeInv, CallPoint, Finding, Listing, Fits

LEMMA ReadInv == ASSUME MergeInv, Merge!Read PROVE MergeInv'
<1> DEFINE size == Merge!Least(call.size, Pages - fh.pos)
           data == [k \in 1..size |-> <<fh.is.data, fh.pos + k>>]
<1>1. /\ call.pc = "read" /\ call.what = "read" /\ CallShape /\ Fits(leftover)
      /\ UNCHANGED <<directories, leftover, changes>>
  BY DEF Merge!Read, MergeInv, CallPoint
<1>2. Fits(leftover)'
  BY <1>1 DEF Fits
<1>3. CASE fh.is.kind = "dir"
  <2>1. Merge!Answer(<<"EISDIR">>) /\ UNCHANGED fh
    BY <1>3 DEF Merge!Read
  <2>2. CallShape' /\ call'.pc = "done" /\ call'.what = "read"
    BY <1>1, <2>1 DEF Merge!Answer, CallShape
  <2> QED
    BY <1>2, <1>3, <2>1, <2>2 DEF MergeInv, CallPoint, Finding, Listing,
       Merge!MergeAnswers
<1>4. CASE fh.is.kind # "dir"
  <2>1. /\ Merge!Answer(<<"data", data>>)
        /\ fh' = [fh EXCEPT !.pos = fh.pos + size, !.inOrder = @ /\ call.off = fh.pos]
    BY <1>4 DEF Merge!Read, Merge!ReadFrom
  <2> HIDE DEF data
  <2>2. /\ CallShape' /\ call'.pc = "done" /\ call'.what = "read"
        /\ call'.answer = <<"data", data>> /\ call'.size = call.size /\ call'.off = call.off
        /\ fh'.is = fh.is /\ (fh'.inOrder <=> fh.inOrder /\ call.off = fh.pos)
    BY <1>1, <2>1 DEF Merge!Answer, CallShape
  <2>3. Merge!MergeAnswers'
    <3>1. fh'.inOrder => call.off = fh.pos
      BY <2>2
    <3> QED
      BY <2>2, <3>1 DEF Merge!MergeAnswers, data, Merge!Least
  <2> QED
    BY <1>2, <2>2, <2>3 DEF MergeInv, CallPoint, Finding, Listing
<1> QED
  BY <1>3, <1>4

-----------------------------------------------------------------------------
(* readdir: the names of one directory more, as many as there is room for. *)
LEMMA SeenNext ==
  ASSUME NEW i \in 1..Directories
  PROVE  Seen(i + 1) = Seen(i) \cup Merge!NamesIn(i, call.path)
<1>1. (i + 1) - 1 = i /\ 1..i = 1..i - 1 \cup {i}
  BY Parameters
<1> QED
  BY <1>1 DEF Seen

LEMMA ListDirectoryInv == ASSUME MergeInv, Merge!ListDirectory PROVE MergeInv'
<1> DEFINE new == Merge!NewNames(Merge!NamesIn(call.i, call.path))
           dict == call.files_dict
           space == kMaxNumberOfFiles - Cardinality(dict)
           room == Merge!Least(Cardinality(new), space)
<1>1. /\ call.pc = "list" /\ call.i <= Directories /\ call.i \in 1..Directories
      /\ CallShape /\ Fits(leftover) /\ call.what = "readdir"
      /\ UNCHANGED <<directories, fh, leftover, changes>>
  BY Parameters DEF Merge!ListDirectory, MergeInv, CallPoint
<1> DEFINE Lists(order, n) ==
             call' = [call EXCEPT !.i = @ + 1, !.listed = @ \o SubSeq(order, 1, n),
                                  !.files_dict = @ \cup {SubSeq(order, 1, n)[k] : k \in 1..n}]
<1>2. PICK order \in Merge!Orders(new) : Lists(order, room)
  <2> DEFINE theirs == Merge!Least(Merge!Cardinality(new),
                                   kMaxNumberOfFiles - Merge!Cardinality(dict))
  <2>1. \E order \in Merge!Orders(new) : Lists(order, theirs)
    BY DEF Merge!ListDirectory
  <2>2. theirs = room
    BY SameSizes
  <2> HIDE DEF theirs, room, Lists
  <2> QED
    BY <2>1, <2>2
<1> DEFINE filled == SubSeq(order, 1, room)
<1>3. /\ Fits(dict) /\ call.listed \in Seq(dict) /\ Distinct(call.listed)
      /\ call.clean => dict = Merge!SetOf(call.listed)
      /\ call.undisturbed => Merge!SetOf(call.listed) \subseteq Seen(call.i)
      /\ call.undisturbed /\ call.clean =>
           dict = Seen(call.i) \/ Cardinality(dict) = kMaxNumberOfFiles
  BY <1>1 DEF MergeInv, Listing
<1>4. new = Merge!NamesIn(call.i, call.path) \ dict
  BY DEF Merge!NewNames
<1> HIDE DEF new
<1>5. IsFiniteSet(new) /\ Cardinality(new) \in Nat /\ new \cap dict = {}
  <2>1. IsFiniteSet(Merge!NamesIn(call.i, call.path))
    BY <1>1, NamesFinite
  <2>2. IsFiniteSet(new)
    BY <1>4, <2>1, FS_Difference
  <2> QED
    BY <1>4, <2>2, FS_CardinalityType
<1>6. Cardinality(dict) \in Nat /\ Cardinality(dict) <= kMaxNumberOfFiles
  BY <1>3, FS_CardinalityType DEF Fits
<1>7. /\ room \in 0..Cardinality(new) /\ room + Cardinality(dict) <= kMaxNumberOfFiles
      /\ room # Cardinality(new) => room + Cardinality(dict) = kMaxNumberOfFiles
  BY <1>5, <1>6, Parameters DEF Merge!Least
<1> HIDE DEF room
<1>8. /\ filled \in Seq(new) /\ Distinct(filled)
      /\ Merge!SetOf(filled) = {filled[k] : k \in 1..room} /\ Merge!SetOf(filled) \subseteq new
      /\ IsFiniteSet(Merge!SetOf(filled)) /\ Cardinality(Merge!SetOf(filled)) = room
      /\ room = Cardinality(new) => Merge!SetOf(filled) = new
  BY <1>5, <1>7, Filled
<1> DEFINE more == dict \cup Merge!SetOf(filled)
<1>9. /\ CallShape' /\ call'.pc = "list" /\ call'.what = "readdir" /\ call'.i = call.i + 1
      /\ call'.listed = call.listed \o filled /\ call'.files_dict = more
      /\ call'.path = call.path /\ call'.undisturbed = call.undisturbed
      /\ call'.clean = call.clean
  BY <1>1, <1>2, <1>8 DEF CallShape
<1> HIDE DEF filled
<1>10. IsFiniteSet(more) /\ Cardinality(more) = Cardinality(dict) + room
  <2>1. dict \cap Merge!SetOf(filled) = {}
    BY <1>5, <1>8
  <2>2. IsFiniteSet(dict)
    BY <1>3 DEF Fits
  <2>3. /\ IsFiniteSet(more)
        /\ Cardinality(more) = Cardinality(dict) + room - Cardinality(dict \cap Merge!SetOf(filled))
    BY <1>8, <2>2, FS_Union
  <2>4. Cardinality(dict \cap Merge!SetOf(filled)) = 0
    BY <2>1, FS_EmptySet
  <2> QED
    BY <1>6, <1>7, <2>3, <2>4
<1>11. Fits(more)
  BY <1>6, <1>7, <1>10 DEF Fits
<1>12. /\ call.listed \o filled \in Seq(more) /\ Distinct(call.listed \o filled)
       /\ Merge!SetOf(call.listed \o filled) = Merge!SetOf(call.listed) \cup Merge!SetOf(filled)
  <2>1. Merge!SetOf(call.listed) \subseteq dict
    BY <1>3 DEF Merge!SetOf
  <2>2. Merge!SetOf(call.listed) \cap Merge!SetOf(filled) = {}
    BY <1>5, <1>8, <2>1
  <2>3. call.listed \in Seq(more)
    <3>1. \A s \in Seq(dict) : s \in Seq(more)
      OBVIOUS
    <3> QED
      BY <1>3, <3>1
  <2>4. filled \in Seq(more)
    <3>1. filled \in Seq(Merge!SetOf(filled))
      BY <1>8 DEF Merge!SetOf
    <3>2. \A s \in Seq(Merge!SetOf(filled)) : s \in Seq(more)
      OBVIOUS
    <3> QED
      BY <3>1, <3>2
  <2> HIDE DEF more
  <2> QED
    BY <1>3, <1>8, <2>2, <2>3, <2>4, Joined
<1>13. Seen(call.i)' = Seen(call.i) \cup Merge!NamesIn(call.i, call.path)
  <2>1. Seen(call.i)' = Seen(call.i + 1)
    BY <1>1, <1>9 DEF Seen, Merge!NamesIn, Merge!Visible
  <2> QED
    BY <1>1, <2>1, SeenNext
<1>14. call.clean => more = Merge!SetOf(call.listed \o filled)
  BY <1>3, <1>12
<1>15. call.undisturbed => Merge!SetOf(call.listed \o filled) \subseteq Seen(call.i)'
  BY <1>3, <1>4, <1>8, <1>12, <1>13
<1>16. call.undisturbed /\ call.clean =>
         more = Seen(call.i)' \/ Cardinality(more) = kMaxNumberOfFiles
  <2>1. CASE Cardinality(dict) = kMaxNumberOfFiles
    BY <1>6, <1>7, <1>10, <2>1, Parameters
  <2>2. CASE room # Cardinality(new)
    BY <1>6, <1>7, <1>10, <2>2
  <2>3. CASE room = Cardinality(new) /\ dict = Seen(call.i)
    BY <1>4, <1>8, <1>13, <2>3
  <2> QED
    BY <1>3, <2>1, <2>2, <2>3
<1> HIDE DEF more
<1>17. Listing'
  BY <1>9, <1>11, <1>12, <1>14, <1>15, <1>16 DEF Listing, Fits
<1>18. CallPoint'
  BY <1>1, <1>9, Parameters DEF CallPoint
<1>19. Fits(leftover)'
  BY <1>1 DEF Fits
<1> QED
  BY <1>9, <1>17, <1>18, <1>19 DEF MergeInv, Finding, Merge!MergeAnswers

LEMMA ListedInv == ASSUME MergeInv, Merge!Listed PROVE MergeInv'
<1> DEFINE dict == call.files_dict
           U == Merge!Union(call.path)
<1>1. /\ call.pc = "list" /\ call.i = Directories + 1 /\ CallShape /\ call.what = "readdir"
      /\ UNCHANGED <<directories, fh, changes>> /\ leftover' = dict
      /\ Merge!Answer(<<"names", call.listed>>)
  BY Parameters DEF Merge!Listed, MergeInv, CallPoint
<1>2. /\ Fits(dict) /\ call.listed \in Seq(dict) /\ Distinct(call.listed)
      /\ call.clean => dict = Merge!SetOf(call.listed)
      /\ call.undisturbed => Merge!SetOf(call.listed) \subseteq Seen(call.i)
      /\ call.undisturbed /\ call.clean =>
           dict = Seen(call.i) \/ Cardinality(dict) = kMaxNumberOfFiles
  BY <1>1 DEF MergeInv, Listing
<1>3. Seen(call.i) = U
  <2>1. (Directories + 1) - 1 = Directories
    BY Parameters
  <2> QED
    BY <1>1, <2>1 DEF Seen, Merge!Union
<1>4. /\ CallShape' /\ call'.pc = "done" /\ call'.what = "readdir" /\ call'.path = call.path
      /\ call'.answer = <<"names", call.listed>> /\ call'.clean = call.clean
      /\ call'.undisturbed = call.undisturbed
  BY <1>1 DEF Merge!Answer, CallShape
<1>5. Cardinality(Merge!SetOf(call.listed)) = Len(call.listed)
  BY <1>2, AsManyAsLong
<1>6. IsFiniteSet(U) /\ Cardinality(U) \in Nat
  <2> DEFINE N == {Merge!NamesIn(i, call.path) : i \in 1..Directories}
             f == [i \in 1..Directories |-> Merge!NamesIn(i, call.path)]
  <2>1. \A T \in N : IsFiniteSet(T)
    BY <1>1, NamesFinite
  <2>2. f \in Surjection(1..Directories, N)
    BY DEF Surjection
  <2>3. IsFiniteSet(1..Directories)
    BY FS_Interval, Parameters
  <2>4. IsFiniteSet(N)
    BY <2>2, <2>3, FS_Surjection
  <2>5. IsFiniteSet(UNION N)
    BY <2>1, <2>4, FS_UNION
  <2> QED
    BY <2>5, FS_CardinalityType DEF Merge!Union
<1>7. ASSUME call.undisturbed, call.clean
      PROVE  Len(call.listed) = Merge!Least(Cardinality(U), kMaxNumberOfFiles)
  <2>1. /\ Cardinality(dict) = Len(call.listed) /\ dict \subseteq U
        /\ dict = U \/ Cardinality(dict) = kMaxNumberOfFiles
    BY <1>2, <1>3, <1>5, <1>7
  <2>2. Cardinality(dict) <= Cardinality(U)
    BY <1>6, <2>1, FS_Subset
  <2>3. Cardinality(dict) <= kMaxNumberOfFiles /\ Cardinality(dict) \in Nat
    BY <1>2, FS_CardinalityType DEF Fits
  <2>4. CASE dict = U
    BY <1>6, <2>1, <2>3, <2>4, Parameters DEF Merge!Least
  <2>5. CASE Cardinality(dict) = kMaxNumberOfFiles
    BY <1>6, <2>1, <2>2, <2>5, Parameters DEF Merge!Least
  <2> QED
    BY <2>1, <2>4, <2>5
<1>8. Merge!Union(call.path)' = U
  BY <1>1, <1>4 DEF Merge!Union, Merge!NamesIn, Merge!Visible
<1>9. call.undisturbed => Merge!AnswersNames'
  <2>1. call.undisturbed => Merge!SetOf(call.listed) \subseteq U
    BY <1>2, <1>3
  <2> HIDE DEF U
  <2>2. call'.answer[2] = call.listed
    BY <1>4
  <2>3. Merge!SetOf(call'.answer[2]) = Merge!SetOf(call.listed)
    BY <2>2
  <2> QED
    BY <1>4, <1>5, <1>7, <1>8, <2>1, <2>2, <2>3, SameSizes DEF Merge!AnswersNames,
       Merge!Least, Merge!SetOf
<1>10. Merge!MergeAnswers'
  BY <1>4, <1>9 DEF Merge!MergeAnswers
<1>11. Fits(leftover)'
  BY <1>1, <1>2 DEF Fits
<1> QED
  BY <1>4, <1>10, <1>11 DEF MergeInv, CallPoint, Finding, Listing

-----------------------------------------------------------------------------
LEMMA ChangeInv == ASSUME MergeInv, Merge!Change PROVE MergeInv'
<1>1. /\ UNCHANGED <<fh, leftover>> /\ call' = [call EXCEPT !.undisturbed = FALSE]
      /\ \E i \in 1..Directories, tree \in Trees : directories' = [directories EXCEPT ![i] = tree]
      /\ CallShape /\ CallPoint /\ Fits(leftover) /\ Listing /\ Merge!MergeAnswers
  BY DEF Merge!Change, MergeInv
<1>2. /\ CallShape' /\ call'.undisturbed = FALSE /\ call'.pc = call.pc
      /\ call'.what = call.what /\ call'.i = call.i /\ call'.errno = call.errno
      /\ call'.write = call.write /\ call'.files_dict = call.files_dict
      /\ call'.listed = call.listed /\ call'.clean = call.clean
      /\ call'.answer = call.answer /\ call'.size = call.size /\ call'.off = call.off
  BY <1>1 DEF CallShape
<1>3. CallPoint'
  BY <1>1, <1>2 DEF CallPoint
<1>4. Listing'
  BY <1>1, <1>2 DEF Listing, Fits, Distinct, Merge!SetOf
<1>5. Merge!MergeAnswers'
  BY <1>1, <1>2 DEF Merge!MergeAnswers, Merge!Least
<1> QED
  BY <1>1, <1>2, <1>3, <1>4, <1>5 DEF MergeInv, Finding, Fits

LEMMA MergeStutter == ASSUME MergeInv, UNCHANGED Merge!vars PROVE MergeInv'
<1>1. directories' = directories /\ call' = call /\ fh' = fh /\ leftover' = leftover
  BY DEF Merge!vars
<1>2. CallShape' /\ CallPoint' /\ Fits(leftover)'
  BY <1>1 DEF MergeInv, CallShape, CallPoint, Fits
<1>3. Finding'
  BY <1>1 DEF MergeInv, Finding, NewestBefore, Merge!Lookup
<1>4. Listing'
  <2>1. Seen(call.i)' = Seen(call.i)
    BY <1>1 DEF Seen, Merge!NamesIn, Merge!Visible
  <2>2. Merge!SetOf(call.listed)' = Merge!SetOf(call.listed)
    BY <1>1 DEF Merge!SetOf
  <2> QED
    BY <1>1, <2>1, <2>2 DEF MergeInv, Listing, Fits, Distinct
<1>5. Merge!MergeAnswers'
  <2>1. Merge!AnswersFound' = Merge!AnswersFound
    BY <1>1 DEF Merge!AnswersFound, Merge!Present, Merge!IsNewest, Merge!Lookup
  <2>2. Merge!AnswersNames' = Merge!AnswersNames
    BY <1>1 DEF Merge!AnswersNames, Merge!SetOf, Merge!Union, Merge!NamesIn,
       Merge!Visible, Merge!Least
  <2> QED
    BY <1>1, <2>1, <2>2 DEF MergeInv, Merge!MergeAnswers, Merge!Least
<1> QED
  BY <1>2, <1>3, <1>4, <1>5 DEF MergeInv

LEMMA MergeStep == MergeInv /\ [Merge!Next]_(Merge!vars) => MergeInv'
BY BeginInv, StatInv, FoundInv, OpenInv, ReleaseInv, ReadInv, ListDirectoryInv,
   ListedInv,
   ChangeInv, MergeStutter DEF Merge!Next


-----------------------------------------------------------------------------
(* 22_fuse/2_unzipfs.                                                      *)

(* What an operation is made of, running or not.                           *)
OpShape(r) ==
  r = [pc |-> r.pc, call |-> r.call, path |-> r.path, write |-> r.write, off |-> r.off,
       size |-> r.size, i |-> r.i, use |-> r.use, entry |-> r.entry,
       listed |-> r.listed, answer |-> r.answer, alone |-> r.alone]

(* The search has not passed the first entry with the path.                *)
NotBefore(i, path) == i \in 1..Len(archive) + 1 /\ \A j \in 1..i - 1 : archive[j].path # path
IsFirst(i, path) == i \in DOMAIN archive /\ archive[i].path = path /\ NotBefore(i, path)

Cleared(b) == b = [dir |-> Zip!Text(<< >>, FALSE), entry |-> Zip!NoEntry]
EntryNames == {Zip!Last(archive[j].path) : j \in DOMAIN archive}

(* The loop over the entries, for each of its uses.                        *)
Searching(r, b) ==
  /\ r.i \in 1..Len(archive) + 1
  /\ \/ r.use = r.call /\ r.path # << >> /\ NotBefore(r.i, r.path)
     \/ /\ r.use = "dirname" /\ r.call = "readdir" /\ Cleared(b)
        /\ r.path # << >> => NotBefore(r.i, r.path) /\ Zip!Here(r.path) # {}
     \/ /\ r.use = "list" /\ r.call = "readdir" /\ Zip!IsDir(r.path)
        /\ b.entry = Zip!NoEntry /\ b.dir = Zip!Text(r.path, TRUE)
        /\ r.listed \in Seq(EntryNames) /\ Zip!AreNamesBefore(r.i, r.listed, r.path)

(* The buffers at each point of an operation that runs alone.              *)
Undisturbed(r, nm, b) ==
  /\ r.call \in {"getattr", "readdir", "open", "read"} /\ r.path \in Zip!Paths
  /\ r.call = "read" => /\ Zip!Sensible(r) /\ r.path # << >> /\ Zip!Here(r.path) # {}
                        /\ r.off \in Nat /\ r.size \in Nat \ {0}
  /\ r.use # "list" \/ r.pc \in {"readdir", "clear", "dirname"} => r.listed = << >>
  /\ r.pc \in {"reset", "strcat", "compare", "null", "filler"} => Searching(r, b)
  /\ r.pc \in {"strcat", "compare", "filler"} => r.i \in DOMAIN archive
  /\ r.pc = "strcat" => nm = Zip!Root
  /\ r.pc \in {"strcat", "compare"} => (r.use = "dirname" => r.path # << >>)
  /\ r.pc \in {"compare", "filler"} => nm = Zip!TextOf(archive[r.i])
  /\ r.pc = "compare" => r.use # "list"
  /\ r.pc = "filler" => r.use = "list"
  /\ r.pc = "null" => r.i = Len(archive) + 1 /\ (r.use = "dirname" => r.path # << >>)
  /\ r.pc \in {"open", "getattr", "read", "readdir"} => r.call = r.pc
  /\ r.pc \in {"open", "getattr", "read", "readdir", "zip_stat", "zip_fread"} =>
       IsFirst(r.i, r.path) /\ nm = Zip!TextOf(archive[r.i])
  /\ r.pc = "zip_stat" => r.call = "getattr" /\ ~archive[r.i].dir
  /\ r.pc = "zip_fread" => r.call = "read"
  /\ r.pc = "memcpy" => /\ r.call = "read" /\ IsFirst(r.entry, r.path)
                        /\ b.entry = r.entry /\ Zip!was_read(r, r.entry) <= BufPages
  /\ r.pc = "clear" => r.call = "readdir" /\ (r.path # << >> => Zip!Here(r.path) # {})
  /\ r.pc = "dirname" =>
       /\ r.call = "readdir" /\ Cleared(b)
       /\ IF r.path = << >> THEN nm = Zip!Root
          ELSE IsFirst(r.i, r.path) /\ nm = Zip!TextOf(archive[r.i])

(* Who runs alone runs undisturbed, and who ran alone has answered right.  *)
Solo(t) ==
  /\ op[t].alone /\ Zip!Running(t) =>
       /\ \A u \in Threads \ {t} : ~Zip!Running(u)
       /\ Undisturbed(op[t], name, buf)
  /\ ~Zip!Running(t) /\ op[t].call # "none" /\ op[t].alone => Zip!IsRight(op[t])

ZipInv ==
  /\ archive \in Archives
  /\ op = [t \in Threads |-> op[t]]
  /\ \A t \in Threads : OpShape(op[t]) /\ Solo(t)

LEMMA ArchiveFacts ==
  ASSUME archive \in Archives
  PROVE  /\ archive \in Seq([path : Zip!Paths, dir : BOOLEAN, pages : Nat])
         /\ Len(archive) \in Nat /\ DOMAIN archive = 1..Len(archive)
         /\ \A i \in DOMAIN archive :
              /\ archive[i].path \in Zip!Paths /\ archive[i].path # << >>
              /\ archive[i].dir \in BOOLEAN /\ archive[i].pages \in Nat
         /\ BufPages \in Nat /\ ZipPaths \subseteq Zip!Paths
<1>1. /\ archive \in Seq([path : Zip!Paths, dir : BOOLEAN, pages : Nat])
      /\ \A i \in DOMAIN archive : archive[i].path # << >>
      /\ BufPages \in Nat /\ ZipPaths \subseteq Zip!Paths
  BY FileSystemsAssumption DEF Zip!ArchiveAssumption
<1>2. Len(archive) \in Nat /\ DOMAIN archive = 1..Len(archive)
  BY <1>1
<1>3. \A i \in 1..Len(archive) : archive[i] \in [path : Zip!Paths, dir : BOOLEAN, pages : Nat]
  <2> DEFINE E == [path : Zip!Paths, dir : BOOLEAN, pages : Nat]
  <2>1. archive \in Seq(E)
    BY <1>1
  <2> HIDE DEF E
  <2>2. \A i \in 1..Len(archive) : archive[i] \in E
    BY <2>1
  <2> QED
    BY <2>2 DEF E
<1>4. \A i \in 1..Len(archive) :
        archive[i].path \in Zip!Paths /\ archive[i].dir \in BOOLEAN /\ archive[i].pages \in Nat
  BY <1>3
<1> QED
  BY <1>1, <1>2, <1>4

(* The first entry with a path, and the first entry with its name.         *)
LEMMA TheFirst ==
  ASSUME archive \in Archives, NEW path, NEW i, IsFirst(i, path)
  PROVE  /\ Zip!Here(path) # {} /\ Zip!First(path) = i /\ Zip!EntryOf(path) = archive[i]
         /\ Zip!Entries(Zip!TextOf(archive[i])) # {} /\ Zip!FirstEntry(Zip!TextOf(archive[i])) = i
<1>1. /\ i \in 1..Len(archive) /\ archive[i].path = path /\ Len(archive) \in Nat
      /\ \A j \in 1..i - 1 : archive[j].path # path
      /\ DOMAIN archive = 1..Len(archive)
  BY ArchiveFacts DEF IsFirst, NotBefore
<1>2. ASSUME NEW j \in 1..Len(archive), archive[j].path = path PROVE i <= j
  BY <1>1, <1>2
<1>3. i \in Zip!Here(path) /\ \A j \in Zip!Here(path) : i <= j
  BY <1>1, <1>2 DEF Zip!Here
<1>4. \A k \in Zip!Here(path) : k \in Int /\ ((\A j \in Zip!Here(path) : k <= j) => k = i)
  BY <1>1, <1>3 DEF Zip!Here
<1>5. Zip!First(path) = i
  BY <1>3, <1>4 DEF Zip!First
<1>6. i \in Zip!Entries(Zip!TextOf(archive[i])) /\ Zip!Entries(Zip!TextOf(archive[i])) \subseteq Zip!Here(path)
  BY <1>1 DEF Zip!Entries, Zip!Here, Zip!TextOf, Zip!Text
<1>7. Zip!FirstEntry(Zip!TextOf(archive[i])) = i
  <2> DEFINE E == Zip!Entries(Zip!TextOf(archive[i]))
  <2>1. i \in E /\ \A j \in E : i <= j
    BY <1>3, <1>6
  <2>2. \A k \in E : (\A j \in E : k <= j) => k = i
    BY <1>4, <1>6, <2>1, <1>1 DEF Zip!Here
  <2> HIDE DEF E
  <2> QED
    BY <2>1, <2>2 DEF Zip!FirstEntry, E
<1> QED
  BY <1>3, <1>5, <1>6, <1>7 DEF Zip!EntryOf

(* A search that has passed all entries has passed none with the path.     *)
LEMMA NoneHere ==
  ASSUME archive \in Archives, NEW path, NotBefore(Len(archive) + 1, path)
  PROVE  Zip!Here(path) = {}
<1>1. (Len(archive) + 1) - 1 = Len(archive) /\ DOMAIN archive = 1..Len(archive)
  BY ArchiveFacts
<1> QED
  BY <1>1 DEF NotBefore, Zip!Here

LEMMA SearchOn ==
  ASSUME archive \in Archives, NEW path, NEW i \in DOMAIN archive, NotBefore(i, path)
  PROVE  IF archive[i].path = path THEN IsFirst(i, path) ELSE NotBefore(i + 1, path)
<1>1. i \in 1..Len(archive) /\ Len(archive) \in Nat
  BY ArchiveFacts
<1>2. \A j \in 1..(i + 1) - 1 : j = i \/ j \in 1..i - 1
  BY <1>1
<1>3. i + 1 \in 1..Len(archive) + 1
  BY <1>1
<1> QED
  BY <1>2, <1>3 DEF NotBefore, IsFirst

LEMMA SearchBegins == ASSUME archive \in Archives, NEW path PROVE NotBefore(1, path)
<1>1. 1 \in 1..Len(archive) + 1
  BY ArchiveFacts
<1> QED
  BY <1>1 DEF NotBefore

(* A name behind the slash that the buffer begins with.                    *)
LEMMA Behind ==
  ASSUME archive \in Archives, NEW i \in DOMAIN archive
  PROVE  Zip!Strcat(Zip!Root, Zip!TextOf(archive[i])) = Zip!TextOf(archive[i])
<1> DEFINE p == archive[i].path
<1>1. p \in Zip!Paths
  BY ArchiveFacts
<1>2. << >> \o p = p
  BY <1>1 DEF Zip!Paths
<1> QED
  BY <1>2 DEF Zip!Strcat, Zip!Root, Zip!TextOf, Zip!Text

(* The names of the entries inside a directory, one entry further.         *)
LEMMA NoNamesYet == ASSUME NEW path PROVE Zip!AreNamesBefore(1, << >>, path)
<1> DEFINE at == [k \in {} |-> 0]
<1>1. DOMAIN << >> = {} /\ 1..1 - 1 = {}
  OBVIOUS
<1>2. at \in [DOMAIN << >> -> 1..1 - 1]
  BY <1>1
<1> HIDE DEF at
<1> QED
  BY <1>1, <1>2 DEF Zip!AreNamesBefore

LEMMA Outside ==
  ASSUME archive \in Archives, NEW i \in DOMAIN archive, NEW path, NEW names,
         Zip!AreNamesBefore(i, names, path), ~Zip!Inside(i, path)
  PROVE  Zip!AreNamesBefore(i + 1, names, path)
<1>1. i \in Nat /\ (i + 1) - 1 = i /\ i >= 1
  BY ArchiveFacts
<1>2. PICK at \in [DOMAIN names -> 1..i - 1] :
        /\ \A j, k \in DOMAIN names : j < k => at[j] < at[k]
        /\ \A j \in 1..i - 1 : Zip!Inside(j, path) <=> \E k \in DOMAIN names : at[k] = j
        /\ \A k \in DOMAIN names : names[k] = Zip!Last(archive[at[k]].path)
  BY DEF Zip!AreNamesBefore
<1>3. at \in [DOMAIN names -> 1..i]
  <2>1. 1..i - 1 \subseteq 1..i
    BY <1>1
  <2> QED
    BY <2>1
<1>4. \A j \in 1..i : Zip!Inside(j, path) <=> \E k \in DOMAIN names : at[k] = j
  <2>1. \A k \in DOMAIN names : at[k] # i
    BY <1>1
  <2>2. \A j \in 1..i : j = i \/ j \in 1..i - 1
    BY <1>1
  <2> QED
    BY <1>2, <2>1, <2>2
<1> QED
  BY <1>1, <1>2, <1>3, <1>4 DEF Zip!AreNamesBefore

LEMMA NameAdded ==
  ASSUME archive \in Archives, NEW i \in DOMAIN archive, NEW path, NEW names \in Seq(EntryNames),
         Zip!AreNamesBefore(i, names, path), Zip!Inside(i, path)
  PROVE  /\ Append(names, Zip!Last(archive[i].path)) \in Seq(EntryNames)
         /\ Zip!AreNamesBefore(i + 1, Append(names, Zip!Last(archive[i].path)), path)
<1> DEFINE last == Zip!Last(archive[i].path)
           more == Append(names, last)
           m == Len(names)
<1>1. i \in Nat /\ (i + 1) - 1 = i /\ i >= 1
  BY ArchiveFacts
<1>2. last \in EntryNames
  BY DEF EntryNames
<1>3. /\ more \in Seq(EntryNames) /\ m \in Nat /\ DOMAIN names = 1..m /\ DOMAIN more = 1..m + 1
      /\ more[m + 1] = last /\ \A k \in 1..m : more[k] = names[k]
  BY <1>2
<1> HIDE DEF last, more, m
<1>4. PICK at \in [1..m -> 1..i - 1] :
        /\ \A j, k \in 1..m : j < k => at[j] < at[k]
        /\ \A j \in 1..i - 1 : Zip!Inside(j, path) <=> \E k \in 1..m : at[k] = j
        /\ \A k \in 1..m : names[k] = Zip!Last(archive[at[k]].path)
  BY <1>3 DEF Zip!AreNamesBefore
<1> DEFINE to == [k \in 1..m + 1 |-> IF k = m + 1 THEN i ELSE at[k]]
<1>5. /\ \A k \in 1..m + 1 : k = m + 1 \/ k \in 1..m
      /\ \A k \in 1..m : k # m + 1 /\ k \in 1..m + 1 /\ k < m + 1
      /\ m + 1 \in 1..m + 1
      /\ \A j \in 1..i : j = i \/ j \in 1..i - 1
      /\ \A j \in 1..i - 1 : j \in 1..i /\ j < i
      /\ i \in 1..i
  BY <1>1, <1>3
<1>6. to[m + 1] = i /\ \A k \in 1..m : to[k] = at[k] /\ at[k] \in 1..i - 1
  BY <1>5
<1>7. to \in [1..m + 1 -> 1..i]
  BY <1>5
<1> HIDE DEF to
<1>8. ASSUME NEW j \in 1..m + 1, NEW k \in 1..m + 1, j < k PROVE to[j] < to[k]
  <2>1. j \in 1..m
    BY <1>3, <1>8
  <2>2. CASE k = m + 1
    BY <1>5, <1>6, <2>1, <2>2
  <2>3. CASE k \in 1..m
    BY <1>4, <1>6, <1>8, <2>1, <2>3
  <2> QED
    BY <1>5, <2>2, <2>3
<1>9. ASSUME NEW j \in 1..i PROVE Zip!Inside(j, path) <=> \E k \in 1..m + 1 : to[k] = j
  <2>1. CASE j = i
    BY <1>5, <1>6, <2>1
  <2>2. CASE j \in 1..i - 1
    <3>1. to[m + 1] # j
      BY <1>5, <1>6, <2>2
    <3>2. (\E k \in 1..m + 1 : to[k] = j) <=> \E k \in 1..m : at[k] = j
      BY <1>5, <1>6, <3>1
    <3> QED
      BY <1>4, <2>2, <3>2
  <2> QED
    BY <1>5, <2>1, <2>2
<1>10. \A k \in 1..m + 1 : more[k] = Zip!Last(archive[to[k]].path)
  BY <1>3, <1>4, <1>5, <1>6 DEF last
<1>11. Zip!AreNamesBefore(i + 1, more, path)
  <2>1. to \in [DOMAIN more -> 1..(i + 1) - 1]
    BY <1>1, <1>3, <1>7
  <2>2. \A j, k \in DOMAIN more : j < k => to[j] < to[k]
    BY <1>3, <1>8
  <2>3. \A j \in 1..(i + 1) - 1 : Zip!Inside(j, path) <=> \E k \in DOMAIN more : to[k] = j
    BY <1>1, <1>3, <1>9
  <2>4. \A k \in DOMAIN more : more[k] = Zip!Last(archive[to[k]].path)
    BY <1>3, <1>10
  <2> QED
    BY <2>1, <2>2, <2>3, <2>4 DEF Zip!AreNamesBefore
<1> QED
  BY <1>3, <1>11 DEF more, last

-----------------------------------------------------------------------------
LEMMA SameArchive ==
  ASSUME archive' = archive, NEW r, NEW nm, NEW b
  PROVE  (Undisturbed(r, nm, b)' <=> Undisturbed(r, nm, b)) /\ (Zip!IsRight(r)' <=> Zip!IsRight(r))
<1>1. \A path : Zip!Here(path)' = Zip!Here(path) /\ Zip!First(path)' = Zip!First(path)
               /\ Zip!EntryOf(path)' = Zip!EntryOf(path)
  BY DEF Zip!Here, Zip!First, Zip!EntryOf
<1>2. \A path : (Zip!IsDir(path)' <=> Zip!IsDir(path))
  BY <1>1 DEF Zip!IsDir
<1>3. \A i, path : (NotBefore(i, path)' <=> NotBefore(i, path))
  BY DEF NotBefore
<1>4. \A i, path : (IsFirst(i, path)' <=> IsFirst(i, path))
  BY <1>3 DEF IsFirst
<1>5. \A i, names, path : (Zip!AreNamesBefore(i, names, path)' <=> Zip!AreNamesBefore(i, names, path))
  BY DEF Zip!AreNamesBefore, Zip!Inside
<1>6. Searching(r, b)' <=> Searching(r, b)
  BY <1>1, <1>2, <1>3, <1>5 DEF Searching, EntryNames
<1>7. (Zip!Sensible(r)' <=> Zip!Sensible(r)) /\ \A i : Zip!was_read(r, i)' = Zip!was_read(r, i)
  BY <1>1 DEF Zip!Sensible, Zip!was_read
<1>8. Undisturbed(r, nm, b)' <=> Undisturbed(r, nm, b)
  BY <1>1, <1>4, <1>6, <1>7 DEF Undisturbed
<1>9. Zip!Expected(r)' = Zip!Expected(r)
  <2>1. /\ Zip!Here(r.path)' = Zip!Here(r.path) /\ Zip!First(r.path)' = Zip!First(r.path)
        /\ Zip!EntryOf(r.path)' = Zip!EntryOf(r.path) /\ (Zip!IsDir(r.path)' <=> Zip!IsDir(r.path))
    BY <1>1, <1>2
  <2>2. [k \in 1..r.size |-> <<Zip!First(r.path), r.off + k>>]'
          = [k \in 1..r.size |-> <<Zip!First(r.path), r.off + k>>]
    BY <2>1
  <2>3. <<"data", [k \in 1..r.size |-> <<Zip!First(r.path), r.off + k>>]>>'
          = <<"data", [k \in 1..r.size |-> <<Zip!First(r.path), r.off + k>>]>>
    BY <2>2
  <2>4. <<"file", Zip!EntryOf(r.path).pages>>' = <<"file", Zip!EntryOf(r.path).pages>>
    BY <2>1
  <2>5. CASE r.path # << >> /\ Zip!Here(r.path) = {}
    BY <2>1, <2>5 DEF Zip!Expected
  <2>6. CASE ~(r.path # << >> /\ Zip!Here(r.path) = {})
    <3>1. CASE r.call = "getattr"
      BY <2>1, <2>4, <2>6, <3>1 DEF Zip!Expected
    <3>2. CASE r.call = "open" \/ r.call = "readdir"
      BY <2>1, <2>6, <3>2 DEF Zip!Expected
    <3>3. CASE r.call \notin {"getattr", "open", "readdir"}
      BY <2>1, <2>3, <2>6, <3>3 DEF Zip!Expected
    <3> QED
      BY <3>1, <3>2, <3>3
  <2> QED
    BY <2>5, <2>6
<1> QED
  BY <1>2, <1>5, <1>8, <1>9 DEF Zip!IsRight


(* A step of a thread's own operation that leaves the archive alone.       *)
LEMMA OwnStep ==
  ASSUME ZipInv, NEW t \in Threads, Zip!Running(t), archive' = archive, NEW r, OpShape(r),
         op' = [op EXCEPT ![t] = r], r.alone = op[t].alone,
         r.alone /\ r.pc # "done" => Undisturbed(r, name', buf'),
         r.alone /\ r.pc = "done" => Zip!IsRight(r)
  PROVE  ZipInv'
<1>1. /\ archive \in Archives /\ op = [u \in Threads |-> op[u]]
      /\ \A u \in Threads : OpShape(op[u]) /\ Solo(u)
  BY DEF ZipInv
<1>2. op'[t] = r /\ (\A u \in Threads \ {t} : op'[u] = op[u]) /\ op' = [u \in Threads |-> op'[u]]
  BY <1>1
<1>3. \A u \in Threads \ {t} : ~(op[u].alone /\ Zip!Running(u))
  BY <1>1 DEF Solo
<1>4. \A u \in Threads \ {t} : Zip!Running(u)' <=> Zip!Running(u)
  BY <1>2 DEF Zip!Running
<1>5. OpShape(op[t])' /\ Solo(t)'
  <2>1. OpShape(op[t])'
    BY <1>2 DEF OpShape
  <2>2. ASSUME r.alone, r.pc # "done"
        PROVE  (\A u \in Threads \ {t} : ~Zip!Running(u)') /\ Undisturbed(r, name, buf)'
    <3>1. \A u \in Threads \ {t} : ~Zip!Running(u)
      BY <1>1, <2>2 DEF Solo
    <3>2. Undisturbed(r, name', buf')
      BY <2>2
    <3> QED
      BY <1>4, <3>1, <3>2, SameArchive
  <2>3. ASSUME r.alone, r.pc = "done" PROVE Zip!IsRight(r)'
    BY <2>3, SameArchive
  <2> QED
    BY <1>2, <2>1, <2>2, <2>3 DEF Solo, Zip!Running
<1>6. ASSUME NEW u \in Threads \ {t} PROVE OpShape(op[u])' /\ Solo(u)'
  <2>1. OpShape(op[u])'
    BY <1>1, <1>2, <1>6 DEF OpShape
  <2>2. ~Zip!Running(u) /\ op[u].call # "none" /\ op[u].alone => Zip!IsRight(op[u])'
    <3>1. ~Zip!Running(u) /\ op[u].call # "none" /\ op[u].alone => Zip!IsRight(op[u])
      BY <1>1 DEF Solo
    <3> QED
      BY <1>2, <3>1, SameArchive
  <2> QED
    BY <1>2, <1>3, <1>4, <2>1, <2>2 DEF Solo
<1> QED
  BY <1>1, <1>2, <1>5, <1>6 DEF ZipInv

(* Two operations at different points, with the same request and search.   *)
Alike(r, s) ==
  /\ s.call = r.call /\ s.path = r.path /\ s.off = r.off /\ s.size = r.size
  /\ s.write = r.write /\ s.i = r.i /\ s.use = r.use /\ s.listed = r.listed

LEMMA AlikeSearch ==
  ASSUME NEW r, NEW s, Alike(r, s), NEW b
  PROVE  /\ Zip!Sensible(s) <=> Zip!Sensible(r)
         /\ Searching(s, b) <=> Searching(r, b)
         /\ \A i : Zip!was_read(s, i) = Zip!was_read(r, i)
BY DEF Alike, Zip!Sensible, Searching, Zip!was_read

LEMMA Moved ==
  ASSUME NEW r, OpShape(r), NEW pc, NEW s, s = [r EXCEPT !.pc = pc]
  PROVE  OpShape(s) /\ Alike(r, s) /\ s.pc = pc /\ s.alone = r.alone
<1>1. s = [pc |-> pc, call |-> r.call, path |-> r.path, write |-> r.write, off |-> r.off,
           size |-> r.size, i |-> r.i, use |-> r.use, entry |-> r.entry,
           listed |-> r.listed, answer |-> r.answer, alone |-> r.alone]
  BY DEF OpShape
<1> QED
  BY <1>1 DEF OpShape, Alike

LEMMA Alone ==
  ASSUME ZipInv, NEW t \in Threads
  PROVE  /\ archive \in Archives /\ OpShape(op[t]) /\ op = [u \in Threads |-> op[u]]
         /\ op[t].alone /\ Zip!Running(t) => Undisturbed(op[t], name, buf)
BY DEF ZipInv, Solo

(* A step to another point of the operation, and one that answers.         *)
LEMMA GotoStep ==
  ASSUME ZipInv, NEW t \in Threads, Zip!Running(t), archive' = archive, NEW pc, pc # "done",
         Zip!Goto(t, pc),
         ASSUME NEW s, Alike(op[t], s), s.pc = pc, Undisturbed(op[t], name, buf)
         PROVE  Undisturbed(s, name', buf')
  PROVE  ZipInv'
<1> DEFINE s == [op[t] EXCEPT !.pc = pc]
<1>1. OpShape(s) /\ Alike(op[t], s) /\ s.pc = pc /\ s.alone = op[t].alone
  BY Alone, Moved
<1>2. op' = [op EXCEPT ![t] = s]
  BY Alone DEF Zip!Goto
<1> HIDE DEF s
<1>3. s.alone /\ s.pc # "done" => Undisturbed(s, name', buf')
  BY <1>1, Alone
<1> QED
  BY <1>1, <1>2, <1>3, OwnStep

LEMMA AnswerStep ==
  ASSUME ZipInv, NEW t \in Threads, Zip!Running(t), archive' = archive, NEW a, Zip!Answer(t, a),
         ASSUME NEW s, Alike(op[t], s), s.answer = a, Undisturbed(op[t], name, buf)
         PROVE  Zip!IsRight(s)
  PROVE  ZipInv'
<1> DEFINE s == [op[t] EXCEPT !.pc = "done", !.answer = a]
<1>1. OpShape(s) /\ Alike(op[t], s) /\ s.pc = "done" /\ s.answer = a /\ s.alone = op[t].alone
  <2> DEFINE r == op[t]
  <2>1. r = [pc |-> r.pc, call |-> r.call, path |-> r.path, write |-> r.write, off |-> r.off,
             size |-> r.size, i |-> r.i, use |-> r.use, entry |-> r.entry,
             listed |-> r.listed, answer |-> r.answer, alone |-> r.alone]
    BY Alone DEF OpShape
  <2>2. s = [r EXCEPT !.pc = "done", !.answer = a]
    OBVIOUS
  <2> HIDE DEF r, s
  <2>3. s = [pc |-> "done", call |-> r.call, path |-> r.path, write |-> r.write, off |-> r.off,
             size |-> r.size, i |-> r.i, use |-> r.use, entry |-> r.entry,
             listed |-> r.listed, answer |-> a, alone |-> r.alone]
    BY <2>1, <2>2
  <2>4. OpShape(s) /\ Alike(r, s) /\ s.pc = "done" /\ s.answer = a /\ s.alone = r.alone
    BY <2>3 DEF OpShape, Alike
  <2> QED
    BY <2>4 DEF r
<1>2. op' = [op EXCEPT ![t] = s]
  BY Alone DEF Zip!Answer
<1> HIDE DEF s
<1>3. s.alone /\ s.pc = "done" => Zip!IsRight(s)
  BY <1>1, Alone
<1> QED
  BY <1>1, <1>2, <1>3, OwnStep

-----------------------------------------------------------------------------
(* The steps of the search.                                                *)
LEMMA ResetInv == ASSUME ZipInv, NEW t \in Threads, Zip!Reset(t) PROVE ZipInv'
<1> DEFINE X == IF op[t].use = "dirname" /\ op[t].path = << >> THEN "dirname"
                ELSE IF op[t].i > Len(archive) THEN "null" ELSE "strcat"
<1>1. /\ op[t].pc = "reset" /\ name' = Zip!Root /\ Zip!Goto(t, X) /\ Zip!Running(t)
      /\ archive' = archive /\ buf' = buf /\ X # "done"
  BY DEF Zip!Reset, Zip!Running
<1>2. ASSUME NEW s, Alike(op[t], s), s.pc = X, Undisturbed(op[t], name, buf)
      PROVE  Undisturbed(s, name', buf')
  <2> DEFINE r == op[t]
  <2>1. /\ Searching(r, buf) /\ Searching(s, buf) /\ (Zip!Sensible(s) <=> Zip!Sensible(r))
        /\ r.call \in {"getattr", "readdir", "open", "read"} /\ r.path \in Zip!Paths
        /\ r.call = "read" => /\ Zip!Sensible(r) /\ r.path # << >> /\ Zip!Here(r.path) # {}
                              /\ r.off \in Nat /\ r.size \in Nat \ {0}
        /\ r.use # "list" => r.listed = << >>
    BY <1>1, <1>2, AlikeSearch DEF Undisturbed
  <2>2. /\ r.i \in 1..Len(archive) + 1 /\ Len(archive) \in Nat
        /\ DOMAIN archive = 1..Len(archive)
    BY <2>1, Alone, ArchiveFacts DEF Searching
  <2>3. CASE X = "dirname"
    BY <1>1, <1>2, <2>1, <2>3 DEF Undisturbed, Alike, Searching
  <2>4. CASE X = "null"
    <3>1. r.i = Len(archive) + 1 /\ (r.use = "dirname" => r.path # << >>)
      BY <2>2, <2>4
    <3> QED
      BY <1>1, <1>2, <2>1, <2>4, <3>1 DEF Undisturbed, Alike
  <2>5. CASE X = "strcat"
    <3>1. r.i \in DOMAIN archive /\ (r.use = "dirname" => r.path # << >>)
      BY <2>2, <2>5
    <3> QED
      BY <1>1, <1>2, <2>1, <2>5, <3>1 DEF Undisturbed, Alike
  <2> QED
    BY <2>3, <2>4, <2>5
<1> HIDE DEF X
<1> QED
  BY <1>1, <1>2, GotoStep

LEMMA AppendNameInv == ASSUME ZipInv, NEW t \in Threads, Zip!AppendName(t) PROVE ZipInv'
<1> DEFINE X == IF op[t].use = "list" THEN "filler" ELSE "compare"
<1>1. /\ op[t].pc = "strcat" /\ Zip!Goto(t, X) /\ Zip!Running(t) /\ archive' = archive /\ buf' = buf
      /\ name' = Zip!Strcat(name, Zip!TextOf(archive[op[t].i])) /\ X # "done"
  BY DEF Zip!AppendName, Zip!Running
<1>2. ASSUME NEW s, Alike(op[t], s), s.pc = X, Undisturbed(op[t], name, buf)
      PROVE  Undisturbed(s, name', buf')
  <2> DEFINE r == op[t]
  <2>1. /\ Searching(s, buf) /\ (Zip!Sensible(s) <=> Zip!Sensible(r))
        /\ r.call \in {"getattr", "readdir", "open", "read"} /\ r.path \in Zip!Paths
        /\ r.call = "read" => /\ Zip!Sensible(r) /\ r.path # << >> /\ Zip!Here(r.path) # {}
                              /\ r.off \in Nat /\ r.size \in Nat \ {0}
        /\ r.use # "list" => r.listed = << >>
        /\ r.i \in DOMAIN archive /\ name = Zip!Root
        /\ r.use = "dirname" => r.path # << >>
    BY <1>1, <1>2, AlikeSearch DEF Undisturbed
  <2>2. name' = Zip!TextOf(archive[r.i])
    BY <1>1, <2>1, Alone, Behind
  <2>3. CASE X = "filler"
    BY <1>1, <1>2, <2>1, <2>2, <2>3 DEF Undisturbed, Alike
  <2>4. CASE X = "compare"
    BY <1>1, <1>2, <2>1, <2>2, <2>4 DEF Undisturbed, Alike
  <2> QED
    BY <2>3, <2>4
<1> HIDE DEF X
<1> QED
  BY <1>1, <1>2, GotoStep

LEMMA NotFoundInv == ASSUME ZipInv, NEW t \in Threads, Zip!NotFound(t) PROVE ZipInv'
<1> DEFINE r == op[t]
           a == IF r.use \in {"read", "dirname"} THEN Zip!Crash
                ELSE IF r.use = "list" THEN <<"names", r.listed>> ELSE <<"ENOENT">>
<1>1. r.pc = "null" /\ Zip!Answer(t, a) /\ Zip!Running(t) /\ archive' = archive
  <2>1. r.pc = "null" /\ archive' = archive
    BY DEF Zip!NotFound
  <2>2. Zip!Answer(t, a)
    <3>1. CASE r.use \in {"read", "dirname"}
      BY <3>1 DEF Zip!NotFound
    <3>2. CASE r.use = "list"
      BY <3>2 DEF Zip!NotFound
    <3>3. CASE r.use \notin {"read", "dirname", "list"}
      BY <3>3 DEF Zip!NotFound
    <3> QED
      BY <3>1, <3>2, <3>3
  <2> QED
    BY <2>1, <2>2 DEF Zip!Running
<1>2. ASSUME NEW s, Alike(r, s), s.answer = a, Undisturbed(r, name, buf) PROVE Zip!IsRight(s)
  <2>1. /\ Searching(r, buf) /\ r.i = Len(archive) + 1
        /\ r.call \in {"getattr", "readdir", "open", "read"}
        /\ r.use = "dirname" => r.path # << >>
        /\ r.call = "read" => Zip!Here(r.path) # {}
    BY <1>1, <1>2 DEF Undisturbed
  <2>2. CASE r.use = r.call /\ r.path # << >> /\ NotBefore(r.i, r.path)
    <3>1. Zip!Here(r.path) = {}
      BY <2>1, <2>2, Alone, NoneHere
    <3>2. r.call # "read" /\ a = <<"ENOENT">> /\ ~Zip!IsDir(r.path)
      BY <2>1, <2>2, <3>1 DEF Zip!IsDir
    <3>3. s.path = r.path /\ s.call = r.call /\ s.answer = <<"ENOENT">>
      BY <1>2, <3>2 DEF Alike
    <3>4. Zip!Expected(s) = <<"ENOENT">>
      BY <2>2, <3>1, <3>3 DEF Zip!Expected
    <3> QED
      BY <3>2, <3>3, <3>4 DEF Zip!IsRight
  <2>3. CASE r.use = "dirname" /\ NotBefore(r.i, r.path) /\ Zip!Here(r.path) # {}
    BY <2>1, <2>3, Alone, NoneHere
  <2>4. CASE /\ r.use = "list" /\ r.call = "readdir" /\ Zip!IsDir(r.path)
             /\ Zip!AreNamesBefore(r.i, r.listed, r.path)
    <3>1. s.answer = <<"names", r.listed>>
      BY <1>2, <2>4
    <3>2. s.answer[1] = "names" /\ s.answer[2] = r.listed
      BY <3>1
    <3> QED
      BY <1>2, <2>1, <2>4, <3>2 DEF Alike, Zip!IsRight
  <2> QED
    BY <2>1, <2>2, <2>3, <2>4 DEF Searching
<1> HIDE DEF a
<1> QED
  BY <1>1, <1>2, AnswerStep

(* On to the next entry.                                                   *)
LEMMA OnShape ==
  ASSUME NEW r, OpShape(r), NEW s, s = Zip!NextEntry(r)
  PROVE  /\ OpShape(s) /\ s.pc = "reset" /\ s.i = r.i + 1 /\ s.alone = r.alone
         /\ s.call = r.call /\ s.path = r.path /\ s.off = r.off /\ s.size = r.size
         /\ s.write = r.write /\ s.use = r.use /\ s.listed = r.listed
<1>1. s = [pc |-> "reset", call |-> r.call, path |-> r.path, write |-> r.write, off |-> r.off,
           size |-> r.size, i |-> r.i + 1, use |-> r.use, entry |-> r.entry,
           listed |-> r.listed, answer |-> r.answer, alone |-> r.alone]
  BY DEF OpShape, Zip!NextEntry
<1> QED
  BY <1>1 DEF OpShape

LEMMA CompareInv == ASSUME ZipInv, NEW t \in Threads, Zip!Compare(t) PROVE ZipInv'
<1>1. /\ op[t].pc = "compare" /\ Zip!Running(t) /\ UNCHANGED <<archive, name, buf>>
  BY DEF Zip!Compare, Zip!Running
<1>2. CASE Zip!SamePath(op[t].path)
  <2> DEFINE r == op[t]
             s == [r EXCEPT !.pc = r.use]
  <2>1. op' = [op EXCEPT ![t] = s]
    BY <1>2 DEF Zip!Compare, Zip!Goto
  <2>2. OpShape(r)
    BY Alone
  <2>3. OpShape(s) /\ Alike(r, s) /\ s.pc = r.use /\ s.alone = r.alone
    BY <2>2, Moved
  <2> HIDE DEF s
  <2>4. ASSUME s.alone PROVE Undisturbed(s, name', buf') /\ s.pc # "done"
    <3>1. Undisturbed(r, name, buf) /\ archive \in Archives
      BY <1>1, <2>3, <2>4, Alone
    <3>2. /\ Searching(r, buf) /\ r.i \in DOMAIN archive /\ name = Zip!TextOf(archive[r.i])
          /\ r.use # "list" /\ (r.use = "dirname" => r.path # << >>)
          /\ r.listed = << >> /\ r.call \in {"getattr", "readdir", "open", "read"}
          /\ r.path \in Zip!Paths
          /\ r.call = "read" => /\ Zip!Sensible(r) /\ r.path # << >> /\ Zip!Here(r.path) # {}
                                /\ r.off \in Nat /\ r.size \in Nat \ {0}
      BY <1>1, <3>1 DEF Undisturbed
    <3>3. archive[r.i].path = r.path
      BY <1>2, <3>2 DEF Zip!SamePath, Zip!TextOf, Zip!Text
    <3>4. NotBefore(r.i, r.path)
      BY <3>2 DEF Searching
    <3>5. IsFirst(r.i, r.path)
      BY <3>1, <3>2, <3>3, <3>4, SearchOn
    <3>6. \/ r.use = r.call
          \/ r.use = "dirname" /\ r.call = "readdir" /\ Cleared(buf)
      BY <3>2 DEF Searching
    <3>7. Zip!Sensible(s) <=> Zip!Sensible(r)
      BY <2>3, AlikeSearch
    <3>8. CASE r.use = r.call
      BY <1>1, <2>3, <3>2, <3>5, <3>7, <3>8 DEF Undisturbed, Alike
    <3>9. CASE r.use = "dirname" /\ r.call = "readdir" /\ Cleared(buf)
      BY <1>1, <2>3, <3>2, <3>5, <3>9 DEF Undisturbed, Alike
    <3> QED
      BY <3>6, <3>8, <3>9
  <2> QED
    BY <1>1, <2>1, <2>3, <2>4, OwnStep
<1>3. CASE ~Zip!SamePath(op[t].path)
  <2> DEFINE r == op[t]
             s == Zip!NextEntry(r)
  <2>1. op' = [op EXCEPT ![t] = s]
    BY <1>3 DEF Zip!Compare
  <2>2. OpShape(r)
    BY Alone
  <2>3. /\ OpShape(s) /\ s.pc = "reset" /\ s.i = r.i + 1 /\ s.alone = r.alone
        /\ s.call = r.call /\ s.path = r.path /\ s.off = r.off /\ s.size = r.size
        /\ s.write = r.write /\ s.use = r.use /\ s.listed = r.listed
    BY <2>2, OnShape
  <2> HIDE DEF s
  <2>4. ASSUME s.alone PROVE Undisturbed(s, name', buf')
    <3>1. Undisturbed(r, name, buf) /\ archive \in Archives
      BY <1>1, <2>3, <2>4, Alone
    <3>2. /\ Searching(r, buf) /\ r.i \in DOMAIN archive /\ name = Zip!TextOf(archive[r.i])
          /\ r.use # "list" /\ (r.use = "dirname" => r.path # << >>)
      BY <1>1, <3>1 DEF Undisturbed
    <3>3. archive[r.i].path # r.path
      BY <1>3, <3>2 DEF Zip!SamePath, Zip!TextOf, Zip!Text
    <3>4. NotBefore(r.i, r.path)
      BY <3>2 DEF Searching
    <3>5. NotBefore(r.i + 1, r.path)
      BY <3>1, <3>2, <3>3, <3>4, SearchOn
    <3>6. Searching(s, buf) /\ (Zip!Sensible(s) <=> Zip!Sensible(r))
      BY <2>3, <3>2, <3>5 DEF Searching, Zip!Sensible, NotBefore
    <3> QED
      BY <1>1, <2>3, <3>1, <3>2, <3>6 DEF Undisturbed
  <2> QED
    BY <1>1, <2>1, <2>3, <2>4, OwnStep
<1> QED
  BY <1>2, <1>3

LEMMA FillerInv == ASSUME ZipInv, NEW t \in Threads, Zip!Filler(t) PROVE ZipInv'
<1> DEFINE r == op[t]
           taken == buf.entry = Zip!NoEntry /\ Zip!Child(buf.dir)
           q == IF taken THEN Zip!WithName(r, Zip!Last(name.path)) ELSE r
           s == Zip!NextEntry(q)
<1>1. /\ r.pc = "filler" /\ Zip!Running(t) /\ archive' = archive /\ buf' = buf
      /\ op' = [op EXCEPT ![t] = s]
  <2>1. /\ r.pc = "filler" /\ archive' = archive /\ buf' = buf
        /\ taken => op' = [op EXCEPT ![t] =
                             Zip!NextEntry(Zip!WithName(r, Zip!Last(name.path)))]
        /\ ~taken => op' = [op EXCEPT ![t] = Zip!NextEntry(r)]
    BY DEF Zip!Filler
  <2>2. taken => q = Zip!WithName(r, Zip!Last(name.path))
    OBVIOUS
  <2>3. ~taken => q = r
    OBVIOUS
  <2> HIDE DEF q, taken
  <2>4. op' = [op EXCEPT ![t] = s]
    BY <2>1, <2>2, <2>3
  <2> QED
    BY <2>1, <2>4 DEF Zip!Running
<1>2. OpShape(r)
  BY Alone
<1>3. /\ OpShape(q) /\ q.alone = r.alone /\ q.call = r.call /\ q.path = r.path
      /\ q.off = r.off /\ q.size = r.size /\ q.write = r.write /\ q.use = r.use /\ q.i = r.i
      /\ q.listed = IF taken THEN Append(r.listed, Zip!Last(name.path)) ELSE r.listed
  <2>1. CASE ~taken
    BY <1>2, <2>1
  <2>2. CASE taken
    <3> DEFINE l == Append(r.listed, Zip!Last(name.path))
    <3>1. q = [r EXCEPT !.listed = l]
      BY <2>2 DEF Zip!WithName
    <3> HIDE DEF l, q, taken
    <3>2. q = [pc |-> r.pc, call |-> r.call, path |-> r.path, write |-> r.write, off |-> r.off,
               size |-> r.size, i |-> r.i, use |-> r.use, entry |-> r.entry,
               listed |-> l, answer |-> r.answer, alone |-> r.alone]
      BY <1>2, <3>1 DEF OpShape
    <3>3. /\ OpShape(q) /\ q.alone = r.alone /\ q.call = r.call /\ q.path = r.path
          /\ q.off = r.off /\ q.size = r.size /\ q.write = r.write /\ q.use = r.use
          /\ q.i = r.i /\ q.listed = l
      BY <3>2 DEF OpShape
    <3> QED
      BY <2>2, <3>3 DEF l
  <2> QED
    BY <2>1, <2>2
<1> HIDE DEF q
<1>4. /\ OpShape(s) /\ s.pc = "reset" /\ s.i = r.i + 1 /\ s.alone = r.alone
      /\ s.call = r.call /\ s.path = r.path /\ s.off = r.off /\ s.size = r.size
      /\ s.write = r.write /\ s.use = r.use /\ s.listed = q.listed
  BY <1>3, OnShape
<1> HIDE DEF s
<1>5. ASSUME s.alone PROVE Undisturbed(s, name', buf')
  <2>1. Undisturbed(r, name, buf) /\ archive \in Archives
    BY <1>1, <1>4, <1>5, Alone
  <2>2. /\ Searching(r, buf) /\ r.i \in DOMAIN archive /\ name = Zip!TextOf(archive[r.i])
        /\ r.use = "list" /\ r.call \in {"getattr", "readdir", "open", "read"}
        /\ r.path \in Zip!Paths
    BY <1>1, <2>1 DEF Undisturbed
  <2>3. /\ r.call = "readdir" /\ Zip!IsDir(r.path) /\ buf.entry = Zip!NoEntry
        /\ buf.dir = Zip!Text(r.path, TRUE) /\ r.listed \in Seq(EntryNames)
        /\ Zip!AreNamesBefore(r.i, r.listed, r.path)
    BY <2>2 DEF Searching
  <2>4. taken <=> Zip!Inside(r.i, r.path)
    BY <2>2, <2>3 DEF Zip!Child, Zip!Inside, Zip!Text, Zip!TextOf
  <2>5. r.i + 1 \in 1..Len(archive) + 1
    BY <2>1, <2>2, ArchiveFacts
  <2>6. s.listed \in Seq(EntryNames) /\ Zip!AreNamesBefore(r.i + 1, s.listed, r.path)
    <3>1. CASE taken
      <4>1. s.listed = Append(r.listed, Zip!Last(archive[r.i].path))
        BY <1>3, <1>4, <2>2, <3>1 DEF Zip!TextOf, Zip!Text
      <4>2. Zip!Inside(r.i, r.path)
        BY <2>4, <3>1
      <4> QED
        BY <2>1, <2>2, <2>3, <4>1, <4>2, NameAdded
    <3>2. CASE ~taken
      <4>1. s.listed = r.listed /\ ~Zip!Inside(r.i, r.path)
        BY <1>3, <1>4, <2>4, <3>2
      <4> QED
        BY <2>1, <2>2, <2>3, <4>1, Outside
    <3> QED
      BY <3>1, <3>2
  <2>7. Searching(s, buf)
    BY <1>4, <2>2, <2>3, <2>5, <2>6 DEF Searching
  <2> QED
    BY <1>1, <1>4, <2>2, <2>3, <2>7 DEF Undisturbed
<1> QED
  BY <1>1, <1>4, <1>5, OwnStep

-----------------------------------------------------------------------------
(* The operations behind the search.                                       *)
LEMMA MyOpenInv == ASSUME ZipInv, NEW t \in Threads, Zip!MyOpen(t) PROVE ZipInv'
<1> DEFINE r == op[t]
           a == IF r.write THEN <<"EACCES">> ELSE <<"ok">>
<1>1. r.pc = "open" /\ Zip!Answer(t, a) /\ Zip!Running(t) /\ archive' = archive
  BY DEF Zip!MyOpen, Zip!Running
<1>2. ASSUME NEW s, Alike(r, s), s.answer = a, Undisturbed(r, name, buf) PROVE Zip!IsRight(s)
  <2>1. r.call = "open" /\ IsFirst(r.i, r.path)
    BY <1>1, <1>2 DEF Undisturbed
  <2>2. Zip!Here(r.path) # {}
    BY <2>1, Alone, TheFirst
  <2> QED
    BY <1>2, <2>1, <2>2 DEF Alike, Zip!IsRight, Zip!Expected
<1> HIDE DEF a
<1> QED
  BY <1>1, <1>2, AnswerStep

LEMMA ZipStatInv == ASSUME ZipInv, NEW t \in Threads, Zip!ZipStat(t) PROVE ZipInv'
<1> DEFINE r == op[t]
           a == IF Zip!Entries(name) = {} THEN <<"EACCES">>
                ELSE <<"file", archive[Zip!FirstEntry(name)].pages>>
<1>1. r.pc = "zip_stat" /\ Zip!Answer(t, a) /\ Zip!Running(t) /\ archive' = archive
  BY DEF Zip!ZipStat, Zip!Running
<1>2. ASSUME NEW s, Alike(r, s), s.answer = a, Undisturbed(r, name, buf) PROVE Zip!IsRight(s)
  <2>1. /\ r.call = "getattr" /\ IsFirst(r.i, r.path) /\ name = Zip!TextOf(archive[r.i])
        /\ ~archive[r.i].dir
    BY <1>1, <1>2 DEF Undisturbed
  <2>2. /\ Zip!Here(r.path) # {} /\ Zip!EntryOf(r.path) = archive[r.i]
        /\ Zip!Entries(name) # {} /\ Zip!FirstEntry(name) = r.i
    BY <2>1, Alone, TheFirst
  <2>3. r.path # << >>
    BY <2>1, Alone, ArchiveFacts DEF IsFirst
  <2>4. a = <<"file", Zip!EntryOf(r.path).pages>> /\ ~Zip!IsDir(r.path)
    BY <2>1, <2>2, <2>3 DEF Zip!IsDir
  <2> HIDE DEF a
  <2> QED
    BY <1>2, <2>1, <2>2, <2>4 DEF Alike, Zip!IsRight, Zip!Expected
<1> HIDE DEF a
<1> QED
  BY <1>1, <1>2, AnswerStep

LEMMA FoundToListInv == ASSUME ZipInv, NEW t \in Threads, Zip!FoundToList(t) PROVE ZipInv'
<1> DEFINE r == op[t]
<1>1. r.pc = "readdir" /\ Zip!Goto(t, "clear") /\ Zip!Running(t) /\ UNCHANGED <<archive, name, buf>>
  BY DEF Zip!FoundToList, Zip!Running
<1>2. ASSUME NEW s, Alike(r, s), s.pc = "clear", Undisturbed(r, name, buf)
      PROVE  Undisturbed(s, name', buf')
  <2>1. /\ r.call = "readdir" /\ IsFirst(r.i, r.path) /\ r.path \in Zip!Paths /\ r.listed = << >>
    BY <1>1, <1>2 DEF Undisturbed
  <2>2. Zip!Here(r.path) # {}
    BY <2>1, Alone, TheFirst
  <2> QED
    BY <1>2, <2>1, <2>2 DEF Undisturbed, Alike
<1> QED
  BY <1>1, <1>2, GotoStep

LEMMA IsDirectoryInv == ASSUME ZipInv, NEW t \in Threads, Zip!IsDirectory(t) PROVE ZipInv'
<1> DEFINE r == op[t]
<1>1. /\ r.pc \in {"getattr", "read"} /\ Zip!Running(t) /\ UNCHANGED <<archive, name, buf>>
  BY DEF Zip!IsDirectory, Zip!Running
<1>2. ASSUME Undisturbed(r, name, buf)
      PROVE  /\ r.call = r.pc /\ IsFirst(r.i, r.path) /\ name = Zip!TextOf(archive[r.i])
             /\ Zip!Here(r.path) # {} /\ Zip!EntryOf(r.path) = archive[r.i] /\ r.path # << >>
             /\ name.dir = archive[r.i].dir
  <2>1. r.call = r.pc /\ IsFirst(r.i, r.path) /\ name = Zip!TextOf(archive[r.i])
    BY <1>1, <1>2 DEF Undisturbed
  <2>2. Zip!Here(r.path) # {} /\ Zip!EntryOf(r.path) = archive[r.i]
    BY <2>1, Alone, TheFirst
  <2>3. r.path # << >>
    BY <2>1, Alone, ArchiveFacts DEF IsFirst
  <2>4. name.dir = archive[r.i].dir
    BY <2>1 DEF Zip!TextOf, Zip!Text
  <2> QED
    BY <2>1, <2>2, <2>3, <2>4
<1>3. CASE name.dir
  <2> DEFINE a == IF r.pc = "getattr" THEN <<"dir">> ELSE <<"EACCES">>
  <2>1. Zip!Answer(t, a)
    BY <1>3 DEF Zip!IsDirectory
  <2>2. ASSUME NEW s, Alike(r, s), s.answer = a, Undisturbed(r, name, buf) PROVE Zip!IsRight(s)
    <3>1. r.pc = "getattr"
      <4>1. r.call = "read" => ~Zip!EntryOf(r.path).dir
        BY <2>2 DEF Undisturbed, Zip!Sensible
      <4> QED
        BY <1>1, <1>2, <1>3, <2>2, <4>1
    <3>2. Zip!IsDir(r.path)
      BY <1>2, <1>3, <2>2 DEF Zip!IsDir
    <3> QED
      BY <1>2, <2>2, <3>1, <3>2 DEF Alike, Zip!IsRight, Zip!Expected
  <2> HIDE DEF a
  <2> QED
    BY <1>1, <2>1, <2>2, AnswerStep
<1>4. CASE ~name.dir
  <2> DEFINE X == IF r.pc = "getattr" THEN "zip_stat" ELSE "zip_fread"
  <2>1. Zip!Goto(t, X) /\ X # "done"
    BY <1>4 DEF Zip!IsDirectory
  <2>2. ASSUME NEW s, Alike(r, s), s.pc = X, Undisturbed(r, name, buf)
        PROVE  Undisturbed(s, name', buf')
    <3>1. Zip!Sensible(s) <=> Zip!Sensible(r)
      BY <2>2, AlikeSearch
    <3>2. CASE r.pc = "getattr"
      BY <1>1, <1>2, <1>4, <2>2, <3>1, <3>2 DEF Undisturbed, Alike
    <3>3. CASE r.pc = "read"
      BY <1>1, <1>2, <1>4, <2>2, <3>1, <3>3 DEF Undisturbed, Alike
    <3> QED
      BY <1>1, <3>2, <3>3
  <2> HIDE DEF X
  <2> QED
    BY <1>1, <2>1, <2>2, GotoStep
<1> QED
  BY <1>3, <1>4

LEMMA ZipFreadInv == ASSUME ZipInv, NEW t \in Threads, Zip!ZipFread(t) PROVE ZipInv'
<1> DEFINE r == op[t]
           e == Zip!FirstEntry(name)
<1>1. r.pc = "zip_fread" /\ Zip!Running(t) /\ archive' = archive /\ name' = name
  BY DEF Zip!ZipFread, Zip!Running
<1>2. ASSUME Undisturbed(r, name, buf)
      PROVE  /\ r.call = "read" /\ IsFirst(r.i, r.path) /\ Zip!Entries(name) # {} /\ e = r.i
             /\ r.off \in Nat /\ r.size \in Nat \ {0} /\ r.path \in Zip!Paths
             /\ Zip!Sensible(r) /\ r.path # << >> /\ Zip!Here(r.path) # {}
             /\ archive[e].pages \in Nat /\ BufPages \in Nat
  <2>1. /\ r.call = "read" /\ IsFirst(r.i, r.path) /\ name = Zip!TextOf(archive[r.i])
        /\ Zip!Sensible(r) /\ r.path # << >> /\ Zip!Here(r.path) # {} /\ r.path \in Zip!Paths
        /\ r.off \in Nat /\ r.size \in Nat \ {0}
    BY <1>1, <1>2 DEF Undisturbed
  <2>2. Zip!Entries(name) # {} /\ e = r.i
    BY <2>1, Alone, TheFirst
  <2>3. archive[e].pages \in Nat /\ BufPages \in Nat
    BY <2>1, <2>2, Alone, ArchiveFacts DEF IsFirst
  <2> QED
    BY <2>1, <2>2, <2>3
<1>3. CASE Zip!Entries(name) = {} \/ Zip!was_read(r, e) > BufPages
  <2> DEFINE a == IF Zip!Entries(name) = {} THEN <<"EACCES">> ELSE Zip!Crash
  <2>1. Zip!Answer(t, a)
    BY <1>3 DEF Zip!ZipFread
  <2>2. ASSUME NEW s, Alike(r, s), s.answer = a, Undisturbed(r, name, buf) PROVE Zip!IsRight(s)
    <3>1. r.call = "read" /\ r.off + r.size > BufPages
      BY <1>2, <1>3, <2>2 DEF Zip!was_read, Zip!MinOf
    <3> QED
      BY <2>2, <3>1 DEF Alike, Zip!IsRight
  <2> HIDE DEF a
  <2> QED
    BY <1>1, <2>1, <2>2, AnswerStep
<1>4. CASE Zip!Entries(name) # {} /\ ~(Zip!was_read(r, e) > BufPages)
  <2> DEFINE s == [r EXCEPT !.pc = "memcpy", !.entry = e]
  <2>1. op' = [op EXCEPT ![t] = s] /\ buf' = [dir |-> Zip!Root, entry |-> e]
    BY <1>4, Alone DEF Zip!ZipFread
  <2>2. OpShape(r)
    BY Alone
  <2>3. OpShape(s) /\ Alike(r, s) /\ s.pc = "memcpy" /\ s.entry = e /\ s.alone = r.alone
    <3>0. s = [r EXCEPT !.pc = "memcpy", !.entry = e]
      OBVIOUS
    <3> HIDE DEF e, r, s
    <3>1. s = [pc |-> "memcpy", call |-> r.call, path |-> r.path, write |-> r.write,
               off |-> r.off, size |-> r.size, i |-> r.i, use |-> r.use, entry |-> e,
               listed |-> r.listed, answer |-> r.answer, alone |-> r.alone]
      BY <2>2, <3>0 DEF OpShape
    <3> QED
      BY <3>1 DEF OpShape, Alike
  <2> HIDE DEF s
  <2>4. ASSUME s.alone PROVE Undisturbed(s, name', buf')
    <3>1. Undisturbed(r, name, buf)
      BY <1>1, <2>3, <2>4, Alone
    <3>2. (Zip!Sensible(s) <=> Zip!Sensible(r)) /\ Zip!was_read(s, e) = Zip!was_read(r, e)
      BY <2>3, AlikeSearch
    <3>3. Zip!was_read(s, e) <= BufPages
      BY <1>2, <1>4, <3>1, <3>2 DEF Zip!was_read, Zip!MinOf
    <3>4. r.use # "list" => r.listed = << >>
      BY <3>1 DEF Undisturbed
    <3>5. buf'.entry = e
      BY <2>1
    <3> HIDE DEF e
    <3> QED
      BY <1>2, <2>3, <3>1, <3>2, <3>3, <3>4, <3>5 DEF Undisturbed, Alike
  <2> QED
    BY <1>1, <2>1, <2>3, <2>4, OwnStep
<1> QED
  BY <1>3, <1>4

LEMMA MemcpyInv == ASSUME ZipInv, NEW t \in Threads, Zip!Memcpy(t) PROVE ZipInv'
<1> DEFINE r == op[t]
           size == Zip!was_read(r, r.entry) - r.off
           a == <<"data", IF size <= 0 THEN << >> ELSE [k \in 1..size |-> Zip!PageAt(r, k)]>>
<1>1. r.pc = "memcpy" /\ Zip!Answer(t, a) /\ Zip!Running(t) /\ archive' = archive
  BY DEF Zip!Memcpy, Zip!Running
<1>2. ASSUME NEW s, Alike(r, s), s.answer = a, Undisturbed(r, name, buf) PROVE Zip!IsRight(s)
  <2>1. /\ r.call = "read" /\ IsFirst(r.entry, r.path) /\ buf.entry = r.entry
        /\ Zip!was_read(r, r.entry) <= BufPages /\ Zip!Sensible(r) /\ r.path # << >>
        /\ r.off \in Nat /\ r.size \in Nat \ {0}
    BY <1>1, <1>2 DEF Undisturbed
  <2>2. /\ Zip!Here(r.path) # {} /\ Zip!First(r.path) = r.entry
        /\ Zip!EntryOf(r.path) = archive[r.entry]
    BY <2>1, Alone, TheFirst
  <2>3. archive[r.entry].pages \in Nat
    BY <2>1, Alone, ArchiveFacts DEF IsFirst
  <2>4. Zip!was_read(r, r.entry) = r.off + r.size
    BY <2>1, <2>2, <2>3 DEF Zip!Sensible, Zip!was_read, Zip!MinOf
  <2>5. size = r.size /\ ~(size <= 0)
    BY <2>1, <2>4
  <2> HIDE DEF size
  <2>6. \A k : Zip!PageAt(r, k) = <<Zip!First(r.path), r.off + k>>
    BY <2>1, <2>2 DEF Zip!PageAt
  <2>7. [k \in 1..size |-> Zip!PageAt(r, k)] = [k \in 1..r.size |-> <<Zip!First(r.path), r.off + k>>]
    BY <2>5, <2>6
  <2>8. a = <<"data", [k \in 1..r.size |-> <<Zip!First(r.path), r.off + k>>]>>
    BY <2>5, <2>7
  <2> HIDE DEF a
  <2>9. /\ s.call = "read" /\ s.path = r.path /\ s.off = r.off /\ s.size = r.size
        /\ s.answer = <<"data", [k \in 1..s.size |-> <<Zip!First(s.path), s.off + k>>]>>
    BY <1>2, <2>1, <2>8 DEF Alike
  <2>10. Zip!Here(s.path) # {}
    BY <2>2, <2>9
  <2> QED
    BY <2>9, <2>10 DEF Zip!IsRight, Zip!Expected
<1> HIDE DEF a
<1> QED
  BY <1>1, <1>2, AnswerStep

(* A search from the first entry on.                                       *)
LEMMA SearchShape ==
  ASSUME NEW r, OpShape(r), NEW use, NEW s, s = Zip!BeginSearch(r, use)
  PROVE  /\ OpShape(s) /\ s.pc = "reset" /\ s.i = 1 /\ s.use = use /\ s.alone = r.alone
         /\ s.call = r.call /\ s.path = r.path /\ s.off = r.off /\ s.size = r.size
         /\ s.write = r.write /\ s.listed = r.listed /\ s.answer = r.answer
<1>1. s = [pc |-> "reset", call |-> r.call, path |-> r.path, write |-> r.write, off |-> r.off,
           size |-> r.size, i |-> 1, use |-> use, entry |-> r.entry,
           listed |-> r.listed, answer |-> r.answer, alone |-> r.alone]
  BY DEF OpShape, Zip!BeginSearch
<1> QED
  BY <1>1 DEF OpShape

LEMMA ClearInv == ASSUME ZipInv, NEW t \in Threads, Zip!Clear(t) PROVE ZipInv'
<1> DEFINE r == op[t]
           s == Zip!BeginSearch(r, "dirname")
<1>1. /\ r.pc = "clear" /\ Zip!Running(t) /\ archive' = archive /\ name' = name
      /\ buf' = [dir |-> Zip!Text(<< >>, FALSE), entry |-> Zip!NoEntry]
      /\ op' = [op EXCEPT ![t] = s]
  BY DEF Zip!Clear, Zip!Running
<1>2. OpShape(r)
  BY Alone
<1>3. /\ OpShape(s) /\ s.pc = "reset" /\ s.i = 1 /\ s.use = "dirname" /\ s.alone = r.alone
      /\ s.call = r.call /\ s.path = r.path /\ s.off = r.off /\ s.size = r.size
      /\ s.write = r.write /\ s.listed = r.listed
  BY <1>2, SearchShape
<1> HIDE DEF s
<1>4. ASSUME s.alone PROVE Undisturbed(s, name', buf')
  <2>1. Undisturbed(r, name, buf) /\ archive \in Archives
    BY <1>1, <1>3, <1>4, Alone
  <2>2. /\ r.call = "readdir" /\ (r.path # << >> => Zip!Here(r.path) # {})
        /\ r.path \in Zip!Paths /\ r.listed = << >>
    BY <1>1, <2>1 DEF Undisturbed
  <2>3. NotBefore(1, r.path) /\ Cleared(buf')
    BY <1>1, <2>1, SearchBegins DEF Cleared
  <2>4. Searching(s, buf')
    BY <1>3, <2>2, <2>3 DEF Searching, NotBefore
  <2> QED
    BY <1>3, <2>2, <2>4 DEF Undisturbed
<1> QED
  BY <1>1, <1>3, <1>4, OwnStep

LEMMA CopyNameInv == ASSUME ZipInv, NEW t \in Threads, Zip!CopyName(t) PROVE ZipInv'
<1> DEFINE r == op[t]
           dirname == IF buf.dir = Zip!Text(<< >>, FALSE) THEN name ELSE Zip!Strcat(buf.dir, name)
<1>1. /\ r.pc = "dirname" /\ Zip!Running(t) /\ archive' = archive /\ name' = name
      /\ buf' = [buf EXCEPT !.dir = dirname]
  BY DEF Zip!CopyName, Zip!Running
<1>2. ASSUME Undisturbed(r, name, buf)
      PROVE  /\ r.call = "readdir" /\ r.path \in Zip!Paths /\ r.listed = << >>
             /\ dirname = name /\ buf' = [dir |-> dirname, entry |-> Zip!NoEntry]
             /\ dirname = Zip!Text(r.path, dirname.dir) /\ dirname.dir \in BOOLEAN
             /\ IF r.path = << >> THEN dirname.dir
                ELSE Zip!Here(r.path) # {} /\ (Zip!EntryOf(r.path).dir <=> dirname.dir)
  <2>1. /\ r.call = "readdir" /\ Cleared(buf) /\ r.path \in Zip!Paths /\ r.listed = << >>
        /\ IF r.path = << >> THEN name = Zip!Root
           ELSE IsFirst(r.i, r.path) /\ name = Zip!TextOf(archive[r.i])
    BY <1>1, <1>2 DEF Undisturbed
  <2>2. dirname = name
    BY <2>1 DEF Cleared
  <2>3. buf' = [dir |-> dirname, entry |-> Zip!NoEntry]
    <3> HIDE DEF dirname
    <3> QED
      BY <1>1, <2>1 DEF Cleared
  <2> HIDE DEF dirname
  <2>4. CASE r.path = << >>
    <3>1. dirname = [path |-> << >>, dir |-> TRUE]
      BY <2>1, <2>2, <2>4 DEF Zip!Root, Zip!Text
    <3>2. dirname.dir = TRUE
      BY <3>1
    <3>3. dirname = Zip!Text(r.path, dirname.dir)
      BY <2>4, <3>1, <3>2 DEF Zip!Text
    <3> QED
      BY <2>1, <2>2, <2>3, <2>4, <3>2, <3>3
  <2>5. CASE r.path # << >>
    <3>1. /\ IsFirst(r.i, r.path) /\ Zip!Here(r.path) # {} /\ Zip!EntryOf(r.path) = archive[r.i]
      BY <2>1, <2>5, Alone, TheFirst
    <3>2. archive[r.i].path = r.path /\ archive[r.i].dir \in BOOLEAN
      BY <3>1, Alone, ArchiveFacts DEF IsFirst
    <3> QED
      BY <2>1, <2>2, <2>3, <2>5, <3>1, <3>2 DEF Zip!Text, Zip!TextOf
  <2> QED
    BY <2>4, <2>5
<1>3. CASE ~dirname.dir
  <2>1. Zip!Answer(t, <<"EACCES">>)
    BY <1>3 DEF Zip!CopyName
  <2>2. ASSUME NEW s, Alike(r, s), s.answer = <<"EACCES">>, Undisturbed(r, name, buf)
        PROVE  Zip!IsRight(s)
    <3>1. /\ r.call = "readdir" /\ r.path # << >> /\ Zip!Here(r.path) # {} /\ ~Zip!IsDir(r.path)
      BY <1>2, <1>3, <2>2 DEF Zip!IsDir
    <3> QED
      BY <2>2, <3>1 DEF Alike, Zip!IsRight, Zip!Expected
  <2> HIDE DEF dirname
  <2> QED
    BY <1>1, <2>1, <2>2, AnswerStep
<1>4. CASE dirname.dir
  <2> DEFINE s == Zip!BeginSearch(r, "list")
  <2>1. op' = [op EXCEPT ![t] = s]
    BY <1>4 DEF Zip!CopyName
  <2>2. OpShape(r)
    BY Alone
  <2>3. /\ OpShape(s) /\ s.pc = "reset" /\ s.i = 1 /\ s.use = "list" /\ s.alone = r.alone
        /\ s.call = r.call /\ s.path = r.path /\ s.off = r.off /\ s.size = r.size
        /\ s.write = r.write /\ s.listed = r.listed
    BY <2>2, SearchShape
  <2> HIDE DEF s, dirname
  <2>4. ASSUME s.alone PROVE Undisturbed(s, name', buf')
    <3>1. Undisturbed(r, name, buf) /\ archive \in Archives
      BY <1>1, <2>3, <2>4, Alone
    <3>2. /\ buf'.entry = Zip!NoEntry /\ buf'.dir = Zip!Text(r.path, TRUE) /\ Zip!IsDir(r.path)
      BY <1>2, <1>4, <3>1 DEF Zip!IsDir, Zip!Text
    <3>3. Zip!AreNamesBefore(1, << >>, r.path) /\ << >> \in Seq(EntryNames)
      BY NoNamesYet
    <3>4. 1 \in 1..Len(archive) + 1
      BY <3>1, ArchiveFacts
    <3>5. Searching(s, buf')
      BY <1>2, <2>3, <3>1, <3>2, <3>3, <3>4 DEF Searching
    <3> QED
      BY <1>2, <2>3, <3>1, <3>5 DEF Undisturbed
  <2> QED
    BY <1>1, <2>1, <2>3, <2>4, OwnStep
<1> QED
  BY <1>3, <1>4

-----------------------------------------------------------------------------
(* A thread begins an operation.                                           *)
Asks(q, c, p, w, o, z) == q = Zip!Request(c, p, w, o, z)
Enters(s, q, alone) == s = Zip!Enter([q EXCEPT !.alone = alone])

LEMMA Begun ==
  ASSUME archive \in Archives, NEW c \in {"getattr", "readdir", "open", "read"}, NEW p \in Zip!Paths,
         NEW w, NEW o \in Nat, NEW z \in Nat,
         c = "read" => p # << >> /\ Zip!Here(p) # {} /\ z # 0,
         NEW q, Asks(q, c, p, w, o, z), Zip!Sensible(q), NEW alone, NEW s, Enters(s, q, alone)
  PROVE  /\ OpShape(s) /\ s.alone = alone
         /\ s.pc # "done" => \A nm, b : Undisturbed(s, nm, b)
         /\ s.pc = "done" => Zip!IsRight(s)
<1> DEFINE r == [q EXCEPT !.alone = alone]
<1>1. /\ q.call = c /\ q.path = p /\ q.write = w /\ q.off = o /\ q.size = z
      /\ r = [pc |-> "done", call |-> c, path |-> p, write |-> w, off |-> o,
              size |-> z, i |-> 1, use |-> "none", entry |-> Zip!NoEntry,
              listed |-> << >>, answer |-> << >>, alone |-> alone]
  <2>1. q = [pc |-> "done", call |-> c, path |-> p, write |-> w, off |-> o,
             size |-> z, i |-> 1, use |-> "none", entry |-> Zip!NoEntry,
             listed |-> << >>, answer |-> << >>, alone |-> TRUE]
    BY DEF Asks, Zip!Request, Zip!Idle
  <2>2. r = [q EXCEPT !.alone = alone]
    OBVIOUS
  <2> HIDE DEF r
  <2> QED
    BY <2>1, <2>2
<1>2. OpShape(r)
  BY <1>1 DEF OpShape
<1>3. /\ r.call = q.call /\ r.path = q.path /\ r.off = q.off /\ r.size = q.size
      /\ r.write = q.write /\ r.listed = << >> /\ r.alone = alone /\ r.pc = "done"
  BY <1>1
<1>4. s = Zip!Enter(r) /\ Zip!Sensible(r)
  BY <1>1, <1>3 DEF Zip!Sensible, Enters
<1> HIDE DEF r
<1>5. CASE r.path = << >> /\ r.call # "readdir"
  <2> DEFINE a == IF r.call = "getattr" THEN <<"dir">>
                  ELSE IF r.write THEN <<"EACCES">> ELSE <<"ok">>
  <2>1. s = [r EXCEPT !.answer = a]
    BY <1>1, <1>3, <1>4, <1>5 DEF Zip!Enter
  <2> HIDE DEF a
  <2>2. s = [pc |-> r.pc, call |-> r.call, path |-> r.path, write |-> r.write, off |-> r.off,
             size |-> r.size, i |-> r.i, use |-> r.use, entry |-> r.entry,
             listed |-> r.listed, answer |-> a, alone |-> r.alone]
    BY <1>2, <2>1 DEF OpShape
  <2>3. /\ OpShape(s) /\ s.alone = alone /\ s.pc = "done" /\ s.answer = a /\ s.path = r.path
        /\ s.call = r.call /\ s.write = r.write
    BY <1>3, <2>2 DEF OpShape
  <2>4. Zip!IsRight(s)
    BY <1>1, <1>3, <1>5, <2>3 DEF Zip!IsRight, Zip!Expected, Zip!IsDir, a
  <2> QED
    BY <2>3, <2>4
<1>6. CASE r.path = << >> /\ r.call = "readdir"
  <2>1. s = [r EXCEPT !.pc = "clear"]
    BY <1>4, <1>6 DEF Zip!Enter
  <2>2. OpShape(s) /\ Alike(r, s) /\ s.pc = "clear" /\ s.alone = r.alone
    BY <1>2, <2>1, Moved
  <2>3. \A nm, b : Undisturbed(s, nm, b)
    BY <1>1, <1>3, <1>6, <2>2 DEF Alike, Undisturbed
  <2> QED
    BY <1>3, <2>2, <2>3
<1>7. CASE r.path # << >>
  <2>1. s = Zip!BeginSearch(r, r.call)
    BY <1>4, <1>7 DEF Zip!Enter
  <2>2. /\ OpShape(s) /\ s.pc = "reset" /\ s.i = 1 /\ s.use = r.call /\ s.alone = r.alone
        /\ s.call = r.call /\ s.path = r.path /\ s.off = r.off /\ s.size = r.size
        /\ s.write = r.write /\ s.listed = r.listed
    BY <1>2, <2>1, SearchShape
  <2>3. NotBefore(1, r.path) /\ 1 \in 1..Len(archive) + 1
    BY SearchBegins, ArchiveFacts
  <2>4. \A b : Searching(s, b)
    BY <1>7, <2>2, <2>3 DEF Searching
  <2>5. Zip!Sensible(s)
    BY <1>4, <2>2 DEF Zip!Sensible
  <2>6. \A nm, b : Undisturbed(s, nm, b)
    BY <1>1, <1>3, <1>7, <2>2, <2>4, <2>5 DEF Undisturbed
  <2> QED
    BY <1>3, <2>2, <2>6
<1> QED
  BY <1>1, <1>3, <1>5, <1>6, <1>7

Changed(s, r, alone) == s = [r EXCEPT !.alone = alone]

LEMMA AloneNoMore ==
  ASSUME NEW r, OpShape(r), NEW alone, NEW s, Changed(s, r, alone)
  PROVE  OpShape(s) /\ s.pc = r.pc /\ s.call = r.call /\ s.alone = alone
         /\ (Zip!IsRight(r) => Zip!IsRight(s))
<1>1. s = [pc |-> r.pc, call |-> r.call, path |-> r.path, write |-> r.write, off |-> r.off,
           size |-> r.size, i |-> r.i, use |-> r.use, entry |-> r.entry,
           listed |-> r.listed, answer |-> r.answer, alone |-> alone]
  BY DEF OpShape, Changed
<1>2. /\ OpShape(s) /\ s.alone = alone /\ s.pc = r.pc /\ s.call = r.call
      /\ s.path = r.path /\ s.write = r.write /\ s.off = r.off /\ s.size = r.size
      /\ s.answer = r.answer
  BY <1>1 DEF OpShape
<1>3. Zip!IsRight(r) => Zip!IsRight(s)
  BY <1>2 DEF Zip!IsRight, Zip!Expected
<1> QED
  BY <1>2, <1>3

LEMMA BeginWithInv ==
  ASSUME ZipInv, NEW t \in Threads, NEW c \in {"getattr", "readdir", "open", "read"},
         NEW p \in Zip!Paths, NEW w, NEW o \in Nat, NEW z \in Nat,
         c = "read" => p # << >> /\ Zip!Here(p) # {} /\ z # 0,
         Zip!BeginWith(t, Zip!Request(c, p, w, o, z))
  PROVE  ZipInv'
<1> DEFINE q == Zip!Request(c, p, w, o, z)
           others == {u \in Threads \ {t} : Zip!Running(u)}
           alone == others = {}
           s == Zip!Enter([q EXCEPT !.alone = alone])
           More(u) == op[u].alone /\ ~Zip!Running(u)
           after(u) == [op[u] EXCEPT !.alone = More(u)]
<1>1. /\ ~Zip!Running(t) /\ Zip!Sensible(q) /\ archive' = archive
      /\ op' = [u \in Threads |-> IF u = t THEN s ELSE after(u)]
  BY DEF Zip!BeginWith
<1>2. archive \in Archives /\ \A u \in Threads : OpShape(op[u]) /\ Solo(u)
  BY DEF ZipInv
<1>3. /\ OpShape(s) /\ s.alone = alone
      /\ s.pc # "done" => \A nm, b : Undisturbed(s, nm, b)
      /\ s.pc = "done" => Zip!IsRight(s)
  <2>1. Asks(q, c, p, w, o, z) /\ Enters(s, q, alone)
    BY DEF Asks, Enters
  <2>2. archive \in Archives /\ Zip!Sensible(q)
    BY <1>1, <1>2
  <2> HIDE DEF alone, q, s
  <2>3. /\ OpShape(s) /\ s.alone = alone
        /\ s.pc # "done" => \A nm, b : Undisturbed(s, nm, b)
        /\ s.pc = "done" => Zip!IsRight(s)
    BY <2>1, <2>2, Begun
  <2> QED
    BY <2>3
<1>4. ASSUME NEW u \in Threads
      PROVE  /\ OpShape(after(u)) /\ after(u).pc = op[u].pc /\ after(u).call = op[u].call
             /\ after(u).alone = More(u) /\ (Zip!IsRight(op[u]) => Zip!IsRight(after(u)))
  <2>1. OpShape(op[u])
    BY <1>2
  <2>2. Changed(after(u), op[u], More(u))
    BY DEF Changed
  <2> HIDE DEF More, after
  <2> QED
    BY <2>1, <2>2, AloneNoMore
<1> HIDE DEF s, after
<1>5. /\ op' = [u \in Threads |-> op'[u]] /\ op'[t] = s
      /\ \A u \in Threads \ {t} : op'[u] = after(u)
  BY <1>1
<1>6. \A u \in Threads \ {t} : Zip!Running(u)' <=> Zip!Running(u)
  BY <1>4, <1>5 DEF Zip!Running
<1>7. OpShape(op[t])' /\ Solo(t)'
  <2>1. OpShape(op[t])'
    BY <1>3, <1>5 DEF OpShape
  <2>2. s.alone => \A u \in Threads \ {t} : ~Zip!Running(u)'
    BY <1>3, <1>6
  <2>3. op'[t].pc # "done" => Undisturbed(op[t], name, buf)'
    <3>1. op'[t].pc # "done" => Undisturbed(op'[t], name', buf')
      BY <1>3, <1>5
    <3> QED
      BY <1>1, <3>1, SameArchive
  <2>4. op'[t].pc = "done" => Zip!IsRight(op[t])'
    <3>1. op'[t].pc = "done" => Zip!IsRight(op'[t])
      BY <1>3, <1>5
    <3> QED
      BY <1>1, <3>1, SameArchive
  <2> HIDE DEF alone
  <2> QED
    BY <1>5, <2>1, <2>2, <2>3, <2>4 DEF Solo, Zip!Running
<1>8. ASSUME NEW u \in Threads \ {t} PROVE OpShape(op[u])' /\ Solo(u)'
  <2>1. OpShape(op[u])'
    BY <1>4, <1>5 DEF OpShape
  <2>2. op'[u].alone => op[u].alone /\ ~Zip!Running(u)
    BY <1>4, <1>5
  <2>3. op'[u].alone /\ op'[u].call # "none" => Zip!IsRight(op[u])'
    <3>1. op'[u].alone /\ op'[u].call # "none" => Zip!IsRight(op[u])
      BY <1>2, <1>4, <1>5, <2>2 DEF Solo
    <3>2. op'[u].alone /\ op'[u].call # "none" => Zip!IsRight(op'[u])
      BY <1>4, <1>5, <3>1
    <3> QED
      BY <1>1, <3>2, SameArchive
  <2> QED
    BY <1>6, <2>1, <2>2, <2>3 DEF Solo
<1> QED
  BY <1>1, <1>2, <1>5, <1>7, <1>8 DEF ZipInv

LEMMA BeginsInv == ASSUME ZipInv, NEW t \in Threads, Zip!Begin(t) PROVE ZipInv'
<1>1. ZipPaths \subseteq Zip!Paths /\ archive \in Archives
  BY FileSystemsAssumption DEF Zip!ArchiveAssumption, ZipInv
<1>2. CASE \E c \in {"getattr", "readdir"}, p \in ZipPaths :
             Zip!BeginWith(t, Zip!Request(c, p, FALSE, 0, 0))
  BY <1>1, <1>2, BeginWithInv
<1>3. CASE \E p \in ZipPaths, w \in BOOLEAN : Zip!BeginWith(t, Zip!Request("open", p, w, 0, 0))
  BY <1>1, <1>3, BeginWithInv
<1>4. CASE \E i \in {j \in DOMAIN archive : ~archive[j].dir}, o \in 0..BufPages,
              s \in 1..BufPages + 1 : Zip!BeginWith(t, Zip!Request("read", archive[i].path, FALSE, o, s))
  <2>1. PICK i \in DOMAIN archive, o \in 0..BufPages, s \in 1..BufPages + 1 :
          Zip!BeginWith(t, Zip!Request("read", archive[i].path, FALSE, o, s))
    BY <1>4
  <2>2. /\ archive[i].path \in Zip!Paths /\ archive[i].path # << >>
        /\ i \in Zip!Here(archive[i].path) /\ o \in Nat /\ s \in Nat /\ s # 0
    BY <1>1, ArchiveFacts DEF Zip!Here
  <2> QED
    BY <2>1, <2>2, BeginWithInv
<1> QED
  BY <1>2, <1>3, <1>4 DEF Zip!Begin

LEMMA ZipInit == Zip!Init => ZipInv
<1> SUFFICES ASSUME Zip!Init PROVE ZipInv
  OBVIOUS
<1>1. archive \in Archives /\ op = [t \in Threads |-> Zip!Idle]
  BY DEF Zip!Init
<1>2. ASSUME NEW t \in Threads PROVE OpShape(op[t]) /\ Solo(t)
  <2>1. op[t] = Zip!Idle
    BY <1>1
  <2>2. OpShape(Zip!Idle) /\ Zip!Idle.pc = "done" /\ Zip!Idle.call = "none"
    BY DEF OpShape, Zip!Idle
  <2> QED
    BY <2>1, <2>2 DEF Solo, Zip!Running
<1> QED
  BY <1>1, <1>2 DEF ZipInv

LEMMA ZipStutter == ASSUME ZipInv, UNCHANGED Zip!vars PROVE ZipInv'
<1>1. UNCHANGED <<archive, name, buf, op>>
  BY DEF Zip!vars
<1>2. ASSUME NEW t \in Threads PROVE OpShape(op[t])' /\ Solo(t)'
  <2>1. OpShape(op[t]) /\ Solo(t)
    BY DEF ZipInv
  <2>2. OpShape(op[t])'
    BY <1>1, <2>1 DEF OpShape
  <2>3. /\ Undisturbed(op[t], name, buf) => Undisturbed(op[t], name, buf)'
        /\ Zip!IsRight(op[t]) => Zip!IsRight(op[t])'
    BY <1>1, SameArchive
  <2>4. \A u \in Threads : Zip!Running(u)' <=> Zip!Running(u)
    BY <1>1 DEF Zip!Running
  <2> QED
    BY <1>1, <2>1, <2>2, <2>3, <2>4 DEF Solo
<1> QED
  BY <1>1, <1>2 DEF ZipInv

LEMMA ZipStep == ZipInv /\ [Zip!Next]_(Zip!vars) => ZipInv'
<1> SUFFICES ASSUME ZipInv, [Zip!Next]_(Zip!vars) PROVE ZipInv'
  OBVIOUS
<1>1. ASSUME NEW t \in Threads, Zip!Step(t) PROVE ZipInv'
  BY <1>1, BeginsInv, ResetInv, AppendNameInv, CompareInv, NotFoundInv, MyOpenInv,
     IsDirectoryInv, ZipStatInv, ZipFreadInv, MemcpyInv, FoundToListInv, ClearInv,
     CopyNameInv, FillerInv DEF Zip!Step
<1>2. CASE UNCHANGED Zip!vars
  BY <1>2, ZipStutter
<1> QED
  BY <1>1, <1>2 DEF Zip!Next

LEMMA ZipInvAnswers == ZipInv => Zip!ZipAnswers
BY DEF ZipInv, Solo, Zip!ZipAnswers

-----------------------------------------------------------------------------
(* One file system runs at a time.                                         *)
FilesInv ==
  /\ mounted = "simplefs" => SimpleInv
  /\ mounted # "simplefs" => Simple!Unmounted
  /\ mounted = "mergefs" => MergeInv
  /\ mounted # "mergefs" => Merge!Unmounted
  /\ mounted = "unzipfs" => ZipInv
  /\ mounted # "unzipfs" => Zip!Unmounted

LEMMA FilesInit == Init => FilesInv
BY SimpleInit, MergeInit, ZipInit DEF Init, FilesInv

LEMMA SimpleStays == ASSUME Simple!Unmounted, UNCHANGED simple PROVE Simple!Unmounted'
BY DEF simple, Simple!Unmounted, Simple!None, Simple!Closed

LEMMA MergeStays == ASSUME Merge!Unmounted, UNCHANGED merge PROVE Merge!Unmounted'
BY DEF merge, Merge!Unmounted

LEMMA ZipStays == ASSUME Zip!Unmounted, UNCHANGED zip PROVE Zip!Unmounted'
BY DEF zip, Zip!Unmounted

LEMMA SimpleStillRight == ASSUME SimpleInv, UNCHANGED simple PROVE SimpleInv'
BY SimpleStutter DEF simple

LEMMA MergeStillRight == ASSUME MergeInv, UNCHANGED merge PROVE MergeInv'
BY MergeStutter DEF merge, Merge!vars

LEMMA ZipStillRight == ASSUME ZipInv, UNCHANGED zip PROVE ZipInv'
BY ZipStutter DEF zip, Zip!vars

LEMMA FilesStep == FilesInv /\ [Next]_vars => FilesInv'
<1> SUFFICES ASSUME FilesInv, [Next]_vars PROVE FilesInv'
  OBVIOUS
<1>1. mounted' = mounted
  BY DEF Next, vars
<1>2. mounted = "mergefs" => MergeInv'
  <2>1. CASE Merge!Next
    BY <2>1, MergeStep DEF FilesInv
  <2>2. CASE UNCHANGED merge
    BY <2>2, MergeStillRight DEF FilesInv
  <2> QED
    BY <2>1, <2>2 DEF Next, vars
<1>3. mounted # "mergefs" => Merge!Unmounted'
  <2>1. mounted # "mergefs" => UNCHANGED merge
    BY DEF Next, vars
  <2> QED
    BY <2>1, MergeStays DEF FilesInv
<1>4. mounted = "unzipfs" => ZipInv'
  <2>1. CASE Zip!Next
    BY <2>1, ZipStep DEF FilesInv
  <2>2. CASE UNCHANGED zip
    BY <2>2, ZipStillRight DEF FilesInv
  <2> QED
    BY <2>1, <2>2 DEF Next, vars
<1>5. mounted # "unzipfs" => Zip!Unmounted'
  <2>1. mounted # "unzipfs" => UNCHANGED zip
    BY DEF Next, vars
  <2> QED
    BY <2>1, ZipStays DEF FilesInv
<1>6. mounted = "simplefs" => SimpleInv'
  <2>1. CASE Simple!Next
    BY <2>1, SimpleStep DEF FilesInv
  <2>2. CASE UNCHANGED simple
    BY <2>2, SimpleStillRight DEF FilesInv
  <2> QED
    BY <2>1, <2>2 DEF Next, vars
<1>7. mounted # "simplefs" => Simple!Unmounted'
  <2>1. mounted # "simplefs" => UNCHANGED simple
    BY DEF Next, vars
  <2> QED
    BY <2>1, SimpleStays DEF FilesInv
<1> QED
  BY <1>1, <1>2, <1>3, <1>4, <1>5, <1>6, <1>7 DEF FilesInv

(* simplefs finds every file of its image, the first of those of one name, *)
(* with its size; a read answers its bytes, and no others unless the       *)
(* request begins beyond its own size or does not begin at 0.              *)
THEOREM SimpleAnswersAlways == Spec => []SimpleAnswers
<1>1. FilesInv => SimpleAnswers
  <2>1. SimpleInv => Simple!SimpleAnswers
    BY DEF SimpleInv
  <2>2. Simple!Unmounted => Simple!SimpleAnswers
    BY DEF Simple!Unmounted, Simple!None, Simple!SimpleAnswers
  <2> QED
    BY <2>1, <2>2 DEF FilesInv, SimpleAnswers
<1> QED
  BY <1>1, FilesInit, FilesStep, PTL DEF Spec

(* mergefs answers for the newest file or directory of a path, a read in   *)
(* order gives the right pages, and a listing has each name once and, when *)
(* no other program changes anything and no earlier listing left names     *)
(* behind, all of them, or as many as fit.                                 *)
THEOREM MergeAnswersAlways == Spec => []MergeAnswers
<1>1. FilesInv => MergeAnswers
  <2>1. MergeInv => Merge!MergeAnswers
    BY DEF MergeInv
  <2>2. Merge!Unmounted => Merge!MergeAnswers
    BY DEF Merge!Unmounted, Merge!MergeAnswers, Merge!Idle
  <2> QED
    BY <2>1, <2>2 DEF FilesInv, MergeAnswers
<1> QED
  BY <1>1, FilesInit, FilesStep, PTL DEF Spec

(* An operation of unzipfs that no other overlaps answers what the archive *)
(* says, whatever the two static buffers held when it began, except for a  *)
(* read that ends beyond the buffer.                                       *)
THEOREM ZipAnswersAlways == Spec => []ZipAnswers
<1>1. FilesInv => ZipAnswers
  <2>1. ZipInv => Zip!ZipAnswers
    BY ZipInvAnswers
  <2>2. ASSUME Zip!Unmounted PROVE Zip!ZipAnswers
    <3>1. \A t \in Threads : op[t].call = "none"
      BY <2>2 DEF Zip!Unmounted, Zip!Idle
    <3> QED
      BY <3>1 DEF Zip!ZipAnswers
  <2> QED
    BY <2>1, <2>2 DEF FilesInv, ZipAnswers
<1> QED
  BY <1>1, FilesInit, FilesStep, PTL DEF Spec
=============================================================================
