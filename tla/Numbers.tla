------------------------------- MODULE Numbers -------------------------------
(***************************************************************************)
(* Arithmetic of 02_c_basics, 18_udp/1, 24_python_modules/1 and the spiral *)
(* of 10_mmap/2, on words of a few bits.                                   *)
(***************************************************************************)
EXTENDS Integers, Sequences, FiniteSets, Bitwise, SequencesExt

CONSTANTS
  Bits,         \* bits of a word
  Bytes         \* sizeof of the type, the number of rounds of sum

Word == 2 ^ Bits

(* 02_c_basics/0 and 1: sum(first, second, res, CF).  There are as many    *)
(* rounds as the type has bytes.                                           *)
Round(s) == [first |-> s.first ^^ s.second, carry |-> s.first & s.second,
             second |-> (2 * (s.first & s.second)) % Word]
sum(first, second) ==
  LET after[i \in 0..Bytes] == IF i = 0 THEN [first |-> first, second |-> second, carry |-> 0]
                               ELSE Round(after[i - 1])
  IN [res |-> after[Bytes].first, CF |-> IF after[Bytes].carry = 0 THEN 0 ELSE 1,
      left |-> after[Bytes].second]

(* There are as many rounds as bytes, where the sum may need as many as    *)
(* bits.  The result falls short of the sum by the carries not added yet,  *)
(* and a sum that fits in a word is right when no round is missing.  The   *)
(* tasks ask for more: the sum of any two numbers, with CF on overflow     *)
(* (02_c_basics/0 problem.md:13-15), where CF has the carries of the last  *)
(* round only; and a product (02_c_basics/1 problem.md:13), where the file *)
(* is a copy of that of 02_c_basics/0.                                     *)
SumIsRight(first, second) ==
  LET s == sum(first, second) IN
  /\ (s.res + s.left) % Word = (first + second) % Word
  /\ first + second < Word /\ s.left = 0 => s.res = first + second

-----------------------------------------------------------------------------
(* 02_c_basics/2: the class of a double of Exp and Frac bits.              *)
Classify(value, Exp, Frac) ==
  LET sign == (value \div 2 ^ (Exp + Frac)) % 2
      exp == (value \div 2 ^ Frac) % 2 ^ Exp
      frac == value % 2 ^ Frac
      signed(class) == <<IF sign = 0 THEN "Plus" ELSE "Minus", class>>
  IN CASE exp = 0 /\ frac = 0 -> signed("Zero")
       [] exp = 0 /\ frac # 0 -> signed("Denormal")
       [] exp = 2 ^ Exp - 1 /\ frac = 0 -> signed("Inf")
       [] exp = 2 ^ Exp - 1 /\ frac \in 1..2 ^ (Frac - 1) - 1 -> <<"SignalingNaN">>
       [] exp = 2 ^ Exp - 1 /\ frac >= 2 ^ (Frac - 1) -> <<"QuietNaN">>
       [] OTHER -> signed("Regular")

(* The classes follow each other as the words do, on both sides of zero.   *)
Order(class) == CASE class = "Zero" -> 0 [] class = "Denormal" -> 1
                  [] class = "Regular" -> 2 [] class = "Inf" -> 3
                  [] class = "SignalingNaN" -> 4 [] class = "QuietNaN" -> 5
ClassIsRight(value, Exp, Frac) ==
  LET half == 2 ^ (Exp + Frac)
      class(v) == Classify(v, Exp, Frac)
      magnitude == value % half
  IN /\ value + 1 < half => Order(Last(class(value))) <= Order(Last(class(value + 1)))
     /\ Last(class(value)) = Last(class(magnitude))
     /\ Order(Last(class(value))) = 3 <=> magnitude = half - 2 ^ Frac
     /\ Order(Last(class(value))) < 3 =>
          class(value)[1] = IF value < half THEN "Plus" ELSE "Minus"

-----------------------------------------------------------------------------
(* 18_udp/1: checksum(package, size), of half-words of Bits / 2 bits.      *)
Half == 2 ^ (Bits \div 2)
Fold(s) == s + (s \div Half)
checksum(package) ==
  LET total == FoldLeft(LAMBDA a, b : a + b, 0, package)
      folded == (total \div Half) + (total % Half)
  IN Half - 1 - (Fold(folded) % Half)

(* With its checksum in place a packet sums up to nothing: what a receiver *)
(* of any packet checks, however many carries there are.                   *)
ChecksumIsRight(package) == checksum(Append(package, checksum(package))) = 0

-----------------------------------------------------------------------------
(* 24_python_modules/1: Factorize(num), for positive numbers; 0 and        *)
(* negative ones never reach 1.                                            *)
Factorize(num) ==
  LET from[n \in 1..num, div \in 2..num + 1] ==
        IF n = 1 THEN <<>>
        ELSE IF n % div = 0 THEN <<div>> \o from[n \div div, div] ELSE from[n, div + 1]
  IN from[num, 2]

IsPrime(n) == n > 1 /\ \A d \in 2..n - 1 : n % d # 0
FactorsAreRight(num) ==
  LET out == Factorize(num) IN
  /\ FoldLeft(LAMBDA a, b : a * b, 1, out) = num
  /\ \A k \in DOMAIN out : IsPrime(out[k])
  /\ (Len(out) = 1) = IsPrime(num)

-----------------------------------------------------------------------------
(* 10_mmap/2: the walk of Execute through the matrix.                      *)
Walk(i, j, ic, jc, i_min, i_max, j_min, j_max) ==
  [i |-> i, j |-> j, ic |-> ic, jc |-> jc,
   i_min |-> i_min, i_max |-> i_max, j_min |-> j_min, j_max |-> j_max]

(* The four turns, tested one after another: at the bottom to the left, at *)
(* the top to the right, at the left side up, at the right side down.      *)
AtBottom(w) == IF w.i = w.i_max /\ w.ic = 1
               THEN [w EXCEPT !.ic = 0, !.jc = -1, !.j_max = @ - 1] ELSE w
AtTop(w) == IF w.i = w.i_min /\ w.ic = -1
            THEN [w EXCEPT !.ic = 0, !.jc = 1, !.j_min = @ + 1] ELSE w
AtLeft(w) == IF w.j = w.j_min /\ w.jc = -1
             THEN [w EXCEPT !.jc = 0, !.ic = -1, !.i_max = @ - 1] ELSE w
AtRight(w) == IF w.j = w.j_max /\ w.jc = 1
              THEN [w EXCEPT !.jc = 0, !.ic = 1, !.i_min = @ + 1] ELSE w
Move(w) == LET t == AtRight(AtLeft(AtTop(AtBottom(w)))) IN [t EXCEPT !.i = @ + t.ic, !.j = @ + t.jc]

Spiral(m_s) ==
  LET at[num \in 0..m_s * m_s] ==
        IF num = 0 THEN Walk(0, -1, 0, 1, 0, m_s - 1, 0, m_s - 1) ELSE Move(at[num - 1])
  IN [num \in 1..m_s * m_s |-> <<at[num].i, at[num].j>>]

(* Where a number and the ends of the lines go in the file.                *)
ind(m_s, width, cell) == m_s * width * cell[1] + cell[2] * width + cell[1]
newline(m_s, width, k) == (k + 1) * m_s * width + k

(* The numbers fill the matrix from the outer ring to the inner ones, each *)
(* beside the one before, the first row from left to right; in the file no *)
(* cell touches another or the end of a line, and no byte stays empty.     *)
Beside(c, d) == <<c[1] - d[1], c[2] - d[2]>> \in {<<0, 1>>, <<0, -1>>, <<1, 0>>, <<-1, 0>>}
Ring(c, m) == CHOOSE r \in {c[1], c[2], m - 1 - c[1], m - 1 - c[2]} :
                \A q \in {c[1], c[2], m - 1 - c[1], m - 1 - c[2]} : r <= q
SpiralIsRight(m, width) ==
  LET cells == Spiral(m)
      span(num) == LET from == ind(m, width, cells[num]) IN from..from + width - 1
  IN /\ {cells[num] : num \in DOMAIN cells} = (0..m - 1) \X (0..m - 1)
     /\ \A k \in 1..m : cells[k] = <<0, k - 1>>
     /\ \A num \in 1..m * m - 1 :
          Beside(cells[num], cells[num + 1]) /\ Ring(cells[num], m) <= Ring(cells[num + 1], m)
     /\ UNION {span(num) : num \in DOMAIN cells} \cup {newline(m, width, k) : k \in 0..m - 1}
          = 0..m * m * width + m - 1
=============================================================================
