--------------------------- MODULE PpcBook_proofs ---------------------------
(***************************************************************************)
(* Proofs about the PowerPC interpreter, whatever the width of a word, the *)
(* program, the contexts and the size of the memory: nothing the guest can *)
(* see has changed when an intermediate may still fail or fault; registers *)
(* and memory keep their widths; and a completed instruction leaves what   *)
(* the architecture says, except where Diverges lists that it does not.    *)
(*                                                                         *)
(*   1. Numbers: induction, powers, division, the bits of a number         *)
(*   2. Registers: words, masks, rotations, signed arithmetic, carries     *)
(*   3. Bytes, memory and contexts                                         *)
(*   4. Restartable, from the order of the intermediates                   *)
(*   5. Instruction by instruction: the intermediates do what the book     *)
(*      says (the Fine lemmas)                                             *)
(*   6. TypeOK and MeetsBook, from what is left of an instruction          *)
(***************************************************************************)
EXTENDS PpcBook, FiniteSetTheorems, WellFoundedInduction, SequenceTheorems, TLAPS

(* 1. Numbers.                                                             *)

(* Induction.  Every set of numbers has a least member, and of the subsets  *)
(* of a finite set with some property one is minimal.                       *)
Before == {ss \in Nat \X Nat : ss[1] < ss[2]}

LEMMA LeastMember == ASSUME NEW T, T \subseteq Nat, T # {} PROVE \E x \in T : \A y \in T : x <= y
<1>1. IsWellFoundedOn(Before, Nat)
  BY NatLessThanWellFounded, Zenon DEF OpToRel, Before
<1>2. PICK x \in T : \A y \in T : ~ (<<y, x>> \in Before)
  BY <1>1, WFMin, Zenon
<1>3. \A y \in T : ~ (y < x)
  BY <1>2 DEF Before
<1>4. \A y \in T : y \in Nat /\ x \in Nat
  OBVIOUS
<1>5. \A y \in T : x <= y
  BY <1>3, <1>4
<1>6. QED
  BY <1>5

(* A set of numbers with 0 and the successor of each of its members.        *)
LEMMA AllNumbers ==
    ASSUME NEW P, 0 \in P, \A n \in Nat : n \in P => n + 1 \in P
    PROVE  Nat \subseteq P
<1> SUFFICES ASSUME Nat \ P # {} PROVE FALSE
  OBVIOUS
<1>1. PICK x \in Nat \ P : \A y \in Nat \ P : x <= y
  BY LeastMember, Zenon
<1>2. x # 0
  OBVIOUS
<1>3. x - 1 \in Nat /\ x = (x - 1) + 1
  BY <1>2
<1>4. ~ (x <= x - 1)
  OBVIOUS
<1>5. x - 1 \in P
  BY <1>1, <1>3, <1>4
<1>6. QED
  BY <1>3, <1>5

-----------------------------------------------------------------------------
(* Powers of two.                                                           *)
LEMMA PowNat == \A n \in Nat : 2 ^ n \in Nat
<1> SUFFICES ASSUME NEW n \in Nat PROVE 2 ^ n \in Nat
  OBVIOUS
<1>1. IsFiniteSet(1 .. n) /\ Cardinality(1 .. n) = n
  BY FS_Interval
<1>2. IsFiniteSet(SUBSET (1 .. n)) /\ Cardinality(SUBSET (1 .. n)) = 2 ^ n
  BY <1>1, FS_SUBSET
<1>3. QED
  BY <1>2, FS_CardinalityType

LEMMA PowNext == \A n \in Nat : 2 ^ (n + 1) = 2 * 2 ^ n
<1> SUFFICES ASSUME NEW n \in Nat PROVE 2 ^ (n + 1) = 2 * 2 ^ n
  OBVIOUS
<1> DEFINE A == 1 .. n
           B == 1 .. n + 1
           New == {s \in SUBSET B : n + 1 \in s}
           f == [s \in SUBSET A |-> s \union {n + 1}]
<1>1. IsFiniteSet(A) /\ Cardinality(A) = n /\ IsFiniteSet(B) /\ Cardinality(B) = n + 1
  BY FS_Interval
<1> HIDE DEF New, f
<1>2. /\ IsFiniteSet(SUBSET A) /\ Cardinality(SUBSET A) = 2 ^ n
      /\ IsFiniteSet(SUBSET B) /\ Cardinality(SUBSET B) = 2 ^ (n + 1)
  BY <1>1, FS_SUBSET
<1>3. f \in Bijection(SUBSET A, New)
  <2>1. \A s \in SUBSET A : f[s] \in New
    BY DEF f, New
  <2>2. f \in [SUBSET A -> New]
    BY <2>1 DEF f
  <2>3. \A s, t \in SUBSET A : f[s] = f[t] => s = t
    BY DEF f
  <2>4. ASSUME NEW t \in New PROVE \E s \in SUBSET A : f[s] = t
    <3>1. t \ {n + 1} \in SUBSET A /\ f[t \ {n + 1}] = t
      BY DEF f, New
    <3>2. QED
      BY <3>1
  <2>5. QED
    BY <2>2, <2>3, <2>4 DEF Bijection, Injection, Surjection, IsInjective
<1>4. IsFiniteSet(New) /\ Cardinality(New) = 2 ^ n
  BY <1>2, <1>3, FS_Bijection DEF ExistsBijection
<1>5. (SUBSET A) \union New = SUBSET B /\ (SUBSET A) \cap New = {}
  <2>1. \A s : s \in SUBSET B <=> s \in SUBSET A \/ s \in New
    BY DEF New
  <2>2. \A s : ~ (s \in SUBSET A /\ s \in New)
    BY DEF New
  <2>3. QED
    BY <2>1, <2>2
<1>6. Cardinality((SUBSET A) \union New) = 2 ^ n + 2 ^ n - Cardinality({})
  BY <1>2, <1>4, <1>5, FS_Union
<1>7. 2 ^ (n + 1) = 2 ^ n + 2 ^ n - 0
  BY <1>2, <1>5, <1>6, FS_EmptySet
<1> DEFINE a == 2 ^ n
<1>8. a \in Nat /\ 2 ^ (n + 1) = a + a - 0
  BY <1>7, PowNat
<1> HIDE DEF a
<1>9. 2 ^ (n + 1) = 2 * a
  BY <1>8
<1>10. QED
  BY <1>9 DEF a

LEMMA PowPositive == \A n \in Nat : 2 ^ n \in Nat /\ 2 ^ n > 0
<1> DEFINE P == {n \in Nat : 2 ^ n > 0}
<1>1. 0 \in P
  BY PowNat
<1>2. \A n \in Nat : n \in P => n + 1 \in P
  BY PowNat, PowNext
<1> HIDE DEF P
<1>3. Nat \subseteq P
  BY <1>1, <1>2, AllNumbers
<1>4. QED
  BY <1>3, PowNat DEF P

LEMMA PowSum == \A m, n \in Nat : 2 ^ (m + n) = 2 ^ m * 2 ^ n
<1> SUFFICES ASSUME NEW m \in Nat PROVE \A n \in Nat : 2 ^ (m + n) = 2 ^ m * 2 ^ n
  OBVIOUS
<1> DEFINE P == {n \in Nat : 2 ^ (m + n) = 2 ^ m * 2 ^ n}
<1>1. 0 \in P
  <2>1. 2 ^ 0 = 1 /\ m + 0 = m /\ 2 ^ m \in Nat
    BY PowNat
  <2>2. QED
    BY <2>1
<1>2. ASSUME NEW n \in Nat, n \in P PROVE n + 1 \in P
  <2>1. m + (n + 1) = (m + n) + 1 /\ m + n \in Nat
    OBVIOUS
  <2>2. 2 ^ (m + (n + 1)) = 2 * 2 ^ (m + n) /\ 2 ^ (n + 1) = 2 * 2 ^ n
    BY <2>1, PowNext
  <2>3. 2 ^ (m + n) = 2 ^ m * 2 ^ n
    BY <1>2
  <2> DEFINE a == 2 ^ m
             b == 2 ^ n
  <2>4. a \in Nat /\ b \in Nat
    BY PowNat
  <2>5. 2 ^ (m + (n + 1)) = 2 * (a * b) /\ 2 ^ (n + 1) = 2 * b
    BY <2>2, <2>3
  <2> HIDE DEF a, b
  <2>6. 2 * (a * b) = a * (2 * b)
    BY <2>4
  <2>7. QED
    BY <2>5, <2>6 DEF a
<1> HIDE DEF P
<1>3. Nat \subseteq P
  BY <1>1, <1>2, AllNumbers
<1>4. QED
  BY <1>3 DEF P

(* 2 ^ n is a multiple of each smaller power.                               *)
LEMMA PowSplit ==
    ASSUME NEW m \in Nat, NEW n \in Nat, m <= n
    PROVE  2 ^ n = 2 ^ (n - m) * 2 ^ m /\ 2 ^ m <= 2 ^ n /\ n - m \in Nat
<1>1. n - m \in Nat /\ n = (n - m) + m
  OBVIOUS
<1>2. 2 ^ n = 2 ^ (n - m) * 2 ^ m
  BY <1>1, PowSum
<1> DEFINE a == 2 ^ (n - m)
           b == 2 ^ m
<1>3. a \in Nat /\ a > 0 /\ b \in Nat /\ 2 ^ n = a * b
  BY <1>1, <1>2, PowPositive
<1> HIDE DEF a, b
<1>4. a * b >= b
  BY <1>3
<1>5. QED
  BY <1>1, <1>2, <1>3, <1>4 DEF b

-----------------------------------------------------------------------------
(* Division.                                                                *)
LEMMA DivMod ==
    ASSUME NEW x \in Int, NEW d \in Nat, d > 0
    PROVE  /\ x = d * (x \div d) + (x % d)
           /\ x \div d \in Int /\ x % d \in Int /\ 0 <= x % d /\ x % d < d
           /\ x >= 0 => x \div d \in Nat /\ x \div d <= x
<1>1. x = d * (x \div d) + (x % d)
  OBVIOUS
<1>2. x \div d \in Int /\ x % d \in Int /\ 0 <= x % d /\ x % d < d
  OBVIOUS
<1>3. x >= 0 => x \div d \in Nat
  OBVIOUS
<1> DEFINE q == x \div d
           m == x % d
<1>4. x = d * q + m /\ q \in Int /\ m \in Int /\ 0 <= m
  BY <1>1, <1>2
<1>5. x >= 0 => q \in Nat
  BY <1>3
<1> HIDE DEF q, m
<1>6. ASSUME x >= 0 PROVE q <= x
  <2>1. d * q >= q
    BY <1>5, <1>6
  <2>2. d * q \in Int
    BY <1>4
  <2>3. QED
    BY <1>4, <2>1, <2>2
<1>7. QED
  BY <1>1, <1>2, <1>3, <1>6 DEF q

LEMMA DivUnique ==
    ASSUME NEW d \in Nat, NEW q \in Int, NEW r \in Int, 0 <= r, r < d
    PROVE  (d * q + r) \div d = q /\ (d * q + r) % d = r
  OBVIOUS

LEMMA Below ==
    ASSUME NEW d \in Nat, NEW x \in Int, 0 <= x, x < d
    PROVE  x \div d = 0 /\ x % d = x
  OBVIOUS

LEMMA AddMultiple ==
    ASSUME NEW d \in Nat, d > 0, NEW x \in Int, NEW y \in Int
    PROVE  (x + y * d) % d = x % d /\ (x + y * d) \div d = y + (x \div d)
<1> DEFINE q == x \div d
           m == x % d
<1>1. x = d * q + m /\ q \in Int /\ m \in Int /\ 0 <= m /\ m < d
  BY DivMod
<1> HIDE DEF q, m
<1>2. x + y * d = d * (q + y) + m
  BY <1>1
<1>3. (d * (q + y) + m) \div d = q + y /\ (d * (q + y) + m) % d = m
  BY <1>1, DivUnique
<1>4. QED
  BY <1>1, <1>2, <1>3 DEF q, m

(* Taking a remainder early makes no difference.                            *)
LEMMA ModAdd ==
    ASSUME NEW d \in Nat, d > 0, NEW x \in Int, NEW y \in Int
    PROVE  ((x % d) + y) % d = (x + y) % d /\ (x % d) % d = x % d
<1> DEFINE q == x \div d
           m == x % d
<1>1. x = d * q + m /\ q \in Int /\ m \in Int /\ 0 <= m /\ m < d
  BY DivMod
<1> HIDE DEF q, m
<1>2. x + y = (m + y) + q * d
  BY <1>1
<1>3. ((m + y) + q * d) % d = (m + y) % d
  <2>1. m + y \in Int
    BY <1>1
  <2>2. QED
    BY <1>1, <2>1, AddMultiple
<1>4. m % d = m
  BY <1>1, Below
<1>5. QED
  BY <1>2, <1>3, <1>4 DEF m

LEMMA DivDiv ==
    ASSUME NEW d \in Nat, d > 0, NEW e \in Nat, e > 0, NEW x \in Int
    PROVE  /\ (x \div d) \div e = x \div (d * e)
           /\ (x % (d * e)) % d = x % d
           /\ (x % (d * e)) \div d = (x \div d) % e
<1> DEFINE q == x \div d
           m == x % d
           p == q \div e
           r == q % e
<1>1. x = d * q + m /\ q \in Int /\ m \in Int /\ 0 <= m /\ m < d
  BY DivMod
<1>2. q = e * p + r /\ p \in Int /\ r \in Int /\ 0 <= r /\ r < e
  <2>1. q \in Int
    BY <1>1
  <2> HIDE DEF q
  <2>2. QED
    BY <2>1, DivMod
<1> HIDE DEF q, m, p, r
<1>3. x = (d * e) * p + (d * r + m)
  <2>1. d * q = d * (e * p) + d * r
    BY <1>1, <1>2
  <2>2. d * (e * p) = (d * e) * p
    BY <1>2
  <2>3. d * (e * p) \in Int /\ d * r \in Int
    BY <1>2
  <2>4. QED
    BY <1>1, <2>1, <2>2, <2>3
<1>4. d * e \in Nat /\ d * r + m \in Int /\ 0 <= d * r + m /\ d * r + m < d * e
  <2>1. d * e \in Nat /\ d * r \in Nat
    BY <1>2
  <2>2. e = r + 1 + (e - r - 1) /\ e - r - 1 >= 0
    BY <1>2
  <2>3. d * (e - r - 1) >= 0 /\ d * (e - r - 1) \in Int
    BY <1>2, <2>2
  <2>4. d * e = d * r + d + d * (e - r - 1)
    BY <1>2
  <2>5. QED
    BY <1>1, <2>1, <2>3, <2>4
<1>5. x \div (d * e) = p /\ x % (d * e) = d * r + m
  <2> DEFINE k == d * e
             n == d * r + m
  <2>1. x = k * p + n /\ k \in Nat /\ n \in Int /\ 0 <= n /\ n < k
    BY <1>3, <1>4
  <2> HIDE DEF k, n
  <2>2. x \div k = p /\ x % k = n
    BY <1>2, <2>1, DivUnique
  <2>3. QED
    BY <2>2 DEF k, n
<1>6. (d * r + m) % d = m /\ (d * r + m) \div d = r
  BY <1>1, <1>2, DivUnique
<1>7. QED
  BY <1>5, <1>6 DEF q, m, p, r

-----------------------------------------------------------------------------
(* Bits.                                                                    *)
Bit(x, b) == (x \div 2 ^ b) % 2 = 1

LEMMA ZeroBits == \A b \in Nat : ~ Bit(0, b)
<1> SUFFICES ASSUME NEW b \in Nat PROVE ~ Bit(0, b)
  OBVIOUS
<1> DEFINE d == 2 ^ b
<1>1. d \in Nat /\ d > 0
  BY PowPositive
<1> HIDE DEF d
<1>2. 0 \div d = 0
  BY <1>1
<1>3. (0 \div d) % 2 = 0
  BY <1>2
<1>4. QED
  BY <1>3 DEF Bit, d

LEMMA BitOfDiv ==
    ASSUME NEW x \in Int, NEW k \in Nat, NEW b \in Nat
    PROVE  Bit(x \div 2 ^ k, b) <=> Bit(x, b + k)
<1> DEFINE d == 2 ^ k
           e == 2 ^ b
<1>1. d \in Nat /\ d > 0 /\ e \in Nat /\ e > 0 /\ 2 ^ (b + k) = e * d
  BY PowPositive, PowSum
<1>2. (x \div d) \div e = x \div (d * e) /\ d * e = e * d
  <2> HIDE DEF d, e
  <2>1. QED
    BY <1>1, DivDiv
<1>3. QED
  BY <1>1, <1>2 DEF Bit

(* y below 2 ^ k keeps its bits when a multiple of 2 ^ k is added.          *)
LEMMA BitOfSum ==
    ASSUME NEW a \in Int, NEW k \in Nat, NEW y \in Int, 0 <= y, y < 2 ^ k, NEW b \in Nat
    PROVE  Bit(a * 2 ^ k + y, b) <=> IF b < k THEN Bit(y, b) ELSE Bit(a, b - k)
<1> DEFINE x == a * 2 ^ k + y
<1>0. 2 ^ k \in Nat /\ 2 ^ k > 0 /\ 2 ^ b \in Nat /\ 2 ^ b > 0
  BY PowPositive
<1>1. x \in Int
  BY <1>0
<1>2. CASE b < k
  <2>1. k - b - 1 \in Nat /\ k = (k - b - 1) + 1 + b
    BY <1>2
  <2> DEFINE h == 2 ^ (k - b - 1)
             e == 2 ^ b
  <2>2. h \in Nat
    BY <2>1, PowPositive
  <2>3. 2 ^ k = (2 * h) * e
    <3>1. 2 ^ k = 2 ^ ((k - b - 1) + 1) * 2 ^ b
      BY <2>1, PowSum
    <3>2. 2 ^ ((k - b - 1) + 1) = 2 * h
      BY <2>1, PowNext
    <3>3. QED
      BY <3>1, <3>2
  <2>4. x = y + a * ((2 * h) * e)
    <3>1. x = a * 2 ^ k + y /\ a * 2 ^ k \in Int
      BY <1>0
    <3>2. QED
      BY <2>3, <3>1
  <2>5. e \in Nat /\ e > 0
    BY <1>0
  <2> HIDE DEF x, h, e
  <2>6. a * ((2 * h) * e) = ((a * h) * 2) * e
    BY <2>2, <2>5
  <2>7. a * h \in Int /\ (a * h) * 2 \in Int
    BY <2>2
  <2>8. x \div e = (a * h) * 2 + (y \div e)
    BY <2>4, <2>5, <2>6, <2>7, AddMultiple
  <2>9. y \div e \in Int
    BY <2>5, DivMod
  <2>10. (x \div e) % 2 = (y \div e) % 2
    <3>1. ((y \div e) + (a * h) * 2) % 2 = (y \div e) % 2
      BY <2>7, <2>9, AddMultiple
    <3>2. QED
      BY <2>7, <2>8, <2>9, <3>1
  <2>11. QED
    BY <1>2, <2>10 DEF Bit, e, x
<1>3. CASE ~ (b < k)
  <2>1. b - k \in Nat /\ b = (b - k) + k
    BY <1>3
  <2>2. Bit(x \div 2 ^ k, b - k) <=> Bit(x, b)
    BY <1>1, <2>1, BitOfDiv
  <2>3. x \div 2 ^ k = a
    <3> DEFINE d == 2 ^ k
    <3>1. d * a + y = x /\ d \in Nat /\ y < d
      BY <1>0
    <3> HIDE DEF d
    <3>2. (d * a + y) \div d = a
      BY <3>1, DivUnique
    <3>3. QED
      BY <3>1, <3>2 DEF d
  <2>4. QED
    BY <1>3, <2>2, <2>3
<1>4. QED
  BY <1>2, <1>3

LEMMA BitOfMod ==
    ASSUME NEW x \in Int, NEW k \in Nat, NEW b \in Nat
    PROVE  Bit(x % 2 ^ k, b) <=> b < k /\ Bit(x, b)
<1> DEFINE d == 2 ^ k
           q == x \div d
           m == x % d
<1>1. d \in Nat /\ d > 0
  BY PowPositive
<1>2. x = d * q + m /\ q \in Int /\ m \in Int /\ 0 <= m /\ m < d
  <2> HIDE DEF d
  <2>1. QED
    BY <1>1, DivMod
<1>3. x = q * 2 ^ k + m
  <2>1. d * q = q * d
    BY <1>1, <1>2
  <2>2. QED
    BY <1>2, <2>1
<1> HIDE DEF q, m
<1>4. Bit(q * 2 ^ k + m, b) <=> IF b < k THEN Bit(m, b) ELSE Bit(q, b - k)
  BY <1>2, BitOfSum
<1>5. Bit(0 * 2 ^ k + m, b) <=> IF b < k THEN Bit(m, b) ELSE Bit(0, b - k)
  BY <1>2, BitOfSum
<1>6. 0 * 2 ^ k + m = m
  BY <1>1, <1>2
<1>7. ~ (b < k) => ~ Bit(0, b - k)
  BY ZeroBits
<1>8. QED
  BY <1>3, <1>4, <1>5, <1>6, <1>7 DEF m

LEMMA BitOfProduct ==
    ASSUME NEW x \in Int, NEW k \in Nat, NEW b \in Nat
    PROVE  Bit(x * 2 ^ k, b) <=> b >= k /\ Bit(x, b - k)
<1>1. 2 ^ k \in Nat /\ 2 ^ k > 0 /\ x * 2 ^ k + 0 = x * 2 ^ k
  BY PowPositive
<1>2. Bit(x * 2 ^ k + 0, b) <=> IF b < k THEN Bit(0, b) ELSE Bit(x, b - k)
  <2>1. 0 \in Int /\ 0 <= 0 /\ 0 < 2 ^ k
    BY <1>1
  <2>2. QED
    BY <2>1, BitOfSum
<1>3. ~ Bit(0, b)
  BY ZeroBits
<1>4. QED
  BY <1>1, <1>2, <1>3

-----------------------------------------------------------------------------
(* Num adds powers of two in the order in which CHOOSE takes the bits: the  *)
(* function its fold is defined by exists and is unique.                    *)
AnyOf(s) == CHOOSE x \in s : TRUE
Added(g, s) == IF s = {} THEN 0 ELSE 2 ^ AnyOf(s) + g[s \ {AnyOf(s)}]
IsSums(g, S) == g = [s \in SUBSET S |-> Added(g, s)]
Sums(S) == CHOOSE g : IsSums(g, S)

LEMMA NumIsSums == \A S : Num(S) = Sums(S)[S]
  BY Zenon DEF Num, MapThenSumSet, MapThenFoldSet, Sums, IsSums, Added, AnyOf

LEMMA Smaller ==
    ASSUME NEW s, IsFiniteSet(s), s # {}
    PROVE  /\ AnyOf(s) \in s /\ IsFiniteSet(s \ {AnyOf(s)})
           /\ Cardinality(s) \in Nat
           /\ Cardinality(s \ {AnyOf(s)}) = Cardinality(s) - 1
<1>1. AnyOf(s) \in s
  BY DEF AnyOf
<1>2. QED
  BY <1>1, FS_RemoveElement, FS_CardinalityType

LEMMA SumsExist == ASSUME NEW S, IsFiniteSet(S) PROVE \E g : IsSums(g, S)
<1> DEFINE Small(n) == {s \in SUBSET S : Cardinality(s) <= n}
           P == {n \in Nat : \E g : g = [s \in Small(n) |-> Added(g, s)]}
<1>1. \A s \in SUBSET S : IsFiniteSet(s) /\ Cardinality(s) \in Nat /\ Cardinality(s) <= Cardinality(S)
  BY FS_Subset, FS_CardinalityType
<1>2. ASSUME NEW n \in Nat, NEW s \in Small(n), s # {}
      PROVE  n > 0 /\ s \ {AnyOf(s)} \in Small(n - 1) /\ s \ {AnyOf(s)} \in Small(n)
  <2>1. /\ IsFiniteSet(s) /\ s \in SUBSET S
        /\ Cardinality(s) \in Nat /\ Cardinality(s) <= n
        /\ s \ {AnyOf(s)} \in SUBSET S
    BY <1>1
  <2>2. Cardinality(s \ {AnyOf(s)}) = Cardinality(s) - 1 /\ Cardinality(s \ {AnyOf(s)}) \in Nat
    BY <1>1, <1>2, <2>1, Smaller
  <2>3. QED
    BY <2>1, <2>2
<1>3. 0 \in P
  <2> DEFINE g == [s \in Small(0) |-> 0]
  <2>1. \A s \in Small(0) : s = {}
    <3>1. SUFFICES ASSUME NEW s \in Small(0), s # {} PROVE FALSE
      OBVIOUS
    <3>2. 0 > 0
      BY <1>2, <3>1
    <3>3. QED
      BY <3>2
  <2>2. g = [s \in Small(0) |-> Added(g, s)]
    <3>1. \A s \in Small(0) : Added(g, s) = 0
      BY <2>1 DEF Added
    <3>2. QED
      BY <3>1
  <2>3. QED
    BY <2>2
<1>4. ASSUME NEW n \in Nat, n \in P PROVE n + 1 \in P
  <2>1. PICK g : g = [s \in Small(n) |-> Added(g, s)]
    BY <1>4
  <2> DEFINE h == [s \in Small(n + 1) |-> Added(g, s)]
  <2>2. \A s \in Small(n) : s \in Small(n + 1) /\ g[s] = h[s]
    <3>1. SUFFICES ASSUME NEW s \in Small(n) PROVE s \in Small(n + 1) /\ g[s] = h[s]
      OBVIOUS
    <3>2. s \in Small(n + 1)
      BY <1>1
    <3>3. g[s] = Added(g, s)
      BY <2>1
    <3>4. QED
      BY <3>2, <3>3
  <2>3. \A s \in Small(n + 1) : s # {} => s \ {AnyOf(s)} \in Small(n)
    BY <1>2
  <2> HIDE DEF Small
  <2>4. \A s \in Small(n + 1) : Added(g, s) = Added(h, s)
    BY <2>2, <2>3 DEF Added
  <2>5. h = [s \in Small(n + 1) |-> Added(h, s)]
    BY <2>4
  <2> HIDE DEF h
  <2>6. QED
    BY <2>5
<1> HIDE DEF P
<1>5. Nat \subseteq P
  BY <1>3, <1>4, AllNumbers
<1>6. Cardinality(S) \in P
  BY <1>1, <1>5
<1>7. Small(Cardinality(S)) = SUBSET S
  BY <1>1
<1>8. QED
  BY <1>6, <1>7 DEF P, IsSums

LEMMA SumsAgree ==
    ASSUME NEW S, IsFiniteSet(S), NEW T \in SUBSET S, NEW g, IsSums(g, S), NEW h, IsSums(h, T),
           NEW s \in SUBSET T
    PROVE  g[s] = h[s]
<1> DEFINE P == {n \in Nat : \A t \in SUBSET T : Cardinality(t) = n => g[t] = h[t]}
<1>1. \A t \in SUBSET T : t \in SUBSET S /\ IsFiniteSet(t) /\ Cardinality(t) \in Nat
  BY FS_Subset, FS_CardinalityType
<1>2. \A t \in SUBSET T : g[t] = Added(g, t) /\ h[t] = Added(h, t)
  BY <1>1 DEF IsSums
<1>3. 0 \in P
  <2>1. SUFFICES ASSUME NEW t \in SUBSET T, Cardinality(t) = 0 PROVE g[t] = h[t]
    OBVIOUS
  <2>2. t = {}
    BY <1>1, <2>1, FS_EmptySet
  <2>3. Added(g, t) = 0 /\ Added(h, t) = 0
    BY <2>2 DEF Added
  <2>4. QED
    BY <1>2, <2>3
<1>4. ASSUME NEW n \in Nat, n \in P PROVE n + 1 \in P
  <2>1. SUFFICES ASSUME NEW t \in SUBSET T, Cardinality(t) = n + 1 PROVE g[t] = h[t]
    OBVIOUS
  <2>2. t # {}
    BY <2>1, FS_EmptySet
  <2>3. Cardinality(t \ {AnyOf(t)}) = n /\ t \ {AnyOf(t)} \in SUBSET T
    BY <1>1, <2>1, <2>2, Smaller
  <2>4. g[t \ {AnyOf(t)}] = h[t \ {AnyOf(t)}]
    BY <1>4, <2>3
  <2>5. Added(g, t) = Added(h, t)
    BY <2>4 DEF Added
  <2>6. QED
    BY <1>2, <2>5
<1> HIDE DEF P
<1>5. Nat \subseteq P
  BY <1>3, <1>4, AllNumbers
<1>6. Cardinality(s) \in P
  BY <1>1, <1>5
<1>7. QED
  BY <1>6 DEF P

LEMMA NumEmpty == Num({}) = 0
<1>1. IsFiniteSet({})
  BY FS_EmptySet
<1>2. IsSums(Sums({}), {})
  BY <1>1, SumsExist DEF Sums
<1>3. Sums({})[{}] = Added(Sums({}), {})
  BY <1>2 DEF IsSums
<1>4. QED
  BY <1>3, NumIsSums DEF Added

LEMMA NumAny ==
    ASSUME NEW S, IsFiniteSet(S), S # {}
    PROVE  Num(S) = 2 ^ AnyOf(S) + Num(S \ {AnyOf(S)})
<1> DEFINE T == S \ {AnyOf(S)}
<1>1. IsFiniteSet(T) /\ T \in SUBSET S
  BY Smaller
<1>2. IsSums(Sums(S), S) /\ IsSums(Sums(T), T)
  BY <1>1, SumsExist DEF Sums
<1> HIDE DEF T
<1>3. Sums(S)[T] = Sums(T)[T]
  BY <1>1, <1>2, SumsAgree
<1>4. Sums(S)[S] = Added(Sums(S), S)
  BY <1>2 DEF IsSums
<1>5. QED
  BY <1>3, <1>4, NumIsSums DEF Added, T

LEMMA NumNat == ASSUME NEW S, IsFiniteSet(S), S \subseteq Nat PROVE Num(S) \in Nat
<1> DEFINE P == {n \in Nat : \A t \in SUBSET S : Cardinality(t) = n => Num(t) \in Nat}
<1>1. \A t \in SUBSET S : IsFiniteSet(t) /\ Cardinality(t) \in Nat
  BY FS_Subset, FS_CardinalityType
<1>2. 0 \in P
  <2>1. SUFFICES ASSUME NEW t \in SUBSET S, Cardinality(t) = 0 PROVE Num(t) \in Nat
    OBVIOUS
  <2>2. t = {}
    BY <1>1, <2>1, FS_EmptySet
  <2>3. QED
    BY <2>2, NumEmpty
<1>3. ASSUME NEW n \in Nat, n \in P PROVE n + 1 \in P
  <2>1. SUFFICES ASSUME NEW t \in SUBSET S, Cardinality(t) = n + 1 PROVE Num(t) \in Nat
    OBVIOUS
  <2>2. t # {}
    BY <2>1, FS_EmptySet
  <2> DEFINE x == AnyOf(t)
  <2>3. x \in t /\ x \in Nat /\ t \ {x} \in SUBSET S /\ Cardinality(t \ {x}) = n
    <3>1. IsFiniteSet(t) /\ t \subseteq Nat
      BY <1>1
    <3>2. x \in t /\ Cardinality(t \ {x}) = Cardinality(t) - 1
      BY <2>2, <3>1, Smaller
    <3>3. Cardinality(t \ {x}) = n
      BY <2>1, <3>2
    <3>4. x \in Nat /\ t \ {x} \in SUBSET S
      BY <3>1, <3>2
    <3>5. QED
      BY <3>2, <3>3, <3>4
  <2>4. Num(t) = 2 ^ x + Num(t \ {x})
    BY <1>1, <2>2, NumAny
  <2> HIDE DEF x
  <2>5. Num(t \ {x}) \in Nat /\ 2 ^ x \in Nat
    BY <1>3, <2>3, PowNat
  <2>6. QED
    BY <2>4, <2>5
<1> HIDE DEF P
<1>4. Nat \subseteq P
  BY <1>2, <1>3, AllNumbers
<1>5. Cardinality(S) \in P
  BY <1>1, <1>4
<1>6. QED
  BY <1>5 DEF P

(* The order makes no difference.                                           *)
LEMMA NumAdd ==
    ASSUME NEW S, IsFiniteSet(S), S \subseteq Nat
    PROVE  \A b \in S : Num(S) = 2 ^ b + Num(S \ {b})
<1> DEFINE Adds(t) == \A b \in t : Num(t) = 2 ^ b + Num(t \ {b})
           P == {n \in Nat : \A t \in SUBSET S : Cardinality(t) = n => Adds(t)}
<1>1. \A t \in SUBSET S : IsFiniteSet(t) /\ Cardinality(t) \in Nat /\ Num(t) \in Nat
  <2>1. \A t \in SUBSET S : IsFiniteSet(t) /\ Cardinality(t) \in Nat /\ t \subseteq Nat
    BY FS_Subset, FS_CardinalityType
  <2>2. QED
    BY <2>1, NumNat
<1>2. 0 \in P
  <2>1. SUFFICES ASSUME NEW t \in SUBSET S, Cardinality(t) = 0 PROVE Adds(t)
    OBVIOUS
  <2>2. t = {}
    BY <1>1, <2>1, FS_EmptySet
  <2>3. QED
    BY <2>2
<1>3. ASSUME NEW n \in Nat, n \in P PROVE n + 1 \in P
  <2>1. SUFFICES ASSUME NEW t \in SUBSET S, Cardinality(t) = n + 1 PROVE Adds(t)
    OBVIOUS
  <2>2. t # {}
    BY <2>1, FS_EmptySet
  <2> DEFINE x == AnyOf(t)
  <2>3. x \in t /\ x \in Nat /\ IsFiniteSet(t)
    BY <1>1, <2>1, <2>2, Smaller
  <2>4. Num(t) = 2 ^ x + Num(t \ {x})
    BY <2>2, <2>3, NumAny
  <2> HIDE DEF x
  <2>5. ASSUME NEW b \in t PROVE Adds(t \ {b})
    <3>1. Cardinality(t \ {b}) = n /\ t \ {b} \in SUBSET S
      BY <1>1, <2>1, FS_RemoveElement
    <3>2. QED
      BY <1>3, <3>1
  <2>6. ASSUME NEW b \in t, b # x PROVE Num(t) = 2 ^ b + Num(t \ {b})
    <3> DEFINE u == (t \ {x}) \ {b}
    <3>1. u = (t \ {b}) \ {x} /\ b \in t \ {x} /\ x \in t \ {b} /\ u \in SUBSET S
      BY <2>3, <2>6
    <3>2. Num(t \ {x}) = 2 ^ b + Num(u)
      BY <2>3, <2>5, <3>1
    <3>3. Num(t \ {b}) = 2 ^ x + Num(u)
      BY <2>5, <3>1
    <3> HIDE DEF u
    <3>4. 2 ^ b \in Nat /\ 2 ^ x \in Nat /\ Num(u) \in Nat
      BY <1>1, <2>3, <3>1, PowNat
    <3>5. QED
      BY <2>4, <3>2, <3>3, <3>4
  <2>7. QED
    BY <2>4, <2>6
<1> HIDE DEF P
<1>4. Nat \subseteq P
  BY <1>2, <1>3, AllNumbers
<1>5. Cardinality(S) \in P
  BY <1>1, <1>4
<1>6. QED
  BY <1>5 DEF P

-----------------------------------------------------------------------------
(* A number below 2 ^ n is the same as the set of its bits.                 *)
LEMMA OneBits == \A b \in Nat : Bit(1, b) <=> b = 0
<1> SUFFICES ASSUME NEW b \in Nat PROVE Bit(1, b) <=> b = 0
  OBVIOUS
<1>1. CASE b = 0
  <2>1. 2 ^ b = 1
    BY <1>1
  <2>2. 1 \div 1 = 1 /\ 1 % 2 = 1
    OBVIOUS
  <2>3. QED
    BY <1>1, <2>1, <2>2 DEF Bit
<1>2. CASE b # 0
  <2>1. b - 1 \in Nat /\ (b - 1) + 1 = b
    BY <1>2
  <2> DEFINE h == 2 ^ (b - 1)
             d == 2 ^ b
  <2>2. h \in Nat /\ h > 0 /\ d = 2 * h
    BY <2>1, PowPositive, PowNext
  <2> HIDE DEF h, d
  <2>3. 1 \div d = 0
    BY <2>2, Below
  <2>4. (1 \div d) % 2 = 0
    BY <2>3
  <2>5. QED
    BY <1>2, <2>4 DEF Bit, d
<1>3. QED
  BY <1>1, <1>2

LEMMA NumOf ==
    \A n \in Nat : \A S \in SUBSET (0 .. n - 1) :
        /\ Num(S) \in Nat /\ Num(S) < 2 ^ n
        /\ \A b \in Nat : Bit(Num(S), b) <=> b \in S
<1> DEFINE R(n, S) == /\ Num(S) \in Nat /\ Num(S) < 2 ^ n
                      /\ \A b \in Nat : Bit(Num(S), b) <=> b \in S
           P == {n \in Nat : \A S \in SUBSET (0 .. n - 1) : R(n, S)}
<1>1. 0 \in P
  <2>1. SUFFICES ASSUME NEW S \in SUBSET (0 .. 0 - 1) PROVE R(0, S)
    OBVIOUS
  <2>2. S = {} /\ 2 ^ 0 = 1
    OBVIOUS
  <2>3. QED
    BY <2>2, NumEmpty, ZeroBits
<1>2. ASSUME NEW n \in Nat, n \in P PROVE n + 1 \in P
  <2>1. SUFFICES ASSUME NEW S \in SUBSET (0 .. n) PROVE R(n + 1, S)
    <3>1. (n + 1) - 1 = n /\ n + 1 \in Nat
      OBVIOUS
    <3>2. QED
      BY <2>1, <3>1
  <2> DEFINE T == S \ {n}
             e == IF n \in S THEN 1 ELSE 0
             a == 2 ^ n
  <2>2. T \in SUBSET (0 .. n - 1)
    OBVIOUS
  <2>3. R(n, T)
    BY <1>2, <2>2
  <2>4. IsFiniteSet(S) /\ S \subseteq Nat
    <3>1. IsFiniteSet(0 .. n)
      BY FS_Interval
    <3>2. IsFiniteSet(S)
      BY <3>1, FS_Subset
    <3>3. QED
      BY <3>2
  <2>5. a \in Nat /\ a > 0 /\ 2 ^ (n + 1) = 2 * a
    BY PowPositive, PowNext
  <2>6. Num(S) = e * a + Num(T)
    <3>1. CASE n \in S
      <4>1. Num(S) = 2 ^ n + Num(T)
        BY <2>4, <3>1, NumAdd
      <4>2. e = 1 /\ 1 * a = a
        BY <2>5, <3>1
      <4>3. QED
        BY <4>1, <4>2
    <3>2. CASE n \notin S
      <4>1. T = S /\ e = 0
        BY <3>2
      <4>2. 0 * a + Num(T) = Num(T)
        BY <2>3, <2>5
      <4>3. QED
        BY <4>1, <4>2
    <3>3. QED
      BY <3>1, <3>2
  <2>7. Num(S) \in Nat /\ Num(S) < 2 ^ (n + 1)
    <3> DEFINE m == Num(T)
               q == Num(S)
               p == 2 ^ (n + 1)
    <3>1. m \in Nat /\ m < a
      BY <2>3
    <3>2. e \in {0, 1}
      OBVIOUS
    <3>3. q = e * a + m /\ p = 2 * a
      BY <2>5, <2>6
    <3> HIDE DEF e, a, m, q, p
    <3>4. q \in Nat /\ q < p
      BY <2>5, <3>1, <3>2, <3>3
    <3>5. QED
      BY <3>4 DEF q, p
  <2>8. ASSUME NEW b \in Nat PROVE Bit(Num(S), b) <=> b \in S
    <3>1. Bit(e * 2 ^ n + Num(T), b) <=> IF b < n THEN Bit(Num(T), b) ELSE Bit(e, b - n)
      <4>1. e \in Int /\ Num(T) \in Int /\ 0 <= Num(T) /\ Num(T) < 2 ^ n
        BY <2>3
      <4> HIDE DEF e, T
      <4>2. QED
        BY <4>1, BitOfSum
    <3>2. Bit(Num(T), b) <=> b \in T
      BY <2>3
    <3>3. CASE b < n
      <4>1. b \in T <=> b \in S
        BY <3>3
      <4>2. QED
        BY <2>6, <3>1, <3>2, <3>3, <4>1
    <3>4. CASE ~ (b < n)
      <4>1. b - n \in Nat /\ (b - n = 0 <=> b = n)
        BY <3>4
      <4>2. b \in S => b = n
        BY <3>4
      <4>3. Bit(e, b - n) <=> n \in S /\ b = n
        BY <4>1, OneBits, ZeroBits
      <4>4. b \in S <=> n \in S /\ b = n
        BY <4>2
      <4>5. QED
        BY <2>6, <3>1, <3>4, <4>3, <4>4
    <3>5. QED
      BY <3>3, <3>4
  <2>9. QED
    BY <2>7, <2>8
<1> HIDE DEF P
<1>3. Nat \subseteq P
  BY <1>1, <1>2, AllNumbers
<1>4. QED
  BY <1>3 DEF P

LEMMA SameBits ==
    \A n \in Nat : \A x, y \in Nat :
        (x < 2 ^ n /\ y < 2 ^ n /\ \A b \in 0 .. n - 1 : Bit(x, b) <=> Bit(y, b)) => x = y
<1> DEFINE R(n) == \A x, y \in Nat :
               (x < 2 ^ n /\ y < 2 ^ n /\ \A b \in 0 .. n - 1 : Bit(x, b) <=> Bit(y, b)) => x = y
           P == {n \in Nat : R(n)}
<1>1. 0 \in P
  <2>1. 2 ^ 0 = 1
    OBVIOUS
  <2>2. R(0)
    BY <2>1
  <2>3. QED
    BY <2>2
<1>2. ASSUME NEW n \in Nat, n \in P PROVE n + 1 \in P
  <2>1. SUFFICES ASSUME NEW x \in Nat, NEW y \in Nat, x < 2 ^ (n + 1), y < 2 ^ (n + 1),
                        \A b \in 0 .. n : Bit(x, b) <=> Bit(y, b)
                 PROVE  x = y
    <3>1. (n + 1) - 1 = n /\ n + 1 \in Nat
      OBVIOUS
    <3>2. QED
      BY <2>1, <3>1
  <2>2. 2 ^ 1 = 2 /\ 2 ^ (n + 1) = 2 * 2 ^ n /\ 2 ^ n \in Nat
    BY PowPositive, PowNext
  <2>3. \A z \in Nat : z \div 2 \in Nat /\ (z < 2 ^ (n + 1) => z \div 2 < 2 ^ n)
                       /\ z = 2 * (z \div 2) + (z % 2) /\ z % 2 \in {0, 1}
    <3> DEFINE a == 2 ^ n
    <3>1. a \in Nat /\ 2 ^ (n + 1) = 2 * a
      BY <2>2
    <3> HIDE DEF a
    <3>2. QED
      BY <3>1 DEF a
  <2>4. ASSUME NEW b \in 0 .. n - 1 PROVE Bit(x \div 2, b) <=> Bit(y \div 2, b)
    <3>1. b + 1 \in 0 .. n /\ b \in Nat
      OBVIOUS
    <3>2. Bit(x \div 2 ^ 1, b) <=> Bit(x, b + 1)
      <4>1. x \in Int /\ 1 \in Nat
        OBVIOUS
      <4>2. QED
        BY <3>1, <4>1, BitOfDiv, Zenon
    <3>3. Bit(y \div 2 ^ 1, b) <=> Bit(y, b + 1)
      <4>1. y \in Int /\ 1 \in Nat
        OBVIOUS
      <4>2. QED
        BY <3>1, <4>1, BitOfDiv, Zenon
    <3>4. QED
      BY <2>1, <2>2, <3>1, <3>2, <3>3
  <2>5. x \div 2 = y \div 2
    <3>1. R(n)
      BY <1>2
    <3>2. /\ x \div 2 \in Nat /\ x \div 2 < 2 ^ n
          /\ y \div 2 \in Nat /\ y \div 2 < 2 ^ n
      BY <2>1, <2>3
    <3>3. QED
      BY <2>4, <3>1, <3>2
  <2>6. x % 2 = y % 2
    <3>1. 2 ^ 0 = 1 /\ x \div 1 = x /\ y \div 1 = y /\ 0 \in 0 .. n
      OBVIOUS
    <3>2. (x \div 2 ^ 0) % 2 = 1 <=> (y \div 2 ^ 0) % 2 = 1
      BY <2>1, <3>1 DEF Bit
    <3>3. x % 2 = 1 <=> y % 2 = 1
      BY <3>1, <3>2
    <3>4. QED
      BY <2>3, <3>3
  <2>7. QED
    BY <2>3, <2>5, <2>6
<1> HIDE DEF P
<1>3. Nat \subseteq P
  BY <1>1, <1>2, AllNumbers
<1>4. QED
  BY <1>3 DEF P

-----------------------------------------------------------------------------
(* 2. Registers.                                                           *)

(* Words and registers.                                                     *)
LEMMA Widths ==
    /\ N \in Nat /\ N >= 8 /\ ByteBits \in Nat /\ N = 4 * ByteBits /\ N \div 2 = 2 * ByteBits
    /\ N \div 4 = ByteBits /\ ByteBits >= 2 /\ N \div 2 \in Nat /\ 2 * N \in Nat
<1> DEFINE q == N \div 4
<1>1. N \in Nat /\ N >= 8 /\ N % 4 = 0
  BY NAssumption
<1>2. N = 4 * q /\ q \in Nat
  BY <1>1
<1> HIDE DEF q
<1>3. N \div 2 = 2 * q
  BY <1>2
<1>4. q >= 2
  BY <1>1, <1>2
<1>5. q = ByteBits
  BY DEF q, ByteBits
<1>6. QED
  BY <1>1, <1>2, <1>3, <1>4, <1>5 DEF q

LEMMA WordSizes ==
    /\ W \in Nat /\ W >= 256 /\ D \in Nat /\ D = W * W /\ D > W
    /\ Half \in Nat /\ Half >= 16 /\ W = Half * Half
    /\ W = 2 ^ N /\ D = 2 ^ (2 * N) /\ Half = 2 ^ (2 * ByteBits)
<1>1. W = 2 ^ N /\ D = 2 ^ (2 * N) /\ Half = 2 ^ (2 * ByteBits)
  BY Widths DEF W, D, Half
<1>2. 2 ^ (N + N) = 2 ^ N * 2 ^ N /\ N + N = 2 * N
  BY Widths, PowSum
<1>3. 2 ^ (2 * ByteBits + 2 * ByteBits) = 2 ^ (2 * ByteBits) * 2 ^ (2 * ByteBits)
      /\ 2 * ByteBits + 2 * ByteBits = N
  BY Widths, PowSum
<1>4. W \in Nat /\ D \in Nat /\ Half \in Nat
  BY <1>1, Widths, PowPositive
<1>5. 4 \in Nat /\ 2 * ByteBits \in Nat /\ 4 <= 2 * ByteBits
  BY Widths
<1>6. 2 ^ 4 <= 2 ^ (2 * ByteBits) /\ 2 ^ 4 = 16
  <2>1. 2 ^ 4 <= 2 ^ (2 * ByteBits)
    BY <1>5, PowSplit, Zenon
  <2>2. 2 ^ 4 = 16
    OBVIOUS
  <2>3. QED
    BY <2>1, <2>2
<1>7. Half >= 16
  BY <1>1, <1>6
<1>8. W = Half * Half /\ D = W * W
  BY <1>1, <1>2, <1>3
<1>9. W >= 256
  BY <1>4, <1>7, <1>8
<1>10. D > W
  BY <1>4, <1>8, <1>9
<1>11. QED
  BY <1>1, <1>4, <1>7, <1>8, <1>9, <1>10

LEMMA WrapValue == \A x \in Int : Wrap(x) \in Values /\ (x \in Values => Wrap(x) = x)
<1> SUFFICES ASSUME NEW x \in Int PROVE Wrap(x) \in Values /\ (x \in Values => Wrap(x) = x)
  OBVIOUS
<1>1. D \in Nat /\ D > 0
  BY WordSizes
<1>2. x % D \in Int /\ 0 <= x % D /\ x % D < D
  BY <1>1, DivMod
<1>3. x \in Values => x % D = x
  BY <1>1, Below DEF Values
<1>4. QED
  BY <1>1, <1>2, <1>3 DEF Wrap, Values

LEMMA WrapAdd ==
    \A x, y \in Int : /\ Wrap(Wrap(x) + y) = Wrap(x + y) /\ Wrap(x + Wrap(y)) = Wrap(x + y)
                      /\ Wrap(x + D) = Wrap(x) /\ Wrap(x - D) = Wrap(x)
<1> SUFFICES ASSUME NEW x \in Int, NEW y \in Int
             PROVE  /\ Wrap(Wrap(x) + y) = Wrap(x + y) /\ Wrap(x + Wrap(y)) = Wrap(x + y)
                    /\ Wrap(x + D) = Wrap(x) /\ Wrap(x - D) = Wrap(x)
  OBVIOUS
<1>1. D \in Nat /\ D > 0
  BY WordSizes
<1>2. ((x % D) + y) % D = (x + y) % D /\ ((y % D) + x) % D = (y + x) % D
  BY <1>1, ModAdd
<1>3. x % D \in Int /\ y % D \in Int
  BY <1>1
<1>4. (x % D) + y = y + (x % D) /\ (y % D) + x = x + (y % D) /\ x + y = y + x
  BY <1>3
<1>5. (x + 1 * D) % D = x % D /\ (x + (-1) * D) % D = x % D
  <2>1. 1 \in Int /\ -1 \in Int
    OBVIOUS
  <2>2. QED
    BY <1>1, <2>1, AddMultiple
<1>6. x + 1 * D = x + D /\ x + (-1) * D = x - D
  BY <1>1
<1>7. QED
  BY <1>2, <1>4, <1>5, <1>6 DEF Wrap

(* The two words of a register.                                             *)
LEMMA WordsOf ==
    \A x \in Nat : /\ Low(x) \in Nat /\ Low(x) < W /\ Low(x) \in Values /\ Low(Low(x)) = Low(x)
                   /\ High(x) \in Nat /\ x = High(x) * W + Low(x)
                   /\ x < W => Low(x) = x /\ High(x) = 0
                   /\ x \in Values => High(x) < W
                   /\ Low(Wrap(x)) = Low(x)
<1> SUFFICES ASSUME NEW x \in Nat
             PROVE  /\ Low(x) \in Nat /\ Low(x) < W /\ Low(x) \in Values /\ Low(Low(x)) = Low(x)
                    /\ High(x) \in Nat /\ x = High(x) * W + Low(x)
                    /\ x < W => Low(x) = x /\ High(x) = 0
                    /\ x \in Values => High(x) < W
                    /\ Low(Wrap(x)) = Low(x)
  OBVIOUS
<1> DEFINE q == x \div W
           m == x % W
<1>1. W \in Nat /\ W > 0 /\ D = W * W /\ D > W /\ D \in Nat
  BY WordSizes
<1>2. x = W * q + m /\ q \in Nat /\ m \in Int /\ 0 <= m /\ m < W
  BY <1>1, DivMod
<1>3. x < W => m = x /\ q = 0
  BY <1>1, Below
<1>4. Low(x) = m /\ High(x) = q
  BY DEF Low, High
<1>5. (x % (W * W)) % W = x % W
  BY <1>1, DivDiv
<1>6. Low(Wrap(x)) = m
  BY <1>1, <1>5 DEF Low, Wrap
<1> HIDE DEF q, m
<1>7. m \in Nat /\ m \in Values
  BY <1>1, <1>2 DEF Values
<1>8. Low(m) = m
  <2>1. m % W = m
    BY <1>1, <1>2, Below
  <2>2. QED
    BY <2>1 DEF Low
<1>9. x \in Values => q < W
  <2>1. SUFFICES ASSUME x \in Values, q >= W PROVE FALSE
    BY <1>1, <1>2
  <2>2. x < W * W
    BY <1>1, <2>1 DEF Values
  <2>3. W * q >= W * W /\ W * q \in Int /\ W * W \in Int
    BY <1>1, <1>2, <2>1
  <2>4. QED
    BY <1>2, <2>2, <2>3
<1>10. x = q * W + m
  BY <1>1, <1>2
<1>11. QED
  BY <1>2, <1>3, <1>4, <1>6, <1>7, <1>8, <1>9, <1>10

LEMMA TwoWords ==
    \A h, l \in Nat : (h < W /\ l < W) =>
        h * W + l \in Values /\ Low(h * W + l) = l /\ High(h * W + l) = h
<1> SUFFICES ASSUME NEW h \in Nat, NEW l \in Nat, h < W, l < W
             PROVE  h * W + l \in Values /\ Low(h * W + l) = l /\ High(h * W + l) = h
  OBVIOUS
<1>1. W \in Nat /\ W > 0 /\ D = W * W /\ D \in Nat
  BY WordSizes
<1>2. (W * h + l) \div W = h /\ (W * h + l) % W = l
  BY <1>1, DivUnique
<1>3. W * h = h * W /\ h * W \in Nat
  BY <1>1
<1>4. h * W + l < W * W
  <2>1. (W - 1 - h) * W >= 0
    BY <1>1
  <2>2. W * W = h * W + W + (W - 1 - h) * W
    BY <1>1
  <2>3. (W - 1 - h) * W \in Int
    BY <1>1
  <2>4. QED
    BY <1>1, <1>3, <2>1, <2>2, <2>3
<1>5. QED
  BY <1>1, <1>2, <1>3, <1>4 DEF Low, High, Values

-----------------------------------------------------------------------------
(* The operators on bits, bit by bit.                                       *)
LEMMA BitsOfBits ==
    \A x : BitsOf(x) \in SUBSET (0 .. 2 * N - 1)
           /\ \A b \in Nat : b \in BitsOf(x) <=> b < 2 * N /\ Bit(x, b)
<1>1. 2 * N \in Nat
  BY Widths
<1>2. QED
  BY <1>1 DEF BitsOf, Bit

LEMMA NumValue ==
    \A S \in SUBSET (0 .. 2 * N - 1) : Num(S) \in Values /\ \A b \in Nat : Bit(Num(S), b) <=> b \in S
<1>1. 2 * N \in Nat /\ D = 2 ^ (2 * N) /\ D \in Nat
  BY Widths, WordSizes
<1>2. QED
  BY <1>1, NumOf DEF Values

LEMMA SameValue ==
    \A x, y \in Values : (\A b \in 0 .. 2 * N - 1 : Bit(x, b) <=> Bit(y, b)) => x = y
<1>1. 2 * N \in Nat /\ D = 2 ^ (2 * N) /\ D \in Nat
  BY Widths, WordSizes
<1>2. \A x \in Values : x \in Nat /\ x < 2 ^ (2 * N)
  BY <1>1 DEF Values
<1>3. QED
  BY <1>1, <1>2, SameBits

LEMMA Logic ==
    \A x, y : /\ And(x, y) \in Values /\ Andc(x, y) \in Values
              /\ Or(x, y) \in Values /\ Xor(x, y) \in Values
              /\ \A b \in Nat :
                    /\ Bit(And(x, y), b) <=> b < 2 * N /\ Bit(x, b) /\ Bit(y, b)
                    /\ Bit(Andc(x, y), b) <=> b < 2 * N /\ Bit(x, b) /\ ~ Bit(y, b)
                    /\ Bit(Or(x, y), b) <=> b < 2 * N /\ (Bit(x, b) \/ Bit(y, b))
<1> SUFFICES ASSUME NEW x, NEW y
             PROVE  /\ And(x, y) \in Values /\ Andc(x, y) \in Values
                    /\ Or(x, y) \in Values /\ Xor(x, y) \in Values
                    /\ \A b \in Nat :
                          /\ Bit(And(x, y), b) <=> b < 2 * N /\ Bit(x, b) /\ Bit(y, b)
                          /\ Bit(Andc(x, y), b) <=> b < 2 * N /\ Bit(x, b) /\ ~ Bit(y, b)
                          /\ Bit(Or(x, y), b) <=> b < 2 * N /\ (Bit(x, b) \/ Bit(y, b))
  OBVIOUS
<1> DEFINE X == BitsOf(x)
           Y == BitsOf(y)
<1>1. X \in SUBSET (0 .. 2 * N - 1) /\ Y \in SUBSET (0 .. 2 * N - 1)
  BY BitsOfBits
<1>2. \A b \in Nat : (b \in X <=> b < 2 * N /\ Bit(x, b)) /\ (b \in Y <=> b < 2 * N /\ Bit(y, b))
  BY BitsOfBits
<1>3. /\ And(x, y) = Num(X \cap Y) /\ Andc(x, y) = Num(X \ Y)
      /\ Or(x, y) = Num(X \union Y) /\ Xor(x, y) = Num((X \ Y) \union (Y \ X))
  BY DEF And, Andc, Or, Xor
<1> HIDE DEF X, Y
<1>4. /\ X \cap Y \in SUBSET (0 .. 2 * N - 1) /\ X \ Y \in SUBSET (0 .. 2 * N - 1)
      /\ X \union Y \in SUBSET (0 .. 2 * N - 1)
      /\ (X \ Y) \union (Y \ X) \in SUBSET (0 .. 2 * N - 1)
  BY <1>1
<1>5. /\ Num(X \cap Y) \in Values /\ Num(X \ Y) \in Values /\ Num(X \union Y) \in Values
      /\ Num((X \ Y) \union (Y \ X)) \in Values
  BY <1>4, NumValue
<1>6. \A b \in Nat : /\ Bit(Num(X \cap Y), b) <=> b \in X /\ b \in Y
                     /\ Bit(Num(X \ Y), b) <=> b \in X /\ ~ (b \in Y)
                     /\ Bit(Num(X \union Y), b) <=> b \in X \/ b \in Y
  BY <1>4, NumValue
<1>7. QED
  BY <1>2, <1>3, <1>5, <1>6

LEMMA NoBits ==
    \A x \in Values : Or(x, 0) = x
<1> SUFFICES ASSUME NEW x \in Values PROVE Or(x, 0) = x
  OBVIOUS
<1>1. Or(x, 0) \in Values
  BY Logic
<1>2. \A b \in 0 .. 2 * N - 1 : Bit(Or(x, 0), b) <=> Bit(x, b)
  <2>1. SUFFICES ASSUME NEW b \in 0 .. 2 * N - 1 PROVE Bit(Or(x, 0), b) <=> Bit(x, b)
    OBVIOUS
  <2>2. b \in Nat /\ b < 2 * N
    BY Widths
  <2>3. Bit(Or(x, 0), b) <=> b < 2 * N /\ (Bit(x, b) \/ Bit(0, b))
    BY <2>2, Logic
  <2>4. QED
    BY <2>2, <2>3, ZeroBits
<1>3. QED
  BY <1>1, <1>2, SameValue

(* Powers of two and runs of ones.                                          *)
LEMMA PowBits == \A k, b \in Nat : Bit(2 ^ k, b) <=> b = k
<1> SUFFICES ASSUME NEW k \in Nat, NEW b \in Nat PROVE Bit(2 ^ k, b) <=> b = k
  OBVIOUS
<1>1. 1 * 2 ^ k = 2 ^ k
  BY PowPositive
<1>2. Bit(1 * 2 ^ k, b) <=> b >= k /\ Bit(1, b - k)
  <2>1. 1 \in Int
    OBVIOUS
  <2>2. QED
    BY <2>1, BitOfProduct, Zenon
<1>3. b >= k => (Bit(1, b - k) <=> b - k = 0)
  BY OneBits
<1>4. QED
  BY <1>1, <1>2, <1>3

LEMMA RunBits == \A k \in Nat : \A b \in Nat : Bit(2 ^ k - 1, b) <=> b < k
<1> DEFINE R(k) == \A b \in Nat : Bit(2 ^ k - 1, b) <=> b < k
           P == {k \in Nat : R(k)}
<1>1. 0 \in P
  <2>1. 2 ^ 0 - 1 = 0
    OBVIOUS
  <2>2. QED
    BY <2>1, ZeroBits
<1>2. ASSUME NEW k \in Nat, k \in P PROVE k + 1 \in P
  <2>1. SUFFICES ASSUME NEW b \in Nat PROVE Bit(2 ^ (k + 1) - 1, b) <=> b < k + 1
    OBVIOUS
  <2>2. 2 ^ k \in Nat /\ 2 ^ k > 0 /\ 2 ^ (k + 1) = 2 * 2 ^ k
    BY PowPositive, PowNext
  <2>3. 2 ^ (k + 1) - 1 = 1 * 2 ^ k + (2 ^ k - 1)
    BY <2>2
  <2>4. Bit(1 * 2 ^ k + (2 ^ k - 1), b) <=> IF b < k THEN Bit(2 ^ k - 1, b) ELSE Bit(1, b - k)
    <3>1. 1 \in Int /\ 2 ^ k - 1 \in Int /\ 0 <= 2 ^ k - 1 /\ 2 ^ k - 1 < 2 ^ k
      BY <2>2
    <3>2. QED
      BY <3>1, BitOfSum, Zenon
  <2>5. Bit(2 ^ k - 1, b) <=> b < k
    BY <1>2
  <2>6. ~ (b < k) => (Bit(1, b - k) <=> b = k)
    <3>1. ~ (b < k) => b - k \in Nat /\ (b - k = 0 <=> b = k)
      OBVIOUS
    <3>2. QED
      BY <3>1, OneBits
  <2>7. QED
    BY <2>3, <2>4, <2>5, <2>6
<1> HIDE DEF P
<1>3. Nat \subseteq P
  BY <1>1, <1>2, AllNumbers
<1>4. QED
  BY <1>3 DEF P

LEMMA HighBits ==
    \A k \in Nat : \A x \in Nat : x < 2 ^ k => \A b \in Nat : b >= k => ~ Bit(x, b)
<1> SUFFICES ASSUME NEW k \in Nat, NEW x \in Nat, x < 2 ^ k, NEW b \in Nat, b >= k
             PROVE  ~ Bit(x, b)
  OBVIOUS
<1>1. x % 2 ^ k = x
  <2> DEFINE d == 2 ^ k
  <2>1. d \in Nat /\ x < d
    BY PowPositive
  <2> HIDE DEF d
  <2>2. x % d = x
    BY <2>1, Below
  <2>3. QED
    BY <2>2 DEF d
<1>2. Bit(x % 2 ^ k, b) <=> b < k /\ Bit(x, b)
  <2>1. x \in Int
    OBVIOUS
  <2>2. QED
    BY <2>1, BitOfMod, Zenon
<1>3. QED
  BY <1>1, <1>2

-----------------------------------------------------------------------------
(* Rotations, shifts and masks, bit by bit.                                 *)
LEMMA ValueFacts == \A x \in Values : x \in Nat /\ x \in Int /\ x < 2 ^ (2 * N) /\ x < D /\ x <= D - 1
  BY WordSizes DEF Values

LEMMA RotlBits ==
    ASSUME NEW x \in Values, NEW n \in Nat, n < 2 * N
    PROVE  /\ Rotl(x, n) \in Values
           /\ \A b \in Nat : b < 2 * N =>
                 (Bit(Rotl(x, n), b) <=> IF b >= n THEN Bit(x, b - n) ELSE Bit(x, b + (2 * N - n)))
<1> DEFINE k == 2 * N - n
           p == 2 ^ k
           r == 2 ^ n
           h == x \div p
           l == x % p
<1>1. k \in Nat /\ k + n = 2 * N /\ 2 * N \in Nat
  BY Widths
<1>2. p \in Nat /\ p > 0 /\ r \in Nat /\ r > 0 /\ D = p * r
  <2>1. p \in Nat /\ p > 0 /\ r \in Nat /\ r > 0
    BY <1>1, PowPositive
  <2>2. 2 ^ (k + n) = p * r
    <3> HIDE DEF k
    <3>1. QED
      BY <1>1, PowSum
  <2>3. QED
    BY <1>1, <2>1, <2>2, WordSizes
<1>3. x \in Nat /\ x < D
  BY ValueFacts
<1>4. x = p * h + l /\ h \in Nat /\ l \in Int /\ 0 <= l /\ l < p
  <2> HIDE DEF p
  <2>1. QED
    BY <1>2, <1>3, DivMod
<1>5. Rotl(x, n) = Wrap(x * r) + h
  BY DEF Rotl
<1>6. \A b \in Nat : (Bit(h, b) <=> Bit(x, b + k)) /\ (Bit(l, b) <=> b < k /\ Bit(x, b))
  <2>1. SUFFICES ASSUME NEW b \in Nat
                 PROVE  (Bit(h, b) <=> Bit(x, b + k)) /\ (Bit(l, b) <=> b < k /\ Bit(x, b))
    OBVIOUS
  <2>2. x \in Int
    BY <1>3
  <2>3. Bit(x \div 2 ^ k, b) <=> Bit(x, b + k)
    <3> HIDE DEF k
    <3>1. QED
      BY <1>1, <2>2, BitOfDiv, Zenon
  <2>4. Bit(x % 2 ^ k, b) <=> b < k /\ Bit(x, b)
    <3> HIDE DEF k
    <3>1. QED
      BY <1>1, <2>2, BitOfMod, Zenon
  <2>5. QED
    BY <2>3, <2>4
<1> HIDE DEF p, h, l
<1>7. x * r = l * r + h * D
  <2> HIDE DEF r
  <2>1. x * r = (p * h) * r + l * r /\ (p * h) * r = h * (p * r)
    BY <1>2, <1>4
  <2>2. l * r \in Int /\ h * (p * r) \in Int
    BY <1>2, <1>4
  <2>3. QED
    BY <1>2, <2>1, <2>2
<1>8. l * r \in Nat /\ l * r <= D - r
  <2> HIDE DEF r
  <2>1. (p - 1 - l) * r >= 0 /\ (p - 1 - l) * r \in Int /\ l * r \in Nat
    BY <1>2, <1>4
  <2>2. p * r = l * r + r + (p - 1 - l) * r
    BY <1>2, <1>4
  <2>3. QED
    BY <1>2, <2>1, <2>2
<1>9. h < r
  <2> HIDE DEF r
  <2>1. SUFFICES ASSUME h >= r PROVE FALSE
    BY <1>2, <1>4
  <2>2. p * h >= p * r /\ p * h \in Int /\ p * r \in Int
    BY <1>2, <1>4, <2>1
  <2>3. QED
    BY <1>2, <1>3, <1>4, <2>2
<1>10. Wrap(x * r) = l * r
  <2> HIDE DEF r
  <2>1. (l * r + h * D) % D = (l * r) % D
    <3>1. D \in Nat /\ D > 0 /\ l * r \in Int /\ h \in Int
      BY <1>4, <1>8, WordSizes
    <3>2. QED
      BY <3>1, AddMultiple
  <2>2. (l * r) % D = l * r
    <3>1. D \in Nat /\ l * r \in Int /\ 0 <= l * r /\ l * r < D
      BY <1>2, <1>8, WordSizes
    <3>2. QED
      BY <3>1, Below
  <2>3. QED
    BY <1>7, <2>1, <2>2 DEF Wrap
<1>11. Rotl(x, n) = l * 2 ^ n + h
  BY <1>5, <1>10
<1>12. Rotl(x, n) \in Values
  <2> HIDE DEF r
  <2>1. l * r + h \in Nat /\ l * r + h < D /\ D \in Nat
    BY <1>2, <1>4, <1>8, <1>9, WordSizes
  <2>2. QED
    BY <1>11, <2>1 DEF Values, r
<1>13. ASSUME NEW b \in Nat, b < 2 * N
       PROVE  Bit(Rotl(x, n), b) <=> IF b >= n THEN Bit(x, b - n) ELSE Bit(x, b + (2 * N - n))
  <2>1. Bit(l * 2 ^ n + h, b) <=> IF b < n THEN Bit(h, b) ELSE Bit(l, b - n)
    <3>1. h \in Int /\ 0 <= h /\ h < 2 ^ n
      BY <1>4, <1>9
    <3>2. QED
      BY <1>4, <3>1, BitOfSum, Zenon
  <2>2. CASE b < n
    <3>1. ~ (b >= n)
      BY <2>2
    <3>2. QED
      BY <1>6, <1>11, <2>1, <2>2, <3>1
  <2>3. CASE ~ (b < n)
    <3>1. b >= n /\ b - n \in Nat /\ b - n < k
      BY <1>1, <1>13, <2>3
    <3>2. Bit(l, b - n) <=> b - n < k /\ Bit(x, b - n)
      BY <1>6, <3>1
    <3>3. QED
      BY <1>11, <2>1, <2>3, <3>1, <3>2
  <2>4. QED
    BY <2>2, <2>3
<1>14. QED
  BY <1>12, <1>13

LEMMA RotlNone == \A x \in Values : Rotl(x, 0) = x
<1> SUFFICES ASSUME NEW x \in Values PROVE Rotl(x, 0) = x
  OBVIOUS
<1>1. 2 ^ 0 = 1 /\ x * 1 = x /\ 2 * N - 0 = 2 * N /\ x \in Int /\ 0 <= x
  BY ValueFacts, Widths
<1>2. Wrap(x) = x
  BY <1>1, WrapValue
<1>3. x \div D = 0
  <2>1. D \in Nat /\ x < D
    BY ValueFacts, WordSizes
  <2>2. QED
    BY <1>1, <2>1, Below
<1>4. QED
  BY <1>1, <1>2, <1>3, WordSizes DEF Rotl

LEMMA ShiftBits ==
    ASSUME NEW x \in Values, NEW n \in Nat
    PROVE  /\ \A b \in Nat : Bit(x \div 2 ^ n, b) <=> Bit(x, b + n)
           /\ \A b \in Nat : Bit(x * 2 ^ n, b) <=> b >= n /\ Bit(x, b - n)
           /\ \A b \in Nat : Bit(Wrap(x * 2 ^ n), b) <=> b < 2 * N /\ b >= n /\ Bit(x, b - n)
           /\ \A b \in Nat : Bit(Low(x * 2 ^ n), b) <=> b < N /\ b >= n /\ Bit(x, b - n)
           /\ x \div 2 ^ n \in Values /\ Wrap(x * 2 ^ n) \in Values /\ Low(x * 2 ^ n) \in Values
           /\ Low(x * 2 ^ n) < W /\ x * 2 ^ n \in Nat
<1>1. x \in Int /\ x \in Nat
  BY ValueFacts
<1> DEFINE d == 2 ^ n
<1>2. d \in Nat /\ d > 0
  BY PowPositive
<1>3. x * 2 ^ n \in Nat
  <2>1. x * d \in Nat
    BY <1>1, <1>2
  <2>2. QED
    BY <2>1
<1>4. x \div 2 ^ n \in Values
  <2> HIDE DEF d
  <2>1. x \div d \in Nat /\ x \div d <= x
    BY <1>1, <1>2, DivMod
  <2>2. QED
    BY <2>1, ValueFacts, WordSizes DEF Values, d
<1>5. Wrap(x * 2 ^ n) \in Values /\ Low(x * 2 ^ n) \in Values /\ Low(x * 2 ^ n) < W
  <2> DEFINE y == x * 2 ^ n
  <2>1. y \in Nat
    BY <1>3
  <2> HIDE DEF y
  <2>2. Wrap(y) \in Values /\ Low(y) \in Values /\ Low(y) < W
    BY <2>1, WrapValue, WordsOf
  <2>3. QED
    BY <2>2 DEF y
<1>6. \A b \in Nat : Bit(x \div 2 ^ n, b) <=> Bit(x, b + n)
  BY <1>1, BitOfDiv, Zenon
<1>7. \A b \in Nat : Bit(x * 2 ^ n, b) <=> b >= n /\ Bit(x, b - n)
  BY <1>1, BitOfProduct, Zenon
<1>8. \A b \in Nat : Bit((x * 2 ^ n) % 2 ^ (2 * N), b) <=> b < 2 * N /\ Bit(x * 2 ^ n, b)
  <2>1. 2 * N \in Nat /\ x * 2 ^ n \in Int
    BY <1>3, Widths
  <2>2. QED
    BY <2>1, BitOfMod, Zenon
<1>9. \A b \in Nat : Bit((x * 2 ^ n) % 2 ^ N, b) <=> b < N /\ Bit(x * 2 ^ n, b)
  <2>1. N \in Nat /\ x * 2 ^ n \in Int
    BY <1>3, Widths
  <2>2. QED
    BY <2>1, BitOfMod, Zenon
<1>10. \A y : Wrap(y) = y % 2 ^ (2 * N) /\ Low(y) = y % 2 ^ N
  BY WordSizes DEF Wrap, Low
<1>11. QED
  BY <1>3, <1>4, <1>5, <1>6, <1>7, <1>8, <1>9, <1>10

LEMMA LowBits == \A x \in Nat : \A b \in Nat : Bit(Low(x), b) <=> b < N /\ Bit(x, b)
<1> SUFFICES ASSUME NEW x \in Nat, NEW b \in Nat PROVE Bit(Low(x), b) <=> b < N /\ Bit(x, b)
  OBVIOUS
<1>1. N \in Nat /\ x \in Int
  BY Widths
<1>2. Bit(x % 2 ^ N, b) <=> b < N /\ Bit(x, b)
  BY <1>1, BitOfMod, Zenon
<1>3. QED
  BY <1>2, WordSizes DEF Low

LEMMA SameSet ==
    \A x, y : (\A b \in Nat : b < 2 * N => (Bit(x, b) <=> Bit(y, b))) => BitsOf(x) = BitsOf(y)
<1>1. \A x, b : b \in BitsOf(x) <=> b \in Nat /\ b < 2 * N /\ Bit(x, b)
  <2>1. \A b : b \in 0 .. 2 * N - 1 <=> b \in Nat /\ b < 2 * N
    BY Widths
  <2>2. QED
    BY <2>1 DEF BitsOf, Bit
<1>2. QED
  BY <1>1

LEMMA SameMask ==
    \A x, y : (\A b \in Nat : b < 2 * N => (Bit(x, b) <=> Bit(y, b))) =>
        \A z : And(z, x) = And(z, y) /\ Andc(z, x) = Andc(z, y)
  BY SameSet DEF And, Andc

(* Two registers that agree on every bit.                                   *)
LEMMA SameRegister ==
    \A x, y \in Values : (\A b \in Nat : b < 2 * N => (Bit(x, b) <=> Bit(y, b))) => x = y
<1>1. \A b \in 0 .. 2 * N - 1 : b \in Nat /\ b < 2 * N
  BY Widths
<1>2. QED
  BY <1>1, SameValue

LEMMA MaskBits ==
    ASSUME NEW mb \in Nat, NEW me \in Nat, mb <= me, me < 2 * N
    PROVE  /\ BookMask(mb, me) \in Values
           /\ \A b \in Nat : Bit(BookMask(mb, me), b) <=> 2 * N - 1 - me <= b /\ b <= 2 * N - 1 - mb
<1> DEFINE S == BitsFromLeft(mb .. me)
<1>1. 2 * N \in Nat
  BY Widths
<1>2. S \in SUBSET (0 .. 2 * N - 1)
  BY <1>1 DEF BitsFromLeft
<1>3. \A b \in Nat : b \in S <=> 2 * N - 1 - me <= b /\ b <= 2 * N - 1 - mb
  <2>1. SUFFICES ASSUME NEW b \in Nat
                 PROVE  b \in S <=> 2 * N - 1 - me <= b /\ b <= 2 * N - 1 - mb
    OBVIOUS
  <2>2. ASSUME 2 * N - 1 - me <= b, b <= 2 * N - 1 - mb PROVE b \in S
    <3>1. 2 * N - 1 - b \in mb .. me /\ b = 2 * N - 1 - (2 * N - 1 - b)
      BY <1>1, <2>2
    <3>2. QED
      BY <3>1 DEF BitsFromLeft
  <2>3. ASSUME b \in S PROVE 2 * N - 1 - me <= b /\ b <= 2 * N - 1 - mb
    <3>1. PICK c \in mb .. me : b = 2 * N - 1 - c
      BY <2>3 DEF BitsFromLeft
    <3>2. QED
      BY <1>1, <3>1
  <2>4. QED
    BY <2>2, <2>3
<1>4. BookMask(mb, me) = Num(S)
  BY DEF BookMask
<1> HIDE DEF S
<1>5. Num(S) \in Values /\ \A b \in Nat : Bit(Num(S), b) <=> b \in S
  BY <1>2, NumValue
<1>6. QED
  BY <1>3, <1>4, <1>5

(* The masks the translator builds.                                         *)
LEMMA OnesBits == Ones \in Values /\ \A b \in Nat : Bit(Ones, b) <=> b < 2 * N
<1>1. 2 * N \in Nat /\ Ones = 2 ^ (2 * N) - 1
  BY Widths, WordSizes DEF Ones
<1>2. Ones \in Values
  BY WordSizes DEF Ones, Values
<1>3. \A b \in Nat : Bit(2 ^ (2 * N) - 1, b) <=> b < 2 * N
  BY <1>1, RunBits
<1>4. QED
  BY <1>1, <1>2, <1>3

LEMMA BuiltMasks ==
    ASSUME NEW sh \in 0 .. 2 * N - 1, NEW mb \in 0 .. 2 * N - 1
    PROVE  /\ \A b \in Nat : Bit(Ones \div 2 ^ mb, b) <=> b + mb < 2 * N
           /\ \A b \in Nat : Bit(LeftOnes(mb), b) <=> b < 2 * N /\ b >= 2 * N - 1 - mb
           /\ sh + mb < 2 * N =>
                \A b \in Nat : Bit(Wrap((Ones \div 2 ^ ((sh + mb) % (2 * N))) * 2 ^ sh), b)
                                 <=> b >= sh /\ b <= 2 * N - 1 - mb
<1>1. 2 * N \in Nat /\ sh \in Nat /\ mb \in Nat /\ 2 * N - 1 - mb \in Nat
  BY Widths
<1>2. \A m \in Nat : Ones \div 2 ^ m \in Values
                     /\ \A b \in Nat : Bit(Ones \div 2 ^ m, b) <=> b + m < 2 * N
  <2>1. SUFFICES ASSUME NEW m \in Nat
                 PROVE  Ones \div 2 ^ m \in Values
                        /\ \A b \in Nat : Bit(Ones \div 2 ^ m, b) <=> b + m < 2 * N
    OBVIOUS
  <2>2. Ones \div 2 ^ m \in Values /\ \A b \in Nat : Bit(Ones \div 2 ^ m, b) <=> Bit(Ones, b + m)
    BY OnesBits, ShiftBits, Zenon
  <2>3. \A b \in Nat : b + m \in Nat
    OBVIOUS
  <2>4. QED
    BY <2>2, <2>3, OnesBits
<1>3. \A x \in Values : \A n \in Nat : \A b \in Nat :
          Bit(Wrap(x * 2 ^ n), b) <=> b < 2 * N /\ b >= n /\ Bit(x, b - n)
  BY ShiftBits, Zenon
<1>4. \A b \in Nat : Bit(LeftOnes(mb), b) <=> b < 2 * N /\ b >= 2 * N - 1 - mb
  <2>1. SUFFICES ASSUME NEW b \in Nat
                 PROVE  Bit(LeftOnes(mb), b) <=> b < 2 * N /\ b >= 2 * N - 1 - mb
    OBVIOUS
  <2> DEFINE n == 2 * N - 1 - mb
  <2>2. n \in Nat
    BY <1>1
  <2>3. Bit(Wrap(Ones * 2 ^ n), b) <=> b < 2 * N /\ b >= n /\ Bit(Ones, b - n)
    BY <1>3, <2>2, OnesBits
  <2>4. (b < 2 * N /\ b >= n) => b - n \in Nat /\ b - n < 2 * N
    BY <1>1
  <2>5. QED
    BY <2>3, <2>4, OnesBits DEF LeftOnes
<1>5. ASSUME sh + mb < 2 * N, NEW b \in Nat
      PROVE  Bit(Wrap((Ones \div 2 ^ ((sh + mb) % (2 * N))) * 2 ^ sh), b)
                                 <=> b >= sh /\ b <= 2 * N - 1 - mb
  <2> DEFINE m == sh + mb
             x == Ones \div 2 ^ m
  <2>1. m \in Nat /\ m % (2 * N) = m
    <3>1. m \in Nat /\ m \in Int /\ 0 <= m /\ m < 2 * N
      BY <1>1, <1>5
    <3> HIDE DEF m
    <3>2. m % (2 * N) = m
      BY <1>1, <3>1, Below
    <3>3. QED
      BY <3>1, <3>2
  <2>2. x \in Values /\ \A c \in Nat : Bit(x, c) <=> c + m < 2 * N
    BY <1>2, <2>1
  <2> HIDE DEF x
  <2>3. Bit(Wrap(x * 2 ^ sh), b) <=> b < 2 * N /\ b >= sh /\ Bit(x, b - sh)
    BY <1>1, <1>3, <2>2
  <2>4. b >= sh => b - sh \in Nat /\ ((b - sh) + m < 2 * N <=> b <= 2 * N - 1 - mb)
    BY <1>1
  <2>5. b <= 2 * N - 1 - mb => b < 2 * N
    BY <1>1
  <2>6. Bit(Wrap(x * 2 ^ sh), b) <=> b >= sh /\ b <= 2 * N - 1 - mb
    BY <2>2, <2>3, <2>4, <2>5
  <2>7. QED
    BY <2>1, <2>6 DEF x
<1>6. QED
  BY <1>1, <1>2, <1>4, <1>5

-----------------------------------------------------------------------------
(* The rotates: the intermediates compute what the book does.               *)
LEMMA RightMask ==
    ASSUME NEW s \in Values, NEW sh \in 0 .. 2 * N - 1, NEW mb \in 0 .. 2 * N - 1
    PROVE  /\ \A z : And(z, Ones \div 2 ^ mb) = And(z, BookMask(mb, 2 * N - 1))
           /\ (sh # 0 /\ 2 * N - sh = mb) =>
                 s \div 2 ^ mb = And(Rotl(s, sh), BookMask(mb, 2 * N - 1))
<1> DEFINE m == BookMask(mb, 2 * N - 1)
<1>1. 2 * N \in Nat /\ sh \in Nat /\ mb \in Nat /\ mb <= 2 * N - 1 /\ 2 * N - 1 < 2 * N
      /\ 2 * N - 1 \in Nat /\ sh < 2 * N
  BY Widths
<1>2. \A b \in Nat : Bit(m, b) <=> b <= 2 * N - 1 - mb
  <2>1. \A b \in Nat : Bit(m, b) <=> 2 * N - 1 - (2 * N - 1) <= b /\ b <= 2 * N - 1 - mb
    BY <1>1, MaskBits
  <2>2. \A b \in Nat : 2 * N - 1 - (2 * N - 1) <= b
    BY <1>1
  <2>3. QED
    BY <2>1, <2>2
<1>3. \A b \in Nat : Bit(Ones \div 2 ^ mb, b) <=> b + mb < 2 * N
  BY BuiltMasks
<1>4. \A b \in Nat : b + mb < 2 * N <=> b <= 2 * N - 1 - mb
  BY <1>1
<1> HIDE DEF m
<1>5. \A z : And(z, Ones \div 2 ^ mb) = And(z, m)
  BY <1>2, <1>3, <1>4, SameMask
<1>6. ASSUME sh # 0, 2 * N - sh = mb PROVE s \div 2 ^ mb = And(Rotl(s, sh), m)
  <2> DEFINE x == s \div 2 ^ mb
             y == And(Rotl(s, sh), m)
  <2>1. x \in Values /\ \A b \in Nat : Bit(x, b) <=> Bit(s, b + mb)
    BY <1>1, ShiftBits
  <2>2. y \in Values /\ \A b \in Nat : Bit(y, b) <=> b < 2 * N /\ Bit(Rotl(s, sh), b) /\ Bit(m, b)
    BY Logic
  <2>3. \A b \in Nat : b < 2 * N =>
            (Bit(Rotl(s, sh), b) <=> IF b >= sh THEN Bit(s, b - sh) ELSE Bit(s, b + (2 * N - sh)))
    BY <1>1, RotlBits
  <2> HIDE DEF x, y
  <2>4. ASSUME NEW b \in Nat, b < 2 * N PROVE Bit(x, b) <=> Bit(y, b)
    <3>1. CASE b < sh
      <4>1. b <= 2 * N - 1 - mb /\ ~ (b >= sh)
        BY <1>1, <1>6, <3>1
      <4>2. QED
        BY <1>2, <1>6, <2>1, <2>2, <2>3, <2>4, <4>1
    <3>2. CASE ~ (b < sh)
      <4>1. ~ (b <= 2 * N - 1 - mb) /\ b + mb >= 2 * N /\ b + mb \in Nat
        BY <1>1, <1>6, <3>2
      <4>2. s \in Nat /\ s < 2 ^ (2 * N)
        BY ValueFacts
      <4>3. ~ Bit(s, b + mb)
        BY <1>1, <4>1, <4>2, HighBits
      <4>4. QED
        BY <1>2, <2>1, <2>2, <4>1, <4>3
    <3>3. QED
      BY <3>1, <3>2
  <2>5. x = y
    BY <2>1, <2>2, <2>4, SameRegister
  <2>6. QED
    BY <2>5 DEF x, y
<1>7. QED
  BY <1>5, <1>6 DEF m

LEMMA LeftMask ==
    ASSUME NEW s \in Values, NEW sh \in 0 .. 2 * N - 1, NEW mb \in 0 .. 2 * N - 1
    PROVE  /\ \A z : And(z, LeftOnes(mb)) = And(z, BookMask(0, mb))
           /\ 2 * N - 1 - mb = sh => Wrap(s * 2 ^ sh) = And(Rotl(s, sh), BookMask(0, mb))
<1> DEFINE m == BookMask(0, mb)
<1>1. 2 * N \in Nat /\ sh \in Nat /\ mb \in Nat /\ 0 <= mb /\ mb < 2 * N /\ 0 \in Nat /\ sh < 2 * N
  BY Widths
<1>2. \A b \in Nat : b < 2 * N => (Bit(m, b) <=> b >= 2 * N - 1 - mb)
  <2>1. \A b \in Nat : Bit(m, b) <=> 2 * N - 1 - mb <= b /\ b <= 2 * N - 1 - 0
    BY <1>1, MaskBits
  <2>2. \A b \in Nat : b < 2 * N => b <= 2 * N - 1 - 0
    BY <1>1
  <2>3. QED
    BY <1>1, <2>1, <2>2
<1>3. \A b \in Nat : Bit(LeftOnes(mb), b) <=> b < 2 * N /\ b >= 2 * N - 1 - mb
  BY BuiltMasks
<1> HIDE DEF m
<1>4. \A z : And(z, LeftOnes(mb)) = And(z, m)
  BY <1>2, <1>3, SameMask
<1>5. ASSUME 2 * N - 1 - mb = sh PROVE Wrap(s * 2 ^ sh) = And(Rotl(s, sh), m)
  <2> DEFINE x == Wrap(s * 2 ^ sh)
             y == And(Rotl(s, sh), m)
  <2>1. x \in Values /\ \A b \in Nat : Bit(x, b) <=> b < 2 * N /\ b >= sh /\ Bit(s, b - sh)
    BY <1>1, ShiftBits
  <2>2. y \in Values /\ \A b \in Nat : Bit(y, b) <=> b < 2 * N /\ Bit(Rotl(s, sh), b) /\ Bit(m, b)
    BY Logic
  <2>3. \A b \in Nat : b < 2 * N =>
            (Bit(Rotl(s, sh), b) <=> IF b >= sh THEN Bit(s, b - sh) ELSE Bit(s, b + (2 * N - sh)))
    BY <1>1, RotlBits
  <2> HIDE DEF x, y
  <2>4. \A b \in Nat : b < 2 * N => (Bit(x, b) <=> Bit(y, b))
    BY <1>2, <1>5, <2>1, <2>2, <2>3
  <2>5. x = y
    BY <2>1, <2>2, <2>4, SameRegister
  <2>6. QED
    BY <2>5 DEF x, y
<1>6. QED
  BY <1>4, <1>5 DEF m

LEMMA InsertMask ==
    ASSUME NEW sh \in 0 .. 2 * N - 1, NEW mb \in 0 .. 2 * N - 1, sh + mb < 2 * N
    PROVE  \A z : LET ins == Wrap((Ones \div 2 ^ ((sh + mb) % (2 * N))) * 2 ^ sh)
                      m == BookMask(mb, 2 * N - 1 - sh)
                  IN  And(z, ins) = And(z, m) /\ Andc(z, ins) = Andc(z, m)
<1> DEFINE m == BookMask(mb, 2 * N - 1 - sh)
           ins == Wrap((Ones \div 2 ^ ((sh + mb) % (2 * N))) * 2 ^ sh)
<1>1. /\ 2 * N \in Nat /\ sh \in Nat /\ mb \in Nat /\ 2 * N - 1 - sh \in Nat
      /\ mb <= 2 * N - 1 - sh /\ 2 * N - 1 - sh < 2 * N
      /\ 2 * N - 1 - (2 * N - 1 - sh) = sh
  BY Widths
<1>2. \A b \in Nat : Bit(m, b) <=> b >= sh /\ b <= 2 * N - 1 - mb
  <2>1. \A b \in Nat : Bit(m, b) <=> 2 * N - 1 - (2 * N - 1 - sh) <= b /\ b <= 2 * N - 1 - mb
    BY <1>1, MaskBits
  <2>2. QED
    BY <1>1, <2>1
<1>3. \A b \in Nat : Bit(ins, b) <=> b >= sh /\ b <= 2 * N - 1 - mb
  BY BuiltMasks
<1> HIDE DEF m, ins
<1>4. \A z : And(z, ins) = And(z, m) /\ Andc(z, ins) = Andc(z, m)
  BY <1>2, <1>3, SameMask
<1>5. QED
  BY <1>4 DEF m, ins

(* A rotated word, with its copy beside it.                                 *)
LEMMA RotlWord ==
    ASSUME NEW s \in Values, NEW n \in Nat, n < N
    PROVE  /\ Rotl32(Low(s), n) \in Values
           /\ \A b \in Nat : b < N =>
                 (Bit(Rotl32(Low(s), n), b) <=>
                    IF b >= n THEN Bit(s, b - n) ELSE Bit(s, b + (N - n)))
<1> DEFINE w == Low(s)
           x == w * W + w
<1>1. s \in Nat /\ w \in Nat /\ w < W /\ W = 2 ^ N /\ N \in Nat /\ n < 2 * N
  BY ValueFacts, WordsOf, WordSizes, Widths
<1>2. x \in Values
  <2> HIDE DEF w
  <2>1. QED
    BY <1>1, TwoWords
<1>3. \A b \in Nat : Bit(x, b) <=> IF b < N THEN Bit(w, b) ELSE Bit(w, b - N)
  <2>1. w \in Int /\ 0 <= w /\ w < 2 ^ N
    BY <1>1
  <2> HIDE DEF w
  <2>2. \A b \in Nat : Bit(w * 2 ^ N + w, b) <=> IF b < N THEN Bit(w, b) ELSE Bit(w, b - N)
    BY <1>1, <2>1, BitOfSum, Zenon
  <2>3. QED
    BY <1>1, <2>2
<1>4. \A b \in Nat : b < N => (Bit(w, b) <=> Bit(s, b))
  BY <1>1, LowBits
<1>5. Rotl32(Low(s), n) = Rotl(x, n)
  BY DEF Rotl32
<1> HIDE DEF x, w
<1>6. /\ Rotl(x, n) \in Values
      /\ \A b \in Nat : b < 2 * N =>
            (Bit(Rotl(x, n), b) <=> IF b >= n THEN Bit(x, b - n) ELSE Bit(x, b + (2 * N - n)))
  BY <1>1, <1>2, RotlBits
<1>7. ASSUME NEW b \in Nat, b < N
      PROVE  Bit(Rotl(x, n), b) <=> IF b >= n THEN Bit(s, b - n) ELSE Bit(s, b + (N - n))
  <2>1. CASE b >= n
    <3>1. b < 2 * N /\ b - n \in Nat /\ b - n < N
      BY <1>1, <1>7, <2>1
    <3>2. QED
      BY <1>3, <1>4, <1>6, <2>1, <3>1
  <2>2. CASE ~ (b >= n)
    <3>1. /\ b < 2 * N /\ b + (2 * N - n) \in Nat /\ ~ (b + (2 * N - n) < N)
          /\ b + (2 * N - n) - N = b + (N - n) /\ b + (N - n) \in Nat /\ b + (N - n) < N
      BY <1>1, <1>7, <2>2
    <3>2. Bit(Rotl(x, n), b) <=> Bit(x, b + (2 * N - n))
      BY <1>6, <2>2, <3>1
    <3>3. Bit(x, b + (2 * N - n)) <=> Bit(w, b + (2 * N - n) - N)
      <4>1. \A j \in Nat : ~ (j < N) => (Bit(x, j) <=> Bit(w, j - N))
        BY <1>3
      <4>2. QED
        BY <1>1, <3>1, <4>1
    <3>4. Bit(w, b + (2 * N - n) - N) <=> Bit(s, b + (N - n))
      BY <1>4, <3>1
    <3>5. QED
      BY <2>2, <3>2, <3>3, <3>4
  <2>3. QED
    BY <2>1, <2>2
<1>8. QED
  BY <1>5, <1>6, <1>7

(* The mask of a word: the last N bits of the register from mb to me.       *)
LEMMA WordMask ==
    ASSUME NEW mb \in Nat, NEW me \in Nat, mb <= me, me < N
    PROVE  \A b \in Nat : Bit(BookMask(mb + N, me + N), b) <=> N - 1 - me <= b /\ b <= N - 1 - mb
<1>1. /\ mb + N \in Nat /\ me + N \in Nat /\ mb + N <= me + N /\ me + N < 2 * N
      /\ 2 * N - 1 - (me + N) = N - 1 - me /\ 2 * N - 1 - (mb + N) = N - 1 - mb
  BY Widths
<1>2. \A b \in Nat : Bit(BookMask(mb + N, me + N), b)
                       <=> 2 * N - 1 - (me + N) <= b /\ b <= 2 * N - 1 - (mb + N)
  BY <1>1, MaskBits, Zenon
<1>3. QED
  BY <1>1, <1>2

LEMMA WordRotates ==
    ASSUME NEW s \in Values, NEW sh \in 0 .. N - 1, NEW mb \in 0 .. N - 1, NEW me \in 0 .. N - 1
    PROVE  LET book == And(Rotl32(Low(s), sh), BookMask(mb + N, me + N))
           IN  /\ (sh = 0 /\ mb > 0 /\ me = N - 1) => And(s, 2 ^ (N - mb) - 1) = book
               /\ (sh = 0 /\ mb = 0 /\ me < N - 1) => And(s, W - 2 ^ (N - 1 - me)) = book
               /\ (sh > 0 /\ mb = 0 /\ me = N - 1 - sh) => Low(Low(s) * 2 ^ sh) = book
               /\ (sh > 0 /\ mb = N - sh /\ me = N - 1) => Low(s) \div 2 ^ mb = book
<1> DEFINE r == Rotl32(Low(s), sh)
           m == BookMask(mb + N, me + N)
           book == And(r, m)
<1>1. /\ N \in Nat /\ sh \in Nat /\ sh < N /\ mb \in Nat /\ mb < N /\ me \in Nat /\ me < N
      /\ \A b \in Nat : b < N => b < 2 * N
  BY Widths
<1>2. \A b \in Nat : b < N =>
          (Bit(r, b) <=> IF b >= sh THEN Bit(s, b - sh) ELSE Bit(s, b + (N - sh)))
  BY <1>1, RotlWord
<1>3. mb <= me => \A b \in Nat : Bit(m, b) <=> N - 1 - me <= b /\ b <= N - 1 - mb
  BY <1>1, WordMask
<1>4. book \in Values /\ \A b \in Nat : Bit(book, b) <=> b < 2 * N /\ Bit(r, b) /\ Bit(m, b)
  BY Logic
<1>5. s \in Nat /\ Low(s) \in Values /\ \A b \in Nat : Bit(Low(s), b) <=> b < N /\ Bit(s, b)
  BY ValueFacts, WordsOf, LowBits
<1> HIDE DEF r, m, book
<1>6. ASSUME sh = 0, mb > 0, me = N - 1 PROVE And(s, 2 ^ (N - mb) - 1) = book
  <2> DEFINE k == N - mb
             x == And(s, 2 ^ k - 1)
  <2>1. k \in Nat
    BY <1>1
  <2>2. \A b \in Nat : Bit(2 ^ k - 1, b) <=> b < k
    BY <2>1, RunBits
  <2>3. x \in Values /\ \A b \in Nat : Bit(x, b) <=> b < 2 * N /\ Bit(s, b) /\ Bit(2 ^ k - 1, b)
    BY Logic
  <2>4. \A b \in Nat : (b < k => b < N /\ b >= sh /\ b - sh = b)
                       /\ (b < k <=> N - 1 - me <= b /\ b <= N - 1 - mb)
    BY <1>1, <1>6
  <2>5. mb <= me
    BY <1>1, <1>6
  <2> HIDE DEF x, k
  <2>6. \A b \in Nat : b < 2 * N => (Bit(x, b) <=> Bit(book, b))
    BY <1>2, <1>3, <1>4, <2>2, <2>3, <2>4, <2>5
  <2>7. x = book
    BY <1>4, <2>3, <2>6, SameRegister
  <2>8. QED
    BY <2>7 DEF x, k
<1>7. ASSUME sh = 0, mb = 0, me < N - 1 PROVE And(s, W - 2 ^ (N - 1 - me)) = book
  <2> DEFINE k == N - 1 - me
             x == And(s, W - 2 ^ k)
  <2>1. k \in Nat /\ k <= N /\ me + 1 \in Nat /\ me + 1 = N - k
    BY <1>1
  <2>2. W - 2 ^ k = (2 ^ (me + 1) - 1) * 2 ^ k
    <3> DEFINE p == 2 ^ k
               q == 2 ^ (me + 1)
    <3>1. 2 ^ N = 2 ^ (N - k) * 2 ^ k
      <4> HIDE DEF k
      <4>1. QED
        BY <1>1, <2>1, PowSplit
    <3>2. W = q * p /\ p \in Nat /\ q \in Nat
      BY <2>1, <3>1, WordSizes, PowPositive
    <3> HIDE DEF p, q
    <3>3. W - p = (q - 1) * p
      BY <3>2
    <3>4. QED
      BY <3>3 DEF p, q
  <2>3. \A b \in Nat : Bit(W - 2 ^ k, b) <=> b >= k /\ b < N
    <3>1. SUFFICES ASSUME NEW b \in Nat PROVE Bit(W - 2 ^ k, b) <=> b >= k /\ b < N
      OBVIOUS
    <3> DEFINE z == 2 ^ (me + 1) - 1
    <3>2. z \in Int
      BY <2>1, PowPositive
    <3>3. \A c \in Nat : Bit(z, c) <=> c < me + 1
      BY <2>1, RunBits
    <3> HIDE DEF z, k
    <3>4. Bit(z * 2 ^ k, b) <=> b >= k /\ Bit(z, b - k)
      BY <2>1, <3>2, BitOfProduct
    <3>5. b >= k => b - k \in Nat /\ (b - k < me + 1 <=> b < N)
      BY <1>1, <2>1
    <3>6. QED
      BY <2>2, <3>3, <3>4, <3>5 DEF z
  <2>4. x \in Values /\ \A b \in Nat : Bit(x, b) <=> b < 2 * N /\ Bit(s, b) /\ Bit(W - 2 ^ k, b)
    BY Logic
  <2>5. \A b \in Nat : (b < N => b >= sh /\ b - sh = b)
                       /\ (b >= k /\ b < N <=> N - 1 - me <= b /\ b <= N - 1 - mb)
    BY <1>1, <1>7
  <2>6. mb <= me
    BY <1>1, <1>7
  <2> HIDE DEF x, k
  <2>7. \A b \in Nat : b < 2 * N => (Bit(x, b) <=> Bit(book, b))
    BY <1>2, <1>3, <1>4, <2>3, <2>4, <2>5, <2>6
  <2>8. x = book
    BY <1>4, <2>4, <2>7, SameRegister
  <2>9. QED
    BY <2>8 DEF x, k
<1>8. ASSUME sh > 0, mb = 0, me = N - 1 - sh PROVE Low(Low(s) * 2 ^ sh) = book
  <2> DEFINE x == Low(Low(s) * 2 ^ sh)
  <2>1. x \in Values /\ \A b \in Nat : Bit(x, b) <=> b < N /\ b >= sh /\ Bit(Low(s), b - sh)
    BY <1>1, <1>5, ShiftBits
  <2>2. \A b \in Nat : (b >= sh /\ b < N) => (Bit(Low(s), b - sh) <=> Bit(s, b - sh))
    <3>1. \A b \in Nat : (b >= sh /\ b < N) => b - sh \in Nat /\ b - sh < N
      BY <1>1
    <3>2. QED
      BY <1>5, <3>1
  <2>3. \A b \in Nat : b < N /\ b >= sh <=> N - 1 - me <= b /\ b <= N - 1 - mb
    BY <1>1, <1>8
  <2>4. mb <= me
    BY <1>1, <1>8
  <2> HIDE DEF x
  <2>5. \A b \in Nat : b < 2 * N => (Bit(x, b) <=> Bit(book, b))
    BY <1>2, <1>3, <1>4, <2>1, <2>2, <2>3, <2>4
  <2>6. x = book
    BY <1>4, <2>1, <2>5, SameRegister
  <2>7. QED
    BY <2>6 DEF x
<1>9. ASSUME sh > 0, mb = N - sh, me = N - 1 PROVE Low(s) \div 2 ^ mb = book
  <2> DEFINE x == Low(s) \div 2 ^ mb
  <2>1. x \in Values /\ \A b \in Nat : Bit(x, b) <=> Bit(Low(s), b + mb)
    BY <1>1, <1>5, ShiftBits
  <2>2. \A b \in Nat : Bit(Low(s), b + mb) <=> b < sh /\ Bit(s, b + (N - sh))
    <3>1. \A b \in Nat : b + mb \in Nat /\ (b + mb < N <=> b < sh) /\ b + mb = b + (N - sh)
      BY <1>1, <1>9
    <3>2. QED
      BY <1>5, <3>1
  <2>3. \A b \in Nat : b < sh <=> N - 1 - me <= b /\ b <= N - 1 - mb
    BY <1>1, <1>9
  <2>4. mb <= me /\ \A b \in Nat : b < sh => b < N /\ ~ (b >= sh)
    BY <1>1, <1>9
  <2> HIDE DEF x
  <2>5. \A b \in Nat : b < 2 * N => (Bit(x, b) <=> Bit(book, b))
    BY <1>2, <1>3, <1>4, <2>1, <2>2, <2>3, <2>4
  <2>6. x = book
    BY <1>4, <2>1, <2>5, SameRegister
  <2>7. QED
    BY <2>6 DEF x
<1>10. QED
  BY <1>6, <1>7, <1>8, <1>9 DEF r, m, book

-----------------------------------------------------------------------------
(* Signed numbers.                                                          *)
LEMMA Halves ==
    /\ \A n \in Nat : n >= 1 => 2 ^ (n - 1) \in Nat /\ 2 ^ (n - 1) > 0 /\ 2 ^ n = 2 * 2 ^ (n - 1)
    /\ 2 ^ (N - 1) \in Nat /\ W = 2 * 2 ^ (N - 1) /\ W \div 2 = 2 ^ (N - 1)
    /\ 2 ^ (2 * N - 1) \in Nat /\ D = 2 * 2 ^ (2 * N - 1) /\ D \div 2 = 2 ^ (2 * N - 1)
    /\ 2 ^ ((N \div 2) - 1) \in Nat /\ Half = 2 * 2 ^ ((N \div 2) - 1)
<1>1. \A n \in Nat : n >= 1 => 2 ^ (n - 1) \in Nat /\ 2 ^ (n - 1) > 0 /\ 2 ^ n = 2 * 2 ^ (n - 1)
  <2>1. SUFFICES ASSUME NEW n \in Nat, n >= 1
                 PROVE  2 ^ (n - 1) \in Nat /\ 2 ^ (n - 1) > 0 /\ 2 ^ n = 2 * 2 ^ (n - 1)
    OBVIOUS
  <2>2. n - 1 \in Nat /\ (n - 1) + 1 = n
    BY <2>1
  <2>3. 2 ^ ((n - 1) + 1) = 2 * 2 ^ (n - 1) /\ 2 ^ (n - 1) \in Nat /\ 2 ^ (n - 1) > 0
    BY <2>2, PowNext, PowPositive
  <2>4. QED
    BY <2>2, <2>3
<1>2. /\ N \in Nat /\ N >= 1 /\ 2 * N \in Nat /\ 2 * N >= 1
      /\ N \div 2 \in Nat /\ N \div 2 >= 1 /\ Half = 2 ^ (N \div 2)
  BY Widths DEF Half
<1>3. /\ 2 ^ (N - 1) \in Nat /\ 2 ^ N = 2 * 2 ^ (N - 1)
      /\ 2 ^ (2 * N - 1) \in Nat /\ 2 ^ (2 * N) = 2 * 2 ^ (2 * N - 1)
      /\ 2 ^ ((N \div 2) - 1) \in Nat /\ 2 ^ (N \div 2) = 2 * 2 ^ ((N \div 2) - 1)
  BY <1>1, <1>2
<1>4. \A h \in Nat : (2 * h) \div 2 = h
  OBVIOUS
<1>5. QED
  BY <1>1, <1>2, <1>3, <1>4, WordSizes

LEMMA SignedFacts ==
    /\ \A x \in Values : /\ Signed(x, 2 * N) \in Int
                         /\ Signed(x, 2 * N) = IF x >= D \div 2 THEN x - D ELSE x
                         /\ -(D \div 2) <= Signed(x, 2 * N) /\ Signed(x, 2 * N) < D \div 2
    /\ \A x \in Nat : /\ Signed(x, N) \in Int
                      /\ Signed(x, N) = IF x >= W \div 2 THEN x - W ELSE x
    /\ D \div 2 \in Nat /\ D = 2 * (D \div 2) /\ W \div 2 \in Nat /\ W = 2 * (W \div 2)
<1>1. /\ D \div 2 \in Nat /\ D = 2 * (D \div 2) /\ W \div 2 \in Nat /\ W = 2 * (W \div 2)
      /\ D \div 2 = 2 ^ (2 * N - 1) /\ W \div 2 = 2 ^ (N - 1)
      /\ D = 2 ^ (2 * N) /\ W = 2 ^ N
  BY Halves, WordSizes
<1>2. \A x \in Values : Signed(x, 2 * N) = IF x >= D \div 2 THEN x - D ELSE x
  BY <1>1 DEF Signed
<1>3. \A x : Signed(x, N) = IF x >= W \div 2 THEN x - W ELSE x
  BY <1>1 DEF Signed
<1>4. QED
  BY <1>1, <1>2, <1>3 DEF Values

LEMMA WrapSigned == \A x \in Values : \A y \in Int : Wrap(Signed(x, 2 * N) + y) = Wrap(x + y)
<1> SUFFICES ASSUME NEW x \in Values, NEW y \in Int
             PROVE  Wrap(Signed(x, 2 * N) + y) = Wrap(x + y)
  OBVIOUS
<1>1. x \in Int /\ D \in Int
  BY ValueFacts, WordSizes
<1>2. Signed(x, 2 * N) = x - D \/ Signed(x, 2 * N) = x
  BY SignedFacts
<1>3. (x - D) + y = (x + y) - D /\ x + y \in Int
  BY <1>1
<1>4. Wrap((x + y) - D) = Wrap(x + y)
  BY <1>3, WrapAdd
<1>5. QED
  BY <1>2, <1>3, <1>4

(* The immediate of an instruction.                                         *)
LEMMA Immediate ==
    ASSUME NEW i \in Encodings
    PROVE  /\ i.imm \in Nat /\ i.imm < Half /\ i.imm \in Values
           /\ D_SI(i) \in Values /\ D_SI(i) \in Nat /\ D_UI(i) = i.imm
           /\ D_UI(i) * Half \in Values /\ D_SI(i) * Half \in Int
           /\ Signed(Low(D_SI(i)), N) = Signed(D_SI(i), 2 * N)
           /\ Low(i.imm) = i.imm
<1> DEFINE v == i.imm
           h == 2 ^ ((N \div 2) - 1)
           g == Signed(v, N \div 2)
<1>1. v \in 0 .. Half - 1
  BY DEF Encodings
<1>2. /\ Half \in Nat /\ h \in Nat /\ Half = 2 * h /\ W = Half * Half /\ W \in Nat /\ Half >= 16
      /\ Half = 2 ^ (N \div 2) /\ D > W /\ D \in Nat /\ D = W * W /\ W >= 256
  BY Halves, WordSizes DEF Half
<1>3. v \in Nat /\ v < Half
  BY <1>1, <1>2
<1>4. g = IF v >= h THEN v - Half ELSE v
  BY <1>2 DEF Signed
<1> HIDE DEF h, g
<1>5. g \in Int /\ -h <= g /\ g < h
  BY <1>2, <1>3, <1>4
<1>6. Half * Half >= 16 * Half
  BY <1>2
<1>7. h < W \div 2 /\ W \div 2 < D \div 2 /\ Half < W /\ v < W
  BY <1>2, <1>3, <1>6, SignedFacts
<1>8. D_SI(i) = Wrap(g) /\ D_UI(i) = v
  BY DEF D_SI, D_UI, g
<1>9. D_SI(i) \in Values /\ D_SI(i) \in Nat /\ v \in Values
  BY <1>2, <1>3, <1>5, <1>7, <1>8, WrapValue DEF Values
<1>10. v * Half \in Values /\ D_SI(i) * Half \in Int
  <2>1. v * Half <= Half * Half /\ v * Half \in Nat
    <3> HIDE DEF v
    <3>1. (Half - v) * Half >= 0
      BY <1>2, <1>3
    <3>2. Half * Half = v * Half + (Half - v) * Half /\ (Half - v) * Half \in Int
      BY <1>2, <1>3
    <3>3. v * Half \in Nat
      BY <1>2, <1>3
    <3>4. QED
      BY <1>2, <3>1, <3>2, <3>3
  <2>2. QED
    BY <1>2, <1>9, <2>1 DEF Values
<1>11. Low(v) = v
  BY <1>3, <1>7, WordsOf
<1>12. CASE g >= 0
  <2>1. D_SI(i) = g
    <3>1. g \in Values
      BY <1>2, <1>5, <1>7, <1>12, SignedFacts DEF Values
    <3>2. QED
      BY <1>5, <1>8, <3>1, WrapValue
  <2>2. Low(g) = g
    <3>1. g \in Nat /\ g < W
      BY <1>2, <1>5, <1>7, <1>12, SignedFacts
    <3>2. QED
      BY <3>1, WordsOf
  <2>3. Signed(g, N) = g /\ Signed(g, 2 * N) = g
    BY <1>2, <1>5, <1>7, <1>9, <1>12, <2>1, SignedFacts
  <2>4. QED
    BY <1>3, <1>8, <1>9, <1>10, <1>11, <2>1, <2>2, <2>3
<1>13. CASE ~ (g >= 0)
  <2>1. D_SI(i) = g + D
    <3>1. g + D \in Values /\ g + D \in Int
      BY <1>2, <1>5, <1>7, <1>13, SignedFacts DEF Values
    <3>2. Wrap(g + D) = g + D /\ Wrap(g + D) = Wrap(g)
      BY <1>5, <3>1, WrapValue, WrapAdd
    <3>3. QED
      BY <1>8, <3>2
  <2>2. Low(g + D) = g + W
    <3>1. (g + W) % W = g + W
      <4>1. g + W \in Int /\ 0 <= g + W /\ g + W < W
        BY <1>2, <1>5, <1>7, <1>13, SignedFacts
      <4>2. QED
        BY <1>2, <4>1, Below
    <3>2. ((g + W) + (W - 1) * W) % W = (g + W) % W
      <4>1. W > 0 /\ g + W \in Int /\ W - 1 \in Int
        BY <1>2, <1>5
      <4>2. QED
        BY <1>2, <4>1, AddMultiple
    <3>3. (g + W) + (W - 1) * W = g + D
      <4>1. (W - 1) * W = W * W - W /\ W * W \in Int
        BY <1>2
      <4>2. QED
        BY <1>2, <1>5, <4>1
    <3>4. QED
      BY <3>1, <3>2, <3>3 DEF Low
  <2>3. Signed(g + W, N) = g
    <3>1. g + W \in Nat /\ g + W >= W \div 2
      BY <1>2, <1>5, <1>7, <1>13, SignedFacts
    <3>2. Signed(g + W, N) = (g + W) - W
      BY <3>1, SignedFacts
    <3>3. QED
      BY <1>2, <1>5, <3>2
  <2>4. Signed(g + D, 2 * N) = g
    <3>1. g + D \in Values /\ g + D >= D \div 2
      BY <1>2, <1>5, <1>7, <1>9, <1>13, <2>1, SignedFacts
    <3>2. Signed(g + D, 2 * N) = (g + D) - D
      BY <3>1, SignedFacts
    <3>3. QED
      BY <1>2, <1>5, <3>2
  <2>5. QED
    BY <1>3, <1>8, <1>9, <1>10, <1>11, <2>1, <2>2, <2>3, <2>4
<1>14. QED
  BY <1>5, <1>12, <1>13

LEMMA Subtract ==
    \A a, b \in Values : Wrap(b + Ones - a + 1) = Wrap(b - a)
<1> SUFFICES ASSUME NEW a \in Values, NEW b \in Values PROVE Wrap(b + Ones - a + 1) = Wrap(b - a)
  OBVIOUS
<1>1. a \in Int /\ b \in Int /\ D \in Int
  BY ValueFacts, WordSizes
<1>2. b + Ones - a + 1 = (b - a) + D /\ b - a \in Int
  BY <1>1 DEF Ones
<1>3. Wrap((b - a) + D) = Wrap(b - a)
  BY <1>2, WrapAdd
<1>4. QED
  BY <1>2, <1>3

(* subfic: its result, and its carry where it is right.                     *)
LEMMA SubficResult ==
    ASSUME NEW a \in Values, NEW v \in Values
    PROVE  LET s == Signed(Ones - a, 2 * N)
               imm == Signed(v, 2 * N)
           IN  /\ Wrap(s + imm + 1) = Wrap(v - a)
               /\ (a = v \/ (D \div 2 <= a /\ a <= v)) => SubficCarries(s, imm) = {a <= v}
<1> DEFINE s == Signed(Ones - a, 2 * N)
           imm == Signed(v, 2 * N)
           k == D \div 2
<1>1. D \in Nat /\ k \in Nat /\ D = 2 * k /\ a \in Nat /\ v \in Nat /\ a < D /\ v < D /\ k > 0
  BY WordSizes, SignedFacts DEF Values
<1>2. Ones - a \in Values /\ Ones - a = D - 1 - a
  BY <1>1 DEF Ones, Values
<1>3. s = (IF Ones - a >= k THEN (Ones - a) - D ELSE Ones - a) /\ s \in Int
  BY <1>2, SignedFacts
<1>4. imm = (IF v >= k THEN v - D ELSE v) /\ imm \in Int
  BY SignedFacts
<1>5. Wrap(s + imm + 1) = Wrap(v - a)
  <2>1. s + imm + 1 = s + (imm + 1) /\ imm + 1 \in Int
    BY <1>3, <1>4
  <2>2. Wrap(s + (imm + 1)) = Wrap((Ones - a) + (imm + 1))
    BY <1>2, <2>1, WrapSigned
  <2>3. (Ones - a) + (imm + 1) = (imm - a) + D /\ imm - a \in Int /\ -a \in Int /\ imm - a = imm + (-a)
    BY <1>1, <1>2, <1>4
  <2>4. Wrap((imm - a) + D) = Wrap(imm - a)
    BY <2>3, WrapAdd
  <2>5. Wrap(imm + (-a)) = Wrap(v + (-a))
    BY <2>3, WrapSigned
  <2>6. v + (-a) = v - a
    BY <1>1
  <2>7. QED
    BY <2>1, <2>2, <2>3, <2>4, <2>5, <2>6
<1>6. ASSUME a = v \/ (k <= a /\ a <= v) PROVE SubficCarries(s, imm) = {a <= v}
  <2> DEFINE sum == Signed(Wrap(s + imm), 2 * N)
             next == Signed(Wrap(s + imm + 1), 2 * N)
  <2>1. a <= v
    BY <1>1, <1>6
  <2>2. CASE a = v
    <3>1. s + imm = -1
      <4> HIDE DEF s, imm, k
      <4>1. QED
        BY <1>1, <1>2, <1>3, <1>4, <2>2
    <3>2. Wrap(-1) = D - 1
      <4>1. D - 1 \in Values /\ D - 1 \in Int /\ -1 \in Int /\ -1 + D = D - 1
        BY <1>1 DEF Values
      <4>2. Wrap(-1 + D) = Wrap(-1) /\ Wrap(D - 1) = D - 1
        BY <4>1, WrapAdd, WrapValue
      <4>3. QED
        BY <4>1, <4>2
    <3>3. sum = -1
      <4>1. D - 1 \in Values /\ D - 1 >= k
        BY <1>1 DEF Values
      <4>2. Signed(D - 1, 2 * N) = (D - 1) - D
        BY <4>1, SignedFacts
      <4>3. (D - 1) - D = -1
        BY <1>1
      <4>4. QED
        BY <3>1, <3>2, <4>2, <4>3
    <3>4. next = 0
      <4>1. s + imm + 1 = 0 /\ 0 \in Values /\ 0 \in Int /\ ~ (0 >= k)
        BY <1>1, <3>1 DEF Values
      <4>2. Wrap(0) = 0 /\ Signed(0, 2 * N) = 0
        BY <4>1, WrapValue, SignedFacts
      <4>3. QED
        BY <4>1, <4>2
    <3> HIDE DEF sum, next
    <3>5. (next < 1) = TRUE /\ (sum < 0) = TRUE
      BY <3>3, <3>4
    <3>6. SubficCarries(s, imm) = {sum < s \/ next < 1, imm < 0 \/ sum < 0}
      BY DEF SubficCarries, sum, next
    <3>7. QED
      BY <2>1, <3>5, <3>6
  <2>3. CASE k <= a /\ a <= v
    <3>1. s = D - 1 - a /\ imm = v - D
      <4> HIDE DEF s, imm, k
      <4>1. QED
        BY <1>1, <1>2, <1>3, <1>4, <2>3
    <3>2. s + imm = v - a - 1
      BY <1>1, <3>1
    <3>3. sum = v - a - 1
      <4>1. CASE v = a
        <5>1. s + imm = -1
          BY <1>1, <3>2, <4>1
        <5>2. D - 1 \in Values /\ D - 1 \in Int /\ -1 \in Int /\ -1 + D = D - 1 /\ D - 1 >= k
          BY <1>1 DEF Values
        <5>3. Wrap(-1 + D) = Wrap(-1) /\ Wrap(D - 1) = D - 1
          BY <5>2, WrapAdd, WrapValue
        <5>4. Signed(D - 1, 2 * N) = (D - 1) - D
          BY <5>2, SignedFacts
        <5>5. (D - 1) - D = v - a - 1
          BY <1>1, <4>1
        <5>6. QED
          BY <5>1, <5>2, <5>3, <5>4, <5>5
      <4>2. CASE v # a
        <5> DEFINE y == v - a - 1
        <5>1. y \in Values /\ ~ (y >= k) /\ y \in Int
          BY <1>1, <2>3, <4>2 DEF Values
        <5>2. Wrap(y) = y /\ Signed(y, 2 * N) = y
          BY <5>1, WrapValue, SignedFacts
        <5>3. QED
          BY <3>2, <5>2
      <4>3. QED
        BY <4>1, <4>2
    <3> HIDE DEF sum, next
    <3>4. (sum < s) = TRUE /\ (imm < 0) = TRUE
      BY <1>1, <3>1, <3>3
    <3>5. SubficCarries(s, imm) = {sum < s \/ next < 1, imm < 0 \/ sum < 0}
      BY DEF SubficCarries, sum, next
    <3>6. QED
      BY <2>1, <3>4, <3>5
  <2>4. QED
    BY <1>6, <2>2, <2>3
<1>7. QED
  BY <1>5, <1>6

-----------------------------------------------------------------------------
(* slw: a count is the same modulo N and 2N where it is below N.            *)
LEMMA ShiftCount ==
    ASSUME NEW b \in Values, b % (2 * N) < N
    PROVE  Low(b) % N = b % (2 * N) /\ b % (2 * N) \in Nat
<1> DEFINE q == W \div N
           m == b % (2 * N)
<1>1. N \in Nat /\ N > 0 /\ W \in Nat /\ W % N = 0 /\ b \in Nat /\ b \in Int /\ 2 * N \in Nat
  BY Widths, WordSizes, ValueFacts, NAssumption
<1>2. W = N * q /\ q \in Nat /\ q > 0
  <2>1. W = N * q + (W % N) /\ q \in Nat
    BY <1>1, DivMod
  <2>2. W = N * q
    BY <1>1, <2>1
  <2>3. W > 0
    BY WordSizes
  <2> HIDE DEF q
  <2>4. QED
    BY <1>1, <2>1, <2>2, <2>3
<1>3. (b % (N * q)) % N = b % N
  <2> HIDE DEF q
  <2>1. QED
    BY <1>1, <1>2, DivDiv
<1>4. (b % (N * 2)) % N = b % N
  <2>1. 2 \in Nat /\ 2 > 0
    OBVIOUS
  <2>2. QED
    BY <1>1, <2>1, DivDiv
<1>5. N * 2 = 2 * N
  BY <1>1
<1>6. m \in Nat /\ m % N = m
  <2>1. m \in Nat /\ m \in Int /\ 0 <= m /\ m < N
    BY <1>1
  <2> HIDE DEF m
  <2>2. m % N = m
    BY <1>1, <2>1, Below
  <2>3. QED
    BY <2>1, <2>2
<1>7. Low(b) % N = b % N
  BY <1>2, <1>3 DEF Low
<1>8. QED
  BY <1>4, <1>5, <1>6, <1>7

(* srawi: no bit is shifted out of a word that the sign is not part of.     *)
LEMMA ShiftedOut ==
    ASSUME NEW s \in Nat, NEW n \in 0 .. N - 1
    PROVE  LET word == Signed(Low(s), N)
           IN  /\ word \in Int /\ word % 2 ^ n = Low(s) % 2 ^ n
               /\ word < 0 <=> Low(s) >= W \div 2
               /\ Wrap(word \div 2 ^ n) \in Values
<1> DEFINE w == Low(s)
           word == Signed(w, N)
           d == 2 ^ n
<1>1. N \in Nat /\ n \in Nat /\ n <= N /\ w \in Nat /\ w < W /\ W \in Nat /\ W = 2 ^ N
  BY Widths, WordSizes, WordsOf
<1>2. d \in Nat /\ d > 0
  BY <1>1, PowPositive
<1>3. word = (IF w >= W \div 2 THEN w - W ELSE w) /\ word \in Int
  BY <1>1, SignedFacts
<1>4. W = 2 ^ (N - n) * d /\ 2 ^ (N - n) \in Nat
  BY <1>1, PowSplit, PowPositive
<1> DEFINE e == 2 ^ (N - n)
<1>5. W = e * d /\ e \in Nat
  BY <1>4
<1> HIDE DEF w, word, d, e
<1>6. word % d = w % d
  <2>1. CASE w >= W \div 2
    <3>1. word = w + (-e) * d
      <4>1. (-e) * d = -W
        BY <1>2, <1>5
      <4>2. QED
        BY <1>1, <1>3, <2>1, <4>1
    <3>2. (w + (-e) * d) % d = w % d
      <4>1. -e \in Int /\ w \in Int
        BY <1>1, <1>5
      <4>2. QED
        BY <1>2, <4>1, AddMultiple
    <3>3. QED
      BY <3>1, <3>2
  <2>2. CASE ~ (w >= W \div 2)
    BY <1>3, <2>2
  <2>3. QED
    BY <2>1, <2>2
<1>7. word < 0 <=> w >= W \div 2
  BY <1>1, <1>3
<1>8. word \div d \in Int
  BY <1>2, <1>3, DivMod
<1>9. QED
  BY <1>3, <1>6, <1>7, <1>8, WrapValue DEF w, word, d

-----------------------------------------------------------------------------
(* XER and the condition register.                                          *)
LEMMA CarryValue == \A x, on : SetCa(x, on) \in Values
  BY Logic DEF SetCa

LEMMA CrMask ==
    ASSUME NEW f \in 0 .. (N \div 4) - 1
    PROVE  \E S \in SUBSET (0 .. N - 1) :
              /\ Lt(f) + Gt(f) + Eq(f) + So(f) = Num(S)
              /\ \E l \in S : Lt(f) = 2 ^ l
              /\ \E g \in S : Gt(f) = 2 ^ g
              /\ \E e \in S : Eq(f) = 2 ^ e
<1> DEFINE l == N - 1 - 4 * f
           g == N - 2 - 4 * f
           e == N - 3 - 4 * f
           o == N - 4 - 4 * f
           S == {l, g, e, o}
<1>1. /\ N \in Nat /\ f \in Nat /\ 4 * f <= N - 4 /\ N \div 4 = ByteBits /\ N = 4 * ByteBits
  BY Widths
<1>2. /\ l \in Nat /\ g \in Nat /\ e \in Nat /\ o \in Nat
      /\ l > g /\ g > e /\ e > o /\ l <= N - 1
  BY <1>1
<1>3. S \in SUBSET (0 .. N - 1) /\ S \subseteq Nat
  BY <1>1, <1>2
<1>4. IsFiniteSet(S)
  <2>1. IsFiniteSet(0 .. N - 1)
    BY <1>1, FS_Interval
  <2>2. QED
    BY <1>3, <2>1, FS_Subset
<1> HIDE DEF l, g, e, o
<1>5. S \ {l} = {g, e, o} /\ {g, e, o} \ {g} = {e, o} /\ {e, o} \ {e} = {o} /\ {o} \ {o} = {}
  BY <1>2
<1>6. /\ IsFiniteSet({g, e, o}) /\ {g, e, o} \subseteq Nat
      /\ IsFiniteSet({e, o}) /\ {e, o} \subseteq Nat
      /\ IsFiniteSet({o}) /\ {o} \subseteq Nat
  <2>1. IsFiniteSet({g, e, o})
    BY <1>4, <1>5, FS_RemoveElement
  <2>2. IsFiniteSet({e, o})
    BY <1>5, <2>1, FS_RemoveElement
  <2>3. IsFiniteSet({o})
    BY <1>5, <2>2, FS_RemoveElement
  <2>4. QED
    BY <1>2, <2>1, <2>2, <2>3
<1>7. Num(S) = 2 ^ l + Num({g, e, o})
  <2>1. l \in S
    OBVIOUS
  <2> HIDE DEF S
  <2>2. QED
    BY <1>3, <1>4, <1>5, <2>1, NumAdd
<1>8. Num({g, e, o}) = 2 ^ g + Num({e, o})
  <2>1. \A b \in {g, e, o} : Num({g, e, o}) = 2 ^ b + Num({g, e, o} \ {b})
    BY <1>6, NumAdd
  <2>2. QED
    BY <1>5, <2>1
<1>9. Num({e, o}) = 2 ^ e + Num({o})
  <2>1. \A b \in {e, o} : Num({e, o}) = 2 ^ b + Num({e, o} \ {b})
    BY <1>6, NumAdd
  <2>2. QED
    BY <1>5, <2>1
<1>10. Num({o}) = 2 ^ o + Num({})
  <2>1. \A b \in {o} : Num({o}) = 2 ^ b + Num({o} \ {b})
    BY <1>6, NumAdd
  <2>2. QED
    BY <1>5, <2>1
<1>11. /\ Lt(f) = 2 ^ l /\ Gt(f) = 2 ^ g /\ Eq(f) = 2 ^ e /\ So(f) = 2 ^ o
  BY DEF Lt, Gt, Eq, So, l, g, e, o
<1>12. 2 ^ l \in Nat /\ 2 ^ g \in Nat /\ 2 ^ e \in Nat /\ 2 ^ o \in Nat
  BY <1>2, PowPositive
<1>13. Lt(f) + Gt(f) + Eq(f) + So(f) = Num(S)
  <2> DEFINE p == 2 ^ l
             q == 2 ^ g
             r == 2 ^ e
             t == 2 ^ o
  <2>1. p \in Nat /\ q \in Nat /\ r \in Nat /\ t \in Nat
    BY <1>12
  <2>2. Num(S) = p + (q + (r + (t + 0)))
    BY <1>7, <1>8, <1>9, <1>10, NumEmpty
  <2>3. Lt(f) + Gt(f) + Eq(f) + So(f) = ((p + q) + r) + t
    BY <1>11
  <2> HIDE DEF p, q, r, t
  <2>4. QED
    BY <2>1, <2>2, <2>3
<1>14. l \in S /\ g \in S /\ e \in S
  OBVIOUS
<1> HIDE DEF S
<1>15. QED
  BY <1>3, <1>11, <1>13, <1>14

(* A comparison leaves one of the bits it clears.                           *)
LEMMA OrderValue ==
    ASSUME NEW f \in 0 .. (N \div 4) - 1, NEW cr \in Values, NEW a, NEW b
    PROVE  ClearCr(cr, f) + Order(f, a, b) \in Values
<1>1. PICK S \in SUBSET (0 .. N - 1) :
              /\ Lt(f) + Gt(f) + Eq(f) + So(f) = Num(S)
              /\ \E l \in S : Lt(f) = 2 ^ l
              /\ \E g \in S : Gt(f) = 2 ^ g
              /\ \E e \in S : Eq(f) = 2 ^ e
  BY CrMask
<1>2. PICK k \in S : Order(f, a, b) = 2 ^ k
  BY <1>1 DEF Order
<1>3. 2 * N \in Nat /\ N \in Nat /\ \A x \in S : x \in Nat /\ x < N /\ x < 2 * N
  BY Widths
<1>4. k \in Nat /\ k < N /\ k < 2 * N
  BY <1>3
<1> DEFINE m == Num(S)
           T == BitsOf(cr) \ BitsOf(m)
           U == T \union {k}
<1>5. k \in BitsOf(m)
  <2>1. Bit(Num(S), k)
    <3>1. S \in SUBSET (0 .. 2 * N - 1)
      BY <1>3
    <3>2. QED
      BY <1>4, <3>1, NumValue
  <2>2. QED
    BY <1>4, <2>1, BitsOfBits
<1>6. ClearCr(cr, f) = Num(T)
  BY <1>1 DEF ClearCr, Andc
<1>7. U \in SUBSET (0 .. 2 * N - 1) /\ k \in U /\ U \ {k} = T
  <2>1. BitsOf(cr) \in SUBSET (0 .. 2 * N - 1)
    BY BitsOfBits
  <2> HIDE DEF m
  <2>2. QED
    BY <1>3, <1>4, <1>5, <2>1
<1> HIDE DEF U, T
<1>8. IsFiniteSet(U) /\ U \subseteq Nat
  <2>1. IsFiniteSet(0 .. 2 * N - 1)
    BY <1>3, FS_Interval
  <2>2. IsFiniteSet(U)
    BY <1>7, <2>1, FS_Subset
  <2>3. QED
    BY <1>7, <2>2
<1>9. Num(U) = 2 ^ k + Num(T)
  BY <1>7, <1>8, NumAdd
<1>10. Num(U) \in Values
  BY <1>7, NumValue
<1>11. T \in SUBSET (0 .. 2 * N - 1)
  BY <1>7
<1>12. Num(T) \in Values /\ 2 ^ k \in Nat
  BY <1>4, <1>11, NumValue, PowPositive
<1>13. Num(T) + 2 ^ k = 2 ^ k + Num(T)
  <2> DEFINE t == Num(T)
             p == 2 ^ k
  <2>1. t \in Int /\ p \in Int
    BY <1>12, ValueFacts
  <2> HIDE DEF t, p
  <2>2. t + p = p + t
    BY <2>1
  <2>3. QED
    BY <2>2 DEF t, p
<1>14. QED
  BY <1>2, <1>6, <1>9, <1>10, <1>13

(* A condition is found in the low word.                                    *)
LEMMA ConditionBit ==
    ASSUME NEW x \in Values, NEW m \in Nat, m < W
    PROVE  And(Low(x), m) = And(x, m)
<1>1. x \in Nat /\ N \in Nat /\ m < 2 ^ N
  BY ValueFacts, Widths, WordSizes
<1>2. \A b \in Nat : /\ Bit(Low(x), b) <=> b < N /\ Bit(x, b)
                     /\ b >= N => ~ Bit(m, b)
  BY <1>1, LowBits, HighBits
<1>3. /\ And(Low(x), m) \in Values /\ And(x, m) \in Values
      /\ \A b \in Nat : /\ Bit(And(Low(x), m), b) <=> b < 2 * N /\ Bit(Low(x), b) /\ Bit(m, b)
                        /\ Bit(And(x, m), b) <=> b < 2 * N /\ Bit(x, b) /\ Bit(m, b)
  BY Logic
<1>4. \A b \in Nat : b < 2 * N => (Bit(And(Low(x), m), b) <=> Bit(And(x, m), b))
  BY <1>1, <1>2, <1>3
<1>5. QED
  BY <1>3, <1>4, SameRegister

(* crclr of one bit.                                                        *)
LEMMA ClearedBit ==
    ASSUME NEW x \in Values
    PROVE  SetLow(x, Low(And(Low(x), W - 1 - 2 ^ (N - 7)))) = Andc(x, 2 ^ (N - 7))
<1> DEFINE k == N - 7
           m == W - 1 - 2 ^ k
           y == And(Low(x), m)
           z == SetLow(x, Low(y))
<1>1. /\ N \in Nat /\ k \in Nat /\ k + 1 \in Nat /\ N - k - 1 \in Nat /\ W = 2 ^ N
      /\ N = (N - k - 1) + (k + 1) /\ x \in Nat /\ k < N
  BY Widths, WordSizes, ValueFacts
<1> HIDE DEF k
<1>2. m = (2 ^ (N - k - 1) - 1) * 2 ^ (k + 1) + (2 ^ k - 1)
  <2> DEFINE p == 2 ^ k
             q == 2 ^ (N - k - 1)
  <2>1. 2 ^ N = 2 ^ (N - k - 1) * 2 ^ (k + 1) /\ 2 ^ (k + 1) = 2 * p
    <3>1. 2 ^ ((N - k - 1) + (k + 1)) = 2 ^ (N - k - 1) * 2 ^ (k + 1)
      BY <1>1, PowSum
    <3>2. 2 ^ (k + 1) = 2 * 2 ^ k
      BY <1>1, PowNext
    <3>3. QED
      BY <1>1, <3>1, <3>2
  <2>2. p \in Nat /\ q \in Nat /\ W = q * (2 * p)
    BY <1>1, <2>1, PowPositive
  <2> HIDE DEF p, q
  <2>3. (q - 1) * (2 * p) = q * (2 * p) - 2 * p /\ q * (2 * p) \in Int
    BY <2>2
  <2>4. W - 1 - p = (q - 1) * (2 * p) + (p - 1)
    BY <2>2, <2>3
  <2>5. QED
    BY <2>1, <2>4 DEF p, q
<1>3. \A b \in Nat : Bit(m, b) <=> b < N /\ b # k
  <2>1. SUFFICES ASSUME NEW b \in Nat PROVE Bit(m, b) <=> b < N /\ b # k
    OBVIOUS
  <2> DEFINE a == 2 ^ (N - k - 1) - 1
             r == 2 ^ k - 1
  <2>2. a \in Int /\ r \in Int /\ 0 <= r /\ r < 2 ^ (k + 1)
    <3>1. 2 ^ (N - k - 1) \in Nat /\ 2 ^ k \in Nat /\ 2 ^ k > 0 /\ 2 ^ (k + 1) = 2 * 2 ^ k
      BY <1>1, PowPositive, PowNext
    <3>2. QED
      BY <3>1
  <2>3. \A c \in Nat : (Bit(a, c) <=> c < N - k - 1) /\ (Bit(r, c) <=> c < k)
    BY <1>1, RunBits
  <2> HIDE DEF a, r
  <2>4. Bit(a * 2 ^ (k + 1) + r, b) <=> IF b < k + 1 THEN Bit(r, b) ELSE Bit(a, b - (k + 1))
    BY <1>1, <2>2, BitOfSum, Zenon
  <2>5. CASE b < k + 1
    <3>1. b < k <=> b < N /\ b # k
      BY <1>1, <2>5
    <3>2. QED
      BY <1>2, <2>3, <2>4, <2>5, <3>1 DEF a, r
  <2>6. CASE ~ (b < k + 1)
    <3>1. b - (k + 1) \in Nat /\ (b - (k + 1) < N - k - 1 <=> b < N /\ b # k)
      BY <1>1, <2>6
    <3>2. QED
      BY <1>2, <2>3, <2>4, <2>6, <3>1 DEF a, r
  <2>7. QED
    BY <2>5, <2>6
<1>4. y \in Values /\ \A b \in Nat : Bit(y, b) <=> b < 2 * N /\ Bit(Low(x), b) /\ Bit(m, b)
  BY Logic
<1>5. \A b \in Nat : Bit(Low(x), b) <=> b < N /\ Bit(x, b)
  BY <1>1, LowBits
<1> HIDE DEF m, y
<1>6. y \in Nat /\ Low(y) \in Nat /\ Low(y) < W /\ High(x) \in Nat /\ High(x) < W
  BY <1>1, <1>4, ValueFacts, WordsOf
<1>7. z \in Values
  BY <1>6, TwoWords DEF SetLow
<1>8. \A b \in Nat : Bit(z, b) <=> IF b < N THEN Bit(Low(y), b) ELSE Bit(High(x), b - N)
  <2> DEFINE h == High(x)
             l == Low(y)
  <2>1. h \in Int /\ l \in Int /\ 0 <= l /\ l < 2 ^ N /\ z = h * 2 ^ N + l
    BY <1>1, <1>6 DEF SetLow
  <2> HIDE DEF h, l, z
  <2>2. \A b \in Nat : Bit(h * 2 ^ N + l, b) <=> IF b < N THEN Bit(l, b) ELSE Bit(h, b - N)
    BY <1>1, <2>1, BitOfSum, Zenon
  <2>3. QED
    BY <2>1, <2>2 DEF h, l
<1>9. \A b \in Nat : b >= N => (Bit(High(x), b - N) <=> Bit(x, b))
  <2>1. SUFFICES ASSUME NEW b \in Nat, b >= N PROVE Bit(High(x), b - N) <=> Bit(x, b)
    OBVIOUS
  <2>2. b - N \in Nat /\ (b - N) + N = b /\ x \in Int
    BY <1>1, <2>1
  <2>3. Bit(x \div 2 ^ N, b - N) <=> Bit(x, (b - N) + N)
    BY <1>1, <2>2, BitOfDiv, Zenon
  <2>4. QED
    BY <1>1, <2>2, <2>3 DEF High
<1>10. \A b \in Nat : b < N => (Bit(Low(y), b) <=> Bit(y, b))
  BY <1>6, LowBits
<1>11. \A b \in Nat : Bit(2 ^ k, b) <=> b = k
  BY <1>1, PowBits
<1>12. /\ Andc(x, 2 ^ k) \in Values
       /\ \A b \in Nat : Bit(Andc(x, 2 ^ k), b) <=> b < 2 * N /\ Bit(x, b) /\ ~ Bit(2 ^ k, b)
  BY Logic
<1> HIDE DEF z
<1>13. ASSUME NEW b \in Nat, b < 2 * N PROVE Bit(z, b) <=> Bit(Andc(x, 2 ^ k), b)
  <2>1. CASE b < N
    BY <1>3, <1>4, <1>5, <1>8, <1>10, <1>11, <1>12, <1>13, <2>1
  <2>2. CASE ~ (b < N)
    <3>1. b >= N /\ b # k
      BY <1>1, <2>2
    <3>2. QED
      BY <1>8, <1>9, <1>11, <1>12, <1>13, <2>2, <3>1
  <2>3. QED
    BY <2>1, <2>2
<1>14. z = Andc(x, 2 ^ k)
  BY <1>7, <1>12, <1>13, SameRegister
<1>15. QED
  BY <1>14 DEF z, y, m, k

-----------------------------------------------------------------------------
(* 3. Bytes, memory and contexts.                                          *)

(* Bytes.                                                                   *)
Bytes == 0 .. 2 ^ ByteBits - 1
Cells == 0 .. MemSize - 1

LEMMA ByteFacts ==
    \A w, k \in Nat : /\ Byte(w, k) \in Bytes
                      /\ Byte(w, k) \in Nat /\ Byte(w, k) < 2 ^ ByteBits
                      /\ \A b \in Nat : Bit(Byte(w, k), b) <=> b < ByteBits /\ Bit(w, b + k * ByteBits)
<1> SUFFICES ASSUME NEW w \in Nat, NEW k \in Nat
             PROVE  /\ Byte(w, k) \in Bytes
                    /\ Byte(w, k) \in Nat /\ Byte(w, k) < 2 ^ ByteBits
                    /\ \A b \in Nat : Bit(Byte(w, k), b)
                                        <=> b < ByteBits /\ Bit(w, b + k * ByteBits)
  OBVIOUS
<1> DEFINE n == k * ByteBits
           x == w \div 2 ^ n
           d == 2 ^ ByteBits
<1>1. n \in Nat /\ ByteBits \in Nat
  BY Widths
<1>2. 2 ^ n \in Nat /\ 2 ^ n > 0 /\ d \in Nat /\ d > 0
  <2> HIDE DEF n
  <2>1. QED
    BY <1>1, PowPositive
<1>3. x \in Nat /\ x \in Int
  <2> DEFINE p == 2 ^ n
  <2>1. p \in Nat /\ p > 0
    BY <1>2
  <2> HIDE DEF p
  <2>2. w \div p \in Nat
    BY <2>1, DivMod
  <2>3. QED
    BY <2>2 DEF p
<1>4. Byte(w, k) = x % d
  BY DEF Byte
<1> HIDE DEF x
<1>5. x % d \in Nat /\ x % d < d
  <2> HIDE DEF d
  <2>1. QED
    BY <1>2, <1>3, DivMod
<1>6. x % d \in Bytes
  BY <1>2, <1>5 DEF Bytes
<1>7. \A b \in Nat : Bit(x % 2 ^ ByteBits, b) <=> b < ByteBits /\ Bit(x, b)
  BY <1>1, <1>3, BitOfMod, Zenon
<1>8. \A b \in Nat : Bit(x, b) <=> Bit(w, b + n)
  <2>1. w \in Int
    OBVIOUS
  <2> HIDE DEF n
  <2>2. QED
    BY <1>1, <2>1, BitOfDiv, Zenon DEF x
<1>9. QED
  BY <1>4, <1>5, <1>6, <1>7, <1>8

LEMMA SameByte ==
    \A x, y \in Bytes : (\A b \in Nat : b < ByteBits => (Bit(x, b) <=> Bit(y, b))) => x = y
<1>1. \A x \in Bytes : x \in Nat /\ x < 2 ^ ByteBits
  <2>1. 2 ^ ByteBits \in Nat
    BY PowPositive, Widths
  <2>2. QED
    BY <2>1 DEF Bytes
<1>2. ByteBits \in Nat /\ \A b \in 0 .. ByteBits - 1 : b \in Nat /\ b < ByteBits
  BY Widths
<1>3. QED
  BY <1>1, <1>2, SameBits

LEMMA WordBytes ==
    \A s \in Nat : \A j \in 0 .. 3 : Byte(Low(s), j) = Byte(s, j) /\ Byte(High(s), j) = Byte(s, j + 4)
<1> SUFFICES ASSUME NEW s \in Nat, NEW j \in 0 .. 3
             PROVE  Byte(Low(s), j) = Byte(s, j) /\ Byte(High(s), j) = Byte(s, j + 4)
  OBVIOUS
<1>1. /\ j \in Nat /\ j + 4 \in Nat /\ N = 4 * ByteBits /\ ByteBits \in Nat /\ N \in Nat
      /\ s \in Int /\ W = 2 ^ N
  BY Widths, WordSizes
<1>2. Low(s) \in Nat /\ High(s) \in Nat
  BY WordsOf
<1>3. /\ Byte(Low(s), j) \in Bytes /\ Byte(s, j) \in Bytes
      /\ Byte(High(s), j) \in Bytes /\ Byte(s, j + 4) \in Bytes
  BY <1>1, <1>2, ByteFacts
<1>4. ASSUME NEW b \in Nat, b < ByteBits
      PROVE  /\ Bit(Byte(Low(s), j), b) <=> Bit(Byte(s, j), b)
             /\ Bit(Byte(High(s), j), b) <=> Bit(Byte(s, j + 4), b)
  <2> DEFINE n == b + j * ByteBits
             m == b + (j + 4) * ByteBits
  <2>1. n \in Nat /\ n < N /\ m = n + N /\ m \in Nat
    <3>1. j * ByteBits <= 3 * ByteBits /\ j * ByteBits \in Nat
      BY <1>1
    <3>2. (j + 4) * ByteBits = j * ByteBits + N
      BY <1>1
    <3>3. QED
      BY <1>1, <1>4, <3>1, <3>2
  <2>2. /\ Bit(Byte(Low(s), j), b) <=> Bit(Low(s), n)
        /\ Bit(Byte(s, j), b) <=> Bit(s, n)
        /\ Bit(Byte(High(s), j), b) <=> Bit(High(s), n)
        /\ Bit(Byte(s, j + 4), b) <=> Bit(s, m)
    BY <1>1, <1>2, <1>4, ByteFacts
  <2> HIDE DEF n, m
  <2>3. Bit(Low(s), n) <=> Bit(s, n)
    BY <2>1, LowBits
  <2>4. Bit(High(s), n) <=> Bit(s, n + N)
    <3>1. Bit(s \div 2 ^ N, n) <=> Bit(s, n + N)
      BY <1>1, <2>1, BitOfDiv, Zenon
    <3>2. QED
      BY <1>1, <3>1 DEF High
  <2>5. QED
    BY <2>1, <2>2, <2>3, <2>4
<1>5. QED
  BY <1>3, <1>4, SameByte

LEMMA AppendDigit ==
    ASSUME NEW d \in Nat, NEW m \in Nat, NEW h \in Nat, NEW l \in Nat, h < m, l < d
    PROVE  h * d + l \in Nat /\ h * d + l < m * d
<1>1. (m - 1 - h) * d >= 0 /\ (m - 1 - h) * d \in Int /\ h * d \in Nat
  OBVIOUS
<1>2. m * d = h * d + d + (m - 1 - h) * d
  OBVIOUS
<1>3. QED
  BY <1>1, <1>2

LEMMA FourBytesWord ==
    \A b0, b1, b2, b3 \in Bytes : FourBytes(b0, b1, b2, b3) \in Nat /\ FourBytes(b0, b1, b2, b3) < W
<1> SUFFICES ASSUME NEW b0 \in Bytes, NEW b1 \in Bytes, NEW b2 \in Bytes, NEW b3 \in Bytes
             PROVE  FourBytes(b0, b1, b2, b3) \in Nat /\ FourBytes(b0, b1, b2, b3) < W
  OBVIOUS
<1> DEFINE d == 2 ^ ByteBits
<1>1. ByteBits \in Nat /\ 2 * ByteBits \in Nat /\ 3 * ByteBits \in Nat
  BY Widths
<1>2. 2 ^ (2 * ByteBits) = d * d
  <2>1. ByteBits + ByteBits = 2 * ByteBits
    BY <1>1
  <2>2. 2 ^ (ByteBits + ByteBits) = 2 ^ ByteBits * 2 ^ ByteBits
    BY <1>1, PowSum
  <2>3. QED
    BY <2>1, <2>2
<1>3. 2 ^ (3 * ByteBits) = (d * d) * d
  <2>1. 2 * ByteBits + ByteBits = 3 * ByteBits
    BY <1>1
  <2>2. 2 ^ (2 * ByteBits + ByteBits) = 2 ^ (2 * ByteBits) * 2 ^ ByteBits
    BY <1>1, PowSum
  <2>3. QED
    BY <1>2, <2>1, <2>2
<1>4. W = ((d * d) * d) * d
  <2>1. 3 * ByteBits + ByteBits = N
    BY Widths
  <2>2. 2 ^ (3 * ByteBits + ByteBits) = 2 ^ (3 * ByteBits) * 2 ^ ByteBits
    BY <1>1, PowSum
  <2>3. QED
    BY <1>3, <2>1, <2>2, WordSizes
<1>5. d \in Nat
  BY <1>1, PowPositive
<1>6. FourBytes(b0, b1, b2, b3) = b0 * ((d * d) * d) + b1 * (d * d) + b2 * d + b3
  BY <1>2, <1>3 DEF FourBytes
<1>7. /\ b0 \in Nat /\ b0 < d /\ b1 \in Nat /\ b1 < d /\ b2 \in Nat /\ b2 < d /\ b3 \in Nat /\ b3 < d
  BY <1>5 DEF Bytes
<1> HIDE DEF d
<1> DEFINE w2 == b0 * d + b1
           w3 == w2 * d + b2
           w4 == w3 * d + b3
<1>8. w2 \in Nat /\ w2 < d * d /\ d * d \in Nat
  BY <1>5, <1>7, AppendDigit
<1>9. w3 \in Nat /\ w3 < (d * d) * d /\ (d * d) * d \in Nat
  <2> HIDE DEF w2
  <2>1. QED
    BY <1>5, <1>7, <1>8, AppendDigit
<1>10. w4 \in Nat /\ w4 < ((d * d) * d) * d
  <2> HIDE DEF w3
  <2>1. QED
    BY <1>5, <1>7, <1>9, AppendDigit
<1>11. w4 = b0 * ((d * d) * d) + b1 * (d * d) + b2 * d + b3
  <2>1. w3 = (b0 * d) * d + b1 * d + b2
    BY <1>5, <1>7
  <2>2. (b0 * d) * d \in Nat /\ b1 * d \in Nat
    BY <1>5, <1>7
  <2>3. ((b0 * d) * d + b1 * d + b2) * d = ((b0 * d) * d) * d + (b1 * d) * d + b2 * d
    BY <1>5, <1>7, <2>2
  <2>4. ((b0 * d) * d) * d = b0 * ((d * d) * d) /\ (b1 * d) * d = b1 * (d * d)
    BY <1>5, <1>7
  <2> HIDE DEF w3
  <2>5. QED
    BY <2>1, <2>3, <2>4
<1>12. QED
  BY <1>4, <1>6, <1>10, <1>11

LEMMA SwappedWord == \A w \in Nat : ByteSwap(w) \in Nat /\ ByteSwap(w) < W
<1>1. \A w \in Nat : /\ Byte(w, 0) \in Bytes /\ Byte(w, 1) \in Bytes
                     /\ Byte(w, 2) \in Bytes /\ Byte(w, 3) \in Bytes
  BY ByteFacts
<1>2. QED
  BY <1>1, FourBytesWord DEF ByteSwap

-----------------------------------------------------------------------------
(* Memory: where the guest's bytes are.                                     *)
LEMMA CellFacts ==
    /\ MemSize \in Nat /\ MemSize >= 8 /\ MemSize <= W /\ MemSize % 4 = 0 /\ MemSize < D
    /\ \A a \in Cells : a \in Nat /\ a < W /\ Low(a) = a /\ a \in Values
    /\ 0 .. MemSize - 8 \subseteq Cells
<1>1. MemSize \in Nat /\ MemSize >= 8 /\ MemSize <= W /\ MemSize % 4 = 0 /\ MemSize < D /\ D \in Nat
  BY MemSizeAssumption, WordSizes
<1>2. \A a \in Cells : a \in Nat /\ a < W /\ a \in Values
  BY <1>1, WordSizes DEF Cells, Values
<1>3. \A a \in Cells : Low(a) = a
  BY <1>2, WordsOf
<1>4. 0 .. MemSize - 8 \subseteq Cells
  BY <1>1 DEF Cells
<1>5. QED
  BY <1>1, <1>2, <1>3, <1>4

LEMMA HostFacts ==
    ASSUME NEW a \in Cells
    PROVE  /\ HostByte(a) \in Cells /\ HostByte(HostByte(a)) = a /\ HostByte(a) \in Nat
           /\ \A e \in 0 .. MemSize - 8 : e % 4 = 0 =>
                /\ HostByte(a) - e \in 0 .. 3 <=> a \in e .. e + 3
                /\ a \in e .. e + 3 => HostByte(a) - e = 3 - (a - e)
                /\ HostByte(a) - e \in 0 .. 7 <=> a \in e .. e + 3 \/ a \in e + 4 .. e + 7
                /\ a \in e + 4 .. e + 7 => HostByte(a) - e = 11 - (a - e)
<1> DEFINE q == a \div 4
           r == a % 4
           m == MemSize \div 4
<1>1. a \in Nat /\ a < MemSize /\ MemSize \in Nat /\ MemSize % 4 = 0
  BY CellFacts DEF Cells
<1>2. a = 4 * q + r /\ q \in Nat /\ r \in 0 .. 3 /\ MemSize = 4 * m /\ m \in Nat
  BY <1>1
<1>3. HostByte(a) = 4 * q + (3 - r)
  BY <1>2 DEF HostByte
<1>4. q < m
  BY <1>1, <1>2
<1>5. HostByte(a) \in Nat /\ HostByte(a) < MemSize
  <2> HIDE DEF q, r, m
  <2>1. QED
    BY <1>2, <1>3, <1>4
<1>6. HostByte(HostByte(a)) = a
  <2> DEFINE x == 4 * q + (3 - r)
  <2>1. x % 4 = 3 - r
    <3> HIDE DEF q, r
    <3>1. QED
      BY <1>2
  <2>2. HostByte(x) = x + 3 - 2 * (3 - r)
    BY <2>1 DEF HostByte
  <2>3. QED
    BY <1>2, <1>3, <2>2
<1>7. ASSUME NEW e \in 0 .. MemSize - 8, e % 4 = 0
      PROVE  /\ HostByte(a) - e \in 0 .. 3 <=> a \in e .. e + 3
             /\ a \in e .. e + 3 => HostByte(a) - e = 3 - (a - e)
             /\ HostByte(a) - e \in 0 .. 7 <=> a \in e .. e + 3 \/ a \in e + 4 .. e + 7
             /\ a \in e + 4 .. e + 7 => HostByte(a) - e = 11 - (a - e)
  <2> DEFINE p == e \div 4
  <2>1. e = 4 * p /\ p \in Nat
    BY <1>1, <1>7
  <2> HIDE DEF q, r, m, p
  <2>2. HostByte(a) - e \in 0 .. 3 <=> q = p
    BY <1>2, <1>3, <2>1
  <2>3. a \in e .. e + 3 <=> q = p
    BY <1>2, <2>1
  <2>4. a \in e + 4 .. e + 7 <=> q = p + 1
    BY <1>2, <2>1
  <2>5. HostByte(a) - e \in 0 .. 7 <=> q = p \/ q = p + 1
    BY <1>2, <1>3, <2>1
  <2>6. q = p => HostByte(a) - e = 3 - (a - e)
    BY <1>2, <1>3, <2>1
  <2>7. q = p + 1 => HostByte(a) - e = 11 - (a - e)
    BY <1>2, <1>3, <2>1
  <2>8. QED
    BY <2>2, <2>3, <2>4, <2>5, <2>6, <2>7
<1>8. QED
  BY <1>1, <1>5, <1>6, <1>7 DEF Cells

-----------------------------------------------------------------------------
(* Contexts.                                                                *)
LEMMA ContextFields ==
    \A c \in CpuContexts :
        /\ c.gpr \in [Regs -> Values] /\ c.sys \in [SysRegs -> Values] /\ c.pc \in Values
        /\ c.mem \in [Cells -> Bytes]
        /\ \A r \in Regs : c.gpr[r] \in Values
        /\ \A r \in SysRegs : c.sys[r] \in Values
        /\ \A a \in Cells : c.mem[a] \in Bytes
  BY DEF CpuContexts, Cells, Bytes

LEMMA ContextTypes ==
    ASSUME NEW c \in CpuContexts
    PROVE  /\ \A r \in Regs, v \in Values :
                 [c EXCEPT !.gpr[r] = v] \in CpuContexts /\ Put(c, r, v) \in CpuContexts
           /\ \A r \in SysRegs, v \in Values : [c EXCEPT !.sys[r] = v] \in CpuContexts
           /\ \A v \in Values : [c EXCEPT !.pc = v] \in CpuContexts
           /\ \A m \in [Cells -> Bytes] : [c EXCEPT !.mem = m] \in CpuContexts
           /\ \A a \in Cells, b \in Bytes : [c EXCEPT !.mem[a] = b] \in CpuContexts
<1>1. /\ c.gpr \in [Regs -> Values] /\ c.sys \in [SysRegs -> Values] /\ c.pc \in Values
      /\ c.mem \in [Cells -> Bytes]
  BY ContextFields
<1>2. \A r \in Regs, v \in Values : [c EXCEPT !.gpr[r] = v] \in CpuContexts
  BY <1>1 DEF CpuContexts
<1>3. \A r \in SysRegs, v \in Values : [c EXCEPT !.sys[r] = v] \in CpuContexts
  BY <1>1 DEF CpuContexts
<1>4. \A v \in Values : [c EXCEPT !.pc = v] \in CpuContexts
  BY <1>1 DEF CpuContexts
<1>5. \A m \in [Cells -> Bytes] : [c EXCEPT !.mem = m] \in CpuContexts
  BY <1>1 DEF CpuContexts, Cells, Bytes
<1>6. \A a \in Cells, b \in Bytes : [c EXCEPT !.mem[a] = b] \in CpuContexts
  BY <1>1 DEF CpuContexts, Cells, Bytes
<1>7. QED
  BY <1>2, <1>3, <1>4, <1>5, <1>6 DEF Put

LEMMA PutFields ==
    ASSUME NEW c \in CpuContexts, NEW r \in Regs, NEW v
    PROVE  /\ Put(c, r, v).gpr = [c.gpr EXCEPT ![r] = v] /\ Put(c, r, v).gpr[r] = v
           /\ \A q \in Regs : q # r => Put(c, r, v).gpr[q] = c.gpr[q]
           /\ Put(c, r, v).sys = c.sys /\ Put(c, r, v).pc = c.pc /\ Put(c, r, v).mem = c.mem
           /\ \A w : Put(Put(c, r, v), r, w) = Put(c, r, w)
           /\ Put(c, r, c.gpr[r]) = c
           /\ Put(c, r, v) = [c EXCEPT !.gpr[r] = v]
<1>1. c.gpr \in [Regs -> Values]
  BY ContextFields
<1>2. c = [gpr |-> c.gpr, sys |-> c.sys, pc |-> c.pc, mem |-> c.mem]
  BY DEF CpuContexts
<1>3. Put(c, r, v) = [gpr |-> [c.gpr EXCEPT ![r] = v], sys |-> c.sys, pc |-> c.pc, mem |-> c.mem]
  BY <1>2 DEF Put
<1>4. /\ Put(c, r, v).gpr = [c.gpr EXCEPT ![r] = v] /\ Put(c, r, v).gpr[r] = v
      /\ \A q \in Regs : q # r => Put(c, r, v).gpr[q] = c.gpr[q]
      /\ Put(c, r, v).sys = c.sys /\ Put(c, r, v).pc = c.pc /\ Put(c, r, v).mem = c.mem
  BY <1>1, <1>3
<1>5. \A w : Put(Put(c, r, v), r, w) = Put(c, r, w)
  BY <1>1, <1>2, <1>3 DEF Put
<1>6. Put(c, r, c.gpr[r]) = c
  BY <1>1, <1>2 DEF Put
<1>7. QED
  BY <1>4, <1>5, <1>6 DEF Put

-----------------------------------------------------------------------------
(* Loads: a word in host order holds the guest's bytes.                     *)
LEMMA Loads ==
    ASSUME NEW c \in CpuContexts, NEW e \in 0 .. MemSize - 8
    PROVE  /\ ReadMem32(c, e) \in Nat /\ ReadMem32(c, e) < W /\ ReadMem32(c, e) \in Values
           /\ ReadMem64(c, e) \in Values
           /\ e % 4 = 0 => GuestWord(c, e) = ReadMem32(c, e) /\ GuestDouble(c, e) = ReadMem64(c, e)
<1>1. \A a \in 0 .. MemSize - 4 : /\ a \in Nat /\ a \in Cells /\ a + 1 \in Cells /\ a + 2 \in Cells
                                  /\ a + 3 \in Cells
  BY CellFacts DEF Cells
<1>2. e \in Nat /\ e \in 0 .. MemSize - 4 /\ e + 4 \in 0 .. MemSize - 4
  BY CellFacts
<1>3. \A a \in 0 .. MemSize - 4 :
          ReadMem32(c, a) = FourBytes(c.mem[a + 3], c.mem[a + 2], c.mem[a + 1], c.mem[a])
  BY <1>1, CellFacts DEF ReadMem32
<1>4. \A a \in 0 .. MemSize - 4 : ReadMem32(c, a) \in Nat /\ ReadMem32(c, a) < W
  <2>1. \A a \in 0 .. MemSize - 4 : /\ c.mem[a] \in Bytes /\ c.mem[a + 1] \in Bytes
                                    /\ c.mem[a + 2] \in Bytes /\ c.mem[a + 3] \in Bytes
    BY <1>1, ContextFields
  <2>2. QED
    BY <1>3, <2>1, FourBytesWord
<1>5. ReadMem64(c, e) \in Values
  <2>1. ReadMem64(c, e) = ReadMem32(c, e) * W + ReadMem32(c, e + 4)
    BY DEF ReadMem64
  <2>2. /\ ReadMem32(c, e) \in Nat /\ ReadMem32(c, e) < W
        /\ ReadMem32(c, e + 4) \in Nat /\ ReadMem32(c, e + 4) < W
    BY <1>2, <1>4
  <2>3. QED
    BY <2>1, <2>2, TwoWords
<1>6. ReadMem32(c, e) \in Values
  BY <1>2, <1>4, WordSizes DEF Values
<1>7. \A a \in 0 .. MemSize - 4 : a % 4 = 0 => GuestWord(c, a) = ReadMem32(c, a)
  <2>1. SUFFICES ASSUME NEW a \in 0 .. MemSize - 4, a % 4 = 0
                 PROVE  GuestWord(c, a) = ReadMem32(c, a)
    OBVIOUS
  <2>2. /\ HostByte(a) = a + 3 /\ HostByte(a + 1) = a + 2 /\ HostByte(a + 2) = a + 1
        /\ HostByte(a + 3) = a
    <3>1. a \in Nat
      BY <1>1
    <3>2. /\ (a + 1) % 4 = 1 /\ (a + 2) % 4 = 2 /\ (a + 3) % 4 = 3
      BY <2>1, <3>1
    <3>3. QED
      BY <2>1, <3>1, <3>2 DEF HostByte
  <2>3. GuestWord(c, a) = FourBytes(c.mem[a + 3], c.mem[a + 2], c.mem[a + 1], c.mem[a])
    BY <2>2 DEF GuestWord, GuestByte
  <2>4. QED
    BY <1>3, <2>3
<1>8. ASSUME e % 4 = 0 PROVE GuestWord(c, e) = ReadMem32(c, e) /\ GuestDouble(c, e) = ReadMem64(c, e)
  <2>1. (e + 4) % 4 = 0
    BY <1>2, <1>8
  <2>2. GuestWord(c, e) = ReadMem32(c, e) /\ GuestWord(c, e + 4) = ReadMem32(c, e + 4)
    BY <1>2, <1>7, <1>8, <2>1
  <2>3. QED
    BY <2>2 DEF GuestDouble, ReadMem64
<1>9. QED
  BY <1>2, <1>4, <1>5, <1>6, <1>8

-----------------------------------------------------------------------------
(* Stores.                                                                  *)
Written(m, a, v) == [x \in Cells |-> IF x \in a .. a + 3 THEN Byte(v, x - a) ELSE m[x]]

LEMMA WrittenWord ==
    ASSUME NEW c \in CpuContexts, NEW a \in 0 .. MemSize - 4, NEW v \in Nat
    PROVE  /\ WriteMem32(c, a, v) = [c EXCEPT !.mem = Written(c.mem, a, v)]
           /\ Written(c.mem, a, v) \in [Cells -> Bytes]
           /\ WriteMem32(c, a, v) \in CpuContexts
<1>1. a \in Nat /\ a \in Cells /\ Low(a) = a
  BY CellFacts DEF Cells
<1>2. DOMAIN c.mem = Cells
  BY ContextFields
<1>3. WriteMem32(c, a, v) = [c EXCEPT !.mem =
          [x \in Cells |-> IF x \in a .. a + 3 THEN Byte(v, x - a) ELSE c.mem[x]]]
  BY <1>1, <1>2 DEF WriteMem32
<1> DEFINE f == [x \in Cells |-> IF x \in a .. a + 3 THEN Byte(v, x - a) ELSE c.mem[x]]
<1>4. f \in [Cells -> Bytes]
  <2>1. \A x \in Cells : x \in a .. a + 3 => Byte(v, x - a) \in Bytes
    <3>1. \A x \in Cells : x \in a .. a + 3 => x - a \in Nat
      BY <1>1, CellFacts
    <3>2. QED
      BY <3>1, ByteFacts
  <2>2. \A x \in Cells : c.mem[x] \in Bytes
    BY ContextFields
  <2>3. QED
    BY <2>1, <2>2
<1> HIDE DEF f
<1>5. [c EXCEPT !.mem = f] \in CpuContexts
  BY <1>4, ContextTypes
<1>6. QED
  BY <1>3, <1>4, <1>5 DEF f, Written

LEMMA StoredWord ==
    ASSUME NEW c \in CpuContexts, NEW e \in 0 .. MemSize - 8, NEW s \in Nat, e % 4 = 0
    PROVE  WriteMem32(c, e, Low(s)) = GuestStore(c, e, 4, s)
<1> DEFINE f == [x \in Cells |-> IF x \in e .. e + 3 THEN Byte(Low(s), x - e) ELSE c.mem[x]]
           g == [x \in Cells |-> LET k == HostByte(x) - e
                                 IN  IF k \in 0 .. 4 - 1 THEN Byte(s, 4 - 1 - k) ELSE c.mem[x]]
<1>1. e \in Nat /\ e \in 0 .. MemSize - 4 /\ Low(s) \in Nat
  BY CellFacts, WordsOf
<1>2. WriteMem32(c, e, Low(s)) = [c EXCEPT !.mem = f]
  <2>1. WriteMem32(c, e, Low(s)) = [c EXCEPT !.mem = Written(c.mem, e, Low(s))]
    BY <1>1, WrittenWord
  <2>2. QED
    BY <2>1 DEF Written
<1>3. DOMAIN c.mem = Cells
  BY ContextFields
<1>4. GuestStore(c, e, 4, s) = [c EXCEPT !.mem = g]
  BY <1>3 DEF GuestStore
<1>5. ASSUME NEW x \in Cells PROVE f[x] = g[x]
  <2> DEFINE k == HostByte(x) - e
  <2>1. /\ k \in 0 .. 3 <=> x \in e .. e + 3
        /\ x \in e .. e + 3 => k = 3 - (x - e)
    BY HostFacts
  <2>2. x \in Nat
    BY CellFacts
  <2>3. CASE x \in e .. e + 3
    <3>1. x - e \in 0 .. 3 /\ 4 - 1 - k = x - e /\ k \in 0 .. 4 - 1
      BY <1>1, <2>1, <2>2, <2>3
    <3>2. Byte(Low(s), x - e) = Byte(s, x - e)
      BY <3>1, WordBytes
    <3>3. f[x] = Byte(Low(s), x - e) /\ g[x] = Byte(s, 4 - 1 - k)
      BY <2>3, <3>1
    <3>4. QED
      BY <3>1, <3>2, <3>3
  <2>4. CASE ~ (x \in e .. e + 3)
    <3>1. ~ (k \in 0 .. 4 - 1)
      BY <2>1, <2>4
    <3>2. QED
      BY <2>4, <3>1
  <2>5. QED
    BY <2>3, <2>4
<1>6. f = g
  BY <1>5
<1>7. QED
  BY <1>2, <1>4, <1>6

LEMMA StoredDouble ==
    ASSUME NEW c \in CpuContexts, NEW e \in 0 .. MemSize - 8, NEW s \in Nat
    PROVE  /\ WriteMem64(c, e, s) \in CpuContexts
           /\ e % 4 = 0 => WriteMem64(c, e, s) = GuestStore(c, e, 8, s)
<1> DEFINE f == Written(c.mem, e, High(s))
           d == [c EXCEPT !.mem = f]
           h == Written(f, e + 4, Low(s))
           g == [x \in Cells |-> LET k == HostByte(x) - e
                                 IN  IF k \in 0 .. 8 - 1 THEN Byte(s, 8 - 1 - k) ELSE c.mem[x]]
<1>1. /\ e \in Nat /\ e \in 0 .. MemSize - 4 /\ e + 4 \in 0 .. MemSize - 4
      /\ Low(s) \in Nat /\ High(s) \in Nat
  BY CellFacts, WordsOf
<1>2. WriteMem32(c, e, High(s)) = d /\ f \in [Cells -> Bytes] /\ d \in CpuContexts
  BY <1>1, WrittenWord
<1>3. d.mem = f
  <2> HIDE DEF f
  <2>1. QED
    BY DEF CpuContexts
<1>4. WriteMem32(d, e + 4, Low(s)) = [d EXCEPT !.mem = h] /\ WriteMem32(d, e + 4, Low(s)) \in CpuContexts
  <2> HIDE DEF d, f
  <2>1. WriteMem32(d, e + 4, Low(s)) = [d EXCEPT !.mem = Written(d.mem, e + 4, Low(s))]
    <3>1. \A y \in 0 .. MemSize - 4 : \A v \in Nat :
              WriteMem32(d, y, v) = [d EXCEPT !.mem = Written(d.mem, y, v)]
      BY <1>2, WrittenWord
    <3>2. QED
      BY <1>1, <3>1, Zenon
  <2>2. WriteMem32(d, e + 4, Low(s)) \in CpuContexts
    BY <1>1, <1>2, WrittenWord
  <2>3. QED
    BY <1>3, <2>1, <2>2
<1>5. WriteMem64(c, e, s) = [d EXCEPT !.mem = h] /\ WriteMem64(c, e, s) \in CpuContexts
  <2> HIDE DEF d, h
  <2>1. WriteMem64(c, e, s) = WriteMem32(d, e + 4, Low(s))
    BY <1>2 DEF WriteMem64
  <2>2. QED
    BY <1>4, <2>1
<1>6. [d EXCEPT !.mem = h] = [c EXCEPT !.mem = h]
  <2> HIDE DEF f, h
  <2>1. QED
    BY DEF CpuContexts
<1>7. ASSUME e % 4 = 0 PROVE WriteMem64(c, e, s) = GuestStore(c, e, 8, s)
  <2>1. DOMAIN c.mem = Cells
    BY ContextFields
  <2>2. GuestStore(c, e, 8, s) = [c EXCEPT !.mem = g]
    BY <2>1 DEF GuestStore
  <2>3. ASSUME NEW x \in Cells PROVE h[x] = g[x]
    <3> USE DEF Written
    <3> DEFINE k == HostByte(x) - e
    <3>1. /\ k \in 0 .. 7 <=> x \in e .. e + 3 \/ x \in e + 4 .. e + 7
          /\ x \in e .. e + 3 => k = 3 - (x - e)
          /\ x \in e + 4 .. e + 7 => k = 11 - (x - e)
      <4>1. /\ HostByte(x) - e \in 0 .. 3 <=> x \in e .. e + 3
            /\ x \in e .. e + 3 => HostByte(x) - e = 3 - (x - e)
            /\ HostByte(x) - e \in 0 .. 7 <=> x \in e .. e + 3 \/ x \in e + 4 .. e + 7
            /\ x \in e + 4 .. e + 7 => HostByte(x) - e = 11 - (x - e)
        BY <1>7, HostFacts
      <4>2. QED
        BY <4>1
    <3>2. x \in Nat
      BY CellFacts
    <3>3. CASE x \in e .. e + 3
      <4>1. /\ x - e \in 0 .. 3 /\ 8 - 1 - k = (x - e) + 4 /\ k \in 0 .. 8 - 1
            /\ ~ (x \in e + 4 .. e + 4 + 3)
        BY <1>1, <3>1, <3>2, <3>3
      <4>2. Byte(High(s), x - e) = Byte(s, (x - e) + 4)
        BY <4>1, WordBytes
      <4>3. h[x] = Byte(High(s), x - e) /\ g[x] = Byte(s, 8 - 1 - k)
        BY <3>3, <4>1
      <4>4. QED
        BY <4>1, <4>2, <4>3
    <3>4. CASE x \in e + 4 .. e + 7
      <4>1. /\ x - (e + 4) \in 0 .. 3 /\ 8 - 1 - k = x - (e + 4) /\ k \in 0 .. 8 - 1
            /\ x \in e + 4 .. e + 4 + 3
        BY <1>1, <3>1, <3>2, <3>4
      <4>2. Byte(Low(s), x - (e + 4)) = Byte(s, x - (e + 4))
        BY <4>1, WordBytes
      <4>3. h[x] = Byte(Low(s), x - (e + 4)) /\ g[x] = Byte(s, 8 - 1 - k)
        BY <4>1
      <4>4. QED
        BY <4>1, <4>2, <4>3
    <3>5. CASE ~ (x \in e .. e + 3) /\ ~ (x \in e + 4 .. e + 7)
      <4>1. ~ (k \in 0 .. 8 - 1) /\ ~ (x \in e + 4 .. e + 4 + 3)
        BY <1>1, <3>1, <3>2, <3>5
      <4>2. QED
        BY <3>5, <4>1
    <3>6. QED
      BY <3>3, <3>4, <3>5
  <2>4. h = g
    BY <2>3 DEF Written
  <2> HIDE DEF h, g, d
  <2>5. QED
    BY <1>5, <1>6, <2>2, <2>4
<1>8. QED
  BY <1>5, <1>7

LEMMA StoredByte ==
    ASSUME NEW c \in CpuContexts, NEW e \in 0 .. MemSize - 8, NEW s \in Nat
    PROVE  /\ WriteMem8(c, e, s % 2 ^ ByteBits) = GuestStore(c, e, 1, s)
           /\ WriteMem8(c, e, s % 2 ^ ByteBits) \in CpuContexts
<1> DEFINE v == s % 2 ^ ByteBits
           a == HostByte(e)
           f == [c.mem EXCEPT ![a] = v]
           g == [x \in Cells |-> LET k == HostByte(x) - e
                                 IN  IF k \in 0 .. 1 - 1 THEN Byte(s, 1 - 1 - k) ELSE c.mem[x]]
<1>1. e \in Cells /\ Low(e) = e /\ e \in Nat
  BY CellFacts
<1>2. a \in Cells
  BY <1>1, HostFacts
<1>3. c.mem \in [Cells -> Bytes] /\ c = [gpr |-> c.gpr, sys |-> c.sys, pc |-> c.pc, mem |-> c.mem]
  BY ContextFields DEF CpuContexts
<1>4. WriteMem8(c, e, v) = [c EXCEPT !.mem[a] = v]
  BY <1>1 DEF WriteMem8
<1>5. v = Byte(s, 0) /\ v \in Bytes
  <2>1. ByteBits \in Nat /\ 0 * ByteBits = 0 /\ 2 ^ 0 = 1 /\ s \div 1 = s
    BY Widths
  <2>2. Byte(s, 0) = v
    BY <2>1 DEF Byte
  <2>3. QED
    BY <2>2, ByteFacts
<1>6. [c EXCEPT !.mem[a] = v] = [c EXCEPT !.mem = f]
  <2> HIDE DEF a, v
  <2>1. QED
    BY <1>3
<1>7. GuestStore(c, e, 1, s) = [c EXCEPT !.mem = g]
  BY <1>3 DEF GuestStore
<1>8. ASSUME NEW x \in Cells PROVE f[x] = g[x]
  <2> DEFINE k == HostByte(x) - e
  <2>1. HostByte(x) \in Nat /\ (HostByte(x) = e <=> x = a)
    <3>1. HostByte(HostByte(x)) = x /\ HostByte(HostByte(e)) = e /\ HostByte(x) \in Nat
      BY <1>1, HostFacts
    <3>2. QED
      BY <3>1
  <2>2. k \in 0 .. 1 - 1 <=> x = a
    BY <1>1, <2>1
  <2>3. CASE x = a
    <3>1. k \in 0 .. 1 - 1 /\ 1 - 1 - k = 0
      BY <2>2, <2>3
    <3>2. g[x] = Byte(s, 0)
      BY <3>1
    <3>3. f[x] = v
      <4> HIDE DEF v
      <4>1. QED
        BY <1>2, <1>3, <2>3
    <3>4. QED
      BY <1>5, <3>2, <3>3
  <2>4. CASE x # a
    <3>1. ~ (k \in 0 .. 1 - 1)
      BY <2>2, <2>4
    <3>2. g[x] = c.mem[x]
      BY <3>1
    <3>3. f[x] = c.mem[x]
      <4> HIDE DEF v, a
      <4>1. QED
        BY <1>3, <2>4
    <3>4. QED
      BY <3>2, <3>3
  <2>5. QED
    BY <2>3, <2>4
<1>9. f = g
  <2>1. DOMAIN f = Cells
    <3> HIDE DEF v, a
    <3>1. QED
      BY <1>3
  <2>2. DOMAIN g = Cells
    OBVIOUS
  <2>3. f = [x \in Cells |-> f[x]] /\ g = [x \in Cells |-> g[x]]
    <3> HIDE DEF v, a
    <3>1. f = [x \in Cells |-> f[x]]
      BY <1>3
    <3>2. QED
      BY <3>1
  <2> HIDE DEF f, g
  <2>4. QED
    BY <1>8, <2>3
<1>10. [c EXCEPT !.mem[a] = v] \in CpuContexts
  BY <1>2, <1>5, ContextTypes
<1>11. QED
  BY <1>4, <1>6, <1>7, <1>9, <1>10

-----------------------------------------------------------------------------
(* 4. Restartable.                                                         *)

(* What may fail or fault, and what only writes the scratch register.       *)
Risky(x) == Fails(x) \/ Accesses(x)
Scratch(x) == x.op = "ADD_IMM" /\ x.dest = GPR_TEMP

(* Of a translation only the first intermediate is risky, or the second     *)
(* after one that writes the scratch register.                              *)
Safe(s) ==
    \/ \E x : s = <<x>>
    \/ \E x, y : s = <<x, y>> /\ ~Risky(y)
    \/ \E x, y, z : s = <<x, y, z>> /\ ~Risky(z) /\ (Risky(y) => Scratch(x))
    \/ \E x, y, z, u : s = <<x, y, z, u>> /\ ~Risky(y) /\ ~Risky(z) /\ ~Risky(u)

LEMMA Lists ==
    ASSUME NEW x, NEW y, NEW z, NEW u
    PROVE  /\ Head(<<x>>) = x /\ Tail(<<x>>) = <<>>
           /\ Head(<<x, y>>) = x /\ Tail(<<x, y>>) = <<y>>
           /\ Head(<<x, y, z>>) = x /\ Tail(<<x, y, z>>) = <<y, z>>
           /\ Head(<<x, y, z, u>>) = x /\ Tail(<<x, y, z, u>>) = <<y, z, u>>
           /\ <<x>> # <<>> /\ <<x, y>> # <<>> /\ <<x, y, z>> # <<>> /\ <<x, y, z, u>> # <<>>
  <1>1. Head(<<x>>) = x /\ Tail(<<x>>) = <<>>
    OBVIOUS
  <1>2. Head(<<x, y>>) = x /\ Tail(<<x, y>>) = <<y>>
    OBVIOUS
  <1>3. Head(<<x, y, z>>) = x /\ Tail(<<x, y, z>>) = <<y, z>>
    OBVIOUS
  <1>4. Head(<<x, y, z, u>>) = x /\ Tail(<<x, y, z, u>>) = <<y, z, u>>
    OBVIOUS
  <1>5. <<x>> # <<>> /\ <<x, y>> # <<>> /\ <<x, y, z>> # <<>> /\ <<x, y, z, u>> # <<>>
    OBVIOUS
  <1> QED
    BY <1>1, <1>2, <1>3, <1>4, <1>5

LEMMA Pair == ASSUME NEW x, NEW y PROVE <<x>> \o <<y>> = <<x, y>>
  <1> DEFINE S == {x, y}
  <1>1. <<x>> \in Seq(S) /\ <<y>> \in Seq(S) /\ <<x, y>> \in Seq(S)
    OBVIOUS
  <1> HIDE DEF S
  <1>2. /\ <<x>> \o <<y>> \in Seq(S)
        /\ Len(<<x>> \o <<y>>) = 2
        /\ \A k \in 1 .. 2 : (<<x>> \o <<y>>)[k] = IF k <= 1 THEN <<x>>[k] ELSE <<y>>[k - 1]
    BY <1>1, ConcatProperties
  <1>3. ASSUME NEW k \in 1 .. 2 PROVE (<<x>> \o <<y>>)[k] = <<x, y>>[k]
    <2>1. CASE k = 1
      BY <1>2, <2>1
    <2>2. CASE k = 2
      BY <1>2, <2>2
    <2> QED
      BY <2>1, <2>2
  <1> QED
    BY <1>1, <1>2, <1>3, SeqEqual

LEMMA Triple == ASSUME NEW x, NEW y, NEW z PROVE <<x, y>> \o <<z>> = <<x, y, z>>
  <1> DEFINE S == {x, y, z}
  <1>1. <<x, y>> \in Seq(S) /\ <<z>> \in Seq(S) /\ <<x, y, z>> \in Seq(S)
    OBVIOUS
  <1> HIDE DEF S
  <1>2. /\ <<x, y>> \o <<z>> \in Seq(S)
        /\ Len(<<x, y>> \o <<z>>) = 3
        /\ \A k \in 1 .. 3 : (<<x, y>> \o <<z>>)[k] = IF k <= 2 THEN <<x, y>>[k] ELSE <<z>>[k - 2]
    BY <1>1, ConcatProperties
  <1>3. ASSUME NEW k \in 1 .. 3 PROVE (<<x, y>> \o <<z>>)[k] = <<x, y, z>>[k]
    <2>1. CASE k \in {1, 2}
      BY <1>2, <2>1
    <2>2. CASE k = 3
      BY <1>2, <2>2
    <2> QED
      BY <2>1, <2>2
  <1> QED
    BY <1>1, <1>2, <1>3, SeqEqual

LEMMA SafeLists ==
    /\ \A x : Safe(<<x>>)
    /\ \A x, y : ~Risky(y) => Safe(<<x, y>>)
    /\ \A x, y, z : (~Risky(z) /\ (~Risky(y) \/ Scratch(x))) => Safe(<<x, y, z>>)
    /\ \A x, y, z, u : (~Risky(y) /\ ~Risky(z) /\ ~Risky(u)) => Safe(<<x, y, z, u>>)
  BY DEF Safe

(* Neither a branch nor a computation in registers can fail or fault.       *)
LEMMA Calm ==
    /\ \A d, v : ~Risky(LoadImm(d, v))
    /\ \A r, t : ~Risky(BranchGpr64NotZero(r, t)) /\ ~Risky(BranchGpr64NotZeroGpr64(r, t))
    /\ \A t : ~Risky(BranchAlways(t))
    /\ \A s, d, v : /\ ~Risky(RegImm("ADD_IMM", s, d, v)) /\ ~Risky(RegImm("AND_IMM_64", s, d, v))
                     /\ ~Risky(RegImm("ROL64_IMM", s, d, v))
                     /\ ~Risky(RegImm("BYTE_SWAP_32", s, d, v))
    /\ \A s, t, d : ~Risky(Reg3("OR", s, t, d))
  BY DEF Risky, Fails, Accesses, MemoryOps, LoadImm, BranchGpr64NotZero, BranchGpr64NotZeroGpr64,
         BranchAlways, RegImm, Reg3

(* A branch with or without a link.                                         *)
LEMMA Linking ==
    ASSUME NEW i, NEW at, NEW x
    PROVE  /\ Safe(<<x>> \o Link(i, at))
           /\ \A y : ~Risky(y) => Safe(<<x, y>> \o Link(i, at))
           /\ ~Risky(x) => Safe(Link(i, at) \o <<x>>)
  <1> DEFINE l == LoadImm(GPR64(GPR_LR), at + 4)
  <1>1. ~Risky(l)
    BY Calm
  <1>2. Link(i, at) = <<l>> \/ Link(i, at) = <<>>
    BY DEF Link
  <1> HIDE DEF l
  <1>3. CASE Link(i, at) = <<l>>
    <2>1. <<x>> \o Link(i, at) = <<x, l>> /\ Link(i, at) \o <<x>> = <<l, x>>
      BY <1>3, Pair
    <2>2. \A y : <<x, y>> \o Link(i, at) = <<x, y, l>>
      BY <1>3, Triple
    <2> QED
      BY <1>1, <2>1, <2>2, SafeLists
  <1>4. CASE Link(i, at) = <<>>
    <2>1. <<x>> \o Link(i, at) = <<x>> /\ Link(i, at) \o <<x>> = <<x>>
      BY <1>4
    <2>2. \A y : <<x, y>> \o Link(i, at) = <<x, y>>
      BY <1>4
    <2> QED
      BY <2>1, <2>2, SafeLists
  <1> QED
    BY <1>2, <1>3, <1>4

LEMMA SafeBcc == \A i, at : Safe(BuildIntermediateBcc(i, at))
  BY Linking, SafeLists, Calm DEF BuildIntermediateBcc

LEMMA SafeSpecial == \A i : Safe(BuildIntermediateSpecial(i))
  <1> SUFFICES ASSUME NEW i PROVE Safe(BuildIntermediateSpecial(i))
    OBVIOUS
  <1>1. Safe(BuildLwbrx(i))
    BY SafeLists, Calm DEF BuildLwbrx, ClearHigh
  <1> QED
    BY <1>1, SafeLists, Calm DEF BuildIntermediateSpecial, ClearHigh

LEMMA SafeTable19 == \A i, at : Safe(BuildIntermediateTable19(i, at))
  BY SafeLists, Calm DEF BuildIntermediateTable19

LEMMA SafeRotate30 == \A i : Safe(BuildRotate30(i))
  <1> SUFFICES ASSUME NEW i PROVE Safe(BuildRotate30(i))
    OBVIOUS
  <1>1. \A mask : Safe(BuildRotateAnd(i, mask))
    BY SafeLists, Calm DEF BuildRotateAnd
  <1> QED
    BY <1>1, SafeLists, Calm DEF BuildRotate30

LEMMA SafeStore ==
    \A i : i.op \in {"stb", "stw", "std", "stdu", "stwu"} => Safe(BuildIntermediateStore(i))
  <1> SUFFICES ASSUME NEW i, i.op \in {"stb", "stw", "std", "stdu", "stwu"}
               PROVE  Safe(BuildIntermediateStore(i))
    OBVIOUS
  <1>1. Safe(BuildStwu(i))
    <2>1. Scratch(RegImm("ADD_IMM", i.ra, GPR_TEMP, D_SI(i)))
      BY DEF Scratch, RegImm
    <2> QED
      BY <2>1, SafeLists, Calm DEF BuildStwu
  <1> QED
    BY <1>1, SafeLists DEF BuildIntermediateStore

LEMMA SafeTranslation == \A i, at : Safe(BuildIntermediate(i, at))
  <1> SUFFICES ASSUME NEW i, NEW at PROVE Safe(BuildIntermediate(i, at))
    OBVIOUS
  <1>1. Safe(Link(i, at) \o <<BranchAlways(B_Target(i, at))>>)
    BY Linking, Calm
  <1>2. \A x : Safe(<<x, ClearHigh(i.rt)>>)
    BY SafeLists, Calm DEF ClearHigh
  <1> QED
    BY <1>1, <1>2, SafeBcc, SafeSpecial, SafeTable19, SafeRotate30, SafeStore, SafeLists
       DEF BuildIntermediate

-----------------------------------------------------------------------------
(* What can be seen of a context, field by field.                           *)
Masked(g) == [g EXCEPT ![GPR_TEMP] = 0]

LEMMA VisibleFields ==
    \A c : /\ DOMAIN Visible(c) = DOMAIN c
           /\ "gpr" \in DOMAIN c => Visible(c)["gpr"] = Masked(c["gpr"])
           /\ \A f \in DOMAIN c : f # "gpr" => Visible(c)[f] = c[f]
           /\ Visible(c) = [f \in DOMAIN c |-> Visible(c)[f]]
  BY DEF Visible, Masked

LEMMA SameFields ==
    ASSUME NEW c, NEW d, DOMAIN c = DOMAIN d,
           "gpr" \in DOMAIN c => Masked(c["gpr"]) = Masked(d["gpr"]),
           \A f \in DOMAIN c : f # "gpr" => c[f] = d[f]
    PROVE  Visible(c) = Visible(d)
  <1>1. \A f \in DOMAIN c : Visible(c)[f] = Visible(d)[f]
    BY VisibleFields
  <1>2. /\ Visible(c) = [f \in DOMAIN c |-> Visible(c)[f]]
        /\ Visible(d) = [f \in DOMAIN d |-> Visible(d)[f]]
    BY VisibleFields
  <1> QED
    BY <1>1, <1>2

LEMMA FieldsSeen ==
    ASSUME NEW c, NEW d, Visible(c) = Visible(d)
    PROVE  /\ DOMAIN c = DOMAIN d
           /\ "gpr" \in DOMAIN c => Masked(c["gpr"]) = Masked(d["gpr"])
           /\ \A f \in DOMAIN c : f # "gpr" => c[f] = d[f]
  <1>1. DOMAIN c = DOMAIN d
    BY VisibleFields
  <1>2. \A f \in DOMAIN c : Visible(c)[f] = Visible(d)[f]
    OBVIOUS
  <1> QED
    BY <1>1, <1>2, VisibleFields

LEMMA ScratchUnseen ==
    ASSUME NEW c, NEW v
    PROVE  Visible([c EXCEPT !.gpr[GPR_TEMP] = v]) = Visible(c)
  <1> DEFINE d == [c EXCEPT !.gpr[GPR_TEMP] = v]
  <1>1. DOMAIN d = DOMAIN c /\ \A f \in DOMAIN c : f # "gpr" => d[f] = c[f]
    OBVIOUS
  <1>2. "gpr" \in DOMAIN c => d["gpr"] = [c["gpr"] EXCEPT ![GPR_TEMP] = v]
    OBVIOUS
  <1>3. \A g : Masked([g EXCEPT ![GPR_TEMP] = v]) = Masked(g)
    BY DEF Masked
  <1> HIDE DEF d
  <1>4. Visible(d) = Visible(c)
    BY <1>1, <1>2, <1>3, SameFields
  <1> QED
    BY <1>4 DEF d

(* The handlers step the pc back to the instruction.                        *)
LEMMA SteppedBack ==
    ASSUME NEW c, NEW s, s.pc \in Int, Visible(c) = Visible([s EXCEPT !.pc = @ + 4])
    PROVE  Visible([c EXCEPT !.pc = @ - 4]) = Visible(s)
  <1> DEFINE d == [c EXCEPT !.pc = @ - 4]
             t == [s EXCEPT !.pc = @ + 4]
  <1>1. /\ DOMAIN t = DOMAIN s
        /\ \A f \in DOMAIN s : t[f] = IF f = "pc" THEN s["pc"] + 4 ELSE s[f]
    OBVIOUS
  <1>2. /\ DOMAIN d = DOMAIN c
        /\ \A f \in DOMAIN c : d[f] = IF f = "pc" THEN c["pc"] - 4 ELSE c[f]
    OBVIOUS
  <1>3. Visible(c) = Visible(t)
    OBVIOUS
  <1> HIDE DEF d, t
  <1>4. /\ DOMAIN c = DOMAIN t
        /\ "gpr" \in DOMAIN c => Masked(c["gpr"]) = Masked(t["gpr"])
        /\ \A f \in DOMAIN c : f # "gpr" => c[f] = t[f]
    BY <1>3, FieldsSeen
  <1>5. s["pc"] \in Int
    OBVIOUS
  <1>6. "gpr" \in DOMAIN c => Masked(d["gpr"]) = Masked(s["gpr"])
    BY <1>1, <1>2, <1>4
  <1>7. \A f \in DOMAIN d : f # "gpr" => d[f] = s[f]
    BY <1>1, <1>2, <1>4, <1>5
  <1>8. Visible(d) = Visible(s)
    BY <1>1, <1>2, <1>4, <1>6, <1>7, SameFields
  <1> QED
    BY <1>8 DEF d

-----------------------------------------------------------------------------
(* The invariant.  While anything of an instruction is left, either nothing *)
(* it did can be seen, or nothing of the rest is risky.                     *)
Harmless(s) ==
    \/ s = <<>>
    \/ \E x : s = <<x>> /\ ~Risky(x)
    \/ \E x, y : s = <<x, y>> /\ ~Risky(x) /\ ~Risky(y)
    \/ \E x, y, z : s = <<x, y, z>> /\ ~Risky(x) /\ ~Risky(y) /\ ~Risky(z)

LEMMA HarmlessLists ==
    /\ Harmless(<<>>)
    /\ \A x : ~Risky(x) => Harmless(<<x>>)
    /\ \A x, y : (~Risky(x) /\ ~Risky(y)) => Harmless(<<x, y>>)
    /\ \A x, y, z : (~Risky(x) /\ ~Risky(y) /\ ~Risky(z)) => Harmless(<<x, y, z>>)
  BY DEF Harmless

LEMMA HarmlessTail ==
    ASSUME NEW s, s # <<>>, Harmless(s) PROVE Harmless(Tail(s))
  <1>1. CASE \E x : s = <<x>> /\ ~Risky(x)
    BY <1>1, Lists, HarmlessLists
  <1>2. CASE \E x, y : s = <<x, y>> /\ ~Risky(x) /\ ~Risky(y)
    BY <1>2, Lists, HarmlessLists
  <1>3. CASE \E x, y, z : s = <<x, y, z>> /\ ~Risky(x) /\ ~Risky(y) /\ ~Risky(z)
    BY <1>3, Lists, HarmlessLists
  <1> QED
    BY <1>1, <1>2, <1>3 DEF Harmless

LEMMA SafeTail ==
    ASSUME NEW s, Safe(s)
    PROVE  \/ Harmless(Tail(s))
           \/ \E x, y, z : s = <<x, y, z>> /\ ~Risky(z) /\ Scratch(x)
  <1>1. CASE \E x : s = <<x>>
    BY <1>1, Lists, HarmlessLists
  <1>2. CASE \E x, y : s = <<x, y>> /\ ~Risky(y)
    BY <1>2, Lists, HarmlessLists
  <1>3. CASE \E x, y, z : s = <<x, y, z>> /\ ~Risky(z) /\ (Risky(y) => Scratch(x))
    <2>1. PICK x, y, z : s = <<x, y, z>> /\ ~Risky(z) /\ (Risky(y) => Scratch(x))
      BY <1>3
    <2>2. Tail(s) = <<y, z>>
      BY <2>1, Lists
    <2> QED
      BY <2>1, <2>2, HarmlessLists
  <1>4. CASE \E x, y, z, u : s = <<x, y, z, u>> /\ ~Risky(y) /\ ~Risky(z) /\ ~Risky(u)
    <2>1. PICK x, y, z, u : s = <<x, y, z, u>> /\ ~Risky(y) /\ ~Risky(z) /\ ~Risky(u)
      BY <1>4
    <2>2. Tail(s) = <<y, z, u>>
      BY <2>1, Lists
    <2> QED
      BY <2>1, <2>2, HarmlessLists
  <1> QED
    BY <1>1, <1>2, <1>3, <1>4 DEF Safe

Unseen == Visible(ctx) = Visible([start EXCEPT !.pc = @ + 4])
Undone == Visible(ctx) = Visible(start)

BookInv ==
    /\ running => \/ Harmless(intermediates)
                  \/ Safe(intermediates) /\ Unseen /\ start.pc \in Int
    /\ ~running => Undone

LEMMA InvRestartable == BookInv /\ running \in BOOLEAN => Restartable
  <1> SUFFICES ASSUME BookInv, running \in BOOLEAN, intermediates # <<>>,
                      Risky(Head(intermediates))
               PROVE  Visible(ctx) = Visible([start EXCEPT !.pc = IF running THEN @ + 4 ELSE @])
    BY DEF Restartable, Risky
  <1>1. CASE running
    <2>1. ~Harmless(intermediates)
      BY Lists DEF Harmless
    <2> QED
      BY <1>1, <2>1 DEF BookInv, Unseen
  <1>2. CASE ~running
    <2>1. Undone
      BY <1>2 DEF BookInv
    <2> DEFINE t == [start EXCEPT !.pc = IF running THEN @ + 4 ELSE @]
    <2>2. DOMAIN t = DOMAIN start /\ \A f \in DOMAIN start : t[f] = start[f]
      BY <1>2
    <2> HIDE DEF t
    <2>3. Visible(t) = Visible(start)
      BY <2>2, SameFields
    <2> QED
      BY <2>1, <2>3 DEF Undone, t
  <1> QED
    BY <1>1, <1>2

(* One that writes the scratch register changes nothing that is seen.       *)
LEMMA ScratchStep ==
    ASSUME NEW c, NEW x, Scratch(x), NEW d \in InterpretIntermediate(c, x)
    PROVE  Visible(d) = Visible(c)
  <1>1. InterpretIntermediate(c, x) = {SetReg(c, GPR64(x.dest), Result64(c, x))}
    BY DEF InterpretIntermediate, Scratch, BranchOps, MemoryOps, Ops64, Ops32, Compares
  <1>2. d = SetReg(c, GPR64(GPR_TEMP), Result64(c, x))
    BY <1>1 DEF Scratch
  <1>3. d = [c EXCEPT !.gpr[GPR_TEMP] = Result64(c, x)]
    BY <1>2 DEF SetReg, GPR64
  <1> QED
    BY <1>3, ScratchUnseen

LEMMA FetchStep == BookInv /\ Fetch => BookInv'
  <1> SUFFICES ASSUME BookInv, Fetch PROVE BookInv'
    OBVIOUS
  <1>1. running' = running /\ running /\ start' = ctx /\ ctx' = [ctx EXCEPT !.pc = @ + 4]
        /\ ctx.pc \in Int
    BY DEF Fetch
  <1>2. Safe(intermediates')
    BY SafeTranslation DEF Fetch
  <1>3. Unseen'
    BY <1>1 DEF Unseen
  <1> QED
    BY <1>1, <1>2, <1>3 DEF BookInv

LEMMA InterpretStep == BookInv /\ Interpret => BookInv'
  <1> SUFFICES ASSUME BookInv, Interpret PROVE BookInv'
    OBVIOUS
  <1> DEFINE s == intermediates
             h == Head(intermediates)
  <1>1. /\ running /\ running' = running /\ start' = start /\ s # <<>>
        /\ intermediates' = Tail(s) /\ ctx' \in InterpretIntermediate(ctx, h)
    BY DEF Interpret
  <1>2. CASE Harmless(s)
    <2>1. Harmless(Tail(s))
      BY <1>1, <1>2, HarmlessTail
    <2> QED
      BY <1>1, <2>1 DEF BookInv
  <1>3. CASE Safe(s) /\ Unseen /\ start.pc \in Int
    <2>1. \/ Harmless(Tail(s))
          \/ \E x, y, z : s = <<x, y, z>> /\ ~Risky(z) /\ Scratch(x)
      BY <1>3, SafeTail
    <2>2. CASE Harmless(Tail(s))
      BY <1>1, <2>2 DEF BookInv
    <2>3. CASE \E x, y, z : s = <<x, y, z>> /\ ~Risky(z) /\ Scratch(x)
      <3>1. PICK x, y, z : s = <<x, y, z>> /\ ~Risky(z) /\ Scratch(x)
        BY <2>3
      <3>2. h = x /\ Tail(s) = <<y, z>>
        BY <3>1, Lists
      <3>3. Safe(intermediates')
        BY <1>1, <3>1, <3>2, SafeLists
      <3>4. Visible(ctx') = Visible(ctx)
        BY <1>1, <3>1, <3>2, ScratchStep
      <3>5. Unseen'
        BY <1>1, <1>3, <3>4 DEF Unseen
      <3> QED
        BY <1>1, <1>3, <3>3, <3>5 DEF BookInv
    <2> QED
      BY <2>1, <2>2, <2>3
  <1> QED
    BY <1>1, <1>2, <1>3 DEF BookInv

LEMMA FailStep == BookInv /\ InterpretFails => BookInv'
  <1> SUFFICES ASSUME BookInv, InterpretFails PROVE BookInv'
    OBVIOUS
  <1>1. /\ running /\ ~running' /\ start' = start /\ intermediates # <<>>
        /\ Risky(Head(intermediates)) /\ ctx' = [ctx EXCEPT !.pc = @ - 4]
    BY DEF InterpretFails, Risky
  <1>2. ~Harmless(intermediates)
    BY <1>1, Lists DEF Harmless
  <1>3. Unseen /\ start.pc \in Int
    BY <1>1, <1>2 DEF BookInv
  <1>4. Undone'
    BY <1>1, <1>3, SteppedBack DEF Unseen, Undone
  <1> QED
    BY <1>1, <1>4 DEF BookInv

(* Whatever the words, the instructions and the contexts: when an           *)
(* intermediate may fail or fault, the guest sees the context from before   *)
(* the instruction, and the instruction can be executed again.              *)
THEOREM InstructionsRestart == Spec => []Restartable
  <1> DEFINE Inv == BookInv /\ running \in BOOLEAN
  <1>1. Init => Inv
    BY DEF Init, BookInv, Harmless
  <1>2. Inv /\ [Next]_vars => Inv'
    <2> SUFFICES ASSUME Inv, [Next]_vars PROVE Inv'
      OBVIOUS
    <2>1. running' \in BOOLEAN
      BY DEF Next, Fetch, Interpret, InterpretFails, vars
    <2>2. CASE UNCHANGED vars
      BY <2>2 DEF vars, BookInv, Unseen, Undone
    <2> QED
      BY <2>1, <2>2, FetchStep, InterpretStep, FailStep DEF Next
  <1>3. Inv => Restartable
    BY InvRestartable
  <1> HIDE DEF Inv
  <1> QED
    BY <1>1, <1>2, <1>3, PTL DEF Spec

-----------------------------------------------------------------------------
(* 5. Instruction by instruction.                                          *)

(* What is left of an instruction i that began in context c: each of its    *)
(* intermediates leaves a context, and the last one what the book says.     *)
Right(i, c, d) == d \in CpuContexts /\ (~ Diverges(i, c) => Visible(d) = Visible(Book(i, c)))
Fine1(i, c, d, x) == ~ Fails(x) => \A e \in InterpretIntermediate(d, x) : Right(i, c, e)
Fine2(i, c, d, x, y) ==
    ~ Fails(x) => \A e \in InterpretIntermediate(d, x) : e \in CpuContexts /\ Fine1(i, c, e, y)
Fine3(i, c, d, x, y, z) ==
    ~ Fails(x) => \A e \in InterpretIntermediate(d, x) : e \in CpuContexts /\ Fine2(i, c, e, y, z)
Fine4(i, c, d, x, y, z, u) ==
    ~ Fails(x) => \A e \in InterpretIntermediate(d, x) : e \in CpuContexts /\ Fine3(i, c, e, y, z, u)
Fine(i, c, d, s) ==
    \/ \E x : s = <<x>> /\ Fine1(i, c, d, x)
    \/ \E x, y : s = <<x, y>> /\ Fine2(i, c, d, x, y)
    \/ \E x, y, z : s = <<x, y, z>> /\ Fine3(i, c, d, x, y, z)
    \/ \E x, y, z, u : s = <<x, y, z, u>> /\ Fine4(i, c, d, x, y, z, u)

Stepped(c) == [c EXCEPT !.pc = @ + 4]
Given(i, c) == i \in Encodings /\ c \in CpuContexts /\ c.pc \in 0 .. D - 5 /\ InMemory(i, c)
Branches == {"b", "bc", "bclr", "bcctr"}
FineAtFetch(i, c) == Fine(i, c, Stepped(c), BuildIntermediate(i, c.pc))

LEMMA FineLists ==
    ASSUME NEW i, NEW c
    PROVE  /\ \A x : BuildIntermediate(i, c.pc) = <<x>> /\ Fine1(i, c, Stepped(c), x)
                       => FineAtFetch(i, c)
           /\ \A x, y : BuildIntermediate(i, c.pc) = <<x, y>> /\ Fine2(i, c, Stepped(c), x, y)
                          => FineAtFetch(i, c)
           /\ \A x, y, z : BuildIntermediate(i, c.pc) = <<x, y, z>>
                             /\ Fine3(i, c, Stepped(c), x, y, z) => FineAtFetch(i, c)
           /\ \A x, y, z, u : BuildIntermediate(i, c.pc) = <<x, y, z, u>>
                                /\ Fine4(i, c, Stepped(c), x, y, z, u) => FineAtFetch(i, c)
           /\ BuildIntermediate(i, c.pc) = <<Unknown>> => FineAtFetch(i, c)
           /\ BuildIntermediate(i, c.pc) = <<Invalid>> => FineAtFetch(i, c)
<1>1. /\ \A x : BuildIntermediate(i, c.pc) = <<x>> /\ Fine1(i, c, Stepped(c), x) => FineAtFetch(i, c)
      /\ \A x, y : BuildIntermediate(i, c.pc) = <<x, y>> /\ Fine2(i, c, Stepped(c), x, y)
                     => FineAtFetch(i, c)
      /\ \A x, y, z : BuildIntermediate(i, c.pc) = <<x, y, z>>
                        /\ Fine3(i, c, Stepped(c), x, y, z) => FineAtFetch(i, c)
      /\ \A x, y, z, u : BuildIntermediate(i, c.pc) = <<x, y, z, u>>
                           /\ Fine4(i, c, Stepped(c), x, y, z, u) => FineAtFetch(i, c)
  BY DEF FineAtFetch, Fine
<1>2. Fine1(i, c, Stepped(c), Unknown) /\ Fine1(i, c, Stepped(c), Invalid)
  BY DEF Fine1, Fails, Unknown, Invalid
<1>3. QED
  BY <1>1, <1>2

LEMMA Operands ==
    \A i \in Encodings :
        /\ i.rt \in Gprs /\ i.ra \in Gprs /\ i.rb \in Gprs
        /\ i.rt \in Regs /\ i.ra \in Regs /\ i.rb \in Regs
        /\ i.rt # GPR_TEMP /\ i.ra # GPR_TEMP /\ i.rb # GPR_TEMP
        /\ i.rt # GPR_XER /\ i.ra # GPR_XER
        /\ {GPR_LR, GPR_CTR, GPR_SPRG0, GPR_SPRG1, GPR_SPRG2, GPR_SPRG3, GPR_CR, GPR_XER,
            GPR_TEMP} \subseteq Regs
<1>1. \A i \in Encodings : i.rt \in Gprs /\ i.ra \in Gprs /\ i.rb \in Gprs
  BY DEF Encodings
<1>2. \A r \in Gprs : r \in Regs /\ r # GPR_TEMP /\ r # GPR_XER
  BY NumGprsAssumption DEF Regs, Gprs, GPR_XER, GPR_TEMP
<1>3. {GPR_LR, GPR_CTR, GPR_SPRG0, GPR_SPRG1, GPR_SPRG2, GPR_SPRG3, GPR_CR, GPR_XER,
       GPR_TEMP} \subseteq Regs
  BY DEF Regs, GPR_LR, GPR_CTR, GPR_SPRG0, GPR_SPRG1, GPR_SPRG2, GPR_SPRG3, GPR_CR, GPR_XER,
         GPR_TEMP
<1>4. QED
  BY <1>1, <1>2, <1>3

LEMMA SteppedContext ==
    ASSUME NEW i, NEW c, Given(i, c)
    PROVE  /\ Stepped(c) \in CpuContexts /\ Stepped(c) = [c EXCEPT !.pc = c.pc + 4]
           /\ Stepped(c).gpr = c.gpr /\ Stepped(c).sys = c.sys /\ Stepped(c).mem = c.mem
           /\ Stepped(c).pc = c.pc + 4
           /\ c.pc + 4 \in Values /\ c.pc \in Int /\ c.pc \in Values
<1>1. D \in Nat /\ c.pc \in 0 .. D - 5 /\ c \in CpuContexts
  BY WordSizes DEF Given
<1>2. c.pc + 4 \in Values /\ c.pc \in Int /\ c.pc \in Values
  BY <1>1 DEF Values
<1>3. Stepped(c) = [c EXCEPT !.pc = c.pc + 4]
  BY DEF Stepped
<1>4. Stepped(c) \in CpuContexts
  BY <1>1, <1>2, <1>3, ContextTypes
<1>5. /\ Stepped(c).gpr = c.gpr /\ Stepped(c).sys = c.sys /\ Stepped(c).mem = c.mem
      /\ Stepped(c).pc = c.pc + 4
  BY <1>1, <1>3 DEF CpuContexts
<1>6. QED
  BY <1>2, <1>3, <1>4, <1>5

LEMMA PutPc ==
    ASSUME NEW c \in CpuContexts, NEW r \in Regs, NEW v, NEW p
    PROVE  [Put(c, r, v) EXCEPT !.pc = p] = Put([c EXCEPT !.pc = p], r, v)
<1>1. c = [gpr |-> c.gpr, sys |-> c.sys, pc |-> c.pc, mem |-> c.mem]
  BY DEF CpuContexts
<1>2. QED
  BY <1>1 DEF Put

(* An instruction that is done when one register is written.                *)
LEMMA RightPut ==
    ASSUME NEW i, NEW c, Given(i, c), i.op \notin Branches, NEW r \in Regs, NEW v \in Values,
           ~ Diverges(i, c) => BookPlain(i, c) = Put(c, r, v)
    PROVE  Right(i, c, Put(Stepped(c), r, v))
<1>1. c \in CpuContexts /\ Stepped(c) \in CpuContexts /\ Stepped(c) = [c EXCEPT !.pc = c.pc + 4]
  BY SteppedContext DEF Given
<1>2. Put(Stepped(c), r, v) \in CpuContexts
  BY <1>1, ContextTypes
<1>3. [Put(c, r, v) EXCEPT !.pc = c.pc + 4] = Put(Stepped(c), r, v)
  <2>1. [Put(c, r, v) EXCEPT !.pc = c.pc + 4] = Put([c EXCEPT !.pc = c.pc + 4], r, v)
    BY <1>1, PutPc
  <2>2. QED
    BY <1>1, <2>1
<1>4. Book(i, c) = [BookPlain(i, c) EXCEPT !.pc = c.pc + 4]
  BY DEF Book, Branches
<1>5. QED
  BY <1>2, <1>3, <1>4 DEF Right

LEMMA FinePut ==
    ASSUME NEW i, NEW c, Given(i, c), i.op \notin Branches, NEW r \in Regs, NEW v \in Values,
           ~ Diverges(i, c) => BookPlain(i, c) = Put(c, r, v),
           NEW x, InterpretIntermediate(Stepped(c), x) = {Put(Stepped(c), r, v)}
    PROVE  Fine1(i, c, Stepped(c), x)
  BY RightPut DEF Fine1

-----------------------------------------------------------------------------
(* What the intermediates do.                                               *)
LEMMA Interpret64 ==
    ASSUME NEW d, NEW x, x.op \in Ops64
    PROVE  InterpretIntermediate(d, x) = {Put(d, x.dest, Result64(d, x))}
<1>0. /\ x.op \notin {"NOP", "PPC_NO_EFFECT"} /\ x.op # "MOVE_REG"
      /\ x.op \notin BranchOps /\ x.op \notin MemoryOps /\ x.op \notin Ops32
      /\ x.op \notin Compares /\ x.op # "PPC_SRAWI" /\ x.op # "PPC_SUBFIC"
  BY DEF Ops32, Ops64, BranchOps, MemoryOps, Compares
<1>1. InterpretIntermediate(d, x) = {SetReg(d, GPR64(x.dest), Result64(d, x))}
  BY <1>0 DEF InterpretIntermediate
<1>2. \A v : SetReg(d, GPR64(x.dest), v) = Put(d, x.dest, v)
  BY DEF SetReg, GPR64, Put
<1>3. QED
  BY <1>1, <1>2

LEMMA Interpret32 ==
    ASSUME NEW d, NEW x, x.op \in Ops32
    PROVE  InterpretIntermediate(d, x) = {Put(d, x.dest, SetLow(d.gpr[x.dest], Low(Result32(d, x))))}
<1>0. /\ x.op \notin {"NOP", "PPC_NO_EFFECT"} /\ x.op # "MOVE_REG"
      /\ x.op \notin BranchOps /\ x.op \notin MemoryOps /\ x.op \notin Ops64
      /\ x.op \notin Compares /\ x.op # "PPC_SRAWI" /\ x.op # "PPC_SUBFIC"
  BY DEF Ops32, Ops64, BranchOps, MemoryOps, Compares
<1>1. InterpretIntermediate(d, x) = {SetReg(d, GPR32(x.dest), Result32(d, x))}
  BY <1>0 DEF InterpretIntermediate
<1>2. \A v : SetReg(d, GPR32(x.dest), v) = Put(d, x.dest, SetLow(d.gpr[x.dest], Low(v)))
  BY DEF SetReg, GPR32, Put
<1>3. QED
  BY <1>1, <1>2

LEMMA Registers3 ==
    ASSUME NEW d, NEW s, NEW t, NEW r
    PROVE  LET a == d.gpr[s]
               b == d.gpr[t]
           IN  /\ InterpretIntermediate(d, Reg3("ADD", s, t, r)) = {Put(d, r, Wrap(a + b))}
               /\ InterpretIntermediate(d, Reg3("SUB", s, t, r)) = {Put(d, r, Wrap(b + Ones - a + 1))}
               /\ InterpretIntermediate(d, Reg3("ANDC", s, t, r)) = {Put(d, r, Andc(a, b))}
               /\ InterpretIntermediate(d, Reg3("OR", s, t, r)) = {Put(d, r, Or(a, b))}
               /\ InterpretIntermediate(d, Reg3("SLL32", s, t, r)) =
                    {Put(d, r, SetLow(d.gpr[r], Low(Low(Low(a) * 2 ^ (Low(b) % N)))))}
<1>1. \A op : /\ Reg3(op, s, t, r).op = op /\ Reg3(op, s, t, r).source = s
              /\ Reg3(op, s, t, r).source2 = t /\ Reg3(op, s, t, r).dest = r
  BY DEF Reg3
<1>2. \A op \in Ops64 : InterpretIntermediate(d, Reg3(op, s, t, r)) =
                          {Put(d, r, Result64(d, Reg3(op, s, t, r)))}
  BY <1>1, Interpret64
<1>3. \A op \in Ops32 : InterpretIntermediate(d, Reg3(op, s, t, r)) =
                          {Put(d, r, SetLow(d.gpr[r], Low(Result32(d, Reg3(op, s, t, r)))))}
  BY <1>1, Interpret32
<1>4. {"ADD", "SUB", "ANDC", "OR"} \subseteq Ops64 /\ "SLL32" \in Ops32
  BY DEF Ops64, Ops32
<1>5. /\ Result64(d, Reg3("ADD", s, t, r)) = Wrap(d.gpr[s] + d.gpr[t])
      /\ Result64(d, Reg3("SUB", s, t, r)) = Wrap(d.gpr[t] + Ones - d.gpr[s] + 1)
      /\ Result64(d, Reg3("ANDC", s, t, r)) = Andc(d.gpr[s], d.gpr[t])
      /\ Result64(d, Reg3("OR", s, t, r)) = Or(d.gpr[s], d.gpr[t])
  BY <1>1 DEF Result64
<1>6. Result32(d, Reg3("SLL32", s, t, r)) = Low(Low(d.gpr[s]) * 2 ^ (Low(d.gpr[t]) % N))
  BY <1>1 DEF Result32
<1>7. QED
  BY <1>2, <1>3, <1>4, <1>5, <1>6

LEMMA Immediates64 ==
    ASSUME NEW d, NEW s, NEW r, NEW v
    PROVE  LET a == d.gpr[s]
           IN  /\ InterpretIntermediate(d, RegImm("ADD_IMM", s, r, v)) = {Put(d, r, Wrap(a + v))}
               /\ InterpretIntermediate(d, RegImm("SUBU_IMM", s, r, v)) = {Put(d, r, Wrap(a - v))}
               /\ InterpretIntermediate(d, RegImm("AND_IMM_64", s, r, v)) = {Put(d, r, And(a, v))}
               /\ InterpretIntermediate(d, RegImm("ANDC_IMM", s, r, v)) = {Put(d, r, Andc(a, v))}
               /\ InterpretIntermediate(d, RegImm("OR_IMM", s, r, v)) = {Put(d, r, Or(a, v))}
               /\ InterpretIntermediate(d, RegImm("XOR_IMM", s, r, v)) = {Put(d, r, Xor(a, v))}
               /\ InterpretIntermediate(d, RegImm("ROL64_IMM", s, r, v)) = {Put(d, r, Rotl(a, v))}
               /\ InterpretIntermediate(d, RegImm("SLL64_IMM", s, r, v)) = {Put(d, r, Wrap(a * 2 ^ v))}
               /\ InterpretIntermediate(d, RegImm("SLR64_IMM", s, r, v)) = {Put(d, r, a \div 2 ^ v)}
<1>1. \A op : /\ RegImm(op, s, r, v).op = op /\ RegImm(op, s, r, v).source = s
              /\ RegImm(op, s, r, v).dest = r /\ RegImm(op, s, r, v).imm = v
  BY DEF RegImm
<1>2. \A op \in Ops64 : InterpretIntermediate(d, RegImm(op, s, r, v)) =
                          {Put(d, r, Result64(d, RegImm(op, s, r, v)))}
  BY <1>1, Interpret64
<1>3. {"ADD_IMM", "SUBU_IMM", "AND_IMM_64", "ANDC_IMM", "OR_IMM", "XOR_IMM", "ROL64_IMM",
       "SLL64_IMM", "SLR64_IMM"} \subseteq Ops64
  BY DEF Ops64
<1>4. /\ Result64(d, RegImm("ADD_IMM", s, r, v)) = Wrap(d.gpr[s] + v)
      /\ Result64(d, RegImm("SUBU_IMM", s, r, v)) = Wrap(d.gpr[s] - v)
      /\ Result64(d, RegImm("AND_IMM_64", s, r, v)) = And(d.gpr[s], v)
      /\ Result64(d, RegImm("ANDC_IMM", s, r, v)) = Andc(d.gpr[s], v)
      /\ Result64(d, RegImm("OR_IMM", s, r, v)) = Or(d.gpr[s], v)
  BY <1>1 DEF Result64
<1>5. /\ Result64(d, RegImm("XOR_IMM", s, r, v)) = Xor(d.gpr[s], v)
      /\ Result64(d, RegImm("ROL64_IMM", s, r, v)) = Rotl(d.gpr[s], v)
      /\ Result64(d, RegImm("SLL64_IMM", s, r, v)) = Wrap(d.gpr[s] * 2 ^ v)
      /\ Result64(d, RegImm("SLR64_IMM", s, r, v)) = d.gpr[s] \div 2 ^ v
  BY <1>1 DEF Result64
<1>6. QED
  BY <1>2, <1>3, <1>4, <1>5

LEMMA Immediates32 ==
    ASSUME NEW d, NEW s, NEW r, NEW v
    PROVE  LET a == Low(d.gpr[s])
               Set(w) == {Put(d, r, SetLow(d.gpr[r], Low(w)))}
           IN  /\ InterpretIntermediate(d, RegImm("AND_IMM_32", s, r, v)) = Set(And(a, v))
               /\ InterpretIntermediate(d, RegImm("SLL32_IMM", s, r, v)) = Set(Low(a * 2 ^ v))
               /\ InterpretIntermediate(d, RegImm("SLR32_IMM", s, r, v)) = Set(a \div 2 ^ v)
               /\ InterpretIntermediate(d, RegImm("BYTE_SWAP_32", s, r, v)) = Set(ByteSwap(a))
<1>1. \A op : /\ RegImm(op, s, r, v).op = op /\ RegImm(op, s, r, v).source = s
              /\ RegImm(op, s, r, v).dest = r /\ RegImm(op, s, r, v).imm = v
  BY DEF RegImm
<1>2. \A op \in Ops32 : InterpretIntermediate(d, RegImm(op, s, r, v)) =
                          {Put(d, r, SetLow(d.gpr[r], Low(Result32(d, RegImm(op, s, r, v)))))}
  BY <1>1, Interpret32
<1>3. {"AND_IMM_32", "SLL32_IMM", "SLR32_IMM", "BYTE_SWAP_32"} \subseteq Ops32
  BY DEF Ops32
<1>4. /\ Result32(d, RegImm("AND_IMM_32", s, r, v)) = And(Low(d.gpr[s]), v)
      /\ Result32(d, RegImm("SLL32_IMM", s, r, v)) = Low(Low(d.gpr[s]) * 2 ^ v)
      /\ Result32(d, RegImm("SLR32_IMM", s, r, v)) = Low(d.gpr[s]) \div 2 ^ v
      /\ Result32(d, RegImm("BYTE_SWAP_32", s, r, v)) = ByteSwap(Low(d.gpr[s]))
  BY <1>1 DEF Result32
<1>5. QED
  BY <1>2, <1>3, <1>4

-----------------------------------------------------------------------------
(* Arithmetic and logic.                                                    *)
LEMMA GivenFacts ==
    ASSUME NEW i, NEW c, Given(i, c)
    PROVE  /\ i \in Encodings /\ c \in CpuContexts
           /\ \A r \in Regs : c.gpr[r] \in Values /\ Stepped(c).gpr[r] = c.gpr[r]
  BY SteppedContext, ContextFields DEF Given

LEMMA FineAdd ==
    ASSUME NEW i, NEW c, Given(i, c), i.op \in {"add", "subf", "or", "andc"}
    PROVE  FineAtFetch(i, c)
<1> DEFINE s == c.gpr[i.rt]
           a == c.gpr[i.ra]
           b == c.gpr[i.rb]
<1>1. /\ i.rt \in Regs /\ i.ra \in Regs /\ i.rb \in Regs
      /\ s \in Values /\ a \in Values /\ b \in Values /\ s \in Int /\ a \in Int /\ b \in Int
      /\ Stepped(c).gpr[i.rt] = s /\ Stepped(c).gpr[i.ra] = a /\ Stepped(c).gpr[i.rb] = b
      /\ i.op \notin Branches
  BY GivenFacts, Operands, ValueFacts DEF Branches
<1>2. Wrap(a + b) \in Values /\ Wrap(b - a) \in Values
  BY <1>1, WrapValue
<1>3. Or(s, b) \in Values /\ Andc(s, b) \in Values
  BY Logic
<1>4. CASE i.rc
  <2>1. BuildIntermediate(i, c.pc) = <<Unknown>>
    BY <1>4 DEF BuildIntermediate, BuildIntermediateSpecial, OrUnknown
  <2>2. QED
    BY <2>1, FineLists
<1>5. CASE ~ i.rc /\ i.op = "add"
  <2> DEFINE x == Reg3("ADD", i.ra, i.rb, i.rt)
  <2>1. BuildIntermediate(i, c.pc) = <<x>>
    BY <1>5 DEF BuildIntermediate, BuildIntermediateSpecial, OrUnknown
  <2>2. BookPlain(i, c) = Put(c, i.rt, Wrap(a + b))
    BY <1>5 DEF BookPlain
  <2>3. InterpretIntermediate(Stepped(c), x) = {Put(Stepped(c), i.rt, Wrap(a + b))}
    BY <1>1, Registers3
  <2> HIDE DEF x
  <2>4. Fine1(i, c, Stepped(c), x)
    BY <1>1, <1>2, <2>2, <2>3, FinePut
  <2>5. QED
    BY <2>1, <2>4, FineLists
<1>6. CASE ~ i.rc /\ i.op = "subf"
  <2> DEFINE x == Reg3("SUB", i.ra, i.rb, i.rt)
  <2>1. BuildIntermediate(i, c.pc) = <<x>>
    BY <1>6 DEF BuildIntermediate, BuildIntermediateSpecial, OrUnknown
  <2>2. BookPlain(i, c) = Put(c, i.rt, Wrap(b - a))
    BY <1>6 DEF BookPlain
  <2>3. InterpretIntermediate(Stepped(c), x) = {Put(Stepped(c), i.rt, Wrap(b - a))}
    BY <1>1, Registers3, Subtract
  <2> HIDE DEF x
  <2>4. Fine1(i, c, Stepped(c), x)
    BY <1>1, <1>2, <2>2, <2>3, FinePut
  <2>5. QED
    BY <2>1, <2>4, FineLists
<1>7. CASE ~ i.rc /\ i.op = "or"
  <2> DEFINE x == Reg3("OR", i.rt, i.rb, i.ra)
  <2>1. BuildIntermediate(i, c.pc) = <<x>>
    BY <1>7 DEF BuildIntermediate, BuildIntermediateSpecial, OrUnknown
  <2>2. BookPlain(i, c) = Put(c, i.ra, Or(s, b))
    BY <1>7 DEF BookPlain
  <2>3. InterpretIntermediate(Stepped(c), x) = {Put(Stepped(c), i.ra, Or(s, b))}
    BY <1>1, Registers3
  <2> HIDE DEF x
  <2>4. Fine1(i, c, Stepped(c), x)
    BY <1>1, <1>3, <2>2, <2>3, FinePut
  <2>5. QED
    BY <2>1, <2>4, FineLists
<1>8. CASE ~ i.rc /\ i.op = "andc"
  <2> DEFINE x == Reg3("ANDC", i.rt, i.rb, i.ra)
  <2>1. BuildIntermediate(i, c.pc) = <<x>>
    BY <1>8 DEF BuildIntermediate, BuildIntermediateSpecial, OrUnknown
  <2>2. BookPlain(i, c) = Put(c, i.ra, Andc(s, b))
    BY <1>8 DEF BookPlain
  <2>3. InterpretIntermediate(Stepped(c), x) = {Put(Stepped(c), i.ra, Andc(s, b))}
    BY <1>1, Registers3
  <2> HIDE DEF x
  <2>4. Fine1(i, c, Stepped(c), x)
    BY <1>1, <1>3, <2>2, <2>3, FinePut
  <2>5. QED
    BY <2>1, <2>4, FineLists
<1>9. QED
  BY <1>4, <1>5, <1>6, <1>7, <1>8

-----------------------------------------------------------------------------
(* Loading an immediate, and the words of a register.                       *)
LEMMA Pieces ==
    ASSUME NEW x \in Values, NEW w \in Nat, w < W
    PROVE  /\ SetLow(x, w) \in Values /\ Low(SetLow(x, w)) = w /\ Low(w) = w
           /\ High(x) = 0 => SetLow(x, w) = w
           /\ SetHigh(x, 0) = Low(x) /\ Low(x) \in Nat /\ Low(x) < W /\ Low(x) \in Values
           /\ w \in Values
<1>1. x \in Nat /\ W \in Nat
  BY ValueFacts, WordSizes
<1>2. High(x) \in Nat /\ High(x) < W /\ Low(x) \in Nat /\ Low(x) < W /\ Low(x) \in Values /\ Low(w) = w
  BY <1>1, WordsOf
<1>3. High(x) * W + w \in Values /\ Low(High(x) * W + w) = w
  BY <1>2, TwoWords
<1>4. 0 * W = 0
  BY <1>1
<1>5. High(x) = 0 => SetLow(x, w) = w
  BY <1>4 DEF SetLow
<1>6. SetHigh(x, 0) = Low(x)
  BY <1>2, <1>4 DEF SetHigh
<1>7. w \in Values
  BY WordSizes DEF Values
<1>8. QED
  BY <1>2, <1>3, <1>5, <1>6, <1>7 DEF SetLow

LEMMA InterpretLoadImm ==
    ASSUME NEW d, NEW r, NEW v
    PROVE  /\ InterpretIntermediate(d, LoadImm(GPR64(r), v)) = {Put(d, r, v)}
           /\ InterpretIntermediate(d, ClearHigh(r)) = {Put(d, r, SetHigh(d.gpr[r], Low(0)))}
<1>1. ASSUME NEW o
      PROVE  InterpretIntermediate(d, LoadImm(o, v)) = {SetReg(d, o, v)}
             /\ InterpretIntermediate(d, LoadImm(o, 0)) = {SetReg(d, o, 0)}
  <2>1. \A w : /\ LoadImm(o, w).op = "LD_IMM" /\ LoadImm(o, w).dest = o /\ LoadImm(o, w).imm = w
    BY DEF LoadImm
  <2>2. \A w : InterpretIntermediate(d, LoadImm(o, w)) = {LoadStore(d, LoadImm(o, w))}
    <3>1. TAKE w
    <3> DEFINE x == LoadImm(o, w)
    <3>2. x.op = "LD_IMM"
      BY <2>1
    <3> HIDE DEF x
    <3>3. /\ x.op \notin {"NOP", "PPC_NO_EFFECT"} /\ x.op # "MOVE_REG"
          /\ x.op \notin BranchOps /\ x.op \in MemoryOps /\ x.op \notin Ops32 /\ x.op \notin Ops64
          /\ x.op \notin Compares /\ x.op # "PPC_SRAWI" /\ x.op # "PPC_SUBFIC"
      BY <3>2 DEF Ops32, Ops64, BranchOps, MemoryOps, Compares
    <3>4. QED
      BY <3>3 DEF InterpretIntermediate, x
  <2>3. \A w : LoadStore(d, LoadImm(o, w)) = SetReg(d, o, w)
    BY <2>1 DEF LoadStore
  <2>4. QED
    BY <2>2, <2>3
<1>2. SetReg(d, GPR64(r), v) = Put(d, r, v)
  BY DEF SetReg, GPR64, Put
<1>3. SetReg(d, GPR32High(r), 0) = Put(d, r, SetHigh(d.gpr[r], Low(0)))
  BY DEF SetReg, GPR32High, Put
<1>4. QED
  BY <1>1, <1>2, <1>3 DEF ClearHigh

LEMMA FineAddi ==
    ASSUME NEW i, NEW c, Given(i, c), i.op \in {"addi", "addis"}
    PROVE  FineAtFetch(i, c)
<1> DEFINE a == c.gpr[i.ra]
           v == IF i.op = "addi" THEN D_SI(i) ELSE D_SI(i) * Half
<1>1. /\ i.rt \in Regs /\ i.ra \in Regs /\ a \in Values /\ a \in Int
      /\ Stepped(c).gpr[i.ra] = a /\ i.op \notin Branches
  BY GivenFacts, Operands, ValueFacts DEF Branches
<1>2. v \in Int /\ D_SI(i) \in Values /\ D_SI(i) \in Int /\ D_SI(i) * Half \in Int
  BY GivenFacts, Immediate
<1>3. Wrap(v) \in Values /\ Wrap(a + v) \in Values /\ Wrap(D_SI(i)) = D_SI(i)
  BY <1>1, <1>2, WrapValue
<1>4. Wrap(a + Wrap(v)) = Wrap(a + v) /\ 0 + v = v
  <2> HIDE DEF a, v
  <2>1. QED
    BY <1>1, <1>2, WrapAdd
<1>5. BuildIntermediate(i, c.pc) = <<AddImmediate(i, Wrap(v))>>
  BY <1>3 DEF BuildIntermediate
<1>6. BookPlain(i, c) = Put(c, i.rt, Wrap(Base(i, c) + v))
  BY DEF BookPlain
<1> HIDE DEF v
<1>7. CASE i.ra = 0
  <2> DEFINE x == LoadImm(GPR64(i.rt), Wrap(v))
  <2>1. BuildIntermediate(i, c.pc) = <<x>>
    BY <1>5, <1>7 DEF AddImmediate
  <2>2. BookPlain(i, c) = Put(c, i.rt, Wrap(v))
    BY <1>4, <1>6, <1>7 DEF Base
  <2>3. InterpretIntermediate(Stepped(c), x) = {Put(Stepped(c), i.rt, Wrap(v))}
    BY InterpretLoadImm
  <2> HIDE DEF x
  <2>4. Fine1(i, c, Stepped(c), x)
    BY <1>1, <1>3, <2>2, <2>3, FinePut
  <2>5. QED
    BY <2>1, <2>4, FineLists
<1>8. CASE i.ra # 0
  <2> DEFINE x == RegImm("ADD_IMM", i.ra, i.rt, Wrap(v))
  <2>1. BuildIntermediate(i, c.pc) = <<x>>
    BY <1>5, <1>8 DEF AddImmediate
  <2>2. BookPlain(i, c) = Put(c, i.rt, Wrap(a + v))
    BY <1>6, <1>8 DEF Base
  <2>3. InterpretIntermediate(Stepped(c), x) = {Put(Stepped(c), i.rt, Wrap(a + v))}
    BY <1>1, <1>4, Immediates64
  <2> HIDE DEF x
  <2>4. Fine1(i, c, Stepped(c), x)
    BY <1>1, <1>3, <2>2, <2>3, FinePut
  <2>5. QED
    BY <2>1, <2>4, FineLists
<1>9. QED
  BY <1>7, <1>8

LEMMA FineNothing ==
    ASSUME NEW i, NEW c, Given(i, c), i.op \notin Branches, BookPlain(i, c) = c, NEW x,
           x.op \in {"NOP", "PPC_NO_EFFECT"}
    PROVE  Fine1(i, c, Stepped(c), x)
<1>1. InterpretIntermediate(Stepped(c), x) = {Stepped(c)}
  <2>1. /\ x.op # "MOVE_REG"
        /\ x.op \notin BranchOps /\ x.op \notin MemoryOps /\ x.op \notin Ops32 /\ x.op \notin Ops64
        /\ x.op \notin Compares /\ x.op # "PPC_SRAWI" /\ x.op # "PPC_SUBFIC"
    BY DEF Ops32, Ops64, BranchOps, MemoryOps, Compares
  <2>2. QED
    BY <2>1 DEF InterpretIntermediate
<1>2. Stepped(c) \in CpuContexts /\ Stepped(c) = [c EXCEPT !.pc = c.pc + 4]
  BY SteppedContext
<1>3. Book(i, c) = [c EXCEPT !.pc = c.pc + 4]
  BY DEF Book, Branches
<1>4. QED
  BY <1>1, <1>2, <1>3 DEF Fine1, Right

LEMMA FineOri ==
    ASSUME NEW i, NEW c, Given(i, c), i.op \in {"ori", "oris", "xoris"}
    PROVE  FineAtFetch(i, c)
<1> DEFINE s == c.gpr[i.rt]
           v == IF i.op = "ori" THEN D_UI(i) ELSE D_UI(i) * Half
<1>1. /\ i.rt \in Regs /\ i.ra \in Regs /\ s \in Values /\ c \in CpuContexts
      /\ Stepped(c).gpr[i.rt] = s /\ i.op \notin Branches
  BY GivenFacts, Operands, ValueFacts DEF Branches
<1>2. Or(s, v) \in Values /\ Xor(s, v) \in Values
  BY Logic
<1>3. CASE i.op = "xoris"
  <2> DEFINE x == RegImm("XOR_IMM", i.rt, i.ra, v)
  <2>1. BuildIntermediate(i, c.pc) = <<x>>
    BY <1>3 DEF BuildIntermediate
  <2>2. BookPlain(i, c) = Put(c, i.ra, Xor(s, v))
    BY <1>3 DEF BookPlain
  <2>3. InterpretIntermediate(Stepped(c), x) = {Put(Stepped(c), i.ra, Xor(s, v))}
    BY <1>1, Immediates64
  <2> HIDE DEF x, v
  <2>4. Fine1(i, c, Stepped(c), x)
    BY <1>1, <1>2, <2>2, <2>3, FinePut
  <2>5. QED
    BY <2>1, <2>4, FineLists
<1>4. CASE i.op # "xoris"
  <2>1. BuildIntermediate(i, c.pc) = <<OrImmediate(i, v)>>
    BY <1>4 DEF BuildIntermediate
  <2>2. BookPlain(i, c) = Put(c, i.ra, Or(s, v))
    BY <1>4 DEF BookPlain
  <2> HIDE DEF v
  <2>3. CASE i.rt = 0 /\ i.ra = 0 /\ v = 0
    <3>1. BuildIntermediate(i, c.pc) = <<Nop>>
      BY <2>1, <2>3 DEF OrImmediate
    <3>2. Or(s, v) = c.gpr[i.ra]
      BY <1>1, <2>3, NoBits
    <3>3. BookPlain(i, c) = c
      <4>1. Put(c, i.ra, c.gpr[i.ra]) = c
        BY <1>1, PutFields
      <4>2. QED
        BY <2>2, <3>2, <4>1
    <3>4. Fine1(i, c, Stepped(c), Nop)
      BY <1>1, <3>3, FineNothing DEF Nop
    <3>5. QED
      BY <3>1, <3>4, FineLists
  <2>4. CASE ~ (i.rt = 0 /\ i.ra = 0 /\ v = 0)
    <3> DEFINE x == RegImm("OR_IMM", i.rt, i.ra, v)
    <3>1. BuildIntermediate(i, c.pc) = <<x>>
      BY <2>1, <2>4 DEF OrImmediate
    <3>2. InterpretIntermediate(Stepped(c), x) = {Put(Stepped(c), i.ra, Or(s, v))}
      BY <1>1, Immediates64
    <3> HIDE DEF x
    <3>3. Fine1(i, c, Stepped(c), x)
      BY <1>1, <1>2, <2>2, <3>2, FinePut
    <3>4. QED
      BY <3>1, <3>3, FineLists
  <2>5. QED
    BY <2>3, <2>4
<1>5. QED
  BY <1>3, <1>4

-----------------------------------------------------------------------------
(* Shifts of words, and the carry.                                          *)
LEMMA FineSlw ==
    ASSUME NEW i, NEW c, Given(i, c), i.op = "slw"
    PROVE  FineAtFetch(i, c)
<1> DEFINE s == c.gpr[i.rt]
           a == c.gpr[i.ra]
           b == c.gpr[i.rb]
           w == Low(Low(Low(s) * 2 ^ (Low(b) % N)))
           x == Reg3("SLL32", i.rt, i.rb, i.ra)
<1>1. /\ i.rt \in Regs /\ i.ra \in Regs /\ i.rb \in Regs
      /\ s \in Values /\ a \in Values /\ b \in Values /\ s \in Nat /\ b \in Nat
      /\ Stepped(c).gpr[i.rt] = s /\ Stepped(c).gpr[i.ra] = a /\ Stepped(c).gpr[i.rb] = b
      /\ i.op \notin Branches
  BY GivenFacts, Operands, ValueFacts DEF Branches
<1>2. Low(s) \in Nat /\ Low(b) \in Nat /\ Low(s) \in Values
  BY <1>1, WordsOf
<1>3. ASSUME NEW k \in Nat PROVE Low(s) * 2 ^ k \in Nat
  BY <1>2, <1>3, ShiftBits
<1>4. Low(b) % N \in Nat
  BY <1>2, Widths
<1>5. Low(s) * 2 ^ (Low(b) % N) \in Nat
  BY <1>3, <1>4
<1>6. w \in Nat /\ w < W /\ w = Low(Low(s) * 2 ^ (Low(b) % N))
  BY <1>5, WordsOf
<1>7. CASE i.rc
  <2>1. BuildIntermediate(i, c.pc) = <<Unknown>>
    BY <1>7 DEF BuildIntermediate, BuildIntermediateSpecial, OrUnknown
  <2>2. QED
    BY <2>1, FineLists
<1>8. CASE ~ i.rc
  <2>1. BuildIntermediate(i, c.pc) = <<x>>
    BY <1>8 DEF BuildIntermediate, BuildIntermediateSpecial, OrUnknown
  <2>2. InterpretIntermediate(Stepped(c), x) = {Put(Stepped(c), i.ra, SetLow(a, w))}
    BY <1>1, Registers3
  <2>3. BookPlain(i, c) = Put(c, i.ra, IF b % (2 * N) >= N THEN 0
                                       ELSE Low(Low(s) * 2 ^ (b % (2 * N))))
    BY DEF BookPlain
  <2>4. ASSUME ~ Diverges(i, c) PROVE BookPlain(i, c) = Put(c, i.ra, SetLow(a, w))
    <3>1. ~ (b % (2 * N) >= N) /\ High(a) = 0
      BY <2>4 DEF Diverges
    <3>2. b % (2 * N) < N
      BY <1>1, <3>1, Widths
    <3>3. Low(b) % N = b % (2 * N)
      BY <1>1, <3>2, ShiftCount
    <3>4. w = Low(Low(s) * 2 ^ (b % (2 * N)))
      BY <1>6, <3>3
    <3> HIDE DEF w
    <3>5. SetLow(a, w) = w
      BY <1>1, <1>6, <3>1, Pieces
    <3>6. QED
      BY <2>3, <3>1, <3>4, <3>5
  <2> HIDE DEF w, x
  <2>5. SetLow(a, w) \in Values
    BY <1>1, <1>6, Pieces
  <2>6. Fine1(i, c, Stepped(c), x)
    BY <1>1, <2>2, <2>4, <2>5, FinePut
  <2>7. QED
    BY <2>1, <2>6, FineLists
<1>9. QED
  BY <1>7, <1>8

AtPc(c, p) == [c EXCEPT !.pc = p]

LEMMA PutAtPc ==
    ASSUME NEW c \in CpuContexts, NEW r \in Regs, NEW v, NEW p
    PROVE  AtPc(Put(c, r, v), p) = Put(AtPc(c, p), r, v)
<1>1. c = [gpr |-> c.gpr, sys |-> c.sys, pc |-> c.pc, mem |-> c.mem]
  BY DEF CpuContexts
<1>2. QED
  BY <1>1 DEF Put, AtPc

(* An instruction that writes two registers.                                *)
LEMMA RightPutPut ==
    ASSUME NEW i, NEW c, Given(i, c), i.op \notin Branches,
           NEW r \in Regs, NEW v \in Values, NEW q \in Regs, NEW w \in Values,
           ~ Diverges(i, c) => BookPlain(i, c) = Put(Put(c, r, v), q, w)
    PROVE  Right(i, c, Put(Put(Stepped(c), r, v), q, w))
<1>1. c \in CpuContexts /\ Stepped(c) \in CpuContexts /\ Stepped(c) = [c EXCEPT !.pc = c.pc + 4]
  BY SteppedContext DEF Given
<1>2. Put(Stepped(c), r, v) \in CpuContexts /\ Put(c, r, v) \in CpuContexts
  BY <1>1, ContextTypes
<1>3. Put(Put(Stepped(c), r, v), q, w) \in CpuContexts
  BY <1>2, ContextTypes
<1>4. Put(Put(Stepped(c), r, v), q, w) = AtPc(Put(Put(c, r, v), q, w), c.pc + 4)
  <2>1. AtPc(c, c.pc + 4) = Stepped(c)
    BY <1>1 DEF AtPc
  <2>0. c \in CpuContexts
    BY <1>1
  <2>2. AtPc(Put(c, r, v), c.pc + 4) = Put(AtPc(c, c.pc + 4), r, v)
    BY <2>0, PutAtPc
  <2>3. AtPc(Put(Put(c, r, v), q, w), c.pc + 4) = Put(AtPc(Put(c, r, v), c.pc + 4), q, w)
    BY <1>2, PutAtPc, Zenon
  <2>4. QED
    BY <2>1, <2>2, <2>3
<1>5. Book(i, c) = AtPc(BookPlain(i, c), c.pc + 4)
  BY DEF Book, Branches, AtPc
<1>6. QED
  BY <1>3, <1>4, <1>5 DEF Right

LEMMA PutOther ==
    ASSUME NEW c \in CpuContexts, NEW r \in Regs, NEW v
    PROVE  /\ Put(c, r, v).gpr[r] = v
           /\ Put(c, r, v).sys = c.sys /\ Put(c, r, v).mem = c.mem /\ Put(c, r, v).pc = c.pc
           /\ \A q : q # r => Put(c, r, v).gpr[q] = c.gpr[q]
<1>1. /\ c = [gpr |-> c.gpr, sys |-> c.sys, pc |-> c.pc, mem |-> c.mem]
      /\ c.gpr \in [Regs -> Values]
  BY DEF CpuContexts
<1>2. Put(c, r, v) = [gpr |-> [c.gpr EXCEPT ![r] = v], sys |-> c.sys, pc |-> c.pc, mem |-> c.mem]
  BY <1>1 DEF Put
<1>3. \A q : q # r => [c.gpr EXCEPT ![r] = v][q] = c.gpr[q]
  BY <1>1
<1>4. QED
  BY <1>1, <1>2, <1>3

Carried(d, h) == [d EXCEPT !.gpr[GPR_XER] = SetCa(@, h)]
Computed(d, r, g, h) == [d EXCEPT !.gpr[r] = g, !.gpr[GPR_XER] = SetCa(@, h)]

LEMMA CarryPut ==
    ASSUME NEW d \in CpuContexts, NEW r \in Regs, NEW g, NEW h, r # GPR_XER
    PROVE  /\ Computed(d, r, g, h) = Put(Put(d, r, g), GPR_XER, SetCa(d.gpr[GPR_XER], h))
           /\ Carried(Put(d, r, g), h) = Put(Put(d, r, g), GPR_XER, SetCa(d.gpr[GPR_XER], h))
<1>0. GPR_XER \in Regs
  BY DEF Regs, GPR_XER, GPR_LR, GPR_TEMP
<1>1. Put(d, r, g).gpr[GPR_XER] = d.gpr[GPR_XER]
  <2>1. \A q \in Regs : q # r => Put(d, r, g).gpr[q] = d.gpr[q]
    BY PutOther
  <2>2. QED
    BY <1>0, <2>1
<1>2. Carried(Put(d, r, g), h) =
        Put(Put(d, r, g), GPR_XER, SetCa(Put(d, r, g).gpr[GPR_XER], h))
  BY DEF Put, Carried
<1>3. Computed(d, r, g, h) = Put(Put(d, r, g), GPR_XER, SetCa(d.gpr[GPR_XER], h))
  BY DEF Put, Computed
<1>4. QED
  BY <1>1, <1>2, <1>3

LEMMA FineSrawi ==
    ASSUME NEW i, NEW c, Given(i, c), i.op = "srawi"
    PROVE  FineAtFetch(i, c)
<1> DEFINE s == c.gpr[i.rt]
           word == Signed(Low(s), N)
           v == Wrap(word \div 2 ^ i.sh)
           out == Low(s) % 2 ^ i.sh # 0
           xer == c.gpr[GPR_XER]
           x == [op |-> "PPC_SRAWI", source |-> i.rt, dest |-> i.ra, imm |-> i.sh, rc |-> i.rc]
<1>1. /\ i.rt \in Regs /\ i.ra \in Regs /\ i.ra # GPR_XER /\ GPR_XER \in Regs
      /\ s \in Values /\ s \in Nat /\ i \in Encodings /\ c \in CpuContexts
      /\ Stepped(c).gpr[i.rt] = s /\ Stepped(c).gpr[GPR_XER] = xer
      /\ i.op \notin Branches
  BY GivenFacts, Operands, ValueFacts DEF Branches
<1>2. i.sh \in 0 .. N - 1
  BY <1>1, Widths DEF Encodings
<1>3. /\ word % 2 ^ i.sh = Low(s) % 2 ^ i.sh
      /\ word < 0 <=> Low(s) >= W \div 2
      /\ v \in Values
  BY <1>1, <1>2, ShiftedOut
<1>4. SetCa(xer, out) \in Values
  BY CarryValue
<1>5. BuildIntermediate(i, c.pc) = <<x>>
  BY DEF BuildIntermediate, BuildIntermediateSpecial
<1>6. InterpretIntermediate(Stepped(c), x) =
        {Put(Put(Stepped(c), i.ra, v), GPR_XER, SetCa(xer, out))}
  <2>0. /\ x.op = "PPC_SRAWI" /\ x.source = i.rt /\ x.dest = i.ra /\ x.imm = i.sh
    OBVIOUS
  <2> HIDE DEF x
  <2>1. /\ x.op \notin {"NOP", "PPC_NO_EFFECT"} /\ x.op # "MOVE_REG"
        /\ x.op \notin BranchOps /\ x.op \notin MemoryOps /\ x.op \notin Ops32 /\ x.op \notin Ops64
        /\ x.op \notin Compares /\ x.op # "PPC_SUBFIC"
    BY <2>0 DEF Ops32, Ops64, BranchOps, MemoryOps, Compares
  <2>2. InterpretIntermediate(Stepped(c), x) = {Srawi(Stepped(c), x)}
    BY <2>0, <2>1 DEF InterpretIntermediate
  <2>4. Srawi(Stepped(c), x) = Computed(Stepped(c), i.ra, v, out)
    BY <1>1, <2>0 DEF Srawi, Computed
  <2> HIDE DEF v, out
  <2>5. Computed(Stepped(c), i.ra, v, out) =
          Put(Put(Stepped(c), i.ra, v), GPR_XER, SetCa(Stepped(c).gpr[GPR_XER], out))
    <3>1. Stepped(c) \in CpuContexts
      BY SteppedContext
    <3>2. i.ra \in Regs /\ i.ra # GPR_XER
      BY <1>1
    <3>3. QED
      BY <3>1, <3>2, CarryPut
  <2>6. QED
    BY <1>1, <2>2, <2>4, <2>5
<1>8. BookPlain(i, c) = Carried(Put(c, i.ra, v), word < 0 /\ word % 2 ^ i.sh # 0)
  BY DEF BookPlain, Carried
<1>9. ASSUME ~ Diverges(i, c)
      PROVE  BookPlain(i, c) = Put(Put(c, i.ra, v), GPR_XER, SetCa(xer, out))
  <2>1. ~ (Low(s) < W \div 2 /\ Low(s) % 2 ^ i.sh # 0)
    BY <1>9 DEF Diverges
  <2>2. Low(s) \in Nat /\ W \div 2 \in Nat
    BY <1>1, WordsOf, SignedFacts
  <2>3. (word < 0 /\ word % 2 ^ i.sh # 0) <=> out
    BY <1>3, <2>1, <2>2
  <2>4. SetCa(xer, word < 0 /\ word % 2 ^ i.sh # 0) = SetCa(xer, out)
    BY <2>3 DEF SetCa
  <2> HIDE DEF v, word, out
  <2>5. \A h : Carried(Put(c, i.ra, v), h) = Put(Put(c, i.ra, v), GPR_XER, SetCa(xer, h))
    <3>1. i.ra \in Regs /\ i.ra # GPR_XER /\ c \in CpuContexts
      BY <1>1
    <3>2. QED
      BY <3>1, CarryPut
  <2>6. QED
    BY <1>8, <2>4, <2>5
<1>10. Fine1(i, c, Stepped(c), x)
  <2> HIDE DEF x, v, out
  <2>1. Right(i, c, Put(Put(Stepped(c), i.ra, v), GPR_XER, SetCa(xer, out)))
    BY <1>1, <1>3, <1>4, <1>9, RightPutPut
  <2>2. QED
    BY <1>6, <2>1 DEF Fine1
<1> HIDE DEF x
<1>11. QED
  BY <1>5, <1>10, FineLists

LEMMA FineSubfic ==
    ASSUME NEW i, NEW c, Given(i, c), i.op = "subfic"
    PROVE  FineAtFetch(i, c)
<1> DEFINE a == c.gpr[i.ra]
           v == D_SI(i)
           s == Signed(Ones - a, 2 * N)
           imm == Signed(v, 2 * N)
           g == Wrap(v - a)
           x == RegImm("PPC_SUBFIC", i.ra, i.rt, v)
           New(ca) == Put(Put(Stepped(c), i.rt, g), GPR_XER, SetCa(c.gpr[GPR_XER], ca))
<1>1. /\ i.rt \in Regs /\ i.ra \in Regs /\ i.rt # GPR_XER /\ GPR_XER \in Regs
      /\ a \in Values /\ a \in Int /\ i \in Encodings /\ c \in CpuContexts
      /\ Stepped(c).gpr[i.ra] = a /\ Stepped(c).gpr[GPR_XER] = c.gpr[GPR_XER]
      /\ i.op \notin Branches
  BY GivenFacts, Operands, ValueFacts DEF Branches
<1>2. v \in Values /\ v \in Int
  BY <1>1, Immediate
<1>3. /\ Wrap(s + imm + 1) = g
      /\ (a = v \/ (D \div 2 <= a /\ a <= v)) => SubficCarries(s, imm) = {a <= v}
  BY <1>1, <1>2, SubficResult
<1>4. g \in Values
  BY <1>1, <1>2, WrapValue
<1>5. BuildIntermediate(i, c.pc) = <<x>>
  BY DEF BuildIntermediate
<1>6. InterpretIntermediate(Stepped(c), x) = {New(ca) : ca \in SubficCarries(s, imm)}
  <2>0. /\ x.op = "PPC_SUBFIC" /\ x.source = i.ra /\ x.dest = i.rt /\ x.imm = v
    BY DEF RegImm
  <2> HIDE DEF x
  <2>1. /\ x.op \notin {"NOP", "PPC_NO_EFFECT"} /\ x.op # "MOVE_REG"
        /\ x.op \notin BranchOps /\ x.op \notin MemoryOps /\ x.op \notin Ops32 /\ x.op \notin Ops64
        /\ x.op \notin Compares /\ x.op # "PPC_SRAWI"
    BY <2>0 DEF Ops32, Ops64, BranchOps, MemoryOps, Compares
  <2>2. InterpretIntermediate(Stepped(c), x) = Subfic(Stepped(c), x)
    BY <2>0, <2>1 DEF InterpretIntermediate
  <2>3. Subfic(Stepped(c), x) = {Computed(Stepped(c), i.rt, g, ca) : ca \in SubficCarries(s, imm)}
    <3>1. Subfic(Stepped(c), x) =
            LET t == Signed(Ones - Stepped(c).gpr[x.source], 2 * N)
                m == Signed(x.imm, 2 * N)
            IN  {Computed(Stepped(c), x.dest, Wrap(t + m + 1), ca) : ca \in SubficCarries(t, m)}
      BY DEF Subfic, Computed
    <3>2. Signed(Ones - Stepped(c).gpr[x.source], 2 * N) = s /\ Signed(x.imm, 2 * N) = imm
      BY <1>1, <2>0
    <3> HIDE DEF s, imm, v, g
    <3>3. QED
      BY <1>3, <2>0, <3>1, <3>2
  <2>4. \A ca : Computed(Stepped(c), i.rt, g, ca) = New(ca)
    <3> HIDE DEF g
    <3>1. Stepped(c) \in CpuContexts
      BY SteppedContext
    <3>2. i.rt \in Regs /\ i.rt # GPR_XER
      BY <1>1
    <3>3. \A ca : Computed(Stepped(c), i.rt, g, ca) =
                    Put(Put(Stepped(c), i.rt, g), GPR_XER, SetCa(Stepped(c).gpr[GPR_XER], ca))
      BY <3>1, <3>2, CarryPut
    <3>4. QED
      BY <1>1, <3>3
  <2> HIDE DEF s, imm, g, New
  <2>5. QED
    BY <2>2, <2>3, <2>4
<1>7. BookPlain(i, c) = Carried(Put(c, i.rt, g), a <= v)
  BY DEF BookPlain, Carried
<1>8. \A h : Carried(Put(c, i.rt, g), h) = Put(Put(c, i.rt, g), GPR_XER, SetCa(c.gpr[GPR_XER], h))
  <2> HIDE DEF g
  <2>1. i.rt \in Regs /\ i.rt # GPR_XER /\ c \in CpuContexts
    BY <1>1
  <2>2. QED
    BY <2>1, CarryPut
<1>9. ASSUME NEW ca \in SubficCarries(s, imm) PROVE Right(i, c, New(ca))
  <2>1. SetCa(c.gpr[GPR_XER], ca) \in Values
    BY CarryValue
  <2>2. ASSUME ~ Diverges(i, c)
        PROVE  BookPlain(i, c) = Put(Put(c, i.rt, g), GPR_XER, SetCa(c.gpr[GPR_XER], ca))
    <3>1. a = v \/ (D \div 2 <= a /\ a <= v)
      BY <2>2 DEF Diverges
    <3>2. ca = (a <= v)
      BY <1>3, <1>9, <3>1
    <3> HIDE DEF a, v, g
    <3>3. SetCa(c.gpr[GPR_XER], a <= v) = SetCa(c.gpr[GPR_XER], ca)
      BY <3>2 DEF SetCa
    <3>4. BookPlain(i, c) = Put(Put(c, i.rt, g), GPR_XER, SetCa(c.gpr[GPR_XER], a <= v))
      BY <1>7, <1>8
    <3>5. QED
      BY <3>3, <3>4
  <2> HIDE DEF g
  <2>3. QED
    BY <1>1, <1>4, <2>1, <2>2, RightPutPut
<1> HIDE DEF x, New, s, imm
<1>10. Fine1(i, c, Stepped(c), x)
  BY <1>6, <1>9 DEF Fine1
<1>11. QED
  BY <1>5, <1>10, FineLists

-----------------------------------------------------------------------------
(* Rotates.                                                                 *)
LEMMA FineRlwinm ==
    ASSUME NEW i, NEW c, Given(i, c), i.op = "rlwinm"
    PROVE  FineAtFetch(i, c)
<1> DEFINE s == c.gpr[i.rt]
           a == c.gpr[i.ra]
           book == And(Rotl32(Low(s), i.sh), BookMask(i.mb + N, i.me + N))
<1>1. /\ i.rt \in Regs /\ i.ra \in Regs /\ i \in Encodings /\ c \in CpuContexts
      /\ s \in Values /\ s \in Nat /\ a \in Values /\ Low(s) \in Values
      /\ Stepped(c).gpr[i.rt] = s /\ Stepped(c).gpr[i.ra] = a /\ i.op \notin Branches
  BY GivenFacts, Operands, ValueFacts, WordsOf DEF Branches
<1>2. i.sh \in 0 .. N - 1 /\ i.mb \in 0 .. N - 1 /\ i.me \in 0 .. N - 1
  BY <1>1, Widths DEF Encodings
<1>3. /\ (i.sh = 0 /\ i.mb > 0 /\ i.me = N - 1) => And(s, 2 ^ (N - i.mb) - 1) = book
      /\ (i.sh = 0 /\ i.mb = 0 /\ i.me < N - 1) => And(s, W - 2 ^ (N - 1 - i.me)) = book
      /\ (i.sh > 0 /\ i.mb = 0 /\ i.me = N - 1 - i.sh) => Low(Low(s) * 2 ^ i.sh) = book
      /\ (i.sh > 0 /\ i.mb = N - i.sh /\ i.me = N - 1) => Low(s) \div 2 ^ i.mb = book
  BY <1>1, <1>2, WordRotates
<1>4. BuildIntermediate(i, c.pc) = <<BuildRotate21(i)>>
  BY DEF BuildIntermediate
<1>5. BookPlain(i, c) = Put(c, i.ra, book)
  BY DEF BookPlain, BookRotate
<1>6. ~ Diverges(i, c) => High(a) = 0
  BY DEF Diverges
<1>7. book \in Values
  BY Logic
<1>8. ASSUME NEW w \in Values, w = book, NEW x, BuildRotate21(i) = x,
             InterpretIntermediate(Stepped(c), x) = {Put(Stepped(c), i.ra, w)}
      PROVE  FineAtFetch(i, c)
  <2> HIDE DEF book
  <2>1. Fine1(i, c, Stepped(c), x)
    BY <1>1, <1>5, <1>8, FinePut
  <2>2. QED
    BY <1>4, <1>8, <2>1, FineLists
<1>9. ASSUME NEW w \in Nat, w < W, w = book, NEW x, BuildRotate21(i) = x,
             InterpretIntermediate(Stepped(c), x) = {Put(Stepped(c), i.ra, SetLow(a, w))}
      PROVE  FineAtFetch(i, c)
  <2>1. SetLow(a, w) \in Values /\ (~ Diverges(i, c) => SetLow(a, w) = book)
    BY <1>1, <1>6, <1>9, Pieces
  <2> HIDE DEF book
  <2>2. Fine1(i, c, Stepped(c), x)
    BY <1>1, <1>5, <1>9, <2>1, FinePut
  <2>3. QED
    BY <1>4, <1>9, <2>2, FineLists
<1>10. CASE ~ i.rc /\ i.sh = 0 /\ i.mb > 0 /\ i.me = N - 1
  <2> DEFINE x == RegImm("AND_IMM_64", i.rt, i.ra, 2 ^ (N - i.mb) - 1)
  <2>1. BuildRotate21(i) = x
    BY <1>2, <1>10 DEF BuildRotate21
  <2>2. InterpretIntermediate(Stepped(c), x) = {Put(Stepped(c), i.ra, And(s, 2 ^ (N - i.mb) - 1))}
    BY <1>1, Immediates64
  <2> HIDE DEF x
  <2>3. QED
    BY <1>3, <1>7, <1>8, <1>10, <2>1, <2>2
<1>11. CASE ~ i.rc /\ i.sh = 0 /\ i.mb = 0 /\ i.me < N - 1
  <2> DEFINE x == RegImm("AND_IMM_64", i.rt, i.ra, W - 2 ^ (N - 1 - i.me))
  <2>1. BuildRotate21(i) = x
    BY <1>2, <1>11 DEF BuildRotate21
  <2>2. InterpretIntermediate(Stepped(c), x) = {Put(Stepped(c), i.ra, And(s, W - 2 ^ (N - 1 - i.me)))}
    BY <1>1, Immediates64
  <2> HIDE DEF x
  <2>3. QED
    BY <1>3, <1>7, <1>8, <1>11, <2>1, <2>2
<1>12. CASE ~ i.rc /\ i.sh > 0 /\ i.mb = 0 /\ i.me = N - 1 - i.sh
  <2> DEFINE x == RegImm("SLL32_IMM", i.rt, i.ra, i.sh)
             w == Low(Low(s) * 2 ^ i.sh)
  <2>1. BuildRotate21(i) = x
    BY <1>2, <1>12 DEF BuildRotate21
  <2>2. w \in Nat /\ w < W /\ Low(w) = w
    <3>1. i.sh \in Nat
      BY <1>2
    <3>2. Low(s) * 2 ^ i.sh \in Nat
      BY <1>1, <3>1, ShiftBits
    <3>3. QED
      BY <3>2, WordsOf
  <2>3. InterpretIntermediate(Stepped(c), x) = {Put(Stepped(c), i.ra, SetLow(a, Low(w)))}
    BY <1>1, Immediates32
  <2>4. w = book
    BY <1>3, <1>12
  <2> HIDE DEF x, w
  <2>5. InterpretIntermediate(Stepped(c), x) = {Put(Stepped(c), i.ra, SetLow(a, w))}
    BY <2>2, <2>3
  <2>6. QED
    BY <1>9, <2>1, <2>2, <2>4, <2>5
<1>13. CASE ~ i.rc /\ i.sh > 0 /\ i.mb = N - i.sh /\ i.me = N - 1
  <2> DEFINE x == RegImm("SLR32_IMM", i.rt, i.ra, i.mb)
             w == Low(s) \div 2 ^ i.mb
  <2>1. BuildRotate21(i) = x
    BY <1>2, <1>13 DEF BuildRotate21
  <2>2. w \in Nat /\ w < W /\ Low(w) = w
    <3>1. i.mb \in Nat /\ Low(s) \in Nat /\ Low(s) < W
      BY <1>1, <1>2, WordsOf
    <3>2. 2 ^ i.mb \in Nat /\ 2 ^ i.mb > 0
      BY <3>1, PowPositive
    <3> DEFINE p == 2 ^ i.mb
    <3>3. p \in Nat /\ p > 0
      BY <3>2
    <3> HIDE DEF p
    <3>4. Low(s) \div p \in Nat /\ Low(s) \div p <= Low(s)
      BY <3>1, <3>3, DivMod
    <3>5. w \in Nat /\ w < W
      BY <3>1, <3>4, WordSizes DEF p
    <3>6. QED
      BY <3>5, WordsOf
  <2>3. InterpretIntermediate(Stepped(c), x) = {Put(Stepped(c), i.ra, SetLow(a, Low(w)))}
    BY <1>1, Immediates32
  <2>4. w = book
    BY <1>3, <1>13
  <2> HIDE DEF x, w
  <2>5. InterpretIntermediate(Stepped(c), x) = {Put(Stepped(c), i.ra, SetLow(a, w))}
    BY <2>2, <2>3
  <2>6. QED
    BY <1>9, <2>1, <2>2, <2>4, <2>5
<1>14. CASE /\ ~ (~ i.rc /\ i.sh = 0 /\ i.mb > 0 /\ i.me = N - 1)
            /\ ~ (~ i.rc /\ i.sh = 0 /\ i.mb = 0 /\ i.me < N - 1)
            /\ ~ (~ i.rc /\ i.sh > 0 /\ i.mb = 0 /\ i.me = N - 1 - i.sh)
            /\ ~ (~ i.rc /\ i.sh > 0 /\ i.mb = N - i.sh /\ i.me = N - 1)
  <2>1. BuildIntermediate(i, c.pc) = <<Unknown>>
    BY <1>4, <1>14 DEF BuildRotate21
  <2>2. QED
    BY <2>1, FineLists
<1>15. QED
  BY <1>10, <1>11, <1>12, <1>13, <1>14

(* One intermediate after another.                                          *)
LEMMA FineNext ==
    ASSUME NEW i, NEW c, NEW d, NEW x, NEW e \in CpuContexts, InterpretIntermediate(d, x) = {e}
    PROVE  /\ \A y : Fine1(i, c, e, y) => Fine2(i, c, d, x, y)
           /\ \A y, z : Fine2(i, c, e, y, z) => Fine3(i, c, d, x, y, z)
           /\ \A y, z, u : Fine3(i, c, e, y, z, u) => Fine4(i, c, d, x, y, z, u)
           /\ Right(i, c, e) => Fine1(i, c, d, x)
  BY DEF Fine1, Fine2, Fine3, Fine4

LEMMA PutTwice ==
    ASSUME NEW c, NEW r \in Regs, NEW v, NEW w
    PROVE  Put(Put(c, r, v), r, w) = Put(c, r, w)
  BY DEF Put

WithGpr(c, g) == [gpr |-> g, sys |-> c.sys, pc |-> c.pc, mem |-> c.mem]

LEMMA PutSwap ==
    ASSUME NEW c \in CpuContexts, NEW r \in Regs, NEW q \in Regs, r # q, NEW v, NEW w
    PROVE  Put(Put(c, r, v), q, w) = Put(Put(c, q, w), r, v)
<1> DEFINE g1 == [c.gpr EXCEPT ![r] = v]
           g2 == [c.gpr EXCEPT ![q] = w]
<1>1. c = WithGpr(c, c.gpr) /\ c.gpr \in [Regs -> Values]
  BY DEF CpuContexts, WithGpr
<1>2. [g1 EXCEPT ![q] = w] = [g2 EXCEPT ![r] = v]
  BY <1>1
<1>3. \A g : Put(WithGpr(c, g), r, v) = WithGpr(c, [g EXCEPT ![r] = v])
  BY DEF Put, WithGpr
<1>4. \A g : Put(WithGpr(c, g), q, w) = WithGpr(c, [g EXCEPT ![q] = w])
  BY DEF Put, WithGpr
<1>5. Put(c, r, v) = WithGpr(c, g1) /\ Put(c, q, w) = WithGpr(c, g2)
  BY <1>1, <1>3, <1>4
<1> HIDE DEF g1, g2
<1>6. QED
  BY <1>2, <1>3, <1>4, <1>5

(* A rotation into ra and then a mask.                                      *)
LEMMA FineRotateAnd ==
    ASSUME NEW i, NEW c, Given(i, c), i.op \notin Branches, NEW mask,
           BookPlain(i, c) = Put(c, i.ra, And(Rotl(c.gpr[i.rt], i.sh), mask)),
           NEW built, And(Rotl(c.gpr[i.rt], i.sh), built) = And(Rotl(c.gpr[i.rt], i.sh), mask),
           BuildIntermediate(i, c.pc) = BuildRotateAnd(i, built)
    PROVE  FineAtFetch(i, c)
<1> DEFINE s == c.gpr[i.rt]
           r == Rotl(s, i.sh)
           e == Put(Stepped(c), i.ra, r)
           x == RegImm("ROL64_IMM", i.rt, i.ra, i.sh)
           y == RegImm("AND_IMM_64", i.ra, i.ra, built)
           v == And(r, mask)
<1>1. /\ i.rt \in Regs /\ i.ra \in Regs /\ s \in Values /\ Stepped(c).gpr[i.rt] = s
      /\ i \in Encodings /\ c \in CpuContexts /\ i.sh \in Nat /\ i.sh < 2 * N
      /\ Stepped(c) \in CpuContexts
  BY GivenFacts, Operands, SteppedContext, Widths DEF Encodings
<1>2. r \in Values /\ v \in Values
  BY <1>1, RotlBits, Logic
<1>3. InterpretIntermediate(Stepped(c), x) = {e}
  BY <1>1, Immediates64
<1>4. e \in CpuContexts /\ e.gpr[i.ra] = r /\ \A w : Put(e, i.ra, w) = Put(Stepped(c), i.ra, w)
  <2> HIDE DEF r
  <2>1. Stepped(c) \in CpuContexts /\ i.ra \in Regs
    BY <1>1
  <2>2. e \in CpuContexts
    BY <1>2, <2>1, ContextTypes
  <2>3. e.gpr[i.ra] = r
    BY <2>1, PutOther
  <2>4. \A w : Put(e, i.ra, w) = Put(Stepped(c), i.ra, w)
    BY <2>1, PutTwice
  <2>5. QED
    BY <2>2, <2>3, <2>4
<1>5. InterpretIntermediate(e, y) = {Put(e, i.ra, And(e.gpr[i.ra], built))}
  <2> HIDE DEF e
  <2>1. QED
    BY Immediates64
<1>6. InterpretIntermediate(e, y) = {Put(Stepped(c), i.ra, v)}
  <2>1. And(r, built) = v
    OBVIOUS
  <2> HIDE DEF e, r, v, y
  <2>2. QED
    BY <1>4, <1>5, <2>1
<1>7. BookPlain(i, c) = Put(c, i.ra, v)
  OBVIOUS
<1>8. BuildIntermediate(i, c.pc) = <<x, y>>
  BY DEF BuildRotateAnd
<1> HIDE DEF e, x, y, r, s, v
<1>9. Right(i, c, Put(Stepped(c), i.ra, v))
  BY <1>1, <1>2, <1>7, RightPut
<1>10. Fine1(i, c, e, y)
  BY <1>6, <1>9 DEF Fine1
<1>11. Fine2(i, c, Stepped(c), x, y)
  BY <1>3, <1>4, <1>10, FineNext
<1>12. QED
  BY <1>8, <1>11, FineLists

LEMMA FineRldic ==
    ASSUME NEW i, NEW c, Given(i, c), i.op \in {"rldicl", "rldicr", "rldic"}
    PROVE  FineAtFetch(i, c)
<1> DEFINE s == c.gpr[i.rt]
           right == Ones \div 2 ^ i.mb
           left == LeftOnes(i.mb)
<1>1. /\ i.rt \in Regs /\ i.ra \in Regs /\ s \in Values /\ Stepped(c).gpr[i.rt] = s
      /\ i \in Encodings /\ c \in CpuContexts /\ i.op \notin Branches
      /\ i.sh \in 0 .. 2 * N - 1 /\ i.mb \in 0 .. 2 * N - 1
  BY GivenFacts, Operands DEF Encodings, Branches
<1>2. BuildIntermediate(i, c.pc) = BuildRotate30(i)
  BY DEF BuildIntermediate
<1>3. \A x, y : And(x, y) \in Values
  BY Logic
<1>4. CASE i.rc \/ i.op = "rldic"
  <2>1. BuildIntermediate(i, c.pc) = <<Unknown>>
    BY <1>2, <1>4 DEF BuildRotate30
  <2>2. QED
    BY <2>1, FineLists
<1>5. CASE ~ i.rc /\ i.op = "rldicl"
  <2> DEFINE mask == BookMask(i.mb, 2 * N - 1)
             book == And(Rotl(s, i.sh), mask)
  <2>1. BookPlain(i, c) = Put(c, i.ra, book)
    BY <1>5 DEF BookPlain, BookRotate
  <2>2. /\ \A z : And(z, right) = And(z, mask)
        /\ (i.sh # 0 /\ 2 * N - i.sh = i.mb) => s \div 2 ^ i.mb = book
    BY <1>1, RightMask
  <2>3. CASE i.sh = 0
    <3> DEFINE x == RegImm("AND_IMM_64", i.rt, i.ra, right)
    <3>1. BuildIntermediate(i, c.pc) = <<x>>
      BY <1>2, <1>5, <2>3 DEF BuildRotate30
    <3>2. And(s, right) = book
      BY <1>1, <2>2, <2>3, RotlNone
    <3>3. InterpretIntermediate(Stepped(c), x) = {Put(Stepped(c), i.ra, And(s, right))}
      BY <1>1, Immediates64
    <3>4. book \in Values
      BY <1>3
    <3> HIDE DEF x, book
    <3>5. Fine1(i, c, Stepped(c), x)
      BY <1>1, <2>1, <3>2, <3>3, <3>4, FinePut
    <3>6. QED
      BY <3>1, <3>5, FineLists
  <2>4. CASE i.sh # 0 /\ 2 * N - i.sh = i.mb
    <3> DEFINE x == RegImm("SLR64_IMM", i.rt, i.ra, i.mb)
    <3>1. BuildIntermediate(i, c.pc) = <<x>>
      BY <1>2, <1>5, <2>4 DEF BuildRotate30
    <3>2. InterpretIntermediate(Stepped(c), x) = {Put(Stepped(c), i.ra, s \div 2 ^ i.mb)}
      BY <1>1, Immediates64
    <3>3. book \in Values
      BY <1>3
    <3>4. s \div 2 ^ i.mb = book
      BY <2>2, <2>4
    <3> HIDE DEF x, book
    <3>5. Fine1(i, c, Stepped(c), x)
      BY <1>1, <2>1, <3>2, <3>3, <3>4, FinePut
    <3>6. QED
      BY <3>1, <3>5, FineLists
  <2>5. CASE i.sh # 0 /\ 2 * N - i.sh # i.mb
    <3>1. BuildIntermediate(i, c.pc) = BuildRotateAnd(i, right)
      BY <1>2, <1>5, <2>5 DEF BuildRotate30
    <3> HIDE DEF mask, right
    <3>2. And(Rotl(s, i.sh), right) = And(Rotl(s, i.sh), mask)
      BY <2>2
    <3>3. QED
      BY <1>1, <2>1, <3>1, <3>2, FineRotateAnd
  <2>6. QED
    BY <2>3, <2>4, <2>5
<1>6. CASE ~ i.rc /\ i.op = "rldicr"
  <2> DEFINE mask == BookMask(0, i.mb)
             book == And(Rotl(s, i.sh), mask)
  <2>1. BookPlain(i, c) = Put(c, i.ra, book)
    BY <1>6 DEF BookPlain, BookRotate
  <2>2. /\ \A z : And(z, left) = And(z, mask)
        /\ 2 * N - 1 - i.mb = i.sh => Wrap(s * 2 ^ i.sh) = book
    BY <1>1, LeftMask
  <2>3. CASE i.sh = 0
    <3> DEFINE x == RegImm("AND_IMM_64", i.rt, i.ra, left)
    <3>1. BuildIntermediate(i, c.pc) = <<x>>
      BY <1>2, <1>6, <2>3 DEF BuildRotate30
    <3>2. And(s, left) = book
      BY <1>1, <2>2, <2>3, RotlNone
    <3>3. InterpretIntermediate(Stepped(c), x) = {Put(Stepped(c), i.ra, And(s, left))}
      BY <1>1, Immediates64
    <3>4. book \in Values
      BY <1>3
    <3> HIDE DEF x, book
    <3>5. Fine1(i, c, Stepped(c), x)
      BY <1>1, <2>1, <3>2, <3>3, <3>4, FinePut
    <3>6. QED
      BY <3>1, <3>5, FineLists
  <2>4. CASE i.sh # 0 /\ 2 * N - 1 - i.mb = i.sh
    <3> DEFINE x == RegImm("SLL64_IMM", i.rt, i.ra, i.sh)
    <3>1. BuildIntermediate(i, c.pc) = <<x>>
      BY <1>2, <1>6, <2>4 DEF BuildRotate30
    <3>2. InterpretIntermediate(Stepped(c), x) = {Put(Stepped(c), i.ra, Wrap(s * 2 ^ i.sh))}
      BY <1>1, Immediates64
    <3>3. book \in Values
      BY <1>3
    <3>4. Wrap(s * 2 ^ i.sh) = book
      BY <2>2, <2>4
    <3> HIDE DEF x, book
    <3>5. Fine1(i, c, Stepped(c), x)
      BY <1>1, <2>1, <3>2, <3>3, <3>4, FinePut
    <3>6. QED
      BY <3>1, <3>5, FineLists
  <2>5. CASE i.sh # 0 /\ 2 * N - 1 - i.mb # i.sh
    <3>1. BuildIntermediate(i, c.pc) = BuildRotateAnd(i, left)
      BY <1>2, <1>6, <2>5 DEF BuildRotate30
    <3> HIDE DEF mask, left
    <3>2. And(Rotl(s, i.sh), left) = And(Rotl(s, i.sh), mask)
      BY <2>2
    <3>3. QED
      BY <1>1, <2>1, <3>1, <3>2, FineRotateAnd
  <2>6. QED
    BY <2>3, <2>4, <2>5
<1>7. QED
  BY <1>4, <1>5, <1>6

(* What is written to the scratch register is not seen.                     *)
LEMMA RightScratch ==
    ASSUME NEW i, NEW c, NEW d, Right(i, c, d), NEW v \in Values
    PROVE  Right(i, c, Put(d, GPR_TEMP, v))
<1>1. d \in CpuContexts /\ GPR_TEMP \in Regs
  BY DEF Right, Regs, GPR_LR, GPR_TEMP
<1>2. Put(d, GPR_TEMP, v) \in CpuContexts
  BY <1>1, ContextTypes
<1>3. Visible(Put(d, GPR_TEMP, v)) = Visible(d)
  BY ScratchUnseen DEF Put
<1>4. QED
  BY <1>2, <1>3 DEF Right

LEMMA FineRldimi ==
    ASSUME NEW i, NEW c, Given(i, c), i.op = "rldimi"
    PROVE  FineAtFetch(i, c)
<1> DEFINE s == c.gpr[i.rt]
           a == c.gpr[i.ra]
           ins == Wrap((Ones \div 2 ^ ((i.sh + i.mb) % (2 * N))) * 2 ^ i.sh)
           m == BookMask(i.mb, 2 * N - 1 - i.sh)
           d == Stepped(c)
           va == Andc(a, ins)
           x == RegImm("ANDC_IMM", i.ra, i.ra, ins)
           e == Put(d, i.ra, va)
           vb == Rotl(e.gpr[i.rt], i.sh)
           y == RegImm("ROL64_IMM", i.rt, GPR_TEMP, i.sh)
           f == Put(e, GPR_TEMP, vb)
           vc == And(vb, ins)
           z == RegImm("AND_IMM_64", GPR_TEMP, GPR_TEMP, ins)
           g == Put(f, GPR_TEMP, vc)
           vd == Or(vc, va)
           u == Reg3("OR", GPR_TEMP, i.ra, i.ra)
           h == Put(g, i.ra, vd)
<1>1. /\ i.rt \in Regs /\ i.ra \in Regs /\ i.ra # GPR_TEMP /\ GPR_TEMP \in Regs
      /\ s \in Values /\ d.gpr[i.rt] = s /\ d.gpr[i.ra] = a
      /\ i \in Encodings /\ c \in CpuContexts /\ d \in CpuContexts /\ i.op \notin Branches
      /\ i.sh \in 0 .. 2 * N - 1 /\ i.mb \in 0 .. 2 * N - 1 /\ i.sh \in Nat /\ i.sh < 2 * N
  BY GivenFacts, Operands, SteppedContext, Widths DEF Encodings, Branches
<1>2. va \in Values /\ vc \in Values /\ vd \in Values
  BY Logic
<1>3. CASE i.rc
  <2>1. BuildIntermediate(i, c.pc) = <<Unknown>>
    BY <1>3 DEF BuildIntermediate, BuildRotate30
  <2>2. QED
    BY <2>1, FineLists
<1>4. CASE ~ i.rc
  <2>1. BuildIntermediate(i, c.pc) = <<x, y, z, u>>
    BY <1>4 DEF BuildIntermediate, BuildRotate30
  <2>2. BookPlain(i, c) = Put(c, i.ra, Or(And(Rotl(s, i.sh), m), Andc(a, m)))
    BY DEF BookPlain, BookRotate
  <2>3. InterpretIntermediate(d, x) = {e}
    BY <1>1, Immediates64
  <2>4. e \in CpuContexts /\ e.gpr[i.ra] = va /\ (i.rt # i.ra => e.gpr[i.rt] = s)
    <3> HIDE DEF va, d
    <3>1. d \in CpuContexts /\ i.ra \in Regs
      BY <1>1
    <3>2. e.gpr[i.ra] = va /\ \A q : q # i.ra => e.gpr[q] = d.gpr[q]
      BY <3>1, PutOther
    <3>3. e \in CpuContexts
      BY <1>2, <3>1, ContextTypes
    <3>4. QED
      BY <1>1, <3>2, <3>3
  <2>5. vb \in Values
    <3> HIDE DEF e
    <3>1. e.gpr[i.rt] \in Values
      BY <1>1, <2>4, ContextFields
    <3>2. QED
      BY <1>1, <3>1, RotlBits
  <2>6. InterpretIntermediate(e, y) = {f}
    <3> HIDE DEF e
    <3>1. QED
      BY Immediates64
  <2>7. f \in CpuContexts /\ f.gpr[GPR_TEMP] = vb /\ f.gpr[i.ra] = va
    <3> HIDE DEF vb, e, va
    <3>1. e \in CpuContexts /\ GPR_TEMP \in Regs
      BY <1>1, <2>4
    <3>2. f.gpr[GPR_TEMP] = vb /\ \A q : q # GPR_TEMP => f.gpr[q] = e.gpr[q]
      BY <3>1, PutOther
    <3>3. f \in CpuContexts
      BY <2>5, <3>1, ContextTypes
    <3>4. QED
      BY <1>1, <2>4, <3>2, <3>3
  <2>8. InterpretIntermediate(f, z) = {g}
    <3> HIDE DEF f, vb
    <3>1. InterpretIntermediate(f, z) = {Put(f, GPR_TEMP, And(f.gpr[GPR_TEMP], ins))}
      BY Immediates64
    <3>2. QED
      BY <2>7, <3>1
  <2>9. g \in CpuContexts /\ g.gpr[GPR_TEMP] = vc /\ g.gpr[i.ra] = va
    <3> HIDE DEF vc, f, va
    <3>1. f \in CpuContexts /\ GPR_TEMP \in Regs
      BY <1>1, <2>7
    <3>2. g.gpr[GPR_TEMP] = vc /\ \A q : q # GPR_TEMP => g.gpr[q] = f.gpr[q]
      BY <3>1, PutOther
    <3>3. g \in CpuContexts
      BY <1>2, <3>1, ContextTypes
    <3>4. QED
      BY <1>1, <2>7, <3>2, <3>3
  <2>10. InterpretIntermediate(g, u) = {h}
    <3> HIDE DEF g, vc, va
    <3>1. InterpretIntermediate(g, u) = {Put(g, i.ra, Or(g.gpr[GPR_TEMP], g.gpr[i.ra]))}
      BY Registers3
    <3>2. QED
      BY <2>9, <3>1
  <2>11. h = Put(Put(d, i.ra, vd), GPR_TEMP, vc)
    <3> HIDE DEF d, va, vb, vc, vd
    <3>1. g = Put(e, GPR_TEMP, vc)
      BY <1>1, PutTwice
    <3> HIDE DEF g, e
    <3>2. e \in CpuContexts /\ i.ra \in Regs /\ GPR_TEMP \in Regs /\ GPR_TEMP # i.ra
      BY <1>1, <2>4
    <3>3. Put(Put(e, GPR_TEMP, vc), i.ra, vd) = Put(Put(e, i.ra, vd), GPR_TEMP, vc)
      BY <3>2, PutSwap
    <3>4. Put(e, i.ra, vd) = Put(d, i.ra, vd)
      BY <1>1, PutTwice DEF e
    <3>5. QED
      BY <3>1, <3>3, <3>4
  <2>12. ASSUME ~ Diverges(i, c) PROVE BookPlain(i, c) = Put(c, i.ra, vd)
    <3>1. i.rt # i.ra /\ ~ (i.sh + i.mb >= 2 * N)
      BY <2>12 DEF Diverges
    <3>2. i.sh + i.mb < 2 * N
      BY <1>1, <3>1, Widths
    <3>3. \A w : And(w, ins) = And(w, m) /\ Andc(w, ins) = Andc(w, m)
      BY <1>1, <3>2, InsertMask
    <3> HIDE DEF e, ins, m
    <3>4. vb = Rotl(s, i.sh)
      BY <2>4, <3>1
    <3>5. va = Andc(a, m) /\ vc = And(Rotl(s, i.sh), m)
      BY <3>3, <3>4
    <3>6. QED
      BY <2>2, <3>5
  <2> HIDE DEF vc, vd
  <2>13. Right(i, c, Put(d, i.ra, vd))
    BY <1>1, <1>2, <2>12, RightPut
  <2>14. Right(i, c, h)
    <3>1. Right(i, c, Put(Put(d, i.ra, vd), GPR_TEMP, vc))
      BY <1>2, <2>13, RightScratch
    <3> HIDE DEF h
    <3>2. QED
      BY <2>11, <3>1
  <2> HIDE DEF d, e, f, g, h, x, y, z, u
  <2>15. Fine1(i, c, g, u)
    BY <2>10, <2>14 DEF Fine1
  <2>16. Fine2(i, c, f, z, u)
    BY <2>8, <2>9, <2>15, FineNext
  <2>17. Fine3(i, c, e, y, z, u)
    BY <2>6, <2>7, <2>16, FineNext
  <2>18. Fine4(i, c, d, x, y, z, u)
    BY <2>3, <2>4, <2>17, FineNext
  <2>19. QED
    BY <2>1, <2>18, FineLists DEF d
<1>5. QED
  BY <1>3, <1>4

-----------------------------------------------------------------------------
(* Comparisons and the condition register.                                  *)
LEMMA InterpretCompare ==
    ASSUME NEW d, NEW x, x.op \in Compares, NEW a, NEW b, CompareOperands(d, x) = <<a, b>>
    PROVE  InterpretIntermediate(d, x) =
             {Put(d, GPR_CR, ClearCr(d.gpr[GPR_CR], x.dest) + Order(x.dest, a, b))}
<1>1. /\ x.op \notin {"NOP", "PPC_NO_EFFECT"} /\ x.op # "MOVE_REG"
      /\ x.op \notin BranchOps /\ x.op \notin MemoryOps /\ x.op \notin Ops32 /\ x.op \notin Ops64
      /\ x.op # "PPC_SRAWI" /\ x.op # "PPC_SUBFIC"
  BY DEF Ops32, Ops64, BranchOps, MemoryOps, Compares
<1>2. InterpretIntermediate(d, x) = {Compare(d, x)}
  BY <1>1 DEF InterpretIntermediate
<1>3. <<a, b>>[1] = a /\ <<a, b>>[2] = b
  OBVIOUS
<1>4. Compare(d, x) = Put(d, GPR_CR, ClearCr(d.gpr[GPR_CR], x.dest) + Order(x.dest, a, b))
  BY <1>3 DEF Compare, Put
<1>5. QED
  BY <1>2, <1>4

LEMMA FineOrder ==
    ASSUME NEW i, NEW c, Given(i, c), i.op \in {"cmp", "cmpl", "cmpi", "cmpli"},
           NEW a, NEW b, ~ Diverges(i, c) => BookCompare(i, c) = PutOrder(c, i.bf, a, b),
           NEW x, x.op \in Compares, x.dest = i.bf, CompareOperands(Stepped(c), x) = <<a, b>>
    PROVE  Fine1(i, c, Stepped(c), x)
<1> DEFINE cr == c.gpr[GPR_CR]
           v == ClearCr(cr, i.bf) + Order(i.bf, a, b)
<1>1. /\ GPR_CR \in Regs /\ cr \in Values /\ Stepped(c).gpr[GPR_CR] = cr /\ i.op \notin Branches
      /\ i.bf \in 0 .. (N \div 4) - 1
  BY GivenFacts, Operands, Widths DEF Encodings, Branches
<1>2. v \in Values
  BY <1>1, OrderValue
<1>3. InterpretIntermediate(Stepped(c), x) = {Put(Stepped(c), GPR_CR, v)}
  BY <1>1, InterpretCompare
<1>4. BookPlain(i, c) = BookCompare(i, c)
  BY DEF BookPlain
<1>5. ASSUME ~ Diverges(i, c) PROVE BookPlain(i, c) = Put(c, GPR_CR, v)
  <2>1. ~ (And(c.gpr[GPR_XER], XerSo) # 0)
    BY <1>5 DEF Diverges
  <2>2. PutOrder(c, i.bf, a, b) = Put(c, GPR_CR, v + 0)
    BY <2>1 DEF PutOrder
  <2> HIDE DEF v
  <2>3. v + 0 = v
    BY <1>2, ValueFacts
  <2>4. QED
    BY <1>4, <1>5, <2>2, <2>3
<1> HIDE DEF v
<1>6. QED
  BY <1>1, <1>2, <1>3, <1>5, FinePut

LEMMA FineCompare ==
    ASSUME NEW i, NEW c, Given(i, c), i.op \in {"cmp", "cmpl", "cmpi", "cmpli"}
    PROVE  FineAtFetch(i, c)
<1> DEFINE a == c.gpr[i.ra]
           b == c.gpr[i.rb]
           si == D_SI(i)
           ui == D_UI(i)
<1>1. /\ a \in Values /\ b \in Values /\ Stepped(c).gpr[i.ra] = a /\ Stepped(c).gpr[i.rb] = b
      /\ i \in Encodings /\ i.l \in BOOLEAN
  BY GivenFacts, Operands DEF Encodings
<1>2. /\ si \in Values /\ ui \in Values /\ Signed(Low(si), N) = Signed(si, 2 * N)
      /\ Low(ui) = ui
  BY <1>1, Immediate
<1>3. a % 2 ^ (2 * N) = a /\ b % 2 ^ (2 * N) = b /\ si % 2 ^ (2 * N) = si /\ ui % 2 ^ (2 * N) = ui
  <2>1. \A v \in Values : v % 2 ^ (2 * N) = v
    BY WrapValue, ValueFacts DEF Wrap, D
  <2>2. QED
    BY <1>1, <1>2, <2>1
<1>4. a % 2 ^ N = Low(a) /\ b % 2 ^ N = Low(b) /\ si % 2 ^ N = Low(si) /\ ui % 2 ^ N = ui
  BY <1>2 DEF Low, W
<1> HIDE DEF si, ui
<1>5. CASE i.op = "cmp"
  <2> DEFINE x == Reg3(IF i.l THEN "PPC_CMPD" ELSE "PPC_CMPW", i.ra, i.rb, i.bf)
             va == Signed(Low(a), N)
             vb == Signed(Low(b), N)
  <2>1. BuildIntermediate(i, c.pc) = <<x>>
    BY <1>5 DEF BuildIntermediate, BuildIntermediateSpecial
  <2>2. x.op \in {"PPC_CMPD", "PPC_CMPW"} /\ x.dest = i.bf /\ x.source = i.ra /\ x.source2 = i.rb
    BY DEF Reg3
  <2>3. CompareOperands(Stepped(c), x) = <<va, vb>>
    <3> HIDE DEF x
    <3>1. QED
      BY <1>1, <2>2 DEF CompareOperands
  <2>4. ASSUME ~ Diverges(i, c) PROVE BookCompare(i, c) = PutOrder(c, i.bf, va, vb)
    <3>1. i.l => IsWord(a) /\ IsWord(b)
      BY <1>5, <2>4 DEF Diverges
    <3>2. CASE i.l
      BY <1>3, <1>5, <3>1, <3>2 DEF BookCompare, IsWord
    <3>3. CASE ~ i.l
      BY <1>4, <1>5, <3>3 DEF BookCompare
    <3>4. QED
      BY <3>2, <3>3
  <2>5. x.op \in Compares
    BY <2>2 DEF Compares
  <2> HIDE DEF x, va, vb
  <2>6. Fine1(i, c, Stepped(c), x)
    BY <2>2, <2>3, <2>4, <2>5, FineOrder
  <2>7. QED
    BY <2>1, <2>6, FineLists
<1>6. CASE i.op = "cmpl"
  <2> DEFINE x == Reg3(IF i.l THEN "PPC_CMPLD" ELSE "PPC_CMPLW", i.ra, i.rb, i.bf)
             va == IF i.l THEN a ELSE Low(a)
             vb == IF i.l THEN b ELSE Low(b)
  <2>1. BuildIntermediate(i, c.pc) = <<x>>
    BY <1>6 DEF BuildIntermediate, BuildIntermediateSpecial
  <2>2. /\ x.op = (IF i.l THEN "PPC_CMPLD" ELSE "PPC_CMPLW")
        /\ x.dest = i.bf /\ x.source = i.ra /\ x.source2 = i.rb
    BY DEF Reg3
  <2>3. CompareOperands(Stepped(c), x) = <<va, vb>>
    <3> HIDE DEF x
    <3>1. CASE i.l
      BY <1>1, <2>2, <3>1 DEF CompareOperands
    <3>2. CASE ~ i.l
      BY <1>1, <2>2, <3>2 DEF CompareOperands
    <3>3. QED
      BY <3>1, <3>2
  <2>4. BookCompare(i, c) = PutOrder(c, i.bf, va, vb)
    BY <1>3, <1>4, <1>6 DEF BookCompare
  <2>5. x.op \in Compares
    BY <2>2 DEF Compares
  <2> HIDE DEF x, va, vb
  <2>6. Fine1(i, c, Stepped(c), x)
    BY <2>2, <2>3, <2>4, <2>5, FineOrder
  <2>7. QED
    BY <2>1, <2>6, FineLists
<1>7. CASE i.op = "cmpi"
  <2> DEFINE x == RegImm(IF i.l THEN "PPC_CMPDI" ELSE "PPC_CMPWI", i.ra, i.bf, si)
             va == IF i.l THEN Signed(a, 2 * N) ELSE Signed(Low(a), N)
             vb == Signed(si, 2 * N)
  <2>1. BuildIntermediate(i, c.pc) = <<x>>
    BY <1>7 DEF BuildIntermediate, si
  <2>2. /\ x.op = (IF i.l THEN "PPC_CMPDI" ELSE "PPC_CMPWI")
        /\ x.dest = i.bf /\ x.source = i.ra /\ x.imm = si
    BY DEF RegImm
  <2>3. CompareOperands(Stepped(c), x) = <<va, vb>>
    <3> HIDE DEF x
    <3>1. CASE i.l
      BY <1>1, <2>2, <3>1 DEF CompareOperands
    <3>2. CASE ~ i.l
      BY <1>1, <2>2, <3>2 DEF CompareOperands
    <3>3. QED
      BY <3>1, <3>2
  <2>4. BookCompare(i, c) = PutOrder(c, i.bf, va, vb)
    BY <1>2, <1>3, <1>4, <1>7 DEF BookCompare, si
  <2>5. x.op \in Compares
    BY <2>2 DEF Compares
  <2> HIDE DEF x, va, vb
  <2>6. Fine1(i, c, Stepped(c), x)
    BY <2>2, <2>3, <2>4, <2>5, FineOrder
  <2>7. QED
    BY <2>1, <2>6, FineLists
<1>8. CASE i.op = "cmpli"
  <2> DEFINE x == RegImm(IF i.l THEN "PPC_CMPLDI" ELSE "PPC_CMPLWI", i.ra, i.bf, ui)
             va == IF i.l THEN a ELSE Low(a)
  <2>1. BuildIntermediate(i, c.pc) = <<x>>
    BY <1>8 DEF BuildIntermediate, ui
  <2>2. /\ x.op = (IF i.l THEN "PPC_CMPLDI" ELSE "PPC_CMPLWI")
        /\ x.dest = i.bf /\ x.source = i.ra /\ x.imm = ui
    BY DEF RegImm
  <2>3. CompareOperands(Stepped(c), x) = <<va, ui>>
    <3> HIDE DEF x
    <3>1. CASE i.l
      BY <1>1, <2>2, <3>1 DEF CompareOperands
    <3>2. CASE ~ i.l
      BY <1>1, <2>2, <3>2 DEF CompareOperands
    <3>3. QED
      BY <3>1, <3>2
  <2>4. BookCompare(i, c) = PutOrder(c, i.bf, va, ui)
    BY <1>3, <1>4, <1>8 DEF BookCompare, ui
  <2>5. x.op \in Compares
    BY <2>2 DEF Compares
  <2> HIDE DEF x, va
  <2>6. Fine1(i, c, Stepped(c), x)
    BY <2>2, <2>3, <2>4, <2>5, FineOrder
  <2>7. QED
    BY <2>1, <2>6, FineLists
<1>9. QED
  BY <1>5, <1>6, <1>7, <1>8

LEMMA FineCrxor ==
    ASSUME NEW i, NEW c, Given(i, c), i.op = "crxor"
    PROVE  FineAtFetch(i, c)
<1> DEFINE cr == c.gpr[GPR_CR]
           v == W - 1 - 2 ^ (N - 7)
           x == RegImm("AND_IMM_32", GPR_CR, GPR_CR, v)
           w == SetLow(cr, Low(And(Low(cr), v)))
<1>1. /\ GPR_CR \in Regs /\ cr \in Values /\ Stepped(c).gpr[GPR_CR] = cr /\ i.op \notin Branches
      /\ BuildIntermediate(i, c.pc) = BuildIntermediateTable19(i, c.pc)
  BY GivenFacts, Operands DEF Branches, BuildIntermediate
<1>2. CASE i.bt = 6 /\ i.ba = 6 /\ i.bb = 6
  <2>1. BuildIntermediate(i, c.pc) = <<x>>
    BY <1>1, <1>2 DEF BuildIntermediateTable19
  <2>2. InterpretIntermediate(Stepped(c), x) = {Put(Stepped(c), GPR_CR, w)}
    BY <1>1, Immediates32
  <2>3. w = Andc(cr, 2 ^ (N - 7))
    BY <1>1, ClearedBit
  <2>4. N - 1 - i.bt = N - 7
    BY <1>2, Widths
  <2>5. BookPlain(i, c) = Put(c, GPR_CR, Andc(cr, 2 ^ (N - 7)))
    BY <2>4 DEF BookPlain
  <2>6. w \in Values
    BY <2>3, Logic
  <2> HIDE DEF x, w
  <2>7. Fine1(i, c, Stepped(c), x)
    BY <1>1, <2>2, <2>3, <2>5, <2>6, FinePut
  <2>8. QED
    BY <2>1, <2>7, FineLists
<1>3. CASE ~ (i.bt = 6 /\ i.ba = 6 /\ i.bb = 6)
  <2>1. BuildIntermediate(i, c.pc) = <<Unknown>>
    BY <1>1, <1>3 DEF BuildIntermediateTable19
  <2>2. QED
    BY <2>1, FineLists
<1>4. QED
  BY <1>2, <1>3

-----------------------------------------------------------------------------
(* Moves between registers, and instructions without an effect.             *)
LEMMA InterpretMove ==
    ASSUME NEW d, NEW o, NEW p
    PROVE  /\ InterpretIntermediate(d, MoveReg(o, p)) = {SetReg(d, o, ReadReg(d, p))}
           /\ Fails(MoveReg(o, p)) <=> ~ (Readable(p) /\ Writable(o))
<1> DEFINE x == MoveReg(o, p)
<1>0. x.op = "MOVE_REG" /\ x.dest = o /\ x.source = p
  BY DEF MoveReg
<1> HIDE DEF x
<1>1. /\ x.op \notin {"NOP", "PPC_NO_EFFECT"} /\ x.op \notin BranchOps /\ x.op \notin MemoryOps
      /\ x.op \notin Ops32 /\ x.op \notin Ops64 /\ x.op \notin Compares
      /\ x.op # "PPC_SRAWI" /\ x.op # "PPC_SUBFIC" /\ x.op \notin {"UNKNOWN_OPCODE", "INVALID_OPCODE"}
  BY <1>0 DEF Ops32, Ops64, BranchOps, MemoryOps, Compares
<1>2. InterpretIntermediate(d, x) = {SetReg(d, o, ReadReg(d, p))}
  BY <1>0, <1>1 DEF InterpretIntermediate
<1>3. Fails(x) <=> ~ (Readable(p) /\ Writable(o))
  BY <1>0, <1>1 DEF Fails
<1>4. QED
  BY <1>2, <1>3 DEF x

SetSys(c, r, v) == [c EXCEPT !.sys[r] = v]

LEMMA RegisterMoves ==
    ASSUME NEW d
    PROVE  /\ \A r, v : SetReg(d, GPR64(r), v) = Put(d, r, v)
           /\ \A r, v : SetReg(d, GPR32(r), v) = Put(d, r, SetLow(d.gpr[r], Low(v)))
           /\ \A v : SetReg(d, SYS64(SPR_XER), v) = Put(d, GPR_XER, v)
           /\ \A v : SetReg(d, SYS64(SPR_HRMOR), v) = SetSys(d, SPR_HRMOR, And(v, HrmorMask))
           /\ \A r, v : r \notin {SPR_XER, SPR_HRMOR} => SetReg(d, SYS64(r), v) = SetSys(d, r, v)
           /\ \A r : ReadReg(d, GPR64(r)) = d.gpr[r] /\ ReadReg(d, GPR32(r)) = Low(d.gpr[r])
           /\ ReadReg(d, SYS64(SPR_XER)) = d.gpr[GPR_XER]
           /\ \A r : r # SPR_XER => ReadReg(d, SYS64(r)) = d.sys[r]
           /\ \A r : Readable(GPR64(r)) /\ Writable(GPR64(r))
           /\ \A r : Readable(SYS64(r)) => r = SPR_XER \/ r \in SysRegs
           /\ \A r : Writable(SYS64(r)) => r = SPR_XER \/ r \in SysRegs
<1>1. /\ \A r, v : SetReg(d, GPR64(r), v) = Put(d, r, v)
      /\ \A r, v : SetReg(d, GPR32(r), v) = Put(d, r, SetLow(d.gpr[r], Low(v)))
  BY DEF SetReg, GPR64, GPR32, Put
<1>2. SPR_XER # SPR_HRMOR
  BY DEF SPR_XER, SPR_HRMOR
<1>3. \A v : SetReg(d, SYS64(SPR_XER), v) = Put(d, GPR_XER, v)
  BY <1>2 DEF SetReg, SYS64, Put
<1>4. \A v : SetReg(d, SYS64(SPR_HRMOR), v) = SetSys(d, SPR_HRMOR, And(v, HrmorMask))
  BY <1>2 DEF SetReg, SYS64, SetSys
<1>5. \A r, v : r \notin {SPR_XER, SPR_HRMOR} => SetReg(d, SYS64(r), v) = SetSys(d, r, v)
  BY DEF SetReg, SYS64, SetSys
<1>6. \A r : ReadReg(d, GPR64(r)) = d.gpr[r] /\ ReadReg(d, GPR32(r)) = Low(d.gpr[r])
  BY DEF ReadReg, GPR64, GPR32
<1>7. ReadReg(d, SYS64(SPR_XER)) = d.gpr[GPR_XER]
      /\ \A r : r # SPR_XER => ReadReg(d, SYS64(r)) = d.sys[r]
  BY DEF ReadReg, SYS64
<1>8. /\ \A r : Readable(GPR64(r)) /\ Writable(GPR64(r))
      /\ \A r : Readable(SYS64(r)) => r = SPR_XER \/ r \in SysRegs
      /\ \A r : Writable(SYS64(r)) => r = SPR_XER \/ r \in SysRegs
  BY DEF Readable, Writable, GPR64, SYS64, SysRegs
<1>9. QED
  BY <1>1, <1>3, <1>4, <1>5, <1>6, <1>7, <1>8

LEMMA RightSys ==
    ASSUME NEW i, NEW c, Given(i, c), i.op \notin Branches, NEW r \in SysRegs, NEW v \in Values,
           ~ Diverges(i, c) => BookPlain(i, c) = SetSys(c, r, v)
    PROVE  Right(i, c, SetSys(Stepped(c), r, v))
<1>1. c \in CpuContexts /\ Stepped(c) \in CpuContexts /\ Stepped(c) = AtPc(c, c.pc + 4)
  BY SteppedContext DEF Given, AtPc
<1>2. SetSys(Stepped(c), r, v) \in CpuContexts
  BY <1>1, ContextTypes DEF SetSys
<1>3. \A p : AtPc(SetSys(c, r, v), p) = SetSys(AtPc(c, p), r, v)
  <2>1. c = [gpr |-> c.gpr, sys |-> c.sys, pc |-> c.pc, mem |-> c.mem]
    BY <1>1 DEF CpuContexts
  <2>2. QED
    BY <2>1 DEF AtPc, SetSys
<1>4. Book(i, c) = AtPc(BookPlain(i, c), c.pc + 4)
  BY DEF Book, Branches, AtPc
<1>5. QED
  BY <1>1, <1>2, <1>3, <1>4 DEF Right

LEMMA BookSprs ==
    /\ DOMAIN BookSpr = {SPR_XER, SPR_LR, SPR_CTR, SPR_SPRG0, SPR_SPRG1, SPR_SPRG2, SPR_SPRG3}
    /\ BookSpr[SPR_XER] = GPR_XER /\ BookSpr[SPR_LR] = GPR_LR /\ BookSpr[SPR_CTR] = GPR_CTR
    /\ BookSpr[SPR_SPRG0] = GPR_SPRG0 /\ BookSpr[SPR_SPRG1] = GPR_SPRG1
    /\ BookSpr[SPR_SPRG2] = GPR_SPRG2 /\ BookSpr[SPR_SPRG3] = GPR_SPRG3
    /\ SysRegs \cap DOMAIN BookSpr = {}
<1>1. /\ SPR_XER = 1 /\ SPR_LR = 8 /\ SPR_CTR = 9 /\ SPR_SPRG0 = 272 /\ SPR_SPRG1 = 273
      /\ SPR_SPRG2 = 274 /\ SPR_SPRG3 = 275
  BY DEF SPR_XER, SPR_LR, SPR_CTR, SPR_SPRG0, SPR_SPRG1, SPR_SPRG2, SPR_SPRG3
<1>2. DOMAIN BookSpr = {SPR_XER, SPR_LR, SPR_CTR, SPR_SPRG0, SPR_SPRG1, SPR_SPRG2, SPR_SPRG3}
  BY DEF BookSpr
<1>3. /\ BookSpr[SPR_XER] = GPR_XER /\ BookSpr[SPR_LR] = GPR_LR /\ BookSpr[SPR_CTR] = GPR_CTR
      /\ BookSpr[SPR_SPRG0] = GPR_SPRG0 /\ BookSpr[SPR_SPRG1] = GPR_SPRG1
      /\ BookSpr[SPR_SPRG2] = GPR_SPRG2 /\ BookSpr[SPR_SPRG3] = GPR_SPRG3
  BY <1>1 DEF BookSpr
<1>4. SysRegs \cap DOMAIN BookSpr = {}
  BY <1>1, <1>2 DEF SysRegs, SPR_DAR, SPR_SRR0, SPR_SRR1, SPR_HRMOR, SPR_LPCR, SPR_LPIDR, SPR_HID6,
         SPR_PIR, SPR_MSR
<1>5. QED
  BY <1>2, <1>3, <1>4

LEMMA FineMfspr ==
    ASSUME NEW i, NEW c, Given(i, c), i.op = "mfspr"
    PROVE  FineAtFetch(i, c)
<1>1. /\ i.rt \in Regs /\ i.op \notin Branches /\ c \in CpuContexts
      /\ {GPR_LR, GPR_CTR, GPR_SPRG0, GPR_SPRG1, GPR_SPRG2, GPR_SPRG3, GPR_XER} \subseteq Regs
  BY GivenFacts, Operands DEF Branches
<1>2. BuildIntermediate(i, c.pc) = <<BuildMfspr(i)>>
  BY DEF BuildIntermediate, BuildIntermediateSpecial
<1>3. BookPlain(i, c) = BookMfspr(i, c)
  BY DEF BookPlain
<1>4. ASSUME NEW q \in Regs, BuildMfspr(i) = MoveReg(GPR64(i.rt), GPR64(q)),
             ~ Diverges(i, c) => BookMfspr(i, c) = Put(c, i.rt, c.gpr[q])
      PROVE  FineAtFetch(i, c)
  <2> DEFINE x == MoveReg(GPR64(i.rt), GPR64(q))
  <2>1. InterpretIntermediate(Stepped(c), x) = {Put(Stepped(c), i.rt, Stepped(c).gpr[q])}
    BY InterpretMove, RegisterMoves
  <2>2. Stepped(c).gpr[q] = c.gpr[q] /\ c.gpr[q] \in Values
    BY GivenFacts
  <2> HIDE DEF x
  <2>3. Fine1(i, c, Stepped(c), x)
    BY <1>1, <1>3, <1>4, <2>1, <2>2, FinePut
  <2>4. QED
    BY <1>2, <1>4, <2>3, FineLists DEF x
<1>5. ASSUME NEW s \in SysRegs, s # SPR_XER, BuildMfspr(i) = MoveReg(GPR64(i.rt), SYS64(s)),
             BookMfspr(i, c) = Put(c, i.rt, c.sys[s])
      PROVE  FineAtFetch(i, c)
  <2> DEFINE x == MoveReg(GPR64(i.rt), SYS64(s))
  <2>1. InterpretIntermediate(Stepped(c), x) = {Put(Stepped(c), i.rt, Stepped(c).sys[s])}
    BY <1>5, InterpretMove, RegisterMoves
  <2>2. Stepped(c).sys[s] = c.sys[s] /\ c.sys[s] \in Values
    BY <1>1, SteppedContext, ContextFields
  <2> HIDE DEF x
  <2>3. Fine1(i, c, Stepped(c), x)
    BY <1>1, <1>3, <1>5, <2>1, <2>2, FinePut
  <2>4. QED
    BY <1>2, <1>5, <2>3, FineLists DEF x
<1>6. /\ SPR_XER = 1 /\ SPR_LR = 8 /\ SPR_CTR = 9 /\ SPR_SPRG0 = 272 /\ SPR_SPRG1 = 273
      /\ SPR_SPRG2 = 274 /\ SPR_SPRG3 = 275
  BY DEF SPR_XER, SPR_LR, SPR_CTR, SPR_SPRG0, SPR_SPRG1, SPR_SPRG2, SPR_SPRG3
<1>7. CASE i.spr = SPR_LR
  <2>1. BuildMfspr(i) = MoveReg(GPR64(i.rt), GPR64(GPR_LR))
    BY <1>6, <1>7 DEF BuildMfspr
  <2>2. BookMfspr(i, c) = Put(c, i.rt, c.gpr[GPR_LR])
    BY <1>7, BookSprs DEF BookMfspr
  <2>3. QED
    BY <1>1, <1>4, <2>1, <2>2
<1>8. CASE i.spr = SPR_CTR
  <2>1. BuildMfspr(i) = MoveReg(GPR64(i.rt), GPR64(GPR_CTR))
    BY <1>6, <1>8 DEF BuildMfspr
  <2>2. BookMfspr(i, c) = Put(c, i.rt, c.gpr[GPR_CTR])
    BY <1>8, BookSprs DEF BookMfspr
  <2>3. QED
    BY <1>1, <1>4, <2>1, <2>2
<1>9. CASE i.spr = SPR_SPRG0
  <2>1. BuildMfspr(i) = MoveReg(GPR64(i.rt), GPR64(GPR_CTR))
    BY <1>6, <1>9 DEF BuildMfspr
  <2>2. Diverges(i, c)
    BY <1>9 DEF Diverges
  <2>3. QED
    BY <1>1, <1>4, <2>1, <2>2
<1>10. CASE i.spr = SPR_SPRG1
  <2>1. BuildMfspr(i) = MoveReg(GPR64(i.rt), GPR64(GPR_SPRG1))
    BY <1>6, <1>10 DEF BuildMfspr
  <2>2. BookMfspr(i, c) = Put(c, i.rt, c.gpr[GPR_SPRG1])
    BY <1>10, BookSprs DEF BookMfspr
  <2>3. QED
    BY <1>1, <1>4, <2>1, <2>2
<1>11. CASE i.spr = SPR_SPRG2
  <2>1. BuildMfspr(i) = MoveReg(GPR64(i.rt), GPR64(GPR_SPRG2))
    BY <1>6, <1>11 DEF BuildMfspr
  <2>2. BookMfspr(i, c) = Put(c, i.rt, c.gpr[GPR_SPRG2])
    BY <1>11, BookSprs DEF BookMfspr
  <2>3. QED
    BY <1>1, <1>4, <2>1, <2>2
<1>12. CASE i.spr = SPR_SPRG3
  <2>1. BuildMfspr(i) = MoveReg(GPR64(i.rt), GPR64(GPR_SPRG2))
    BY <1>6, <1>12 DEF BuildMfspr
  <2>2. Diverges(i, c)
    BY <1>12 DEF Diverges
  <2>3. QED
    BY <1>1, <1>4, <2>1, <2>2
<1>13. CASE i.spr \notin {SPR_LR, SPR_CTR, SPR_SPRG0, SPR_SPRG1, SPR_SPRG2, SPR_SPRG3}
  <2> DEFINE x == MoveReg(GPR64(i.rt), SYS64(i.spr))
  <2>1. BuildMfspr(i) = x
    BY <1>13 DEF BuildMfspr
  <2>2. CASE Fails(x)
    <3> HIDE DEF x
    <3>1. Fine1(i, c, Stepped(c), x)
      BY <2>2 DEF Fine1
    <3>2. QED
      BY <1>2, <2>1, <3>1, FineLists
  <2>3. CASE ~ Fails(x)
    <3>1. Readable(SYS64(i.spr))
      BY <2>3, InterpretMove
    <3>2. i.spr = SPR_XER \/ i.spr \in SysRegs
      BY <3>1, RegisterMoves
    <3>3. CASE i.spr = SPR_XER
      <4>1. BookMfspr(i, c) = Put(c, i.rt, c.gpr[GPR_XER])
        BY <3>3, BookSprs DEF BookMfspr
      <4>2. InterpretIntermediate(Stepped(c), x) = {Put(Stepped(c), i.rt, Stepped(c).gpr[GPR_XER])}
        BY <3>3, InterpretMove, RegisterMoves
      <4>3. Stepped(c).gpr[GPR_XER] = c.gpr[GPR_XER] /\ c.gpr[GPR_XER] \in Values
        BY <1>1, GivenFacts
      <4> HIDE DEF x
      <4>4. Fine1(i, c, Stepped(c), x)
        BY <1>1, <1>3, <4>1, <4>2, <4>3, FinePut
      <4>5. QED
        BY <1>2, <2>1, <4>4, FineLists
    <3>4. CASE i.spr # SPR_XER
      <4>1. i.spr \in SysRegs /\ i.spr \notin DOMAIN BookSpr
        BY <3>2, <3>4, BookSprs
      <4>2. BookMfspr(i, c) = Put(c, i.rt, c.sys[i.spr])
        BY <4>1 DEF BookMfspr
      <4>3. QED
        BY <1>5, <2>1, <3>4, <4>1, <4>2
    <3>5. QED
      BY <3>3, <3>4
  <2>4. QED
    BY <2>2, <2>3
<1>14. QED
  BY <1>7, <1>8, <1>9, <1>10, <1>11, <1>12, <1>13

LEMMA FineMtspr ==
    ASSUME NEW i, NEW c, Given(i, c), i.op = "mtspr"
    PROVE  FineAtFetch(i, c)
<1> DEFINE s == c.gpr[i.rt]
<1>1. /\ i.rt \in Regs /\ i.op \notin Branches /\ c \in CpuContexts
      /\ {GPR_LR, GPR_CTR, GPR_SPRG0, GPR_SPRG1, GPR_SPRG2, GPR_SPRG3, GPR_XER} \subseteq Regs
      /\ s \in Values /\ Stepped(c).gpr[i.rt] = s
  BY GivenFacts, Operands DEF Branches
<1>2. BuildIntermediate(i, c.pc) = <<BuildMtspr(i)>>
  BY DEF BuildIntermediate, BuildIntermediateSpecial
<1>3. BookPlain(i, c) = BookMtspr(i, c)
  BY DEF BookPlain
<1>4. ASSUME NEW q \in Regs, BuildMtspr(i) = MoveReg(GPR64(q), GPR64(i.rt)),
             BookMtspr(i, c) = Put(c, q, s)
      PROVE  FineAtFetch(i, c)
  <2> DEFINE x == MoveReg(GPR64(q), GPR64(i.rt))
  <2>1. InterpretIntermediate(Stepped(c), x) = {Put(Stepped(c), q, s)}
    BY <1>1, InterpretMove, RegisterMoves
  <2> HIDE DEF x
  <2>2. Fine1(i, c, Stepped(c), x)
    BY <1>1, <1>3, <1>4, <2>1, FinePut
  <2>3. QED
    BY <1>2, <1>4, <2>2, FineLists DEF x
<1>5. /\ SPR_XER = 1 /\ SPR_LR = 8 /\ SPR_CTR = 9 /\ SPR_SPRG0 = 272 /\ SPR_SPRG1 = 273
      /\ SPR_SPRG2 = 274 /\ SPR_SPRG3 = 275 /\ SPR_HRMOR = 313
  BY DEF SPR_XER, SPR_LR, SPR_CTR, SPR_SPRG0, SPR_SPRG1, SPR_SPRG2, SPR_SPRG3, SPR_HRMOR
<1>6. CASE i.spr \in {SPR_LR, SPR_CTR, SPR_SPRG0, SPR_SPRG1, SPR_SPRG2, SPR_SPRG3}
  <2>1. BuildMtspr(i) = MoveReg(GPR64(BookSpr[i.spr]), GPR64(i.rt))
    BY <1>5, <1>6, BookSprs DEF BuildMtspr
  <2>2. BookMtspr(i, c) = Put(c, BookSpr[i.spr], s) /\ BookSpr[i.spr] \in Regs
    BY <1>1, <1>6, BookSprs DEF BookMtspr
  <2>3. QED
    BY <1>4, <2>1, <2>2
<1>7. CASE i.spr \notin {SPR_LR, SPR_CTR, SPR_SPRG0, SPR_SPRG1, SPR_SPRG2, SPR_SPRG3}
  <2> DEFINE x == MoveReg(SYS64(i.spr), GPR64(i.rt))
  <2>1. BuildMtspr(i) = x
    BY <1>7 DEF BuildMtspr
  <2>2. CASE Fails(x)
    <3> HIDE DEF x
    <3>1. Fine1(i, c, Stepped(c), x)
      BY <2>2 DEF Fine1
    <3>2. QED
      BY <1>2, <2>1, <3>1, FineLists
  <2>3. CASE ~ Fails(x)
    <3>1. Writable(SYS64(i.spr))
      BY <2>3, InterpretMove
    <3>2. i.spr = SPR_XER \/ i.spr \in SysRegs
      BY <3>1, RegisterMoves
    <3>3. InterpretIntermediate(Stepped(c), x) = {SetReg(Stepped(c), SYS64(i.spr), s)}
      BY <1>1, InterpretMove, RegisterMoves
    <3> HIDE DEF x
    <3>4. CASE i.spr = SPR_XER
      <4>1. BookMtspr(i, c) = Put(c, GPR_XER, s)
        BY <3>4, BookSprs DEF BookMtspr
      <4>2. InterpretIntermediate(Stepped(c), x) = {Put(Stepped(c), GPR_XER, s)}
        BY <3>3, <3>4, RegisterMoves
      <4>3. Fine1(i, c, Stepped(c), x)
        BY <1>1, <1>3, <4>1, <4>2, FinePut
      <4>4. QED
        BY <1>2, <2>1, <4>3, FineLists
    <3>5. CASE i.spr # SPR_XER
      <4> DEFINE v == IF i.spr = SPR_HRMOR THEN And(s, HrmorMask) ELSE s
      <4>1. i.spr \in SysRegs /\ i.spr \notin DOMAIN BookSpr
        BY <3>2, <3>5, BookSprs
      <4>2. BookMtspr(i, c) = SetSys(c, i.spr, s)
        BY <4>1 DEF BookMtspr, SetSys
      <4>3. ~ Diverges(i, c) => i.spr # SPR_HRMOR
        BY DEF Diverges
      <4>4. v \in Values
        BY <1>1, Logic
      <4>5. InterpretIntermediate(Stepped(c), x) = {SetSys(Stepped(c), i.spr, v)}
        <5>1. CASE i.spr = SPR_HRMOR
          BY <3>3, <5>1, RegisterMoves
        <5>2. CASE i.spr # SPR_HRMOR
          BY <3>3, <3>5, <5>2, RegisterMoves
        <5>3. QED
          BY <5>1, <5>2
      <4>6. ~ Diverges(i, c) => BookPlain(i, c) = SetSys(c, i.spr, v)
        BY <1>3, <4>2, <4>3
      <4> HIDE DEF v
      <4>7. Right(i, c, SetSys(Stepped(c), i.spr, v))
        BY <1>1, <4>1, <4>4, <4>6, RightSys
      <4>8. Fine1(i, c, Stepped(c), x)
        BY <4>5, <4>7 DEF Fine1
      <4>9. QED
        BY <1>2, <2>1, <4>8, FineLists
    <3>6. QED
      BY <3>4, <3>5
  <2>4. QED
    BY <2>2, <2>3
<1>8. QED
  BY <1>6, <1>7

(* A word in a register whose high word is cleared next.                    *)
LEMMA FineCleared ==
    ASSUME NEW i, NEW c, Given(i, c), NEW r \in Regs, NEW old \in Values,
           Right(i, c, Put(Stepped(c), r, Low(old)))
    PROVE  /\ Put(Stepped(c), r, old) \in CpuContexts
           /\ Fine1(i, c, Put(Stepped(c), r, old), ClearHigh(r))
<1> DEFINE e == Put(Stepped(c), r, old)
<1>1. Stepped(c) \in CpuContexts
  BY SteppedContext
<1>2. e \in CpuContexts
  BY <1>1, ContextTypes
<1>3. e.gpr[r] = old
  BY <1>1, PutOther
<1>4. Put(e, r, Low(old)) = Put(Stepped(c), r, Low(old))
  BY PutTwice
<1>5. Low(0) = 0 /\ SetHigh(old, 0) = Low(old)
  <2>1. 0 \in Nat /\ 0 < W
    BY WordSizes
  <2>2. QED
    BY <2>1, Pieces
<1> HIDE DEF e
<1>6. InterpretIntermediate(e, ClearHigh(r)) = {Put(e, r, SetHigh(e.gpr[r], Low(0)))}
  BY InterpretLoadImm
<1>7. InterpretIntermediate(e, ClearHigh(r)) = {Put(Stepped(c), r, Low(old))}
  BY <1>3, <1>4, <1>5, <1>6
<1>8. Fine1(i, c, e, ClearHigh(r))
  BY <1>7 DEF Fine1
<1>9. QED
  BY <1>2, <1>8 DEF e

LEMMA FineWord ==
    ASSUME NEW i, NEW c, Given(i, c), i.op \notin Branches, NEW r \in Regs, NEW w \in Nat, w < W,
           ~ Diverges(i, c) => BookPlain(i, c) = Put(c, r, w), NEW x,
           InterpretIntermediate(Stepped(c), x) = {Put(Stepped(c), r, SetLow(c.gpr[r], w))},
           BuildIntermediate(i, c.pc) = <<x, ClearHigh(r)>>
    PROVE  FineAtFetch(i, c)
<1> DEFINE old == SetLow(c.gpr[r], w)
           y == ClearHigh(r)
           e == Put(Stepped(c), r, old)
<1>1. c.gpr[r] \in Values
  BY GivenFacts
<1>2. old \in Values /\ Low(old) = w /\ w \in Values
  BY <1>1, Pieces
<1>3. Right(i, c, Put(Stepped(c), r, w))
  BY <1>2, RightPut
<1> HIDE DEF old
<1>4. e \in CpuContexts /\ Fine1(i, c, e, y)
  BY <1>2, <1>3, FineCleared
<1>5. InterpretIntermediate(Stepped(c), x) = {e}
  BY DEF old
<1> HIDE DEF e, y
<1>6. Fine2(i, c, Stepped(c), x, y)
  BY <1>4, <1>5, FineNext
<1>7. QED
  BY <1>6, FineLists DEF y

LEMMA FineMoves ==
    ASSUME NEW i, NEW c, Given(i, c), i.op \in {"mfcr", "mtcrf", "mfmsr"}
    PROVE  FineAtFetch(i, c)
<1> DEFINE s == c.gpr[i.rt]
           cr == c.gpr[GPR_CR]
<1>1. /\ i.rt \in Regs /\ GPR_CR \in Regs /\ i.op \notin Branches /\ c \in CpuContexts
      /\ s \in Values /\ cr \in Values /\ s \in Nat /\ cr \in Nat
      /\ Stepped(c).gpr[i.rt] = s /\ Stepped(c).gpr[GPR_CR] = cr
  BY GivenFacts, Operands, ValueFacts DEF Branches
<1>2. /\ Low(s) \in Nat /\ Low(s) < W /\ Low(Low(s)) = Low(s)
      /\ Low(cr) \in Nat /\ Low(cr) < W /\ Low(Low(cr)) = Low(cr)
  BY <1>1, WordsOf
<1>3. CASE i.op = "mfcr"
  <2> DEFINE x == MoveReg(GPR32(i.rt), GPR32(GPR_CR))
  <2>1. BuildIntermediate(i, c.pc) = <<x, ClearHigh(i.rt)>>
    BY <1>3 DEF BuildIntermediate, BuildIntermediateSpecial
  <2>2. BookPlain(i, c) = Put(c, i.rt, Low(cr))
    BY <1>3 DEF BookPlain
  <2>3. InterpretIntermediate(Stepped(c), x) = {Put(Stepped(c), i.rt, SetLow(s, Low(Low(cr))))}
    BY <1>1, InterpretMove, RegisterMoves
  <2> HIDE DEF x
  <2>4. QED
    BY <1>1, <1>2, <2>1, <2>2, <2>3, FineWord
<1>4. CASE i.op = "mtcrf"
  <2> DEFINE x == MoveReg(GPR32(GPR_CR), GPR32(i.rt))
             v == SetLow(cr, Low(s))
  <2>1. CASE i.fxm = 2 ^ (N \div 4) - 1
    <3>1. BuildIntermediate(i, c.pc) = <<x>>
      BY <1>4, <2>1 DEF BuildIntermediate, BuildIntermediateSpecial
    <3>2. BookPlain(i, c) = Put(c, GPR_CR, v)
      BY <1>4 DEF BookPlain
    <3>3. InterpretIntermediate(Stepped(c), x) = {Put(Stepped(c), GPR_CR, SetLow(cr, Low(Low(s))))}
      BY <1>1, InterpretMove, RegisterMoves
    <3>4. v \in Values
      BY <1>1, <1>2, Pieces
    <3>5. InterpretIntermediate(Stepped(c), x) = {Put(Stepped(c), GPR_CR, v)}
      BY <1>2, <3>3
    <3> HIDE DEF x, v
    <3>6. Fine1(i, c, Stepped(c), x)
      BY <1>1, <3>2, <3>4, <3>5, FinePut
    <3>7. QED
      BY <3>1, <3>6, FineLists
  <2>2. CASE i.fxm # 2 ^ (N \div 4) - 1
    <3>1. BuildIntermediate(i, c.pc) = <<Unknown>>
      BY <1>4, <2>2 DEF BuildIntermediate, BuildIntermediateSpecial
    <3>2. QED
      BY <3>1, FineLists
  <2>3. QED
    BY <2>1, <2>2
<1>5. CASE i.op = "mfmsr"
  <2> DEFINE x == MoveReg(GPR64(i.rt), SYS64(SPR_MSR))
             v == c.sys[SPR_MSR]
  <2>1. BuildIntermediate(i, c.pc) = <<x>>
    BY <1>5 DEF BuildIntermediate, BuildIntermediateSpecial
  <2>2. BookPlain(i, c) = Put(c, i.rt, v)
    BY <1>5 DEF BookPlain
  <2>3. SPR_MSR \in SysRegs /\ SPR_MSR # SPR_XER
    BY DEF SysRegs, SPR_MSR, SPR_XER
  <2>4. InterpretIntermediate(Stepped(c), x) = {Put(Stepped(c), i.rt, Stepped(c).sys[SPR_MSR])}
    BY <2>3, InterpretMove, RegisterMoves
  <2>5. Stepped(c).sys = c.sys /\ v \in Values
    BY <1>1, <2>3, SteppedContext, ContextFields
  <2>6. InterpretIntermediate(Stepped(c), x) = {Put(Stepped(c), i.rt, v)}
    BY <2>4, <2>5
  <2> HIDE DEF x, v
  <2>7. Fine1(i, c, Stepped(c), x)
    BY <1>1, <2>2, <2>5, <2>6, FinePut
  <2>8. QED
    BY <2>1, <2>7, FineLists
<1>6. QED
  BY <1>3, <1>4, <1>5

NoEffects == {"eieio", "sync", "isync", "slbia", "slbmte", "tlbiel"}

LEMMA FineNoEffect ==
    ASSUME NEW i, NEW c, Given(i, c), i.op \in NoEffects
    PROVE  FineAtFetch(i, c)
<1> DEFINE x == IF i.op \in {"slbia", "slbmte", "tlbiel"} THEN [op |-> "PPC_NO_EFFECT"] ELSE Nop
<1>1. BuildIntermediate(i, c.pc) = <<x>>
  BY DEF BuildIntermediate, BuildIntermediateSpecial, BuildIntermediateTable19, NoEffects
<1>2. BookPlain(i, c) = c
  BY DEF BookPlain, NoEffects
<1>3. x.op \in {"NOP", "PPC_NO_EFFECT"} /\ i.op \notin Branches
  BY DEF Nop, Branches, NoEffects
<1> HIDE DEF x
<1>4. Fine1(i, c, Stepped(c), x)
  BY <1>2, <1>3, FineNothing
<1>5. QED
  BY <1>1, <1>4, FineLists

-----------------------------------------------------------------------------
(* Loads.                                                                   *)
LEMMA InterpretLoads ==
    ASSUME NEW d, NEW o, NEW r, NEW v
    PROVE  /\ InterpretIntermediate(d, Load32Abs(o, v)) = {SetReg(d, o, ReadMem32(d, v))}
           /\ InterpretIntermediate(d, Load32RegOffset(o, r, v)) =
                {SetReg(d, o, ReadMem32(d, Wrap(d.gpr[r] + v)))}
           /\ InterpretIntermediate(d, Load64RegOffset(o, r, v)) =
                {SetReg(d, o, ReadMem64(d, Wrap(d.gpr[r] + v)))}
           /\ InterpretIntermediate(d, StoreAbs(o, v)) =
                {WriteMem(d, o.type, v, ReadReg(d, o))}
           /\ InterpretIntermediate(d, StoreRegOffset(o, r, v)) =
                {WriteMem(d, o.type, Wrap(d.gpr[r] + v), ReadReg(d, o))}
<1>1. ASSUME NEW x, x.op \in MemoryOps PROVE InterpretIntermediate(d, x) = {LoadStore(d, x)}
  <2>1. /\ x.op \notin {"NOP", "PPC_NO_EFFECT"} /\ x.op # "MOVE_REG"
        /\ x.op \notin BranchOps /\ x.op \notin Ops32 /\ x.op \notin Ops64
        /\ x.op \notin Compares /\ x.op # "PPC_SRAWI" /\ x.op # "PPC_SUBFIC"
    BY <1>1 DEF Ops32, Ops64, BranchOps, MemoryOps, Compares
  <2>2. QED
    BY <1>1, <2>1 DEF InterpretIntermediate
<1>2. {"LD_32_ABS", "LD_32_REG_OFF", "LD_64_REG_OFF", "ST_ABS", "ST_REG_OFF"} \subseteq MemoryOps
  BY DEF MemoryOps
<1>3. InterpretIntermediate(d, Load32Abs(o, v)) = {SetReg(d, o, ReadMem32(d, v))}
  <2> DEFINE x == Load32Abs(o, v)
  <2>1. x.op = "LD_32_ABS" /\ x.dest = o /\ x.imm = v
    BY DEF Load32Abs
  <2> HIDE DEF x
  <2>2. LoadStore(d, x) = SetReg(d, o, ReadMem32(d, v))
    BY <2>1 DEF LoadStore
  <2>3. QED
    BY <1>1, <1>2, <2>1, <2>2 DEF x
<1>4. InterpretIntermediate(d, Load32RegOffset(o, r, v)) =
        {SetReg(d, o, ReadMem32(d, Wrap(d.gpr[r] + v)))}
  <2> DEFINE x == Load32RegOffset(o, r, v)
  <2>1. x.op = "LD_32_REG_OFF" /\ x.dest = o /\ x.addr = r /\ x.imm = v
    BY DEF Load32RegOffset
  <2> HIDE DEF x
  <2>2. LoadStore(d, x) = SetReg(d, o, ReadMem32(d, Wrap(d.gpr[r] + v)))
    BY <2>1 DEF LoadStore
  <2>3. QED
    BY <1>1, <1>2, <2>1, <2>2 DEF x
<1>5. InterpretIntermediate(d, Load64RegOffset(o, r, v)) =
        {SetReg(d, o, ReadMem64(d, Wrap(d.gpr[r] + v)))}
  <2> DEFINE x == Load64RegOffset(o, r, v)
  <2>1. x.op = "LD_64_REG_OFF" /\ x.dest = o /\ x.addr = r /\ x.imm = v
    BY DEF Load64RegOffset
  <2> HIDE DEF x
  <2>2. LoadStore(d, x) = SetReg(d, o, ReadMem64(d, Wrap(d.gpr[r] + v)))
    BY <2>1 DEF LoadStore
  <2>3. QED
    BY <1>1, <1>2, <2>1, <2>2 DEF x
<1>6. InterpretIntermediate(d, StoreAbs(o, v)) = {WriteMem(d, o.type, v, ReadReg(d, o))}
  <2> DEFINE x == StoreAbs(o, v)
  <2>1. x.op = "ST_ABS" /\ x.value = o /\ x.imm = v
    BY DEF StoreAbs
  <2> HIDE DEF x
  <2>2. LoadStore(d, x) = WriteMem(d, o.type, v, ReadReg(d, o))
    BY <2>1 DEF LoadStore
  <2>3. QED
    BY <1>1, <1>2, <2>1, <2>2 DEF x
<1>7. InterpretIntermediate(d, StoreRegOffset(o, r, v)) =
        {WriteMem(d, o.type, Wrap(d.gpr[r] + v), ReadReg(d, o))}
  <2> DEFINE x == StoreRegOffset(o, r, v)
  <2>1. x.op = "ST_REG_OFF" /\ x.value = o /\ x.addr = r /\ x.imm = v
    BY DEF StoreRegOffset
  <2> HIDE DEF x
  <2>2. LoadStore(d, x) = WriteMem(d, o.type, Wrap(d.gpr[r] + v), ReadReg(d, o))
    BY <2>1 DEF LoadStore
  <2>3. QED
    BY <1>1, <1>2, <2>1, <2>2 DEF x
<1>8. QED
  BY <1>3, <1>4, <1>5, <1>6, <1>7

LEMMA InterpretAbsolute ==
    ASSUME NEW d, NEW o, NEW v
    PROVE  /\ InterpretIntermediate(d, Load32Abs(o, v)) = {SetReg(d, o, ReadMem32(d, v))}
           /\ InterpretIntermediate(d, StoreAbs(o, v)) = {WriteMem(d, o.type, v, ReadReg(d, o))}
<1>1. /\ InterpretIntermediate(d, Load32Abs(o, v)) = {SetReg(d, o, ReadMem32(d, v))}
      /\ InterpretIntermediate(d, StoreAbs(o, v)) = {WriteMem(d, o.type, v, ReadReg(d, o))}
      /\ InterpretIntermediate(d, StoreRegOffset(o, o, v)) =
           {WriteMem(d, o.type, Wrap(d.gpr[o] + v), ReadReg(d, o))}
  BY InterpretLoads
<1>2. QED
  BY <1>1

(* The address an access uses, and the one the book gives it.               *)
LEMMA Addresses ==
    ASSUME NEW i, NEW c, Given(i, c),
           i.op \in {"lwz", "ld", "ldu", "lwa", "stb", "stw", "std", "stdu", "stwu"},
           NEW base, base = (IF i.ra = 0 /\ i.op \notin {"ld", "ldu", "lwa"} THEN 0 ELSE c.gpr[i.ra])
    PROVE  /\ Wrap(base + D_SI(i)) \in 0 .. MemSize - 8 /\ Wrap(base + D_SI(i)) \in Values
           /\ base = Base(i, c) => EA(i, c) = Wrap(base + D_SI(i))
           /\ i.ra = 0 => Wrap(0 + D_SI(i)) = D_SI(i)
<1> DEFINE e == Wrap(base + D_SI(i))
<1>1. i \in Encodings /\ c.gpr[i.ra] \in Values /\ 0 \in Nat
  BY GivenFacts, Operands
<1>2. D_SI(i) \in Values /\ D_SI(i) \in Nat /\ 0 + D_SI(i) = D_SI(i)
  BY <1>1, Immediate
<1>3. base \in Nat
  BY <1>1, ValueFacts
<1>4. e \in 0 .. MemSize - 8
  BY DEF Given, InMemory
<1>5. base + D_SI(i) \in Nat
  BY <1>2, <1>3
<1>6. Low(e) = Low(base + D_SI(i))
  BY <1>5, WordsOf
<1> HIDE DEF e
<1>7. e \in Cells
  BY <1>4, CellFacts
<1>8. Low(e) = e /\ e \in Values
  BY <1>7, CellFacts
<1>9. base = Base(i, c) => EA(i, c) = e
  BY <1>6, <1>8 DEF EA
<1>10. Wrap(0 + D_SI(i)) = D_SI(i)
  BY <1>2, WrapValue, ValueFacts
<1>11. QED
  BY <1>4, <1>8, <1>9, <1>10 DEF e

LEMMA SameMemory ==
    ASSUME NEW i, NEW c, Given(i, c), NEW e
    PROVE  ReadMem32(Stepped(c), e) = ReadMem32(c, e) /\ ReadMem64(Stepped(c), e) = ReadMem64(c, e)
<1>1. Stepped(c).mem = c.mem
  BY SteppedContext
<1>2. \A a : ReadMem32(Stepped(c), a) = ReadMem32(c, a)
  BY <1>1 DEF ReadMem32
<1>3. QED
  BY <1>2 DEF ReadMem64

LEMMA FineLwz ==
    ASSUME NEW i, NEW c, Given(i, c), i.op = "lwz"
    PROVE  FineAtFetch(i, c)
<1> DEFINE base == IF i.ra = 0 THEN 0 ELSE c.gpr[i.ra]
           e == Wrap(base + D_SI(i))
           w == ReadMem32(c, e)
           x == IF i.ra = 0 THEN Load32Abs(GPR32(i.rt), D_SI(i))
                            ELSE Load32RegOffset(GPR32(i.rt), i.ra, D_SI(i))
<1>1. /\ i.rt \in Regs /\ i.ra \in Regs /\ i.op \notin Branches /\ c \in CpuContexts
      /\ Stepped(c).gpr[i.rt] = c.gpr[i.rt] /\ Stepped(c).gpr[i.ra] = c.gpr[i.ra]
  BY GivenFacts, Operands DEF Branches
<1>2. e \in 0 .. MemSize - 8 /\ EA(i, c) = e /\ (i.ra = 0 => D_SI(i) = e)
  BY Addresses DEF Base
<1>3. BuildIntermediate(i, c.pc) = <<x, ClearHigh(i.rt)>>
  BY DEF BuildIntermediate
<1>4. InterpretIntermediate(Stepped(c), x) = {SetReg(Stepped(c), GPR32(i.rt), w)}
  <2>1. CASE i.ra = 0
    <3>1. InterpretIntermediate(Stepped(c), x) =
            {SetReg(Stepped(c), GPR32(i.rt), ReadMem32(Stepped(c), D_SI(i)))}
      <4>1. x = Load32Abs(GPR32(i.rt), D_SI(i))
        BY <2>1
      <4>2. InterpretIntermediate(Stepped(c), Load32Abs(GPR32(i.rt), D_SI(i))) =
              {SetReg(Stepped(c), GPR32(i.rt), ReadMem32(Stepped(c), D_SI(i)))}
        BY InterpretAbsolute
      <4> HIDE DEF x
      <4>3. QED
        BY <4>1, <4>2
    <3> HIDE DEF e, x
    <3>2. QED
      BY <1>2, <2>1, <3>1, SameMemory
  <2>2. CASE i.ra # 0
    <3>1. InterpretIntermediate(Stepped(c), x) =
            {SetReg(Stepped(c), GPR32(i.rt), ReadMem32(Stepped(c), Wrap(Stepped(c).gpr[i.ra] + D_SI(i))))}
      BY <2>2, InterpretLoads
    <3>2. Wrap(Stepped(c).gpr[i.ra] + D_SI(i)) = e
      BY <1>1, <2>2
    <3> HIDE DEF e, x
    <3>3. QED
      BY <3>1, <3>2, SameMemory
  <2>3. QED
    BY <2>1, <2>2
<1>5. ~ Diverges(i, c) => e % 4 = 0
  BY <1>2 DEF Diverges, WordAccesses
<1>6. BookPlain(i, c) = Put(c, i.rt, GuestWord(c, e))
  BY <1>2 DEF BookPlain
<1> HIDE DEF e
<1>7. w \in Nat /\ w < W /\ (e % 4 = 0 => GuestWord(c, e) = w)
  BY <1>1, <1>2, Loads
<1>8. Low(w) = w
  BY <1>7, WordsOf
<1> HIDE DEF x, w
<1>9. InterpretIntermediate(Stepped(c), x) = {Put(Stepped(c), i.rt, SetLow(c.gpr[i.rt], w))}
  BY <1>1, <1>4, <1>8, RegisterMoves
<1>10. ~ Diverges(i, c) => BookPlain(i, c) = Put(c, i.rt, w)
  BY <1>5, <1>6, <1>7
<1>11. QED
  BY <1>1, <1>3, <1>7, <1>9, <1>10, FineWord

LEMMA FineLd ==
    ASSUME NEW i, NEW c, Given(i, c), i.op \in {"ld", "ldu", "lwa"}
    PROVE  FineAtFetch(i, c)
<1> DEFINE base == c.gpr[i.ra]
           e == Wrap(base + D_SI(i))
           w == ReadMem64(c, e)
           x == Load64RegOffset(GPR64(i.rt), i.ra, D_SI(i))
<1>1. /\ i.rt \in Regs /\ i.ra \in Regs /\ i.op \notin Branches /\ c \in CpuContexts
      /\ Stepped(c).gpr[i.ra] = base
  BY GivenFacts, Operands DEF Branches
<1>2. e \in 0 .. MemSize - 8 /\ (base = Base(i, c) => EA(i, c) = e)
  BY Addresses
<1>3. BuildIntermediate(i, c.pc) = <<x>>
  BY DEF BuildIntermediate
<1>4. InterpretIntermediate(Stepped(c), x) = {Put(Stepped(c), i.rt, w)}
  <2>1. InterpretIntermediate(Stepped(c), x) =
          {SetReg(Stepped(c), GPR64(i.rt), ReadMem64(Stepped(c), Wrap(Stepped(c).gpr[i.ra] + D_SI(i))))}
    BY InterpretLoads
  <2> HIDE DEF x
  <2>2. QED
    BY <1>1, <2>1, SameMemory, RegisterMoves
<1>5. ASSUME ~ Diverges(i, c)
      PROVE  e % 4 = 0 /\ BookPlain(i, c) = Put(c, i.rt, GuestDouble(c, e))
  <2>1. i.op = "ld" /\ (i.ra = 0 => base = 0)
    BY <1>5 DEF Diverges
  <2>2. EA(i, c) = e
    BY <1>2, <2>1 DEF Base
  <2>3. e % 4 = 0
    BY <1>5, <2>1, <2>2 DEF Diverges, WordAccesses
  <2>4. QED
    BY <2>1, <2>2, <2>3 DEF BookPlain
<1> HIDE DEF e
<1>6. w \in Values /\ (e % 4 = 0 => GuestDouble(c, e) = w)
  BY <1>1, <1>2, Loads
<1> HIDE DEF x, w
<1>7. ~ Diverges(i, c) => BookPlain(i, c) = Put(c, i.rt, w)
  BY <1>5, <1>6
<1>8. Fine1(i, c, Stepped(c), x)
  BY <1>1, <1>4, <1>6, <1>7, FinePut
<1>9. QED
  BY <1>3, <1>8, FineLists

LEMMA FineLwbrx ==
    ASSUME NEW i, NEW c, Given(i, c), i.op = "lwbrx"
    PROVE  FineAtFetch(i, c)
<1> DEFINE e == c.gpr[i.rb]
           w == ReadMem32(c, e)
           r == c.gpr[i.rt]
           d == Stepped(c)
           va == SetLow(r, w)
           vb == SetLow(va, ByteSwap(w))
           x == Load32RegOffset(GPR32(i.rt), i.rb, 0)
           y == RegImm("BYTE_SWAP_32", i.rt, i.rt, 0)
           z == ClearHigh(i.rt)
           f == Put(d, i.rt, va)
           g == Put(d, i.rt, vb)
<1>1. /\ i.rt \in Regs /\ i.rb \in Regs /\ i.op \notin Branches /\ c \in CpuContexts
      /\ d.gpr[i.rb] = e /\ d.gpr[i.rt] = r /\ r \in Values /\ e \in Values /\ e \in Int
      /\ d \in CpuContexts
  BY GivenFacts, Operands, ValueFacts, SteppedContext DEF Branches
<1>2. e \in 0 .. MemSize - 8 /\ Wrap(e + 0) = e /\ Low(e) = e /\ 0 + e = e
  <2>1. e \in 0 .. MemSize - 8
    BY DEF Given, InMemory
  <2> HIDE DEF e
  <2>2. Wrap(e) = e /\ e + 0 = e /\ 0 + e = e
    BY <1>1, WrapValue
  <2>3. e \in Cells
    BY <2>1, CellFacts
  <2>4. QED
    BY <2>1, <2>2, <2>3, CellFacts
<1>3. CASE i.ra # 0
  <2>1. BuildIntermediate(i, c.pc) = <<Unknown>>
    BY <1>3 DEF BuildIntermediate, BuildIntermediateSpecial, BuildLwbrx
  <2>2. QED
    BY <2>1, FineLists
<1>4. CASE i.ra = 0
  <2>1. BuildIntermediate(i, c.pc) = <<x, y, z>>
    BY <1>4 DEF BuildIntermediate, BuildIntermediateSpecial, BuildLwbrx
  <2>2. EA(i, c) = e
    BY <1>2, <1>4 DEF EA, Base
  <2>3. BookPlain(i, c) = Put(c, i.rt, ByteSwap(GuestWord(c, e)))
    BY <2>2 DEF BookPlain
  <2>4. ~ Diverges(i, c) => e % 4 = 0
    BY <2>2 DEF Diverges, WordAccesses
  <2>5. InterpretIntermediate(d, x) = {SetReg(d, GPR32(i.rt), w)}
    <3>1. InterpretIntermediate(d, x) =
            {SetReg(d, GPR32(i.rt), ReadMem32(d, Wrap(d.gpr[i.rb] + 0)))}
      BY InterpretLoads
    <3>2. \A a : ReadMem32(d, a) = ReadMem32(c, a)
      BY SameMemory
    <3> HIDE DEF x, d, e
    <3>3. QED
      BY <1>1, <1>2, <3>1, <3>2
  <2> HIDE DEF e
  <2>6. w \in Nat /\ w < W /\ (e % 4 = 0 => GuestWord(c, e) = w)
    BY <1>1, <1>2, Loads
  <2> HIDE DEF w
  <2>7. Low(w) = w /\ ByteSwap(w) \in Nat /\ ByteSwap(w) < W /\ va \in Values /\ Low(va) = w
    <3>1. Low(w) = w
      BY <2>6, WordsOf
    <3>2. ByteSwap(w) \in Nat /\ ByteSwap(w) < W
      BY <2>6, SwappedWord
    <3>3. r \in Values /\ w \in Nat /\ w < W
      BY <1>1, <2>6
    <3> HIDE DEF r
    <3>4. va \in Values /\ Low(va) = w
      BY <3>3, Pieces
    <3>5. QED
      BY <3>1, <3>2, <3>4
  <2>8. Low(ByteSwap(w)) = ByteSwap(w) /\ vb \in Values /\ Low(vb) = ByteSwap(w)
        /\ ByteSwap(w) \in Values
    <3> HIDE DEF va
    <3>1. QED
      BY <2>7, Pieces
  <2>9. InterpretIntermediate(d, x) = {f}
    <3> HIDE DEF x, d
    <3>1. SetReg(d, GPR32(i.rt), w) = Put(d, i.rt, SetLow(d.gpr[i.rt], Low(w)))
      BY RegisterMoves
    <3>2. QED
      BY <1>1, <2>5, <2>7, <3>1
  <2>10. f \in CpuContexts /\ f.gpr[i.rt] = va /\ \A v : Put(f, i.rt, v) = Put(d, i.rt, v)
    <3> HIDE DEF va, d
    <3>1. d \in CpuContexts /\ i.rt \in Regs
      BY <1>1
    <3>2. f \in CpuContexts
      BY <2>7, <3>1, ContextTypes
    <3>3. f.gpr[i.rt] = va
      BY <3>1, PutOther
    <3>4. \A v : Put(f, i.rt, v) = Put(d, i.rt, v)
      BY <3>1, PutTwice
    <3>5. QED
      BY <3>2, <3>3, <3>4
  <2>11. InterpretIntermediate(f, y) = {g}
    <3> HIDE DEF f, va, d
    <3>1. InterpretIntermediate(f, y) =
            {Put(f, i.rt, SetLow(f.gpr[i.rt], Low(ByteSwap(Low(f.gpr[i.rt])))))}
      BY Immediates32
    <3>2. QED
      BY <2>7, <2>8, <2>10, <3>1
  <2> HIDE DEF va
  <2>12. ~ Diverges(i, c) => BookPlain(i, c) = Put(c, i.rt, ByteSwap(w))
    BY <2>3, <2>4, <2>6
  <2>13. Right(i, c, Put(d, i.rt, Low(vb)))
    <3>1. Right(i, c, Put(d, i.rt, ByteSwap(w)))
      BY <1>1, <2>8, <2>12, RightPut
    <3>2. QED
      BY <2>8, <3>1
  <2> HIDE DEF vb
  <2>14. g \in CpuContexts /\ Fine1(i, c, g, z)
    BY <1>1, <2>8, <2>13, FineCleared
  <2> HIDE DEF d, f, g, x, y, z
  <2>15. Fine2(i, c, f, y, z)
    BY <2>11, <2>14, FineNext
  <2>16. Fine3(i, c, d, x, y, z)
    BY <2>9, <2>10, <2>15, FineNext
  <2>17. QED
    BY <2>1, <2>16, FineLists DEF d
<1>5. QED
  BY <1>3, <1>4

-----------------------------------------------------------------------------
(* Stores.                                                                  *)
(* The memory after a store, and a context with another memory.             *)
StoredMem(m, e, n, v) ==
    [a \in DOMAIN m |-> LET k == HostByte(a) - e
                        IN  IF k \in 0 .. n - 1 THEN Byte(v, n - 1 - k) ELSE m[a]]
WithMem(c, m) == [c EXCEPT !.mem = m]

LEMMA StoreFields ==
    ASSUME NEW c \in CpuContexts, NEW e, NEW n, NEW v
    PROVE  /\ \A p : AtPc(GuestStore(c, e, n, v), p) = GuestStore(AtPc(c, p), e, n, v)
           /\ \A r, w : GuestStore(Put(c, r, w), e, n, v) = Put(GuestStore(c, e, n, v), r, w)
<1>1. c = [gpr |-> c.gpr, sys |-> c.sys, pc |-> c.pc, mem |-> c.mem]
  BY DEF CpuContexts
<1>2. \A d : GuestStore(d, e, n, v) = WithMem(d, StoredMem(d.mem, e, n, v))
  BY DEF GuestStore, StoredMem, WithMem
<1>3. \A p : AtPc(c, p).mem = c.mem
  BY <1>1 DEF AtPc
<1>4. \A m, p : AtPc(WithMem(c, m), p) = WithMem(AtPc(c, p), m)
  BY <1>1 DEF AtPc, WithMem
<1>5. \A p : AtPc(GuestStore(c, e, n, v), p) = GuestStore(AtPc(c, p), e, n, v)
  BY <1>2, <1>3, <1>4
<1>6. ASSUME NEW r, NEW w
      PROVE  GuestStore(Put(c, r, w), e, n, v) = Put(GuestStore(c, e, n, v), r, w)
  <2> DEFINE m == StoredMem(c.mem, e, n, v)
             g == [c.gpr EXCEPT ![r] = w]
  <2>1. Put(c, r, w) = [gpr |-> g, sys |-> c.sys, pc |-> c.pc, mem |-> c.mem]
    BY <1>1 DEF Put
  <2>2. WithMem(c, m) = [gpr |-> c.gpr, sys |-> c.sys, pc |-> c.pc, mem |-> m]
    BY <1>1 DEF WithMem
  <2> HIDE DEF m
  <2>3. Put(WithMem(c, m), r, w) = [gpr |-> g, sys |-> c.sys, pc |-> c.pc, mem |-> m]
    BY <2>2 DEF Put
  <2>4. Put(c, r, w).mem = c.mem
    BY <2>1
  <2>5. WithMem(Put(c, r, w), m) = [gpr |-> g, sys |-> c.sys, pc |-> c.pc, mem |-> m]
    BY <2>1 DEF WithMem
  <2>6. /\ GuestStore(c, e, n, v) = WithMem(c, m)
        /\ GuestStore(Put(c, r, w), e, n, v) = WithMem(Put(c, r, w), m)
    BY <1>2, <2>4 DEF m
  <2>7. QED
    BY <2>3, <2>5, <2>6
<1>7. QED
  BY <1>5, <1>6

LEMMA RightStore ==
    ASSUME NEW i, NEW c, Given(i, c), i.op \notin Branches, NEW d \in CpuContexts,
           NEW e, NEW n, NEW v,
           ~ Diverges(i, c) => /\ BookPlain(i, c) = GuestStore(c, e, n, v)
                               /\ d = GuestStore(Stepped(c), e, n, v)
    PROVE  Right(i, c, d)
<1>1. c \in CpuContexts /\ Stepped(c) = AtPc(c, c.pc + 4)
  BY SteppedContext DEF Given, AtPc
<1>2. AtPc(GuestStore(c, e, n, v), c.pc + 4) = GuestStore(Stepped(c), e, n, v)
  BY <1>1, StoreFields
<1>3. Book(i, c) = AtPc(BookPlain(i, c), c.pc + 4)
  BY DEF Book, Branches, AtPc
<1>4. QED
  BY <1>2, <1>3 DEF Right

LEMMA FineStored ==
    ASSUME NEW i, NEW c, Given(i, c), i.op \notin Branches, NEW d \in CpuContexts,
           NEW e, NEW n, NEW v,
           ~ Diverges(i, c) => /\ BookPlain(i, c) = GuestStore(c, e, n, v)
                               /\ d = GuestStore(Stepped(c), e, n, v),
           NEW x, InterpretIntermediate(Stepped(c), x) = {d}, BuildIntermediate(i, c.pc) = <<x>>
    PROVE  FineAtFetch(i, c)
<1>1. Right(i, c, d)
  BY RightStore
<1>2. Fine1(i, c, Stepped(c), x)
  BY <1>1 DEF Fine1
<1>3. QED
  BY <1>2, FineLists

LEMMA Writes ==
    ASSUME NEW d, NEW r, NEW e
    PROVE  /\ GPR8(r).type = "GPR8" /\ GPR32(r).type = "GPR32" /\ GPR64(r).type = "GPR64"
           /\ WriteMem(d, "GPR8", e, ReadReg(d, GPR8(r))) = WriteMem8(d, e, d.gpr[r] % 2 ^ ByteBits)
           /\ WriteMem(d, "GPR32", e, ReadReg(d, GPR32(r))) = WriteMem32(d, e, Low(d.gpr[r]))
           /\ WriteMem(d, "GPR64", e, ReadReg(d, GPR64(r))) = WriteMem64(d, e, d.gpr[r])
<1>1. GPR8(r).type = "GPR8" /\ GPR32(r).type = "GPR32" /\ GPR64(r).type = "GPR64"
  BY DEF GPR8, GPR32, GPR64
<1>2. /\ ReadReg(d, GPR8(r)) = d.gpr[r] % 2 ^ ByteBits
      /\ ReadReg(d, GPR32(r)) = Low(d.gpr[r]) /\ ReadReg(d, GPR64(r)) = d.gpr[r]
  BY DEF ReadReg, GPR8, GPR32, GPR64
<1>3. /\ \A v : WriteMem(d, "GPR8", e, v) = WriteMem8(d, e, v)
      /\ \A v : WriteMem(d, "GPR32", e, v) = WriteMem32(d, e, v)
      /\ \A v : WriteMem(d, "GPR64", e, v) = WriteMem64(d, e, v)
  BY DEF WriteMem
<1>4. QED
  BY <1>1, <1>2, <1>3

(* The facts all stores begin with.                                         *)
LEMMA StoreAddress ==
    ASSUME NEW i, NEW c, Given(i, c), i.op \in {"stb", "stw", "std", "stdu", "stwu"}
    PROVE  LET e == EA(i, c)
           IN  /\ e \in 0 .. MemSize - 8 /\ e \in 0 .. MemSize - 4
               /\ i.ra = 0 => D_SI(i) = e
               /\ i.ra # 0 => Wrap(c.gpr[i.ra] + D_SI(i)) = e
               /\ i.rt \in Regs /\ i.ra \in Regs /\ i.ra # GPR_TEMP /\ i.rt # GPR_TEMP
               /\ i.op \notin Branches
               /\ c \in CpuContexts /\ Stepped(c) \in CpuContexts
               /\ c.gpr[i.rt] \in Nat /\ Low(c.gpr[i.rt]) \in Nat
               /\ Stepped(c).gpr[i.rt] = c.gpr[i.rt] /\ Stepped(c).gpr[i.ra] = c.gpr[i.ra]
               /\ e \in Values
<1> DEFINE base == IF i.ra = 0 THEN 0 ELSE c.gpr[i.ra]
           e == Wrap(base + D_SI(i))
<1>1. e \in 0 .. MemSize - 8 /\ EA(i, c) = e /\ (i.ra = 0 => D_SI(i) = e) /\ e \in Values
  BY Addresses DEF Base
<1>2. i.ra # 0 => Wrap(c.gpr[i.ra] + D_SI(i)) = e
  OBVIOUS
<1> HIDE DEF e
<1>3. e \in 0 .. MemSize - 4
  BY <1>1, CellFacts
<1>4. /\ i.rt \in Regs /\ i.ra \in Regs /\ i.ra # GPR_TEMP /\ i.rt # GPR_TEMP
      /\ i.op \notin Branches /\ c \in CpuContexts /\ Stepped(c) \in CpuContexts
      /\ c.gpr[i.rt] \in Nat
      /\ Stepped(c).gpr[i.rt] = c.gpr[i.rt] /\ Stepped(c).gpr[i.ra] = c.gpr[i.ra]
  BY GivenFacts, Operands, ValueFacts, SteppedContext DEF Branches
<1>5. Low(c.gpr[i.rt]) \in Nat
  BY <1>4, WordsOf
<1>6. QED
  BY <1>1, <1>2, <1>3, <1>4, <1>5

LEMMA FineStb ==
    ASSUME NEW i, NEW c, Given(i, c), i.op = "stb"
    PROVE  FineAtFetch(i, c)
<1> DEFINE e == EA(i, c)
           s == c.gpr[i.rt]
           d == Stepped(c)
           x == StoreRegOffset(GPR8(i.rt), i.ra, D_SI(i))
<1>1. CASE i.ra = 0
  <2>1. BuildIntermediate(i, c.pc) = <<Unknown>>
    BY <1>1 DEF BuildIntermediate, BuildIntermediateStore
  <2>2. QED
    BY <2>1, FineLists
<1>2. CASE i.ra # 0
  <2>1. BuildIntermediate(i, c.pc) = <<x>>
    BY <1>2 DEF BuildIntermediate, BuildIntermediateStore
  <2>2. BookPlain(i, c) = GuestStore(c, e, 1, s)
    BY DEF BookPlain
  <2>3. /\ e \in 0 .. MemSize - 8 /\ Wrap(d.gpr[i.ra] + D_SI(i)) = e /\ d \in CpuContexts
        /\ s \in Nat /\ d.gpr[i.rt] = s /\ i.op \notin Branches
    BY <1>2, StoreAddress
  <2>4. InterpretIntermediate(d, x) = {WriteMem8(d, e, s % 2 ^ ByteBits)}
    <3> DEFINE o == GPR8(i.rt)
    <3>1. InterpretIntermediate(d, x) =
            {WriteMem(d, o.type, Wrap(d.gpr[i.ra] + D_SI(i)), ReadReg(d, o))}
      BY InterpretLoads
    <3>2. o.type = "GPR8" /\ WriteMem(d, "GPR8", e, ReadReg(d, o)) =
                               WriteMem8(d, e, d.gpr[i.rt] % 2 ^ ByteBits)
      BY Writes
    <3> HIDE DEF x, d, e, o
    <3>3. QED
      BY <2>3, <3>1, <3>2
  <2> HIDE DEF e, x, s
  <2>5. /\ WriteMem8(d, e, s % 2 ^ ByteBits) = GuestStore(d, e, 1, s)
        /\ WriteMem8(d, e, s % 2 ^ ByteBits) \in CpuContexts
    <3> HIDE DEF d
    <3>1. QED
      BY <2>3, StoredByte
  <2>6. QED
    BY <2>1, <2>2, <2>3, <2>4, <2>5, FineStored
<1>3. QED
  BY <1>1, <1>2

LEMMA FineStw ==
    ASSUME NEW i, NEW c, Given(i, c), i.op = "stw"
    PROVE  FineAtFetch(i, c)
<1> DEFINE e == EA(i, c)
           s == c.gpr[i.rt]
           d == Stepped(c)
           o == GPR32(i.rt)
           x == IF i.ra = 0 THEN StoreAbs(o, D_SI(i)) ELSE StoreRegOffset(o, i.ra, D_SI(i))
<1>1. BuildIntermediate(i, c.pc) = <<x>>
  BY DEF BuildIntermediate, BuildIntermediateStore
<1>2. BookPlain(i, c) = GuestStore(c, e, 4, s)
  BY DEF BookPlain
<1>3. /\ e \in 0 .. MemSize - 8 /\ e \in 0 .. MemSize - 4 /\ d \in CpuContexts
      /\ i.ra = 0 => D_SI(i) = e
      /\ i.ra # 0 => Wrap(d.gpr[i.ra] + D_SI(i)) = e
      /\ s \in Nat /\ Low(s) \in Nat /\ d.gpr[i.rt] = s /\ i.op \notin Branches
  BY StoreAddress
<1>4. InterpretIntermediate(d, x) = {WriteMem(d, o.type, e, ReadReg(d, o))}
  <2>1. InterpretIntermediate(d, StoreAbs(o, D_SI(i))) = {WriteMem(d, o.type, D_SI(i), ReadReg(d, o))}
    BY InterpretAbsolute
  <2>2. InterpretIntermediate(d, StoreRegOffset(o, i.ra, D_SI(i))) =
          {WriteMem(d, o.type, Wrap(d.gpr[i.ra] + D_SI(i)), ReadReg(d, o))}
    BY InterpretLoads
  <2> HIDE DEF d, e, o
  <2>3. QED
    BY <1>3, <2>1, <2>2
<1>5. o.type = "GPR32" /\ WriteMem(d, "GPR32", e, ReadReg(d, o)) = WriteMem32(d, e, Low(d.gpr[i.rt]))
  BY Writes
<1>6. ~ Diverges(i, c) => e % 4 = 0
  BY DEF Diverges, WordAccesses
<1> HIDE DEF e, x, s, o
<1>7. InterpretIntermediate(d, x) = {WriteMem32(d, e, Low(s))}
  BY <1>3, <1>4, <1>5
<1>8. /\ e % 4 = 0 => WriteMem32(d, e, Low(s)) = GuestStore(d, e, 4, s)
      /\ WriteMem32(d, e, Low(s)) \in CpuContexts
  <2> HIDE DEF d
  <2>1. QED
    BY <1>3, StoredWord, WrittenWord
<1>9. QED
  BY <1>1, <1>2, <1>3, <1>6, <1>7, <1>8, FineStored

LEMMA FineStd ==
    ASSUME NEW i, NEW c, Given(i, c), i.op \in {"std", "stdu"}
    PROVE  FineAtFetch(i, c)
<1> DEFINE e == EA(i, c)
           s == c.gpr[i.rt]
           d == Stepped(c)
           o == GPR64(i.rt)
           x == IF i.ra = 0 THEN StoreAbs(o, D_SI(i)) ELSE StoreRegOffset(o, i.ra, D_SI(i))
<1>1. BuildIntermediate(i, c.pc) = <<x>>
  BY DEF BuildIntermediate, BuildIntermediateStore
<1>2. ~ Diverges(i, c) => e % 4 = 0 /\ BookPlain(i, c) = GuestStore(c, e, 8, s)
  BY DEF BookPlain, Diverges, WordAccesses
<1>3. /\ e \in 0 .. MemSize - 8 /\ d \in CpuContexts
      /\ i.ra = 0 => D_SI(i) = e
      /\ i.ra # 0 => Wrap(d.gpr[i.ra] + D_SI(i)) = e
      /\ s \in Nat /\ d.gpr[i.rt] = s /\ i.op \notin Branches
  BY StoreAddress
<1>4. InterpretIntermediate(d, x) = {WriteMem(d, o.type, e, ReadReg(d, o))}
  <2>1. InterpretIntermediate(d, StoreAbs(o, D_SI(i))) = {WriteMem(d, o.type, D_SI(i), ReadReg(d, o))}
    BY InterpretAbsolute
  <2>2. InterpretIntermediate(d, StoreRegOffset(o, i.ra, D_SI(i))) =
          {WriteMem(d, o.type, Wrap(d.gpr[i.ra] + D_SI(i)), ReadReg(d, o))}
    BY InterpretLoads
  <2> HIDE DEF d, e, o
  <2>3. QED
    BY <1>3, <2>1, <2>2
<1>5. o.type = "GPR64" /\ WriteMem(d, "GPR64", e, ReadReg(d, o)) = WriteMem64(d, e, d.gpr[i.rt])
  BY Writes
<1> HIDE DEF e, x, s, o
<1>6. InterpretIntermediate(d, x) = {WriteMem64(d, e, s)}
  BY <1>3, <1>4, <1>5
<1>7. /\ e % 4 = 0 => WriteMem64(d, e, s) = GuestStore(d, e, 8, s)
      /\ WriteMem64(d, e, s) \in CpuContexts
  <2> HIDE DEF d
  <2>1. QED
    BY <1>3, StoredDouble
<1>8. QED
  BY <1>1, <1>2, <1>3, <1>6, <1>7, FineStored

LEMMA FineStwu ==
    ASSUME NEW i, NEW c, Given(i, c), i.op = "stwu"
    PROVE  FineAtFetch(i, c)
<1> DEFINE e == EA(i, c)
           s == c.gpr[i.rt]
           d == Stepped(c)
           x == RegImm("ADD_IMM", i.ra, GPR_TEMP, D_SI(i))
           y == StoreRegOffset(GPR32(i.rt), GPR_TEMP, 0)
           z == RegImm("ADD_IMM", i.ra, i.ra, D_SI(i))
           d1 == Put(d, GPR_TEMP, e)
           d2 == WriteMem32(d1, e, Low(s))
           d3 == Put(d2, i.ra, e)
<1>1. CASE i.ra = 0
  <2>1. BuildIntermediate(i, c.pc) = <<Invalid>>
    BY <1>1 DEF BuildIntermediate, BuildIntermediateStore, BuildStwu
  <2>2. QED
    BY <2>1, FineLists
<1>2. CASE i.ra # 0
  <2>1. BuildIntermediate(i, c.pc) = <<x, y, z>>
    BY <1>2 DEF BuildIntermediate, BuildIntermediateStore, BuildStwu
  <2>2. /\ e \in 0 .. MemSize - 8 /\ e \in 0 .. MemSize - 4 /\ e \in Values
        /\ d \in CpuContexts /\ c \in CpuContexts
        /\ Wrap(c.gpr[i.ra] + D_SI(i)) = e /\ Wrap(d.gpr[i.ra] + D_SI(i)) = e
        /\ s \in Nat /\ Low(s) \in Nat /\ d.gpr[i.rt] = s /\ i.op \notin Branches
        /\ i.ra \in Regs /\ i.rt # GPR_TEMP /\ i.ra # GPR_TEMP
        /\ d.gpr[i.ra] = c.gpr[i.ra]
    BY <1>2, StoreAddress
  <2>3. GPR_TEMP \in Regs
    BY GivenFacts, Operands
  <2>4. ~ Diverges(i, c) => e % 4 = 0 /\ BookPlain(i, c) = Put(GuestStore(c, e, 4, s), i.ra, e)
    <3>1. BookPlain(i, c) = Put(GuestStore(c, e, 4, s), i.ra, Wrap(c.gpr[i.ra] + D_SI(i)))
      BY DEF BookPlain
    <3>2. ~ Diverges(i, c) => e % 4 = 0
      BY DEF Diverges, WordAccesses
    <3> HIDE DEF e, s
    <3>3. QED
      BY <2>2, <3>1, <3>2
  <2>5. d = AtPc(c, c.pc + 4)
    BY DEF Stepped, AtPc
  <2>6. Book(i, c) = AtPc(BookPlain(i, c), c.pc + 4)
    BY <2>2 DEF Book, Branches, AtPc
  <2>7. InterpretIntermediate(d, x) = {Put(d, GPR_TEMP, Wrap(d.gpr[i.ra] + D_SI(i)))}
    BY Immediates64
  <2>8. InterpretIntermediate(d1, y) =
          {WriteMem(d1, "GPR32", Wrap(d1.gpr[GPR_TEMP] + 0), ReadReg(d1, GPR32(i.rt)))}
    <3> HIDE DEF d1
    <3>1. InterpretIntermediate(d1, y) =
          {WriteMem(d1, GPR32(i.rt).type, Wrap(d1.gpr[GPR_TEMP] + 0), ReadReg(d1, GPR32(i.rt)))}
      BY InterpretLoads
    <3>2. GPR32(i.rt).type = "GPR32"
      BY DEF GPR32
    <3>3. QED
      BY <3>1, <3>2
  <2>9. InterpretIntermediate(d2, z) = {Put(d2, i.ra, Wrap(d2.gpr[i.ra] + D_SI(i)))}
    BY Immediates64
  <2> HIDE DEF d, e, s, x, y, z
  <2>10. /\ d1 \in CpuContexts /\ d1.gpr[GPR_TEMP] = e
         /\ d1.gpr[i.rt] = s /\ d1.gpr[i.ra] = c.gpr[i.ra]
    <3>1. d \in CpuContexts /\ GPR_TEMP \in Regs /\ e \in Values
      BY <2>2, <2>3
    <3>2. d1 \in CpuContexts
      BY <3>1, ContextTypes
    <3>3. d1.gpr[GPR_TEMP] = e /\ \A q : q # GPR_TEMP => d1.gpr[q] = d.gpr[q]
      BY <3>1, PutOther
    <3> HIDE DEF d1
    <3>4. QED
      BY <2>2, <3>2, <3>3
  <2> HIDE DEF d1
  <2>11. /\ d2 \in CpuContexts /\ d2.gpr = d1.gpr
         /\ e % 4 = 0 => d2 = GuestStore(d1, e, 4, s)
    <3>1. d2 = [d1 EXCEPT !.mem = Written(d1.mem, e, Low(s))] /\ d2 \in CpuContexts
      BY <2>2, <2>10, WrittenWord
    <3>2. d2.gpr = d1.gpr
      <4> HIDE DEF d2
      <4> QED BY <2>10, <3>1 DEF CpuContexts
    <3>3. e % 4 = 0 => d2 = GuestStore(d1, e, 4, s)
      BY <2>2, <2>10, StoredWord
    <3>4. QED
      BY <3>1, <3>2, <3>3
  <2>12. InterpretIntermediate(d, x) = {d1}
    BY <2>2, <2>7 DEF d1
  <2>13. InterpretIntermediate(d1, y) = {d2}
    <3>1. WriteMem(d1, "GPR32", e, ReadReg(d1, GPR32(i.rt))) = WriteMem32(d1, e, Low(d1.gpr[i.rt]))
      BY Writes
    <3>2. Wrap(d1.gpr[GPR_TEMP] + 0) = e
      <4>1. e \in Int /\ e + 0 = e /\ Wrap(e) = e
        BY <2>2, ValueFacts, WrapValue
      <4>2. QED
        BY <2>10, <4>1
    <3>3. QED
      BY <2>8, <2>10, <3>1, <3>2
  <2> HIDE DEF d2
  <2>14. InterpretIntermediate(d2, z) = {d3}
    BY <2>2, <2>9, <2>10, <2>11
  <2>15. d3 \in CpuContexts
    BY <2>2, <2>11, ContextTypes
  <2>16. Right(i, c, d3)
    <3>1. ASSUME ~ Diverges(i, c) PROVE Visible(d3) = Visible(Book(i, c))
      <4> DEFINE g == GuestStore(d, e, 4, s)
                 b == Put(g, i.ra, e)
      <4>1. e % 4 = 0 /\ BookPlain(i, c) = Put(GuestStore(c, e, 4, s), i.ra, e)
        BY <2>4, <3>1
      <4>2. GuestStore(c, e, 4, s) \in CpuContexts /\ g \in CpuContexts
        BY <2>2, <4>1, StoredWord, WrittenWord
      <4>3. Book(i, c) = AtPc(Put(GuestStore(c, e, 4, s), i.ra, e), c.pc + 4)
        BY <2>6, <4>1
      <4>4. AtPc(Put(GuestStore(c, e, 4, s), i.ra, e), c.pc + 4) =
              Put(AtPc(GuestStore(c, e, 4, s), c.pc + 4), i.ra, e)
        BY <2>2, <4>2, PutAtPc
      <4>5. AtPc(GuestStore(c, e, 4, s), c.pc + 4) = GuestStore(AtPc(c, c.pc + 4), e, 4, s)
        BY <2>2, StoreFields
      <4>6. Book(i, c) = b
        BY <2>5, <4>3, <4>4, <4>5
      <4>7. d2 = Put(g, GPR_TEMP, e)
        BY <2>2, <2>11, <4>1, StoreFields DEF d1
      <4> HIDE DEF g
      <4>8. d3 = Put(b, GPR_TEMP, e)
        BY <2>2, <2>3, <4>2, <4>7, PutSwap
      <4> HIDE DEF d3, b
      <4>9. Visible(d3) = Visible(b)
        BY <4>8, ScratchUnseen DEF Put
      <4>10. QED
        BY <4>6, <4>9
    <3>2. QED
      BY <2>15, <3>1 DEF Right
  <2> HIDE DEF d3
  <2>17. Fine1(i, c, d2, z)
    BY <2>14, <2>15, <2>16, FineNext
  <2>18. Fine2(i, c, d1, y, z)
    BY <2>11, <2>13, <2>17, FineNext
  <2>19. Fine3(i, c, d, x, y, z)
    BY <2>10, <2>12, <2>18, FineNext
  <2>20. QED
    BY <2>1, <2>19, FineLists DEF d
<1>3. QED
  BY <1>1, <1>2

-----------------------------------------------------------------------------
(* Branches: a context with another pc, count and link.                     *)
Branching(g, ctr, lr) == [g EXCEPT ![GPR_CTR] = ctr, ![GPR_LR] = lr]
Branched(c, p, ctr, lr) ==
    [gpr |-> Branching(c.gpr, ctr, lr), sys |-> c.sys, pc |-> p, mem |-> c.mem]
Target(c, t) == IF Is64Bit(c) THEN t ELSE Low(t)

LEMMA BranchedFields ==
    ASSUME NEW c \in CpuContexts, NEW p, NEW ctr, NEW lr
    PROVE  LET d == Branched(c, p, ctr, lr)
           IN  /\ \A q : AtPc(d, q) = Branched(c, q, ctr, lr)
               /\ \A w : Put(d, GPR_CTR, w) = Branched(c, p, w, lr)
               /\ \A w : Put(d, GPR_LR, w) = Branched(c, p, ctr, w)
               /\ \A t : SetPC(d, t) = Branched(c, Target(c, t), ctr, lr)
               /\ d.gpr[GPR_CTR] = ctr /\ d.gpr[GPR_LR] = lr /\ d.gpr[GPR_CR] = c.gpr[GPR_CR]
               /\ Is64Bit(d) = Is64Bit(c)
               /\ (p \in Values /\ ctr \in Values /\ lr \in Values) => d \in CpuContexts
<1> DEFINE d == Branched(c, p, ctr, lr)
           g == Branching(c.gpr, ctr, lr)
<1>1. /\ c.gpr \in [Regs -> Values] /\ c.sys \in [SysRegs -> Values]
      /\ c.mem \in [0 .. MemSize - 1 -> 0 .. 2 ^ ByteBits - 1]
  BY DEF CpuContexts
<1>2. {GPR_CTR, GPR_LR, GPR_CR} \subseteq Regs
      /\ GPR_CTR # GPR_LR /\ GPR_CTR # GPR_CR /\ GPR_LR # GPR_CR
  BY DEF Regs, GPR_CTR, GPR_LR, GPR_CR, GPR_TEMP
<1>3. d = [gpr |-> g, sys |-> c.sys, pc |-> p, mem |-> c.mem]
  BY DEF Branched
<1>4. g[GPR_CTR] = ctr /\ g[GPR_LR] = lr /\ g[GPR_CR] = c.gpr[GPR_CR]
  BY <1>1, <1>2 DEF Branching
<1>5. /\ \A w : [g EXCEPT ![GPR_CTR] = w] = Branching(c.gpr, w, lr)
      /\ \A w : [g EXCEPT ![GPR_LR] = w] = Branching(c.gpr, ctr, w)
  BY <1>1, <1>2 DEF Branching
<1>6. (ctr \in Values /\ lr \in Values) => g \in [Regs -> Values]
  BY <1>1, <1>2 DEF Branching
<1> HIDE DEF g
<1>7. ASSUME NEW q PROVE AtPc(d, q) = Branched(c, q, ctr, lr)
  BY <1>3 DEF AtPc, Branched, g
<1>8. ASSUME NEW w PROVE Put(d, GPR_CTR, w) = Branched(c, p, w, lr)
  <2>1. Put(d, GPR_CTR, w) = [gpr |-> [g EXCEPT ![GPR_CTR] = w], sys |-> c.sys, pc |-> p, mem |-> c.mem]
    BY <1>3 DEF Put
  <2>2. QED
    BY <1>5, <2>1 DEF Branched
<1>9. ASSUME NEW w PROVE Put(d, GPR_LR, w) = Branched(c, p, ctr, w)
  <2>1. Put(d, GPR_LR, w) = [gpr |-> [g EXCEPT ![GPR_LR] = w], sys |-> c.sys, pc |-> p, mem |-> c.mem]
    BY <1>3 DEF Put
  <2>2. QED
    BY <1>5, <2>1 DEF Branched
<1>10. d.gpr = g /\ d.sys = c.sys
  BY <1>3
<1> HIDE DEF d
<1>11. Is64Bit(d) = Is64Bit(c)
  BY <1>10 DEF Is64Bit
<1>12. ASSUME NEW t PROVE SetPC(d, t) = Branched(c, Target(c, t), ctr, lr)
  <2>1. SetPC(d, t) = AtPc(d, Target(d, t))
    BY DEF SetPC, AtPc, Target
  <2>2. Target(d, t) = Target(c, t)
    BY <1>11 DEF Target
  <2>3. QED
    BY <1>7, <2>1, <2>2
<1>13. ASSUME p \in Values, ctr \in Values, lr \in Values PROVE d \in CpuContexts
  BY <1>1, <1>3, <1>6, <1>13 DEF CpuContexts
<1>14. QED
  BY <1>4, <1>7, <1>8, <1>9, <1>10, <1>11, <1>12, <1>13 DEF d

LEMMA BranchedSame ==
    ASSUME NEW c \in CpuContexts
    PROVE  /\ c = Branched(c, c.pc, c.gpr[GPR_CTR], c.gpr[GPR_LR])
           /\ \A p : AtPc(c, p) = Branched(c, p, c.gpr[GPR_CTR], c.gpr[GPR_LR])
<1>1. c = [gpr |-> c.gpr, sys |-> c.sys, pc |-> c.pc, mem |-> c.mem] /\ c.gpr \in [Regs -> Values]
  BY DEF CpuContexts
<1>2. Branching(c.gpr, c.gpr[GPR_CTR], c.gpr[GPR_LR]) = c.gpr
  BY <1>1 DEF Branching
<1>3. c = Branched(c, c.pc, c.gpr[GPR_CTR], c.gpr[GPR_LR])
  BY <1>1, <1>2 DEF Branched
<1>4. QED
  BY <1>3, BranchedFields

LEMMA TargetValue == ASSUME NEW c, NEW t \in Values PROVE Target(c, t) \in Values
<1>1. t \in Nat /\ Low(t) \in Values
  BY ValueFacts, WordsOf
<1>2. QED
  BY <1>1 DEF Target

(* What the book makes of a branch.                                         *)
CtrOf(i, c) == IF i.op = "b" THEN c.gpr[GPR_CTR] ELSE CtrAfter(i, c)
LrOf(i, c) == IF i.lk THEN c.pc + 4 ELSE c.gpr[GPR_LR]
TakenOf(i, c) == i.op = "b" \/ (CtrOk(i, c) /\ CondOk(i, c))

LEMMA BookBranches ==
    ASSUME NEW i, NEW c, Given(i, c), i.op \in Branches
    PROVE  Book(i, c) = Branched(c, IF TakenOf(i, c) THEN Target(c, BookTarget(i, c)) ELSE c.pc + 4,
                                 CtrOf(i, c), LrOf(i, c))
<1> DEFINE counted == IF i.op = "b" THEN c ELSE Put(c, GPR_CTR, CtrAfter(i, c))
           linked == IF i.lk THEN Put(counted, GPR_LR, c.pc + 4) ELSE counted
<1>1. c \in CpuContexts /\ c = Branched(c, c.pc, c.gpr[GPR_CTR], c.gpr[GPR_LR])
  BY BranchedSame DEF Given
<1>2. \A p, ctr, lr, w : /\ Put(Branched(c, p, ctr, lr), GPR_CTR, w) = Branched(c, p, w, lr)
                         /\ Put(Branched(c, p, ctr, lr), GPR_LR, w) = Branched(c, p, ctr, w)
                         /\ SetPC(Branched(c, p, ctr, lr), w) = Branched(c, Target(c, w), ctr, lr)
                         /\ AtPc(Branched(c, p, ctr, lr), w) = Branched(c, w, ctr, lr)
  BY <1>1, BranchedFields
<1>3. Book(i, c) = IF TakenOf(i, c) THEN SetPC(linked, BookTarget(i, c)) ELSE AtPc(linked, c.pc + 4)
  BY DEF Book, BookBranch, Branches, TakenOf, AtPc
<1>4. counted = Branched(c, c.pc, CtrOf(i, c), c.gpr[GPR_LR])
  BY <1>1, <1>2 DEF CtrOf
<1> HIDE DEF counted
<1>5. linked = Branched(c, c.pc, CtrOf(i, c), LrOf(i, c))
  BY <1>2, <1>4 DEF LrOf
<1> HIDE DEF linked
<1>6. QED
  BY <1>2, <1>3, <1>5

LEMMA InterpretBranches ==
    ASSUME NEW d, NEW r, NEW m, NEW t
    PROVE  /\ InterpretIntermediate(d, BranchAlways(t)) = {SetPC(d, t)}
           /\ InterpretIntermediate(d, BranchGpr32MaskZero(r, m, t)) =
                {IF And(Low(d.gpr[r]), m) = 0 THEN SetPC(d, t) ELSE d}
           /\ InterpretIntermediate(d, BranchGpr32MaskNotZero(r, m, t)) =
                {IF And(Low(d.gpr[r]), m) # 0 THEN SetPC(d, t) ELSE d}
<1>1. ASSUME NEW x, x.op \in BranchOps PROVE InterpretIntermediate(d, x) = {Branch(d, x)}
  <2>1. x.op \notin {"NOP", "PPC_NO_EFFECT"} /\ x.op # "MOVE_REG" /\ x.op \notin MemoryOps
        /\ x.op \notin Ops64 /\ x.op \notin Ops32 /\ x.op \notin Compares
        /\ x.op # "PPC_SRAWI" /\ x.op # "PPC_SUBFIC"
    BY <1>1 DEF Ops32, Ops64, BranchOps, MemoryOps, Compares
  <2>2. QED
    BY <1>1, <2>1 DEF InterpretIntermediate
<1>2. Branch(d, BranchAlways(t)) = SetPC(d, t) /\ BranchAlways(t).op \in BranchOps
  BY DEF Branch, BranchAlways, BranchOps
<1>3. /\ Branch(d, BranchGpr32MaskZero(r, m, t)) =
           IF And(Low(d.gpr[r]), m) = 0 THEN SetPC(d, t) ELSE d
      /\ BranchGpr32MaskZero(r, m, t).op \in BranchOps
  BY DEF Branch, BranchGpr32MaskZero, BranchOps
<1>4. /\ Branch(d, BranchGpr32MaskNotZero(r, m, t)) =
           IF And(Low(d.gpr[r]), m) # 0 THEN SetPC(d, t) ELSE d
      /\ BranchGpr32MaskNotZero(r, m, t).op \in BranchOps
  BY DEF Branch, BranchGpr32MaskNotZero, BranchOps
<1>5. QED
  BY <1>1, <1>2, <1>3, <1>4

LEMMA InterpretReturns ==
    ASSUME NEW d, NEW r, NEW q
    PROVE  /\ InterpretIntermediate(d, BranchGpr64(r)) = {SetPC(d, d.gpr[r])}
           /\ InterpretIntermediate(d, BranchGpr64NotZeroGpr64(r, q)) =
                {IF d.gpr[r] # 0 THEN SetPC(d, d.gpr[q]) ELSE d}
           /\ InterpretIntermediate(d, BranchGpr64NotZero(r, q)) =
                {IF d.gpr[r] # 0 THEN SetPC(d, q) ELSE d}
<1>1. ASSUME NEW x, x.op \in BranchOps PROVE InterpretIntermediate(d, x) = {Branch(d, x)}
  <2>1. x.op \notin {"NOP", "PPC_NO_EFFECT"} /\ x.op # "MOVE_REG" /\ x.op \notin MemoryOps
        /\ x.op \notin Ops64 /\ x.op \notin Ops32 /\ x.op \notin Compares
        /\ x.op # "PPC_SRAWI" /\ x.op # "PPC_SUBFIC"
    BY <1>1 DEF Ops32, Ops64, BranchOps, MemoryOps, Compares
  <2>2. QED
    BY <1>1, <2>1 DEF InterpretIntermediate
<1>2. Branch(d, BranchGpr64(r)) = SetPC(d, d.gpr[r]) /\ BranchGpr64(r).op \in BranchOps
  BY DEF Branch, BranchGpr64, BranchOps
<1>3. /\ Branch(d, BranchGpr64NotZeroGpr64(r, q)) = IF d.gpr[r] # 0 THEN SetPC(d, d.gpr[q]) ELSE d
      /\ BranchGpr64NotZeroGpr64(r, q).op \in BranchOps
  BY DEF Branch, BranchGpr64NotZeroGpr64, BranchOps
<1>4. /\ Branch(d, BranchGpr64NotZero(r, q)) = IF d.gpr[r] # 0 THEN SetPC(d, q) ELSE d
      /\ BranchGpr64NotZero(r, q).op \in BranchOps
  BY DEF Branch, BranchGpr64NotZero, BranchOps
<1>5. QED
  BY <1>1, <1>2, <1>3, <1>4

(* What all branches begin with, and the context they leave.                *)
LEMMA BranchFacts ==
    ASSUME NEW i, NEW c, Given(i, c), i.op \in Branches
    PROVE  /\ c \in CpuContexts /\ Stepped(c) \in CpuContexts
           /\ Stepped(c) = Branched(c, c.pc + 4, c.gpr[GPR_CTR], c.gpr[GPR_LR])
           /\ c.pc + 4 \in Values /\ c.pc \in Int
           /\ c.gpr[GPR_CTR] \in Values /\ c.gpr[GPR_LR] \in Values /\ c.gpr[GPR_CR] \in Values
           /\ LrOf(i, c) \in Values
           /\ GPR_TEMP \in Regs /\ i \in Encodings
<1>1. c \in CpuContexts /\ Stepped(c) \in CpuContexts /\ c.pc + 4 \in Values /\ c.pc \in Int
      /\ Stepped(c) = AtPc(c, c.pc + 4) /\ i \in Encodings
  BY SteppedContext DEF Given, AtPc
<1>2. {GPR_CTR, GPR_LR, GPR_CR, GPR_TEMP} \subseteq Regs
  BY <1>1, Operands
<1>3. c.gpr[GPR_CTR] \in Values /\ c.gpr[GPR_LR] \in Values /\ c.gpr[GPR_CR] \in Values
  BY <1>1, <1>2, ContextFields
<1>4. Stepped(c) = Branched(c, c.pc + 4, c.gpr[GPR_CTR], c.gpr[GPR_LR])
  BY <1>1, BranchedSame
<1>5. LrOf(i, c) \in Values
  BY <1>1, <1>3 DEF LrOf
<1>6. QED
  BY <1>1, <1>2, <1>3, <1>4, <1>5

(* The context a branch leaves after its link.                              *)
Arrives(i, c, p, ctr) ==
    /\ p \in Values /\ ctr \in Values
    /\ ~ Diverges(i, c) =>
         /\ p = IF TakenOf(i, c) THEN Target(c, BookTarget(i, c)) ELSE c.pc + 4
         /\ ctr = CtrOf(i, c)

LEMMA RightBranched ==
    ASSUME NEW i, NEW c, Given(i, c), i.op \in Branches, NEW p, NEW ctr, Arrives(i, c, p, ctr)
    PROVE  Right(i, c, Branched(c, p, ctr, LrOf(i, c)))
<1>1. Branched(c, p, ctr, LrOf(i, c)) \in CpuContexts
  BY BranchFacts, BranchedFields DEF Arrives
<1>2. QED
  BY <1>1, BookBranches DEF Right, Arrives

LEMMA FineLink ==
    ASSUME NEW i, NEW c, Given(i, c), i.op \in Branches, i.lk, NEW p, NEW ctr,
           Arrives(i, c, p, ctr), NEW x, x = LoadImm(GPR64(GPR_LR), c.pc + 4)
    PROVE  Fine1(i, c, Branched(c, p, ctr, c.gpr[GPR_LR]), x)
<1> DEFINE d == Branched(c, p, ctr, c.gpr[GPR_LR])
           e == Branched(c, p, ctr, LrOf(i, c))
<1>1. InterpretIntermediate(d, x) = {Put(d, GPR_LR, c.pc + 4)}
  BY InterpretLoadImm
<1>2. Put(d, GPR_LR, c.pc + 4) = e
  BY BranchFacts, BranchedFields DEF LrOf
<1>3. Right(i, c, e)
  BY RightBranched
<1> HIDE DEF d, e
<1>4. Fine1(i, c, d, x)
  BY <1>1, <1>2, <1>3 DEF Fine1
<1>5. QED
  BY <1>4 DEF d

(* A branch of one intermediate, and perhaps the link.                      *)
LEMMA FineBranch ==
    ASSUME NEW i, NEW c, Given(i, c), i.op \in Branches, NEW p, NEW ctr, Arrives(i, c, p, ctr),
           NEW x, InterpretIntermediate(Stepped(c), x) = {Branched(c, p, ctr, c.gpr[GPR_LR])},
           BuildIntermediate(i, c.pc) = <<x>> \o Link(i, c.pc)
    PROVE  FineAtFetch(i, c)
<1> DEFINE d == Branched(c, p, ctr, c.gpr[GPR_LR])
           l == LoadImm(GPR64(GPR_LR), c.pc + 4)
<1>1. d \in CpuContexts
  BY BranchFacts, BranchedFields DEF Arrives
<1>2. CASE i.lk
  <2>1. Link(i, c.pc) = <<l>>
    BY <1>2 DEF Link
  <2>2. Fine1(i, c, d, l)
    BY <1>2, FineLink
  <2> HIDE DEF d, l
  <2>3. InterpretIntermediate(Stepped(c), x) = {d}
    BY DEF d
  <2>4. Fine2(i, c, Stepped(c), x, l)
    BY <1>1, <2>2, <2>3, FineNext
  <2>5. BuildIntermediate(i, c.pc) = <<x, l>>
    BY <2>1, Pair
  <2>6. QED
    BY <2>4, <2>5, FineLists
<1>3. CASE ~ i.lk
  <2>1. Link(i, c.pc) = <<>>
    BY <1>3 DEF Link
  <2>2. LrOf(i, c) = c.gpr[GPR_LR]
    BY <1>3 DEF LrOf
  <2>3. Right(i, c, d)
    BY <2>2, RightBranched
  <2> HIDE DEF d
  <2>4. InterpretIntermediate(Stepped(c), x) = {d}
    BY DEF d
  <2>5. Fine1(i, c, Stepped(c), x)
    BY <1>1, <2>3, <2>4, FineNext
  <2>6. BuildIntermediate(i, c.pc) = <<x>>
    BY <2>1
  <2>7. QED
    BY <2>5, <2>6, FineLists
<1>4. QED
  BY <1>2, <1>3

(* A branch of two.                                                         *)
LEMMA FineCounted ==
    ASSUME NEW i, NEW c, Given(i, c), i.op \in Branches, NEW p, NEW ctr, Arrives(i, c, p, ctr),
           NEW x, NEW e \in CpuContexts, InterpretIntermediate(Stepped(c), x) = {e},
           NEW y, InterpretIntermediate(e, y) = {Branched(c, p, ctr, c.gpr[GPR_LR])},
           BuildIntermediate(i, c.pc) = <<x, y>> \o Link(i, c.pc)
    PROVE  FineAtFetch(i, c)
<1> DEFINE d == Branched(c, p, ctr, c.gpr[GPR_LR])
           l == LoadImm(GPR64(GPR_LR), c.pc + 4)
<1>1. d \in CpuContexts
  BY BranchFacts, BranchedFields DEF Arrives
<1>2. CASE i.lk
  <2>1. Link(i, c.pc) = <<l>>
    BY <1>2 DEF Link
  <2>2. Fine1(i, c, d, l)
    BY <1>2, FineLink
  <2> HIDE DEF d, l
  <2>3. InterpretIntermediate(e, y) = {d}
    BY DEF d
  <2>4. Fine2(i, c, e, y, l)
    BY <1>1, <2>2, <2>3, FineNext
  <2>5. Fine3(i, c, Stepped(c), x, y, l)
    BY <2>4, FineNext
  <2>6. BuildIntermediate(i, c.pc) = <<x, y, l>>
    BY <2>1, Triple
  <2>7. QED
    BY <2>5, <2>6, FineLists
<1>3. CASE ~ i.lk
  <2>1. Link(i, c.pc) = <<>>
    BY <1>3 DEF Link
  <2>2. LrOf(i, c) = c.gpr[GPR_LR]
    BY <1>3 DEF LrOf
  <2>3. Right(i, c, d)
    BY <2>2, RightBranched
  <2> HIDE DEF d
  <2>4. InterpretIntermediate(e, y) = {d}
    BY DEF d
  <2>5. Fine1(i, c, e, y)
    BY <1>1, <2>3, <2>4, FineNext
  <2>6. Fine2(i, c, Stepped(c), x, y)
    BY <2>5, FineNext
  <2>7. BuildIntermediate(i, c.pc) = <<x, y>>
    BY <2>1
  <2>8. QED
    BY <2>6, <2>7, FineLists
<1>4. QED
  BY <1>2, <1>3

LEMMA BoBits ==
    ASSUME NEW i
    PROVE  /\ i.bo \in {4, 6, 7} => ~ BoBit(i, 0) /\ ~ BoBit(i, 1) /\ BoBit(i, 2)
           /\ i.bo \in {12, 15} => ~ BoBit(i, 0) /\ BoBit(i, 1) /\ BoBit(i, 2)
           /\ i.bo = 20 => BoBit(i, 0) /\ BoBit(i, 2)
           /\ i.bo = 25 => BoBit(i, 0) /\ ~ BoBit(i, 2) /\ ~ BoBit(i, 3)
<1>1. 2 ^ (4 - 0) = 16 /\ 2 ^ (4 - 1) = 8 /\ 2 ^ (4 - 2) = 4 /\ 2 ^ (4 - 3) = 2
  OBVIOUS
<1>2. /\ BoBit(i, 0) <=> (i.bo \div 16) % 2 = 1
      /\ BoBit(i, 1) <=> (i.bo \div 8) % 2 = 1
      /\ BoBit(i, 2) <=> (i.bo \div 4) % 2 = 1
      /\ BoBit(i, 3) <=> (i.bo \div 2) % 2 = 1
  BY <1>1 DEF BoBit
<1>3. /\ (4 \div 16) % 2 = 0 /\ (4 \div 8) % 2 = 0 /\ (4 \div 4) % 2 = 1
      /\ (6 \div 16) % 2 = 0 /\ (6 \div 8) % 2 = 0 /\ (6 \div 4) % 2 = 1
      /\ (7 \div 16) % 2 = 0 /\ (7 \div 8) % 2 = 0 /\ (7 \div 4) % 2 = 1
      /\ (12 \div 16) % 2 = 0 /\ (12 \div 8) % 2 = 1 /\ (12 \div 4) % 2 = 1
      /\ (15 \div 16) % 2 = 0 /\ (15 \div 8) % 2 = 1 /\ (15 \div 4) % 2 = 1
      /\ (20 \div 16) % 2 = 1 /\ (20 \div 4) % 2 = 1
      /\ (25 \div 16) % 2 = 1 /\ (25 \div 4) % 2 = 0 /\ (25 \div 2) % 2 = 0
  OBVIOUS
<1>4. QED
  BY <1>2, <1>3

(* The count and the condition under each BO the code knows.                *)
LEMMA BoMeaning ==
    ASSUME NEW i, NEW c
    PROVE  /\ i.bo \in {4, 6, 7, 12, 15, 20} => CtrOk(i, c) /\ CtrAfter(i, c) = c.gpr[GPR_CTR]
           /\ i.bo \in {4, 6, 7} => (CondOk(i, c) <=> ~ CrBit(c, i.bi))
           /\ i.bo \in {12, 15} => (CondOk(i, c) <=> CrBit(c, i.bi))
           /\ i.bo = 20 => CondOk(i, c)
           /\ i.bo = 25 => /\ CondOk(i, c) /\ CtrAfter(i, c) = Wrap(c.gpr[GPR_CTR] - 1)
                           /\ CtrOk(i, c) <=> CtrTested(i, c) # 0
<1>1. i.bo \in {4, 6, 7, 12, 15, 20} => BoBit(i, 2)
  BY BoBits
<1>2. i.bo \in {4, 6, 7, 12, 15, 20} => CtrOk(i, c) /\ CtrAfter(i, c) = c.gpr[GPR_CTR]
  BY <1>1 DEF CtrOk, CtrAfter
<1>3. CrBit(c, i.bi) \in BOOLEAN /\ BoBit(i, 1) \in BOOLEAN /\ BoBit(i, 3) \in BOOLEAN
      /\ (CtrTested(i, c) # 0) \in BOOLEAN
  BY DEF CrBit, BoBit
<1>4. i.bo \in {4, 6, 7} => (CondOk(i, c) <=> ~ CrBit(c, i.bi))
  BY <1>3, BoBits DEF CondOk
<1>5. i.bo \in {12, 15} => (CondOk(i, c) <=> CrBit(c, i.bi))
  BY <1>3, BoBits DEF CondOk
<1>6. i.bo \in {20, 25} => CondOk(i, c)
  BY BoBits DEF CondOk
<1>7. i.bo = 25 => CtrAfter(i, c) = Wrap(c.gpr[GPR_CTR] - 1) /\ (CtrOk(i, c) <=> CtrTested(i, c) # 0)
  BY <1>3, BoBits DEF CtrOk, CtrAfter
<1>8. QED
  BY <1>2, <1>4, <1>5, <1>6, <1>7

LEMMA TargetFacts ==
    ASSUME NEW i, NEW c, Given(i, c), i.op \in {"b", "bc"}
    PROVE  /\ BookTarget(i, c) = B_Target(i, c.pc) /\ B_Target(i, c.pc) \in Values
           /\ Target(c, B_Target(i, c.pc)) \in Values
<1>1. BookTarget(i, c) = B_Target(i, c.pc)
  BY DEF BookTarget, B_Target
<1>2. D_SI(i) \in Values /\ D_SI(i) \in Nat
  BY Immediate DEF Given
<1>3. c.pc \in Int
  BY SteppedContext
<1>4. Wrap(c.pc + D_SI(i)) \in Values
  BY <1>2, <1>3, WrapValue
<1>5. B_Target(i, c.pc) \in Values
  BY <1>2, <1>4 DEF B_Target
<1>6. QED
  BY <1>1, <1>5, TargetValue

LEMMA FineB ==
    ASSUME NEW i, NEW c, Given(i, c), i.op = "b"
    PROVE  FineAtFetch(i, c)
<1> DEFINE t == B_Target(i, c.pc)
           x == BranchAlways(t)
           l == LoadImm(GPR64(GPR_LR), c.pc + 4)
           e == Branched(c, c.pc + 4, c.gpr[GPR_CTR], LrOf(i, c))
           f == Branched(c, Target(c, t), c.gpr[GPR_CTR], LrOf(i, c))
           d == Stepped(c)
<1>1. BuildIntermediate(i, c.pc) = Link(i, c.pc) \o <<x>>
  BY DEF BuildIntermediate
<1>2. Given(i, c) /\ i.op \in Branches
  BY DEF Branches
<1>3. /\ d = Branched(c, c.pc + 4, c.gpr[GPR_CTR], c.gpr[GPR_LR]) /\ c \in CpuContexts
      /\ c.pc + 4 \in Values /\ c.gpr[GPR_CTR] \in Values /\ LrOf(i, c) \in Values
      /\ d \in CpuContexts
  BY <1>2, BranchFacts
<1>4. e \in CpuContexts /\ SetPC(e, t) = f
  BY <1>3, BranchedFields
<1>5. Arrives(i, c, Target(c, t), c.gpr[GPR_CTR])
  <2>1. BookTarget(i, c) = t /\ Target(c, t) \in Values
    BY TargetFacts
  <2>2. TakenOf(i, c) /\ CtrOf(i, c) = c.gpr[GPR_CTR]
    BY DEF TakenOf, CtrOf
  <2>3. QED
    BY <1>3, <2>1, <2>2 DEF Arrives
<1>6. Right(i, c, f)
  BY <1>2, <1>5, RightBranched
<1>7. InterpretIntermediate(e, x) = {f}
  <2>1. InterpretIntermediate(e, x) = {SetPC(e, t)}
    BY InterpretBranches
  <2>2. QED
    BY <1>4, <2>1
<1>8. f \in CpuContexts
  BY <1>6 DEF Right
<1>9. Fine1(i, c, e, x)
  <2> HIDE DEF e, f, x
  <2>1. QED BY <1>6, <1>7, <1>8, FineNext
<1>10. CASE i.lk
  <2>1. BuildIntermediate(i, c.pc) = <<l, x>>
    BY <1>1, <1>10, Pair DEF Link
  <2>2. InterpretIntermediate(d, l) = {Put(d, GPR_LR, c.pc + 4)}
    BY InterpretLoadImm
  <2>3. Put(d, GPR_LR, c.pc + 4) = e
    BY <1>3, <1>10, BranchedFields DEF LrOf
  <2> HIDE DEF l, x, e, d
  <2>4. Fine2(i, c, d, l, x)
    BY <1>4, <1>9, <2>2, <2>3, FineNext
  <2>5. QED
    BY <2>1, <2>4, FineLists DEF d
<1>11. CASE ~ i.lk
  <2>1. BuildIntermediate(i, c.pc) = <<x>>
    BY <1>1, <1>11 DEF Link
  <2>2. e = d
    BY <1>3, <1>11 DEF LrOf
  <2> HIDE DEF x, e, d
  <2>3. QED
    BY <1>9, <2>1, <2>2, FineLists DEF d
<1>12. QED
  BY <1>10, <1>11

LEMMA CrMaskFacts ==
    ASSUME NEW i \in Encodings
    PROVE  2 ^ (N - 1 - i.bi) \in Nat /\ 2 ^ (N - 1 - i.bi) < W
<1>1. i.bi \in 0 .. N - 1 /\ N \in Nat
  BY Widths DEF Encodings
<1>2. N - 1 - i.bi \in Nat /\ N - 1 - i.bi <= N /\ N - 1 - i.bi # N
  BY <1>1
<1>3. QED
  <2> DEFINE k == N - 1 - i.bi
  <2>1. k \in Nat /\ k + 1 \in Nat /\ k + 1 <= N
    BY <1>1, <1>2
  <2> HIDE DEF k
  <2>2. 2 ^ k \in Nat /\ 2 ^ k > 0 /\ 2 ^ (k + 1) = 2 * 2 ^ k
    BY <2>1, PowPositive, PowNext
  <2>3. 2 ^ (k + 1) <= 2 ^ N
    BY <1>1, <2>1, PowSplit
  <2>4. 2 ^ k \in Nat /\ 2 ^ k < 2 ^ N
    BY <2>1, <2>2, <2>3, <1>1, PowPositive
  <2>5. QED
    BY <2>4 DEF k, W

(* The conditional branches the code knows.                                 *)
LEMMA FineConditional ==
    ASSUME NEW i, NEW c, Given(i, c), i.op = "bc", ~ i.aa, i.bo \in {4, 6, 7, 12, 15, 20}
    PROVE  FineAtFetch(i, c)
<1> DEFINE t == Wrap(c.pc + D_SI(i))
           m == 2 ^ (N - 1 - i.bi)
           d == Stepped(c)
           b == CrBit(c, i.bi)
           taken == IF i.bo = 20 THEN TRUE ELSE IF i.bo \in {12, 15} THEN b ELSE ~ b
           x == IF i.bo = 20 THEN BranchAlways(t)
                ELSE IF i.bo \in {12, 15} THEN BranchGpr32MaskNotZero(GPR_CR, m, t)
                                          ELSE BranchGpr32MaskZero(GPR_CR, m, t)
           p == IF taken THEN Target(c, t) ELSE c.pc + 4
           e == Branched(c, p, c.gpr[GPR_CTR], c.gpr[GPR_LR])
<1>1. BuildIntermediate(i, c.pc) = <<x>> \o Link(i, c.pc)
  <2>1. BuildIntermediate(i, c.pc) = BuildIntermediateBcc(i, c.pc)
    BY DEF BuildIntermediate
  <2>2. CASE i.bo \in {4, 6, 7}
    BY <2>1, <2>2 DEF BuildIntermediateBcc
  <2>3. CASE i.bo \in {12, 15}
    BY <2>1, <2>3 DEF BuildIntermediateBcc
  <2>4. CASE i.bo = 20
    BY <2>1, <2>4 DEF BuildIntermediateBcc
  <2>5. QED
    BY <2>2, <2>3, <2>4
<1>2. Given(i, c) /\ i.op \in Branches
  BY DEF Branches
<1>3. /\ d = Branched(c, c.pc + 4, c.gpr[GPR_CTR], c.gpr[GPR_LR]) /\ c \in CpuContexts
      /\ c.pc + 4 \in Values /\ c.gpr[GPR_CTR] \in Values /\ c.gpr[GPR_LR] \in Values
      /\ d \in CpuContexts /\ c.gpr[GPR_CR] \in Values /\ i \in Encodings
  BY <1>2, BranchFacts
<1>4. /\ BookTarget(i, c) = t /\ Target(c, t) \in Values
  BY TargetFacts DEF B_Target
<1>5. And(Low(d.gpr[GPR_CR]), m) = And(c.gpr[GPR_CR], m)
  <2>1. d.gpr[GPR_CR] = c.gpr[GPR_CR]
    BY <1>3, BranchedFields
  <2>2. m \in Nat /\ m < W
    BY <1>3, CrMaskFacts
  <2> HIDE DEF m
  <2>3. QED
    BY <1>3, <2>1, <2>2, ConditionBit
<1>6. b <=> And(c.gpr[GPR_CR], m) # 0
  BY DEF CrBit
<1>7. SetPC(d, t) = Branched(c, Target(c, t), c.gpr[GPR_CTR], c.gpr[GPR_LR])
  BY <1>3, BranchedFields
<1>8. InterpretIntermediate(d, x) = {IF taken THEN SetPC(d, t) ELSE d}
  <2> DEFINE h == And(Low(d.gpr[GPR_CR]), m) # 0
  <2>1. /\ InterpretIntermediate(d, BranchAlways(t)) = {SetPC(d, t)}
        /\ InterpretIntermediate(d, BranchGpr32MaskZero(GPR_CR, m, t)) =
             {IF h THEN d ELSE SetPC(d, t)}
        /\ InterpretIntermediate(d, BranchGpr32MaskNotZero(GPR_CR, m, t)) =
             {IF h THEN SetPC(d, t) ELSE d}
    BY InterpretBranches
  <2>2. h <=> b
    BY <1>5, <1>6
  <2> HIDE DEF h, b, t, m, d
  <2>3. CASE i.bo = 20
    BY <2>1, <2>3
  <2>4. CASE i.bo \in {12, 15}
    BY <2>1, <2>2, <2>4
  <2>5. CASE i.bo \in {4, 6, 7}
    BY <2>1, <2>2, <2>5
  <2>6. QED
    BY <2>3, <2>4, <2>5
<1>9. InterpretIntermediate(d, x) = {e}
  <2> HIDE DEF x, taken, t
  <2>1. CASE taken
    BY <1>7, <1>8, <2>1
  <2>2. CASE ~ taken
    BY <1>3, <1>8, <2>2
  <2>3. QED
    BY <2>1, <2>2
<1>10. Arrives(i, c, p, c.gpr[GPR_CTR])
  <2>1. CtrOf(i, c) = c.gpr[GPR_CTR] /\ (TakenOf(i, c) <=> taken)
    BY BoMeaning DEF CtrOf, TakenOf
  <2> HIDE DEF t, taken
  <2>2. QED
    BY <1>3, <1>4, <2>1 DEF Arrives
<1> HIDE DEF x, p, t, d
<1>11. InterpretIntermediate(Stepped(c), x) = {Branched(c, p, c.gpr[GPR_CTR], c.gpr[GPR_LR])}
  BY <1>9 DEF d
<1>12. QED
  BY <1>1, <1>2, <1>10, <1>11, FineBranch

LEMMA FineBdnz ==
    ASSUME NEW i, NEW c, Given(i, c), i.op = "bc", ~ i.aa, i.bo = 25
    PROVE  FineAtFetch(i, c)
<1> DEFINE t == Wrap(c.pc + D_SI(i))
           d == Stepped(c)
           n == Wrap(c.gpr[GPR_CTR] - 1)
           x == RegImm("SUBU_IMM", GPR_CTR, GPR_CTR, 1)
           y == BranchGpr64NotZero(GPR_CTR, t)
           f == Branched(c, c.pc + 4, n, c.gpr[GPR_LR])
           p == IF n # 0 THEN Target(c, t) ELSE c.pc + 4
           e == Branched(c, p, n, c.gpr[GPR_LR])
<1>1. BuildIntermediate(i, c.pc) = <<x, y>> \o Link(i, c.pc)
  BY DEF BuildIntermediate, BuildIntermediateBcc
<1>2. Given(i, c) /\ i.op \in Branches
  BY DEF Branches
<1>3. /\ d = Branched(c, c.pc + 4, c.gpr[GPR_CTR], c.gpr[GPR_LR]) /\ c \in CpuContexts
      /\ c.pc + 4 \in Values /\ c.gpr[GPR_CTR] \in Values /\ c.gpr[GPR_LR] \in Values
      /\ d \in CpuContexts
  BY <1>2, BranchFacts
<1>4. /\ BookTarget(i, c) = t /\ Target(c, t) \in Values
  BY TargetFacts DEF B_Target
<1>5. n \in Values
  <2>1. c.gpr[GPR_CTR] - 1 \in Int
    BY <1>3, ValueFacts
  <2>2. QED
    BY <2>1, WrapValue
<1>6. InterpretIntermediate(d, x) = {f}
  <2>1. InterpretIntermediate(d, x) = {Put(d, GPR_CTR, Wrap(d.gpr[GPR_CTR] - 1))}
    BY Immediates64
  <2>2. d.gpr[GPR_CTR] = c.gpr[GPR_CTR] /\ Put(d, GPR_CTR, n) = f
    BY <1>3, BranchedFields
  <2> HIDE DEF d
  <2>3. QED
    BY <2>1, <2>2
<1>7. f.gpr[GPR_CTR] = n /\ SetPC(f, t) = Branched(c, Target(c, t), n, c.gpr[GPR_LR])
  BY <1>3, BranchedFields
<1>8. f \in CpuContexts
  BY <1>3, <1>5, BranchedFields
<1>9. InterpretIntermediate(f, y) = {e}
  <2>1. InterpretIntermediate(f, y) = {IF f.gpr[GPR_CTR] # 0 THEN SetPC(f, t) ELSE f}
    BY InterpretReturns
  <2> HIDE DEF t, n, y
  <2>2. CASE n # 0
    BY <1>7, <2>1, <2>2
  <2>3. CASE n = 0
    BY <1>7, <2>1, <2>3
  <2>4. QED
    BY <2>2, <2>3
<1>10. Arrives(i, c, p, n)
  <2>1. CtrOf(i, c) = n /\ (TakenOf(i, c) <=> CtrTested(i, c) # 0)
    BY BoMeaning DEF CtrOf, TakenOf
  <2>2. ~ Diverges(i, c) => CtrTested(i, c) = n
    BY BoMeaning DEF Diverges, CtrTested
  <2>3. p \in Values
    BY <1>3, <1>4
  <2> HIDE DEF t, n
  <2>4. QED
    BY <1>4, <1>5, <2>1, <2>2, <2>3 DEF Arrives
<1> HIDE DEF x, y, p, t, d, n, f
<1>11. InterpretIntermediate(Stepped(c), x) = {f}
  BY <1>6 DEF d
<1>12. QED
  BY <1>1, <1>2, <1>8, <1>9, <1>10, <1>11, FineCounted

LEMMA FineBc ==
    ASSUME NEW i, NEW c, Given(i, c), i.op = "bc"
    PROVE  FineAtFetch(i, c)
<1>1. CASE i.aa \/ i.bo \notin {4, 6, 7, 12, 15, 20, 25}
  <2>1. BuildIntermediate(i, c.pc) = <<Unknown>>
    BY <1>1 DEF BuildIntermediate, BuildIntermediateBcc
  <2>2. QED
    BY <2>1, FineLists
<1>2. QED
  BY <1>1, FineConditional, FineBdnz

LEMMA Aligned == \A x \in Nat : x % 4 = 0 => (x \div 4) * 4 = x
  OBVIOUS

(* A jump to what a register holds.                                         *)
LEMMA FineJump ==
    ASSUME NEW i, NEW c, Given(i, c), i.op \in {"bclr", "bcctr"}, i.bo = 20,
           NEW r \in {GPR_LR, GPR_CTR}, r = IF i.op = "bclr" THEN GPR_LR ELSE GPR_CTR,
           BuildIntermediate(i, c.pc) = <<BranchGpr64(r)>> \o Link(i, c.pc)
    PROVE  FineAtFetch(i, c)
<1> DEFINE t == c.gpr[r]
           d == Stepped(c)
           x == BranchGpr64(r)
           p == Target(c, t)
           e == Branched(c, p, c.gpr[GPR_CTR], c.gpr[GPR_LR])
<1>1. Given(i, c) /\ i.op \in Branches
  BY DEF Branches
<1>2. /\ d = Branched(c, c.pc + 4, c.gpr[GPR_CTR], c.gpr[GPR_LR]) /\ c \in CpuContexts
      /\ c.pc + 4 \in Values /\ c.gpr[GPR_CTR] \in Values /\ c.gpr[GPR_LR] \in Values
  BY <1>1, BranchFacts
<1>3. t \in Values /\ t \in Nat /\ p \in Values
  <2>1. t \in Values
    BY <1>2
  <2> HIDE DEF t
  <2>2. QED
    BY <2>1, ValueFacts, TargetValue
<1>4. d.gpr[r] = t
  BY <1>2, BranchedFields
<1>5. InterpretIntermediate(d, x) = {e}
  <2>1. InterpretIntermediate(d, x) = {SetPC(d, d.gpr[r])}
    BY InterpretReturns
  <2>2. SetPC(d, t) = e
    BY <1>2, BranchedFields
  <2> HIDE DEF d, t
  <2>3. QED
    BY <1>4, <2>1, <2>2
<1>6. ~ Diverges(i, c) => BookTarget(i, c) = t
  <2>1. BookTarget(i, c) = (t \div 4) * 4
    BY DEF BookTarget
  <2>2. ~ Diverges(i, c) => t % 4 = 0
    BY DEF Diverges
  <2> HIDE DEF t
  <2>3. QED
    BY <1>3, <2>1, <2>2, Aligned
<1>7. TakenOf(i, c) /\ CtrOf(i, c) = c.gpr[GPR_CTR]
  BY BoMeaning DEF TakenOf, CtrOf
<1> HIDE DEF t
<1>8. Arrives(i, c, p, c.gpr[GPR_CTR])
  BY <1>2, <1>3, <1>6, <1>7 DEF Arrives
<1> HIDE DEF x, p, d
<1>9. InterpretIntermediate(Stepped(c), x) = {Branched(c, p, c.gpr[GPR_CTR], c.gpr[GPR_LR])}
  BY <1>5 DEF d
<1>10. BuildIntermediate(i, c.pc) = <<x>> \o Link(i, c.pc)
  BY DEF x
<1>11. QED
  BY <1>1, <1>8, <1>9, <1>10, FineBranch

(* beqlr on the last field, through the scratch register.                   *)
LEMMA FineBeqlr ==
    ASSUME NEW i, NEW c, Given(i, c), i.op = "bclr", i.bo = 12, i.bi = N - 2, ~ i.lk
    PROVE  FineAtFetch(i, c)
<1> DEFINE t == c.gpr[GPR_LR]
           d == Stepped(c)
           v == And(c.gpr[GPR_CR], 2)
           x == RegImm("AND_IMM_64", GPR_CR, GPR_TEMP, 2)
           y == BranchGpr64NotZeroGpr64(GPR_TEMP, GPR_LR)
           d1 == Put(d, GPR_TEMP, v)
           p == IF v # 0 THEN Target(c, t) ELSE c.pc + 4
           f == Branched(c, p, c.gpr[GPR_CTR], t)
           e == Put(f, GPR_TEMP, v)
<1>1. BuildIntermediate(i, c.pc) = <<x, y>>
  <2>1. BuildIntermediate(i, c.pc) = BuildIntermediateTable19(i, c.pc)
    BY DEF BuildIntermediate
  <2>2. QED
    BY <2>1 DEF BuildIntermediateTable19
<1>2. Given(i, c) /\ i.op \in Branches
  BY DEF Branches
<1>3. /\ d = Branched(c, c.pc + 4, c.gpr[GPR_CTR], c.gpr[GPR_LR]) /\ c \in CpuContexts
      /\ c.pc + 4 \in Values /\ c.gpr[GPR_CTR] \in Values /\ c.gpr[GPR_LR] \in Values
      /\ d \in CpuContexts /\ GPR_TEMP \in Regs /\ LrOf(i, c) = t
      /\ GPR_TEMP # GPR_LR
  BY <1>2, BranchFacts DEF LrOf, GPR_TEMP, GPR_LR
<1>4. v \in Values /\ Target(c, t) \in Values /\ t \in Nat /\ p \in Values
  BY <1>3, Logic, TargetValue, ValueFacts
<1>5. InterpretIntermediate(d, x) = {d1}
  <2>1. InterpretIntermediate(d, x) = {Put(d, GPR_TEMP, And(d.gpr[GPR_CR], 2))}
    BY Immediates64
  <2>2. d.gpr[GPR_CR] = c.gpr[GPR_CR]
    BY <1>3, BranchedFields
  <2> HIDE DEF d
  <2>3. QED
    BY <2>1, <2>2
<1>6. d.gpr[GPR_LR] = t /\ Is64Bit(d) = Is64Bit(c)
  BY <1>3, BranchedFields
<1>7. \A q : AtPc(d, q) = Branched(c, q, c.gpr[GPR_CTR], t)
  BY <1>3, BranchedFields
<1> HIDE DEF d, t, v
<1>8. d1 \in CpuContexts /\ d1.gpr[GPR_TEMP] = v /\ d1.gpr[GPR_LR] = t /\ d1.sys = d.sys
  <2>1. d1 \in CpuContexts
    BY <1>3, <1>4, ContextTypes
  <2>2. d1.gpr[GPR_TEMP] = v /\ d1.sys = d.sys /\ \A q : q # GPR_TEMP => d1.gpr[q] = d.gpr[q]
    BY <1>3, PutOther
  <2> HIDE DEF d1
  <2>3. QED
    BY <1>3, <1>6, <2>1, <2>2
<1>9. SetPC(d1, t) = Put(Branched(c, Target(c, t), c.gpr[GPR_CTR], t), GPR_TEMP, v)
  <2>1. Is64Bit(d1) = Is64Bit(c)
    <3> HIDE DEF d1
    <3>1. QED BY <1>6, <1>8 DEF Is64Bit
  <2>2. SetPC(d1, t) = AtPc(d1, Target(c, t))
    <3> HIDE DEF d1
    <3>1. QED BY <2>1 DEF SetPC, AtPc, Target
  <2>3. AtPc(d1, Target(c, t)) = Put(AtPc(d, Target(c, t)), GPR_TEMP, v)
    BY <1>3, PutAtPc
  <2>4. QED
    BY <1>7, <2>2, <2>3
<1>10. d1 = Put(Branched(c, c.pc + 4, c.gpr[GPR_CTR], t), GPR_TEMP, v)
  BY <1>3 DEF t
<1> HIDE DEF d1
<1>11. InterpretIntermediate(d1, y) = {e}
  <2>1. InterpretIntermediate(d1, y) =
          {IF d1.gpr[GPR_TEMP] # 0 THEN SetPC(d1, d1.gpr[GPR_LR]) ELSE d1}
    BY InterpretReturns
  <2> HIDE DEF y
  <2>2. CASE v # 0
    BY <1>8, <1>9, <2>1, <2>2
  <2>3. CASE v = 0
    BY <1>8, <1>10, <2>1, <2>3
  <2>4. QED
    BY <2>2, <2>3
<1>12. Arrives(i, c, p, c.gpr[GPR_CTR])
  <2>1. ~ Diverges(i, c) => BookTarget(i, c) = t
    <3>1. BookTarget(i, c) = (t \div 4) * 4
      BY DEF BookTarget, t
    <3>2. ~ Diverges(i, c) => t % 4 = 0
      BY DEF Diverges, t
    <3>3. QED
      BY <1>4, <3>1, <3>2, Aligned
  <2>2. CtrOf(i, c) = c.gpr[GPR_CTR] /\ (TakenOf(i, c) <=> CrBit(c, i.bi))
    BY BoMeaning DEF TakenOf, CtrOf
  <2>3. CrBit(c, i.bi) <=> v # 0
    <3>1. N - 1 - i.bi = 1
      BY Widths
    <3>2. 2 ^ 1 = 2
      OBVIOUS
    <3>3. QED
      BY <3>1, <3>2 DEF CrBit, v
  <2>4. QED
    BY <1>3, <1>4, <2>1, <2>2, <2>3 DEF Arrives
<1>13. Right(i, c, f)
  BY <1>2, <1>3, <1>12, RightBranched
<1>14. Right(i, c, e)
  <2> HIDE DEF f
  <2>1. QED BY <1>4, <1>13, RightScratch
<1> HIDE DEF e, x, y
<1>15. e \in CpuContexts
  BY <1>14 DEF Right
<1>16. Fine1(i, c, d1, y)
  BY <1>11, <1>14, <1>15, FineNext
<1>17. Fine2(i, c, d, x, y)
  BY <1>5, <1>8, <1>16, FineNext
<1>18. QED
  BY <1>1, <1>17, FineLists DEF d

LEMMA FineBclr ==
    ASSUME NEW i, NEW c, Given(i, c), i.op = "bclr"
    PROVE  FineAtFetch(i, c)
<1> USE DEF BuildIntermediateTable19
<1>1. BuildIntermediate(i, c.pc) = BuildIntermediateTable19(i, c.pc)
  BY DEF BuildIntermediate
<1>2. CASE i.bo = 20 /\ i.bi = 0 /\ ~ i.lk
  <2>1. BuildIntermediate(i, c.pc) = <<BranchGpr64(GPR_LR)>> /\ Link(i, c.pc) = <<>>
    BY <1>1, <1>2 DEF Link
  <2>2. BuildIntermediate(i, c.pc) = <<BranchGpr64(GPR_LR)>> \o Link(i, c.pc)
    BY <2>1
  <2>3. QED
    BY <1>2, <2>2, FineJump
<1>3. CASE i.bo = 12 /\ i.bi = N - 2 /\ ~ i.lk
  BY <1>3, FineBeqlr
<1>4. CASE ~ (i.bo = 20 /\ i.bi = 0 /\ ~ i.lk) /\ ~ (i.bo = 12 /\ i.bi = N - 2 /\ ~ i.lk)
  <2>1. BuildIntermediate(i, c.pc) = <<Unknown>>
    BY <1>1, <1>4
  <2>2. QED
    BY <2>1, FineLists
<1>5. QED
  BY <1>2, <1>3, <1>4

LEMMA FineBcctr ==
    ASSUME NEW i, NEW c, Given(i, c), i.op = "bcctr"
    PROVE  FineAtFetch(i, c)
<1> USE DEF BuildIntermediateTable19
<1> DEFINE l == LoadImm(GPR64(GPR_LR), c.pc + 4)
<1>1. BuildIntermediate(i, c.pc) = BuildIntermediateTable19(i, c.pc)
  BY DEF BuildIntermediate
<1>2. CASE i.bo = 20 /\ i.bi = 0 /\ i.lk
  <2>1. BuildIntermediate(i, c.pc) = <<BranchGpr64(GPR_CTR), l>> /\ Link(i, c.pc) = <<l>>
    BY <1>1, <1>2 DEF Link
  <2>2. BuildIntermediate(i, c.pc) = <<BranchGpr64(GPR_CTR)>> \o Link(i, c.pc)
    BY <2>1, Pair
  <2>3. QED
    BY <1>2, <2>2, FineJump
<1>3. CASE ~ (i.bo = 20 /\ i.bi = 0 /\ i.lk)
  <2>1. BuildIntermediate(i, c.pc) = <<Unknown>>
    BY <1>1, <1>3
  <2>2. QED
    BY <2>1, FineLists
<1>4. QED
  BY <1>2, <1>3

-----------------------------------------------------------------------------
(* Every instruction.                                                       *)
Translated ==
    {"add", "subf", "or", "andc", "addi", "addis", "ori", "oris", "xoris", "slw", "srawi",
     "subfic", "rlwinm", "rldicl", "rldicr", "rldic", "rldimi", "cmp", "cmpl", "cmpi", "cmpli",
     "crxor", "mfspr", "mtspr", "mfcr", "mtcrf", "mfmsr", "lwz", "ld", "ldu", "lwa", "lwbrx",
     "stb", "stw", "std", "stdu", "stwu", "b", "bc", "bclr", "bcctr"} \union NoEffects

LEMMA FineOther ==
    ASSUME NEW i, NEW c, i.op \notin Translated
    PROVE  FineAtFetch(i, c)
<1>1. BuildIntermediate(i, c.pc) = BuildIntermediateSpecial(i)
  BY DEF BuildIntermediate, Translated, NoEffects
<1>2. BuildIntermediateSpecial(i) = <<Unknown>>
  BY DEF BuildIntermediateSpecial, Translated, NoEffects
<1>3. QED
  BY <1>1, <1>2, FineLists

(* Each intermediate of a translation leaves a context, and the last one    *)
(* what the book says.                                                      *)
LEMMA FineTranslation ==
    ASSUME NEW i, NEW c, Given(i, c)
    PROVE  FineAtFetch(i, c)
<1>1. CASE i.op \in {"add", "subf", "or", "andc", "addi", "addis", "ori", "oris", "xoris"}
  BY <1>1, FineAdd, FineAddi, FineOri
<1>2. CASE i.op \in {"slw", "srawi", "subfic", "rlwinm"}
  BY <1>2, FineSlw, FineSrawi, FineSubfic, FineRlwinm
<1>3. CASE i.op \in {"rldicl", "rldicr", "rldic", "rldimi"}
  BY <1>3, FineRldic, FineRldimi
<1>4. CASE i.op \in {"cmp", "cmpl", "cmpi", "cmpli", "crxor"}
  BY <1>4, FineCompare, FineCrxor
<1>5. CASE i.op \in {"mfspr", "mtspr", "mfcr", "mtcrf", "mfmsr"} \union NoEffects
  BY <1>5, FineMfspr, FineMtspr, FineMoves, FineNoEffect
<1>6. CASE i.op \in {"lwz", "ld", "ldu", "lwa", "lwbrx"}
  BY <1>6, FineLwz, FineLd, FineLwbrx
<1>7. CASE i.op \in {"stb", "stw", "std", "stdu", "stwu"}
  BY <1>7, FineStb, FineStw, FineStd, FineStwu
<1>8. CASE i.op \in {"b", "bc", "bclr", "bcctr"}
  BY <1>8, FineB, FineBc, FineBclr, FineBcctr
<1>9. CASE i.op \notin Translated
  BY <1>9, FineOther
<1>10. QED
  BY <1>1, <1>2, <1>3, <1>4, <1>5, <1>6, <1>7, <1>8, <1>9 DEF Translated

-----------------------------------------------------------------------------
(* 6. TypeOK and MeetsBook.                                                *)

(* A step of what is fine leaves what is fine, or the end of it.            *)
LEMMA FineStep ==
    ASSUME NEW i, NEW c, NEW d, NEW s, Fine(i, c, d, s), ~ Fails(Head(s)),
           NEW e, e \in InterpretIntermediate(d, Head(s))
    PROVE  /\ e \in CpuContexts
           /\ IF Tail(s) = <<>> THEN Right(i, c, e) ELSE Fine(i, c, e, Tail(s))
           /\ Len(Tail(s)) <= 4 /\ (Len(s) = 1 <=> Tail(s) = <<>>)
<1> DEFINE t == Tail(s)
           n == Len(s)
           m == Len(t)
<1> SUFFICES /\ e \in CpuContexts /\ (t = <<>> => Right(i, c, e))
             /\ (t # <<>> => Fine(i, c, e, t)) /\ m <= 4 /\ (n = 1 <=> t = <<>>)
  OBVIOUS
<1>1. CASE \E x : s = <<x>> /\ Fine1(i, c, d, x)
  <2>1. PICK x : s = <<x>> /\ Fine1(i, c, d, x)
    BY <1>1
  <2>2. Head(s) = x /\ t = <<>> /\ n = 1 /\ m = 0
    BY <2>1, Lists
  <2>3. Right(i, c, e)
    BY <2>1, <2>2 DEF Fine1
  <2> HIDE DEF t, n, m
  <2>4. QED
    BY <2>2, <2>3 DEF Right
<1>2. CASE \E x, y : s = <<x, y>> /\ Fine2(i, c, d, x, y)
  <2>1. PICK x, y : s = <<x, y>> /\ Fine2(i, c, d, x, y)
    BY <1>2
  <2>2. Head(s) = x /\ t = <<y>> /\ n = 2 /\ m = 1 /\ t # <<>>
    BY <2>1, Lists
  <2>3. e \in CpuContexts /\ Fine1(i, c, e, y)
    BY <2>1, <2>2 DEF Fine2
  <2>4. Fine(i, c, e, <<y>>)
    BY <2>3 DEF Fine
  <2> HIDE DEF t, n, m
  <2>5. QED
    BY <2>2, <2>3, <2>4
<1>3. CASE \E x, y, z : s = <<x, y, z>> /\ Fine3(i, c, d, x, y, z)
  <2>1. PICK x, y, z : s = <<x, y, z>> /\ Fine3(i, c, d, x, y, z)
    BY <1>3
  <2>2. Head(s) = x /\ t = <<y, z>> /\ n = 3 /\ m = 2 /\ t # <<>>
    BY <2>1, Lists
  <2>3. e \in CpuContexts /\ Fine2(i, c, e, y, z)
    BY <2>1, <2>2 DEF Fine3
  <2>4. Fine(i, c, e, <<y, z>>)
    BY <2>3 DEF Fine
  <2> HIDE DEF t, n, m
  <2>5. QED
    BY <2>2, <2>3, <2>4
<1>4. CASE \E x, y, z, u : s = <<x, y, z, u>> /\ Fine4(i, c, d, x, y, z, u)
  <2>1. PICK x, y, z, u : s = <<x, y, z, u>> /\ Fine4(i, c, d, x, y, z, u)
    BY <1>4
  <2>2. Head(s) = x /\ t = <<y, z, u>> /\ n = 4 /\ m = 3 /\ t # <<>>
    BY <2>1, Lists
  <2>3. e \in CpuContexts /\ Fine3(i, c, e, y, z, u)
    BY <2>1, <2>2 DEF Fine4
  <2>4. Fine(i, c, e, <<y, z, u>>)
    BY <2>3 DEF Fine
  <2> HIDE DEF t, n, m
  <2>5. QED
    BY <2>2, <2>3, <2>4
<1>5. QED
  BY <1>1, <1>2, <1>3, <1>4 DEF Fine

LEMMA FineLength ==
    ASSUME NEW i, NEW c, NEW d, NEW s, Fine(i, c, d, s) PROVE s # <<>> /\ Len(s) <= 4
<1>1. \A x, y, z, u : /\ <<x>> # <<>> /\ <<x, y>> # <<>> /\ <<x, y, z>> # <<>> /\ <<x, y, z, u>> # <<>>
                      /\ Len(<<x>>) <= 4 /\ Len(<<x, y>>) <= 4 /\ Len(<<x, y, z>>) <= 4
                      /\ Len(<<x, y, z, u>>) <= 4
  BY Lists
<1>2. QED
  BY <1>1 DEF Fine

-----------------------------------------------------------------------------
(* The invariant.  The context has its widths, the end of an instruction is *)
(* right, and what is left of one leads to such an end.                     *)
Leads ==
    running => IF intermediates = <<>> THEN Executing => Right(instr, start, ctx)
                                       ELSE /\ Fine(instr, start, ctx, intermediates)
                                            /\ start.pc \in 0 .. D - 5

Budget == intermediates # <<>> => retired < MaxInstr

RunInv == BookInv /\ TypeOK /\ Budget /\ Leads

LEMMA RunInit == Init => RunInv
<1> SUFFICES ASSUME Init PROVE RunInv
  OBVIOUS
<1>1. BookInv
  BY DEF Init, BookInv, Harmless
<1>2. ctx \in CpuContexts
  BY ContextsAssumption DEF Init
<1>3. Len(intermediates) <= 4 /\ running \in BOOLEAN /\ retired \in 0 .. MaxInstr
  BY MaxInstrAssumption DEF Init
<1>4. Budget /\ Leads
  BY DEF Init, Budget, Leads, Executing
<1>5. QED
  BY <1>1, <1>2, <1>3, <1>4 DEF RunInv, TypeOK

LEMMA RunFetch == RunInv /\ Fetch => RunInv'
<1> SUFFICES ASSUME RunInv, Fetch PROVE RunInv'
  OBVIOUS
<1>1. BookInv'
  BY FetchStep DEF RunInv
<1>2. PICK i \in Instructions : /\ InMemory(i, ctx) /\ instr' = i
                                /\ intermediates' = BuildIntermediate(i, ctx.pc)
  BY DEF Fetch
<1>3. /\ running /\ running' = running /\ retired' = retired /\ retired < MaxInstr
      /\ ctx.pc \in 0 .. D - 5 /\ start' = ctx /\ ctx' = Stepped(ctx)
  BY DEF Fetch, Stepped
<1>4. ctx \in CpuContexts /\ running \in BOOLEAN /\ retired \in 0 .. MaxInstr
  BY DEF RunInv, TypeOK
<1>5. Given(i, ctx)
  BY <1>2, <1>3, <1>4, InstructionsAssumption DEF Given
<1>6. Fine(i, ctx, Stepped(ctx), BuildIntermediate(i, ctx.pc)) /\ Stepped(ctx) \in CpuContexts
  BY <1>5, FineTranslation, SteppedContext DEF FineAtFetch
<1>7. Fine(instr', start', ctx', intermediates')
  BY <1>2, <1>3, <1>6
<1>8. intermediates' # <<>> /\ Len(intermediates') <= 4
  BY <1>7, FineLength
<1>9. TypeOK'
  BY <1>3, <1>4, <1>6, <1>8 DEF TypeOK
<1>10. Budget' /\ Leads'
  BY <1>3, <1>7, <1>8 DEF Budget, Leads
<1>11. QED
  BY <1>1, <1>9, <1>10 DEF RunInv

LEMMA RunInterpret == RunInv /\ Interpret => RunInv'
<1> SUFFICES ASSUME RunInv, Interpret PROVE RunInv'
  OBVIOUS
<1> DEFINE s == intermediates
           h == Head(intermediates)
<1>1. BookInv'
  BY InterpretStep DEF RunInv
<1>2. /\ running /\ running' = running /\ start' = start /\ instr' = instr /\ s # <<>> /\ ~ Fails(h)
      /\ intermediates' = Tail(s) /\ ctx' \in InterpretIntermediate(ctx, h)
      /\ retired' = IF Len(s) = 1 THEN retired + 1 ELSE retired
  BY DEF Interpret
<1>3. Fine(instr, start, ctx, s) /\ start.pc \in 0 .. D - 5 /\ retired < MaxInstr
      /\ running \in BOOLEAN /\ retired \in 0 .. MaxInstr
  BY <1>2 DEF RunInv, Leads, Budget, TypeOK
<1>4. /\ ctx' \in CpuContexts
      /\ IF Tail(s) = <<>> THEN Right(instr, start, ctx') ELSE Fine(instr, start, ctx', Tail(s))
      /\ Len(Tail(s)) <= 4 /\ (Len(s) = 1 <=> Tail(s) = <<>>)
  BY <1>2, <1>3, FineStep
<1> HIDE DEF s, h
<1>5. retired' \in 0 .. MaxInstr /\ (Len(s) # 1 => retired' < MaxInstr)
  BY <1>2, <1>3, MaxInstrAssumption
<1>6. TypeOK'
  BY <1>2, <1>3, <1>4, <1>5 DEF TypeOK
<1>7. Budget'
  BY <1>2, <1>4, <1>5 DEF Budget
<1>8. Leads'
  BY <1>2, <1>3, <1>4 DEF Leads
<1>9. QED
  BY <1>1, <1>6, <1>7, <1>8 DEF RunInv

LEMMA RunFails == RunInv /\ InterpretFails => RunInv'
<1> SUFFICES ASSUME RunInv, InterpretFails PROVE RunInv'
  OBVIOUS
<1>1. BookInv'
  BY FailStep DEF RunInv
<1>2. /\ running /\ running' = FALSE /\ start' = start /\ intermediates # <<>>
      /\ Risky(Head(intermediates)) /\ ctx' = [ctx EXCEPT !.pc = ctx.pc - 4]
      /\ intermediates' = intermediates /\ retired' = retired
  BY DEF InterpretFails, Risky
<1>3. /\ ctx \in CpuContexts /\ retired \in 0 .. MaxInstr /\ Len(intermediates) <= 4
      /\ start.pc \in 0 .. D - 5 /\ Budget /\ BookInv
  BY <1>2 DEF RunInv, TypeOK, Leads
<1>4. Unseen
  <2>1. ~ Harmless(intermediates)
    BY <1>2, Lists DEF Harmless
  <2>2. QED
    BY <1>2, <1>3, <2>1 DEF BookInv
<1>5. ctx.pc = start.pc + 4
  <2> DEFINE t == [start EXCEPT !.pc = @ + 4]
  <2>1. DOMAIN t = DOMAIN start /\ ("pc" \in DOMAIN start => t["pc"] = start["pc"] + 4)
    OBVIOUS
  <2>2. "pc" \in DOMAIN ctx
    BY <1>3 DEF CpuContexts
  <2>3. Visible(ctx) = Visible(t)
    BY <1>4 DEF Unseen
  <2> HIDE DEF t
  <2>4. DOMAIN ctx = DOMAIN t /\ ctx["pc"] = t["pc"]
    BY <2>2, <2>3, FieldsSeen
  <2>5. QED
    BY <2>1, <2>2, <2>4
<1>6. ctx.pc - 4 \in Values
  <2>1. D \in Nat
    BY WordSizes
  <2>2. QED
    BY <1>3, <1>5, <2>1 DEF Values
<1>7. ctx' \in CpuContexts
  BY <1>2, <1>3, <1>6, ContextTypes
<1>8. TypeOK' /\ Budget' /\ Leads'
  BY <1>2, <1>3, <1>7 DEF TypeOK, Budget, Leads
<1>9. QED
  BY <1>1, <1>8 DEF RunInv

LEMMA RunStutters == RunInv /\ UNCHANGED vars => RunInv'
  BY DEF vars, RunInv, BookInv, Unseen, Undone, TypeOK, Budget, Leads, Executing

LEMMA InstructionsRun == Spec => []RunInv
<1>1. RunInv /\ [Next]_vars => RunInv'
  BY RunFetch, RunInterpret, RunFails, RunStutters DEF Next
<1>2. QED
  BY <1>1, RunInit, PTL DEF Spec

(* Every register, the memory and the pc keep values of their widths,       *)
(* through every intermediate the code makes of an instruction, failed or   *)
(* not, and a translation has four intermediates at most.                   *)
THEOREM TypeCorrect == Spec => []TypeOK
<1>1. RunInv => TypeOK
  BY DEF RunInv
<1>2. QED
  BY <1>1, InstructionsRun, PTL

(* Whatever the width of a word, the program, the contexts and the memory:  *)
(* the intermediates of an instruction, interpreted to the last, leave what *)
(* the architecture says, except where Diverges lists that they do not.     *)
THEOREM InstructionsMeetBook == Spec => []MeetsBook
<1>1. RunInv => MeetsBook
  BY DEF RunInv, Leads, MeetsBook, Completed, Right
<1>2. QED
  BY <1>1, InstructionsRun, PTL
=============================================================================
