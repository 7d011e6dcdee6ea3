--------------------------- MODULE Sh4aCpu_proofs ---------------------------
(***************************************************************************)
(* Proofs about Sh4aCpu, for every width of a word, every program and      *)
(* every contents of the registers: types, and that the interpreter is the *)
(* processor of Sh4aArch.                                                  *)
(***************************************************************************)
EXTENDS Sh4aCpu, FiniteSetTheorems, TLAPS

(* Words: the six widths, and the bits of SR.                               *)
LEMMA Sizes ==
    \/ B = 8 /\ Half = 64 /\ W = 4096
    \/ B = 16 /\ Half = 256 /\ W = 65536
    \/ B = 32 /\ Half = 1024 /\ W = 1048576
    \/ B = 64 /\ Half = 4096 /\ W = 16777216
    \/ B = 128 /\ Half = 16384 /\ W = 268435456
    \/ B = 256 /\ Half = 65536 /\ W = 4294967296
  BY BAssumption DEF Half, W

LEMMA WordMod == \A x \in Int : x % W \in Words
  BY Sizes DEF Words

LEMMA WordsAreInts == Words \subseteq Int
  BY DEF Words

LEMMA SmallWords == 0 .. 65 \subseteq Words
  BY Sizes DEF Words

LEMMA BitsOfSR ==
    ASSUME NEW x \in Int
    PROVE  T(x) \in {0, 1} /\ RB(x) \in {0, 1} /\ MD(x) \in {0, 1}
  BY Sizes DEF T, RB, MD

LEMMA TBit ==
    ASSUME NEW x \in Words, NEW t \in {0, 1}
    PROVE  /\ WithT(x, t) \in Words
           /\ RB(WithT(x, t)) = RB(x) /\ MD(WithT(x, t)) = MD(x)
           /\ Reserved(WithT(x, t)) <=> Reserved(x)
  <1>1. PICK h \in Nat, b \in {0, 1} : x = 2 * h + b
    <2>1. x \div 2 \in Nat /\ x % 2 \in {0, 1} /\ x = 2 * (x \div 2) + (x % 2)
      BY DEF Words
    <2> QED
      BY <2>1
  <1>2. T(x) = b /\ WithT(x, t) = 2 * h + t
    BY <1>1 DEF T, WithT
  <1>3. WithT(x, t) \in Words
    BY <1>1, <1>2, Sizes DEF Words
  <1>4. RB(WithT(x, t)) = RB(x)
    BY <1>1, <1>2, Sizes DEF RB
  <1>5. MD(WithT(x, t)) = MD(x)
    BY <1>1, <1>2, Sizes DEF MD
  <1>6. Reserved(WithT(x, t)) <=> Reserved(x)
    BY <1>1, <1>2, Sizes DEF Reserved
  <1> QED
    BY <1>3, <1>4, <1>5, <1>6

LEMMA AndInt ==
    ASSUME NEW x \in Int, NEW y \in Int
    PROVE  And(x, y) \in Int /\ Or(x, y) \in Int /\ Xor(x, y) \in Int
  <1> DEFINE IsHalf(k) == \A a \in Int : a \div k \in Int /\ a % k \in Int
  <1>0. IsHalf(2) /\ IsHalf(4) /\ IsHalf(16) /\ IsHalf(256) /\ IsHalf(65536)
    OBVIOUS
  <1>1. \A a, b \in Int : And1(a, b) \in Int
    BY DEF And1
  <1>2. \A a, b \in Int : And2(a, b) \in Int
    <2> SUFFICES ASSUME NEW a \in Int, NEW b \in Int PROVE And2(a, b) \in Int
      OBVIOUS
    <2>1. And1(a \div 2, b \div 2) \in Int /\ And1(a % 2, b % 2) \in Int
      BY <1>0, <1>1
    <2> QED
      BY <2>1 DEF And2
  <1>3. \A a, b \in Int : And4(a, b) \in Int
    <2> SUFFICES ASSUME NEW a \in Int, NEW b \in Int PROVE And4(a, b) \in Int
      OBVIOUS
    <2>1. And2(a \div 4, b \div 4) \in Int /\ And2(a % 4, b % 4) \in Int
      BY <1>0, <1>2
    <2> QED
      BY <2>1 DEF And4
  <1>4. \A a, b \in Int : And8(a, b) \in Int
    <2> SUFFICES ASSUME NEW a \in Int, NEW b \in Int PROVE And8(a, b) \in Int
      OBVIOUS
    <2>1. And4(a \div 16, b \div 16) \in Int /\ And4(a % 16, b % 16) \in Int
      BY <1>0, <1>3
    <2> QED
      BY <2>1 DEF And8
  <1>5. \A a, b \in Int : And16(a, b) \in Int
    <2> SUFFICES ASSUME NEW a \in Int, NEW b \in Int PROVE And16(a, b) \in Int
      OBVIOUS
    <2>1. And8(a \div 256, b \div 256) \in Int /\ And8(a % 256, b % 256) \in Int
      BY <1>0, <1>4
    <2> QED
      BY <2>1 DEF And16
  <1>6. And(x, y) \in Int
    <2>1. /\ And16(x \div 65536, y \div 65536) \in Int
          /\ And16(x % 65536, y % 65536) \in Int
      BY <1>0, <1>5
    <2> QED
      BY <2>1 DEF And
  <1> QED
    BY <1>6 DEF Or, Xor

LEMMA PowerOfTwo == \A n \in Nat : 2 ^ n \in Nat
  <1> SUFFICES ASSUME NEW n \in Nat PROVE 2 ^ n \in Nat
    OBVIOUS
  <1>1. IsFiniteSet(1 .. n) /\ Cardinality(1 .. n) = n
    BY FS_Interval
  <1>2. IsFiniteSet(SUBSET (1 .. n)) /\ Cardinality(SUBSET (1 .. n)) = 2 ^ Cardinality(1 .. n)
    BY <1>1, FS_SUBSET
  <1>3. Cardinality(SUBSET (1 .. n)) \in Nat
    BY <1>2, FS_CardinalityType
  <1> QED
    BY <1>1, <1>2, <1>3

LEMMA BitsOfWord == WordBits \in 12 .. 32
  <1>1. /\ 2 ^ 12 = 4096 /\ 2 ^ 16 = 65536 /\ 2 ^ 20 = 1048576
        /\ 2 ^ 24 = 16777216 /\ 2 ^ 28 = 268435456 /\ 2 ^ 32 = 4294967296
    OBVIOUS
  <1>2. \E n \in 12 .. 32 : 2 ^ n = W
    BY <1>1, Sizes
  <1> QED
    BY <1>2 DEF WordBits

LEMMA ByteRange == ASSUME NEW x \in Int, NEW k \in 0 .. 3 PROVE Byte(x, k) \in 0 .. B - 1
  <1>1. <<1, B, Half, Half * B>>[k + 1] \in Nat \ {0}
    BY Sizes
  <1>2. \A d \in Nat \ {0} : (x \div d) % B \in 0 .. B - 1
    <2> SUFFICES ASSUME NEW d \in Nat \ {0} PROVE (x \div d) % B \in 0 .. B - 1
      OBVIOUS
    <2>1. x \div d \in Int
      OBVIOUS
    <2> QED
      BY <2>1, Sizes
  <1> QED
    BY <1>1, <1>2 DEF Byte

(* What an operation computes is a word and a bit.                          *)
IsResult(result) == result.value \in Words /\ result.t \in {0, 1}

LEMMA ResultType ==
    ASSUME NEW v \in Int, NEW t \in {0, 1} PROVE IsResult(Result(v, t))
  BY WordMod DEF IsResult, Result

LEMMA BitType == \A c : Bit(c) \in {0, 1}
  BY DEF Bit

LEMMA SignedInt == \A x \in Int : Signed(x) \in Int
  <1>1. W \div 2 \in Int /\ W \in Int
    BY Sizes
  <1> QED
    BY <1>1 DEF Signed

LEMMA Divided ==
    ASSUME NEW x \in Int
    PROVE  /\ x \div 2 \in Int /\ x % 2 \in {0, 1} /\ x \div 4 \in Int
           /\ x \div B \in Int /\ x % B \in Int /\ x \div Half \in Int /\ x % Half \in Int
           /\ x \div W \in Int /\ W \div 2 \in Int
           /\ W \in Int /\ B \in Int /\ Half \in Int
  BY Sizes

LEMMA Alu2Type ==
    ASSUME NEW i, i.op \in Ops2, NEW x \in Words, NEW y \in Words, NEW t \in {0, 1}
    PROVE  IsResult(Alu2(i, x, y, t))
  <1>1. x \in Int /\ y \in Int
    BY WordsAreInts
  <1>2. And(x, y) \in Int /\ Or(x, y) \in Int /\ Xor(x, y) \in Int
    BY <1>1, AndInt
  <1>3. /\ IsResult(Result(x, Bit(And(x, y) = 0))) /\ IsResult(Result(And(x, y), t))
        /\ IsResult(Result(Xor(x, y), t)) /\ IsResult(Result(Or(x, y), t))
    BY <1>1, <1>2, BitType, ResultType
  <1> QED
    BY <1>3 DEF Alu2, Ops2

LEMMA Alu3Type ==
    ASSUME NEW i, i.op \in Ops3, NEW x \in Words, NEW y \in Words, NEW t \in {0, 1}
    PROVE  IsResult(Alu3(i, x, y, t))
  <1>1. x \in Int /\ x - y \in Int /\ x + y \in Int
    BY WordsAreInts
  <1>2. \A c : IsResult(Result(x, Bit(c)))
    BY <1>1, BitType, ResultType
  <1>3. IsResult(Result(x - y, t)) /\ IsResult(Result(x + y, t))
    BY <1>1, ResultType
  <1> QED
    BY <1>2, <1>3 DEF Alu3, Ops3

LEMMA Alu4Type ==
    ASSUME NEW i, i.op \in Ops4, NEW x \in Words, NEW y \in Words, NEW t \in {0, 1}
    PROVE  IsResult(Alu4(i, x, y, t))
  <1>1. x \in Int /\ x - 1 \in Int
    BY WordsAreInts
  <1>2. (W \div 2) * Bit(x >= W \div 2) \in Int
    <2>1. W \div 2 \in Int /\ Bit(x >= W \div 2) \in Int
      BY Sizes, BitType
    <2> QED
      BY <2>1
  <1>3. (W \div 2) * (x % 2) \in Int
    BY <1>1, Divided
  <1>4. /\ x \div 2 \in Int /\ x \div 4 \in Int /\ x % 2 \in {0, 1}
        /\ (x \div 2) + (W \div 2) * Bit(x >= W \div 2) \in Int
        /\ (x \div 2) + (W \div 2) * (x % 2) \in Int
    BY <1>1, <1>2, <1>3, Divided
  <1>5. /\ IsResult(Result(x - 1, Bit(x = 1))) /\ IsResult(Result(x \div 2, x % 2))
        /\ IsResult(Result((x \div 2) + (W \div 2) * Bit(x >= W \div 2), x % 2))
        /\ IsResult(Result((x \div 2) + (W \div 2) * (x % 2), x % 2))
        /\ IsResult(Result(x \div 4, t))
    BY <1>1, <1>4, BitType, ResultType
  <1> QED
    BY <1>5 DEF Alu4, Ops4

LEMMA ShiftLeftType ==
    ASSUME NEW i, i.op \in OpsShiftLeft, NEW x \in Words, NEW y \in Words, NEW t \in {0, 1}
    PROVE  IsResult(ShiftLeft(i, x, y, t))
  <1>1. x \in Int /\ y \in Int
    BY WordsAreInts
  <1>2. y % WordBits \in Nat
    BY <1>1, BitsOfWord
  <1>3. 2 ^ (y % WordBits) \in Int
    BY <1>2, PowerOfTwo
  <1>4. /\ 4 * x \in Int /\ B * x \in Int /\ Half * x \in Int
        /\ x * 2 ^ (y % WordBits) \in Int
    BY <1>1, <1>3, Divided
  <1>5. /\ IsResult(Result(4 * x, t)) /\ IsResult(Result(B * x, t))
        /\ IsResult(Result(Half * x, t)) /\ IsResult(Result(x * 2 ^ (y % WordBits), t))
    BY <1>4, ResultType
  <1> QED
    BY <1>5 DEF ShiftLeft, OpsShiftLeft

LEMMA Alu6Type ==
    ASSUME NEW i, i.op \in Ops6, NEW x \in Words, NEW y \in Words, NEW t \in {0, 1}
    PROVE  IsResult(Alu6(i, x, y, t))
  <1>1. y \in Int /\ W - 1 - y \in Int /\ 0 - y \in Int /\ y % B \in Int
    BY WordsAreInts, Divided
  <1>2. (y - (y % Half)) + (y % B) * B + ((y % Half) \div B) \in Int
    BY <1>1, Divided
  <1>3. (y % Half) * Half + (y \div Half) \in Int
    BY <1>1, Divided
  <1>4. IsResult(Negc(y, t))
    <2> DEFINE temp == Signed((0 - y) % W)
               rn == (temp - t) % W
    <2>1. (0 - y) % W \in Int
      BY <1>1, WordMod, WordsAreInts
    <2>2. temp - t \in Int
      BY <2>1, SignedInt
    <2>3. rn \in Int
      BY <2>2, WordMod, WordsAreInts
    <2>4. IsResult(Result(rn, Bit(0 < temp \/ temp < Signed(rn))))
      BY <2>3, BitType, ResultType
    <2> QED
      BY <2>4 DEF Negc
  <1>5. /\ IsResult(Result(y, t)) /\ IsResult(Result(W - 1 - y, t)) /\ IsResult(Result(0 - y, t))
        /\ IsResult(Result((y - (y % Half)) + (y % B) * B + ((y % Half) \div B), t))
        /\ IsResult(Result((y % Half) * Half + (y \div Half), t))
        /\ IsResult(Result(y % B, t))
    BY <1>1, <1>2, <1>3, ResultType
  <1> QED
    BY <1>4, <1>5 DEF Alu6, Ops6

LEMMA AluImmediateType ==
    ASSUME NEW i \in Instructions, i.op \in OpsImmediate,
           NEW x \in Words, NEW t \in {0, 1}, NEW at \in Words
    PROVE  IsResult(AluImmediate(i, x, t, at))
  <1>1. /\ i.d \in Int /\ x \in Int /\ x + i.d \in Int
        /\ at + 4 + 4 * i.d \in Int
    <2>1. i.d \in Int /\ x \in Int /\ at \in Int
      BY WordsAreInts DEF Instructions
    <2> QED
      BY <2>1
  <1>2. And(x, i.d) \in Int /\ Or(x, i.d) \in Int /\ Xor(x, i.d) \in Int
    BY <1>1, AndInt
  <1>3. /\ IsResult(Result(x + i.d, t)) /\ IsResult(Result(i.d, t))
        /\ IsResult(Result(at + 4 + 4 * i.d, t))
        /\ IsResult(Result(x, Bit(And(x, i.d) = 0)))
        /\ IsResult(Result(Xor(x, i.d), t)) /\ IsResult(Result(Or(x, i.d), t))
    BY <1>1, <1>2, BitType, ResultType
  <1> QED
    BY <1>3 DEF AluImmediate, OpsImmediate

LEMMA AluType ==
    ASSUME NEW i \in Instructions, i.op \in AluOps,
           NEW r \in [Regs -> Words], NEW t \in {0, 1}, NEW at \in Words
    PROVE  IsResult(Alu(i, r, t, at))
  <1>1. r[i.n] \in Words /\ r[i.m] \in Words
    BY DEF Instructions
  <1>2. CASE i.op \in Ops2
    <2>1. Alu(i, r, t, at) = Alu2(i, r[i.n], r[i.m], t)
      BY <1>2 DEF Alu, Ops2, Ops3, Ops4, OpsShiftLeft, Ops6, OpsImmediate
    <2> QED
      BY <1>1, <1>2, <2>1, Alu2Type
  <1>3. CASE i.op \in Ops3
    <2>1. Alu(i, r, t, at) = Alu3(i, r[i.n], r[i.m], t)
      BY <1>3 DEF Alu, Ops2, Ops3, Ops4, OpsShiftLeft, Ops6, OpsImmediate
    <2> QED
      BY <1>1, <1>3, <2>1, Alu3Type
  <1>4. CASE i.op \in Ops4
    <2>1. Alu(i, r, t, at) = Alu4(i, r[i.n], r[i.m], t)
      BY <1>4 DEF Alu, Ops2, Ops3, Ops4, OpsShiftLeft, Ops6, OpsImmediate
    <2> QED
      BY <1>1, <1>4, <2>1, Alu4Type
  <1>5. CASE i.op \in OpsShiftLeft
    <2>1. Alu(i, r, t, at) = ShiftLeft(i, r[i.n], r[i.m], t)
      BY <1>5 DEF Alu, Ops2, Ops3, Ops4, OpsShiftLeft, Ops6, OpsImmediate
    <2> QED
      BY <1>1, <1>5, <2>1, ShiftLeftType
  <1>6. CASE i.op \in Ops6
    <2>1. Alu(i, r, t, at) = Alu6(i, r[i.n], r[i.m], t)
      BY <1>6 DEF Alu, Ops2, Ops3, Ops4, OpsShiftLeft, Ops6, OpsImmediate
    <2> QED
      BY <1>1, <1>6, <2>1, Alu6Type
  <1>7. CASE i.op \in OpsImmediate
    <2>1. Alu(i, r, t, at) = AluImmediate(i, r[i.n], t, at)
      BY <1>7 DEF Alu, Ops2, Ops3, Ops4, OpsShiftLeft, Ops6, OpsImmediate
    <2> QED
      BY <1>1, <1>7, <2>1, AluImmediateType
  <1> QED
    BY <1>2, <1>3, <1>4, <1>5, <1>6, <1>7 DEF AluOps

-----------------------------------------------------------------------------
(* Addresses and memory.                                                    *)
Memory == [0 .. MemBytes - 1 -> 0 .. B - 1]
Queues == [0 .. 15 -> Words]
Control == [expevt : Words, qacr0 : Words, qacr1 : Words]

LEMMA InRam ==
    ASSUME NEW a \in Int, NEW size \in {1, 2, 4, 8}, IsRam(a, size)
    PROVE  \A k \in 0 .. size - 1 : Phys(a) + k \in 0 .. MemBytes - 1
  <1>1. Phys(a) \in Nat
    BY Sizes DEF Phys
  <1> QED
    BY <1>1, MemAssumption DEF IsRam

LEMMA NextWord ==
    ASSUME NEW a \in Int, IsRam(a, 8)
    PROVE  \A k \in 0 .. 1 : IsRam(a + 4 * k, 4)
  <1>1. a \in Words /\ Nibble(a) \in 8 .. 11 /\ Phys(a) + 8 <= MemBytes /\ MemBytes \in 0 .. 64
    BY MemAssumption DEF IsRam, IsPhysical
  <1>2. PICK q \in {4, 5} : a = (W \div 8) * q + Phys(a)
    <2>1. a = (W \div 8) * (a \div (W \div 8)) + Phys(a)
      BY Sizes DEF Phys
    <2>2. 8 * (W \div 16) <= a /\ a < 12 * (W \div 16)
      BY <1>1, Sizes DEF Nibble
    <2>3. a \div (W \div 8) \in {4, 5}
      BY <2>2, Sizes
    <2> QED
      BY <2>1, <2>3
  <1>3. Phys(a) \in 0 .. 56
    BY <1>1, Sizes DEF Phys, Words
  <1>4. a + 4 \in Words /\ Nibble(a + 4) \in 8 .. 11
    BY <1>2, <1>3, Sizes DEF Nibble, Words
  <1>5. Phys(a + 4) = Phys(a) + 4
    <2>1. \A p \in 0 .. 56 : ((W \div 8) * q + (p + 4)) % (W \div 8) = p + 4
      BY <1>2, Sizes
    <2>2. a + 4 = (W \div 8) * q + (Phys(a) + 4)
      BY <1>2, <1>3, Sizes
    <2> QED
      BY <1>3, <2>1, <2>2 DEF Phys
  <1>6. IsRam(a, 4) /\ IsRam(a + 4, 4)
    BY <1>1, <1>3, <1>4, <1>5 DEF IsRam, IsPhysical
  <1>7. a + 4 * 0 = a /\ a + 4 * 1 = a + 4
    OBVIOUS
  <1> QED
    BY <1>6, <1>7

LEMMA FourBytes ==
    ASSUME NEW b0 \in 0 .. B - 1, NEW b1 \in 0 .. B - 1, NEW b2 \in 0 .. B - 1, NEW b3 \in 0 .. B - 1
    PROVE  b0 + B * b1 + Half * (b2 + B * b3) \in Words
  BY Sizes DEF Words

LEMMA BytesType ==
    ASSUME NEW m \in Memory, NEW a \in Int, NEW size \in {1, 2, 4}, IsRam(a, size)
    PROVE  Bytes(m, a, size) \in Words
  <1> DEFINE byte(k) == IF k < size THEN m[Phys(a) + k] ELSE 0
  <1>1. \A k \in 0 .. 3 : byte(k) \in 0 .. B - 1
    <2>1. \A k \in 0 .. size - 1 : m[Phys(a) + k] \in 0 .. B - 1
      BY InRam DEF Memory
    <2>2. 0 \in 0 .. B - 1
      BY Sizes
    <2> QED
      BY <2>1, <2>2
  <1>2. Bytes(m, a, size) = byte(0) + B * byte(1) + Half * (byte(2) + B * byte(3))
    BY DEF Bytes
  <1> HIDE DEF byte
  <1> QED
    BY <1>1, <1>2, FourBytes

LEMMA WithBytesType ==
    ASSUME NEW m \in Memory, NEW a \in Int, NEW size \in {1, 2, 4}, NEW x \in Int
    PROVE  WithBytes(m, a, size, x) \in Memory
  <1>1. Phys(a) \in Nat
    BY Sizes DEF Phys
  <1>2. \A k \in 0 .. MemBytes - 1 :
            k \in Phys(a) .. Phys(a) + size - 1 => Byte(x, k - Phys(a)) \in 0 .. B - 1
    <2> SUFFICES ASSUME NEW k \in 0 .. MemBytes - 1, k \in Phys(a) .. Phys(a) + size - 1
                 PROVE  Byte(x, k - Phys(a)) \in 0 .. B - 1
      OBVIOUS
    <2>1. k - Phys(a) \in 0 .. 3
      BY <1>1, MemAssumption
    <2> QED
      BY <2>1, ByteRange
  <1> QED
    BY <1>2 DEF WithBytes, Memory

LEMMA ReadableType ==
    ASSUME NEW m \in Memory, NEW q \in Queues, NEW c \in Control,
           NEW a \in Int, NEW size \in {2, 4}
    PROVE  Readable(a, size, m, q, c) \subseteq Words
  <1>1. IsRam(a, size) => Bytes(m, a, size) \in Words
    BY BytesType
  <1>2. Half - 1 \in Words
    BY Sizes DEF Words
  <1>3. q[QueueIndex(a)] \in Words
    <2>1. QueueIndex(a) \in 0 .. 15
      BY DEF QueueIndex
    <2> QED
      BY <2>1 DEF Queues
  <1>4. c.expevt \in Words
    BY DEF Control
  <1>5. P4Read(a, size, q, c) \subseteq Words
    <2>1. P4Read16(a) \subseteq Words /\ P4Read32(a, q, c) \subseteq Words
      BY <1>2, <1>3, <1>4 DEF P4Read16, P4Read32
    <2>2. P4Read(a, size, q, c) \in {P4Read16(a), P4Read32(a, q, c)}
      BY DEF P4Read
    <2> QED
      BY <2>1, <2>2
  <1>6. IsRam(a, size) => ~IsP4(a)
    BY Sizes DEF IsRam, IsPhysical, IsP4, Nibble, Words
  <1> QED
    BY <1>1, <1>5, <1>6 DEF Readable

LEMMA P4QueueType ==
    ASSUME NEW q \in Queues, NEW a \in Int, NEW size, NEW x \in Words
    PROVE  P4Queue(a, size, x, q) \in Queues
  <1>1. QueueIndex(a) \in 0 .. 15
    BY DEF QueueIndex
  <1> QED
    BY <1>1 DEF P4Queue, Queues

LEMMA P4ControlType ==
    ASSUME NEW c \in Control, NEW a \in Int, NEW size, NEW x \in Words
    PROVE  P4Control(a, size, x, c) \in Control
  <1> DEFINE masked == ((x \div 4) % 8) * 4
  <1>1. masked \in Words
    BY Sizes DEF Words
  <1>2. [c EXCEPT !.qacr0 = masked] \in Control /\ [c EXCEPT !.qacr1 = masked] \in Control
    BY <1>1 DEF Control
  <1>3. QACR0 # QACR1
    BY Sizes DEF QACR0, QACR1, ControlBase
  <1> HIDE DEF masked
  <1> QED
    BY <1>2, <1>3 DEF P4Control, masked
-----------------------------------------------------------------------------
(* Loads, stores and branches.                                              *)
LEMMA LoadType ==
    ASSUME NEW i \in Instructions, i.op \in LoadOps, NEW r \in [Regs -> Words], NEW at \in Words
    PROVE  LoadAddr(i, r, at) \in Int /\ LoadSize(i) \in {2, 4}
  <1>1. r[i.n] \in Words /\ r[i.m] \in Words /\ r[0] \in Words /\ i.d \in Int
    BY DEF Instructions, Regs, Banked
  <1>2. /\ r[i.m] \in Int /\ r[i.m] + 4 * i.d \in Int /\ r[i.m] + 2 * i.d \in Int
        /\ r[0] + r[i.m] \in Int /\ at + 4 * i.d + 4 \in Int /\ at + 2 * i.d + 4 \in Int
    <2>1. r[i.m] \in Int /\ r[0] \in Int /\ at \in Int
      BY <1>1, WordsAreInts
    <2> QED
      BY <1>1, <2>1
  <1>3. /\ (r[i.m] + 4 * i.d) % W \in Int /\ (r[i.m] + 2 * i.d) % W \in Int
        /\ (r[0] + r[i.m]) % W \in Int /\ (at + 4 * i.d + 4) % W \in Int
        /\ (at + 2 * i.d + 4) % W \in Int
    BY <1>2, WordMod, WordsAreInts
  <1>4. ((at + 4 * i.d + 4) % W) - (((at + 4 * i.d + 4) % W) % 4) \in Int
    BY <1>3
  <1>5. LoadAddr(i, r, at) \in Int
    BY <1>2, <1>3, <1>4 DEF LoadAddr, LoadOps
  <1> QED
    BY <1>5 DEF LoadSize

LEMMA LoadedType ==
    ASSUME NEW i \in Instructions, i.op \in LoadOps, NEW r \in [Regs -> Words], NEW x \in Words
    PROVE  Loaded(i, r, x) \in [Regs -> Words]
  <1>1. LoadValue(i, x) \in Words
    <2>1. x \in Int /\ x - Half \in Int
      BY WordsAreInts, Sizes
    <2> QED
      BY <2>1, WordMod DEF LoadValue, SignExtend
  <1> DEFINE written == [r EXCEPT ![IF i.op = "mov.w @(disp,rm)" THEN 0 ELSE i.n] = LoadValue(i, x)]
  <1>2. written \in [Regs -> Words]
    BY <1>1
  <1> HIDE DEF written
  <1>3. i.m \in Regs /\ (written[i.m] + LoadSize(i)) % W \in Words
    <2>1. i.m \in Regs
      BY DEF Instructions
    <2>2. written[i.m] + LoadSize(i) \in Int
      <3>1. written[i.m] \in Int
        BY <1>2, <2>1, WordsAreInts
      <3>2. LoadSize(i) \in Int
        BY DEF LoadSize
      <3> QED
        BY <3>1, <3>2
    <2> QED
      BY <2>1, <2>2, WordMod
  <1> QED
    BY <1>2, <1>3 DEF Loaded, written

LEMMA StoreType ==
    ASSUME NEW i \in Instructions, i.op \in StoreOps, NEW r \in [Regs -> Words],
           NEW c \in [CtlRegs -> Words], NEW f \in [0 .. 1 -> Words]
    PROVE  /\ StoreAddr(i, r) \in Int /\ StoreSize(i) \in {1, 2, 4}
           /\ StoreValue(i, r, c, f) \in Words
           /\ Stored(i, r) \in [Regs -> Words]
  <1>1. /\ i.n \in Regs /\ r[i.n] \in Words /\ r[i.m] \in Words /\ r[0] \in Words
        /\ i.d \in Int
    BY DEF Instructions, Regs, Banked
  <1>2. StoreSize(i) \in {1, 2, 4}
    BY DEF StoreSize
  <1>3. /\ r[i.n] \in Int /\ r[i.n] - StoreSize(i) \in Int /\ r[i.n] + 4 * i.d \in Int
        /\ r[i.n] + 2 * i.d \in Int /\ r[0] + r[i.n] \in Int
    <2>1. r[i.n] \in Int /\ r[0] \in Int
      BY <1>1, WordsAreInts
    <2>2. StoreSize(i) \in Int
      BY <1>2
    <2> QED
      BY <1>1, <2>1, <2>2
  <1>4. /\ (r[i.n] + 4 * i.d) % W \in Int /\ (r[i.n] + 2 * i.d) % W \in Int
        /\ (r[0] + r[i.n]) % W \in Int
    BY <1>3, WordMod, WordsAreInts
  <1>5. StoreAddr(i, r) \in Int
    BY <1>3, <1>4 DEF StoreAddr, Predecrement
  <1>6. StoreValue(i, r, c, f) \in Words
    <2>1. i.op = "sts.l @-rn" => c[i.c] \in Words
      BY DEF Instructions
    <2>2. i.op \in {"fmov.s @rn", "fmov.s @-rn"} => f[i.m] \in Words
      BY DEF Instructions
    <2> QED
      BY <1>1, <2>1, <2>2 DEF StoreValue
  <1>7. Stored(i, r) \in [Regs -> Words]
    <2>1. (r[i.n] - StoreSize(i)) % W \in Words
      BY <1>3, WordMod
    <2> QED
      BY <1>1, <2>1 DEF Stored
  <1> QED
    BY <1>2, <1>5, <1>6, <1>7

LEMMA TargetType ==
    ASSUME NEW i \in Instructions, i.op \in BranchOps, NEW r \in [Regs -> Words],
           NEW pr \in Words, NEW at \in Words
    PROVE  Target(i, r, pr, at) \in Words
  <1>1. r[i.n] \in Words /\ i.d \in Int
    BY DEF Instructions
  <1>2. /\ r[i.n] + at + 4 \in Int /\ at + 4 + 2 * i.d \in Int
        /\ at + 4 + 2 * (i.d % B) \in Int
    <2>1. r[i.n] \in Int /\ at \in Int /\ i.d % B \in Int
      BY <1>1, WordsAreInts, Divided
    <2> QED
      BY <1>1, <2>1
  <1>3. /\ (r[i.n] + at + 4) % W \in Words /\ (at + 4 + 2 * i.d) % W \in Words
        /\ (at + 4 + 2 * (i.d % B)) % W \in Words
    BY <1>2, WordMod
  <1> QED
    BY <1>1, <1>3 DEF Target, BranchOps, DelayedOps

-----------------------------------------------------------------------------
(* The inductive invariant: types, and the program is the one loaded.       *)
IInv == TypeOK /\ code \in Programs

LEMMA AtInstruction ==
    ASSUME IInv, InCode(pc) PROVE Opcode \in Instructions
  <1>1. code \in Seq(Instructions)
    BY ProgramsAssumption DEF IInv
  <1>2. PICK k \in 0 .. Len(code) - 1 : Phys(pc) = CodePhys + 2 * k
    BY DEF InCode
  <1>3. CodePhys \in Int
    BY Sizes DEF CodePhys
  <1>4. (Phys(pc) - CodePhys) \div 2 = k
    BY <1>2, <1>3
  <1> QED
    BY <1>1, <1>4 DEF Opcode

LEMMA FetchType ==
    ASSUME IInv, NEW ops, Fetch(ops)
    PROVE  /\ executed' \in 0 .. MaxInstr /\ code' = code /\ Opcode \in Instructions
           /\ Opcode.op \in ops
  BY AtInstruction, MaxInstrAssumption DEF Fetch, IInv, TypeOK

LEMMA Incremented == \A at \in Words : (at + 2) % W \in Words /\ (at + 4) % W \in Words
  <1> SUFFICES ASSUME NEW at \in Words PROVE (at + 2) % W \in Words /\ (at + 4) % W \in Words
    OBVIOUS
  <1>1. at + 2 \in Int /\ at + 4 \in Int
    BY WordsAreInts
  <1> QED
    BY <1>1, WordMod

TurnTypes ==
    /\ pc \in Words /\ delayTarget \in Words
    /\ delayState \in {"NO_DELAY", "EXITING_DELAY"}
    /\ status \in {"running", "stopped", "quit"}

LEMMA EndTurnType ==
    ASSUME IInv, NEW at \in Words, NEW delay, NEW target \in Words, EndTurn(at, delay, target)
    PROVE  TurnTypes'
  BY Incremented DEF EndTurn, IInv, TypeOK, TurnTypes

LEMMA GoOnType == ASSUME IInv, GoOn PROVE TurnTypes'
  BY EndTurnType DEF GoOn, IInv, TypeOK

LEMMA SameType == IInv /\ UNCHANGED vars => IInv'
  BY DEF IInv, TypeOK, vars

LEMMA InitType == Init => IInv
  <1> SUFFICES ASSUME Init PROVE IInv
    OBVIOUS
  <1>1. gpr \in [Regs -> Words]
    BY InitRegsAssumption DEF Init
  <1>2. gpr_bank \in [Banked -> Words]
    BY SmallWords DEF Init, Banked
  <1>3. sr \in Words /\ MD(sr) = 1 /\ ~Reserved(sr)
    <2> DEFINE start == W \div 4 + W \div 8
    <2>1. start \in Words
      BY Sizes DEF Words
    <2>2. MD(start) = 1
      BY Sizes DEF MD
    <2>3. ~Reserved(start)
      BY Sizes DEF Reserved
    <2>4. sr = start
      BY DEF Init
    <2> HIDE DEF start
    <2> QED
      BY <2>1, <2>2, <2>3, <2>4
  <1>4. ctl \in [CtlRegs -> Words]
    <2>1. W \div 2 + CodePhys + 4 \in Words /\ Half \in Words
      BY Sizes DEF Words, CodePhys
    <2>2. 0 \in Words /\ 5 \in Words
      BY SmallWords
    <2> QED
      BY <2>1, <2>2 DEF Init
  <1>5. fpr \in [0 .. 1 -> Words] /\ xpr \in [0 .. 1 -> Words]
    <2>1. \A k \in 0 .. 1 : 0 \in Words /\ k + 2 \in Words
      BY SmallWords
    <2> QED
      BY <2>1 DEF Init
  <1>6. mem \in Memory
    <2>1. \A k \in 0 .. MemBytes - 1 : (5 * k + 6) % B \in 0 .. B - 1
      BY Sizes
    <2> QED
      BY <2>1 DEF Init, Memory
  <1>7. sq \in Queues /\ ccn \in Control
    BY SmallWords DEF Init, Queues, Control
  <1>8. TurnTypes
    <2>1. 10 * (W \div 16) + CodePhys \in Words
      BY Sizes DEF Words, CodePhys
    <2>2. pc = 10 * (W \div 16) + CodePhys /\ delayState = "NO_DELAY"
          /\ delayTarget = 0 /\ status = "running"
      BY DEF Init
    <2> QED
      BY <2>1, <2>2, SmallWords DEF TurnTypes
  <1>9. executed \in 0 .. MaxInstr /\ code \in Programs
    BY MaxInstrAssumption DEF Init
  <1> QED
    BY <1>1, <1>2, <1>3, <1>4, <1>5, <1>6, <1>7, <1>8, <1>9
    DEF IInv, TypeOK, Memory, Queues, Control, TurnTypes

LEMMA AluInv == IInv /\ ExecuteAlu => IInv'
  <1> SUFFICES ASSUME IInv, ExecuteAlu PROVE IInv'
    OBVIOUS
  <1> DEFINE result == Alu(Opcode, gpr, T(sr), pc)
  <1>1. /\ executed' \in 0 .. MaxInstr /\ code' = code
        /\ Opcode \in Instructions /\ Opcode.op \in AluOps
    BY FetchType DEF ExecuteAlu
  <1>2. TurnTypes'
    BY GoOnType DEF ExecuteAlu
  <1>3. IsResult(result)
    <2>1. T(sr) \in {0, 1}
      BY BitsOfSR, WordsAreInts DEF IInv, TypeOK
    <2> QED
      BY <1>1, <2>1, AluType DEF IInv, TypeOK
  <1>4. gpr' = [gpr EXCEPT ![Opcode.n] = result.value] /\ sr' = WithT(sr, result.t)
    BY DEF ExecuteAlu
  <1> HIDE DEF result
  <1>5. gpr' \in [Regs -> Words]
    BY <1>3, <1>4 DEF IInv, TypeOK, IsResult
  <1>6. sr' \in Words /\ MD(sr') = 1 /\ ~Reserved(sr')
    BY <1>3, <1>4, TBit DEF IInv, TypeOK, IsResult
  <1>7. UNCHANGED <<gpr_bank, ctl, fpr, xpr, mem, sq, ccn>>
    BY DEF ExecuteAlu
  <1> QED
    BY <1>1, <1>2, <1>5, <1>6, <1>7 DEF IInv, TypeOK, TurnTypes

LEMMA LoadInv == IInv /\ ExecuteLoad => IInv'
  <1> SUFFICES ASSUME IInv, ExecuteLoad PROVE IInv'
    OBVIOUS
  <1>1. /\ executed' \in 0 .. MaxInstr /\ code' = code
        /\ Opcode \in Instructions /\ Opcode.op \in LoadOps
    BY FetchType DEF ExecuteLoad
  <1>2. TurnTypes'
    BY GoOnType DEF ExecuteLoad
  <1>3. PICK x \in Readable(LoadAddr(Opcode, gpr, pc), LoadSize(Opcode), mem, sq, ccn) :
            gpr' = Loaded(Opcode, gpr, x)
    BY DEF ExecuteLoad
  <1>4. x \in Words
    <2>1. LoadAddr(Opcode, gpr, pc) \in Int /\ LoadSize(Opcode) \in {2, 4}
      BY <1>1, LoadType DEF IInv, TypeOK
    <2>2. mem \in Memory /\ sq \in Queues /\ ccn \in Control
      BY DEF IInv, TypeOK, Memory, Queues, Control
    <2> QED
      BY <1>3, <2>1, <2>2, ReadableType
  <1>5. gpr' \in [Regs -> Words]
    BY <1>1, <1>3, <1>4, LoadedType DEF IInv, TypeOK
  <1>6. UNCHANGED <<gpr_bank, sr, ctl, fpr, xpr, mem, sq, ccn>>
    BY DEF ExecuteLoad
  <1> QED
    BY <1>1, <1>2, <1>5, <1>6 DEF IInv, TypeOK, TurnTypes

LEMMA StoreInv == IInv /\ ExecuteStore => IInv'
  <1> SUFFICES ASSUME IInv, ExecuteStore PROVE IInv'
    OBVIOUS
  <1> DEFINE a == StoreAddr(Opcode, gpr)
             size == StoreSize(Opcode)
             x == StoreValue(Opcode, gpr, ctl, fpr)
  <1>1. /\ executed' \in 0 .. MaxInstr /\ code' = code
        /\ Opcode \in Instructions /\ Opcode.op \in StoreOps
    BY FetchType DEF ExecuteStore
  <1>2. TurnTypes'
    BY GoOnType DEF ExecuteStore
  <1>3. /\ mem' = IF IsRam(a, size) THEN WithBytes(mem, a, size, x) ELSE mem
        /\ sq' = P4Queue(a, size, x, sq)
        /\ ccn' = P4Control(a, size, x, ccn)
        /\ gpr' = Stored(Opcode, gpr)
    BY DEF ExecuteStore
  <1>4. a \in Int /\ size \in {1, 2, 4} /\ x \in Words /\ gpr' \in [Regs -> Words]
    BY <1>1, <1>3, StoreType DEF IInv, TypeOK
  <1> HIDE DEF a, size, x
  <1>5. mem' \in Memory
    <2>1. mem \in Memory
      BY DEF IInv, TypeOK, Memory
    <2>2. x \in Int
      BY <1>4, WordsAreInts
    <2> QED
      BY <1>3, <1>4, <2>1, <2>2, WithBytesType
  <1>6. sq' \in Queues
    BY <1>3, <1>4, P4QueueType DEF IInv, TypeOK, Queues
  <1>7. ccn' \in Control
    BY <1>3, <1>4, P4ControlType DEF IInv, TypeOK, Control
  <1>8. UNCHANGED <<gpr_bank, sr, ctl, fpr, xpr>>
    BY DEF ExecuteStore
  <1> QED
    BY <1>1, <1>2, <1>4, <1>5, <1>6, <1>7, <1>8
    DEF IInv, TypeOK, TurnTypes, Memory, Queues, Control

LEMMA RegisterAt ==
    ASSUME IInv, NEW i \in Instructions
    PROVE  i.n \in Regs /\ i.m \in Regs /\ gpr[i.n] \in Words /\ gpr[i.m] \in Words
  BY DEF IInv, TypeOK, Instructions

LEMMA Advanced ==
    ASSUME IInv, NEW r \in Regs
    PROVE  /\ [gpr EXCEPT ![r] = (@ + 4) % W] \in [Regs -> Words]
           /\ [gpr EXCEPT ![r] = (@ + 8) % W] \in [Regs -> Words]
  <1>1. gpr[r] \in Int
    BY WordsAreInts DEF IInv, TypeOK
  <1>2. gpr[r] + 4 \in Int /\ gpr[r] + 8 \in Int
    BY <1>1
  <1>3. (gpr[r] + 4) % W \in Words /\ (gpr[r] + 8) % W \in Words
    BY <1>2, WordMod
  <1> QED
    BY <1>3 DEF IInv, TypeOK

LEMMA LoadedControl ==
    ASSUME IInv, NEW i \in Instructions, NEW x \in Readable(gpr[i.n], 4, mem, sq, ccn)
    PROVE  x \in Words
  <1>1. gpr[i.n] \in Int
    BY RegisterAt, WordsAreInts
  <1>2. mem \in Memory /\ sq \in Queues /\ ccn \in Control
    BY DEF IInv, TypeOK, Memory, Queues, Control
  <1> QED
    BY <1>1, <1>2, ReadableType

LEMMA LoadControlInv == IInv /\ LoadControl => IInv'
  <1> SUFFICES ASSUME IInv, LoadControl PROVE IInv'
    OBVIOUS
  <1>1. executed' \in 0 .. MaxInstr /\ code' = code /\ Opcode \in Instructions
    BY FetchType DEF LoadControl
  <1>2. TurnTypes'
    BY GoOnType DEF LoadControl
  <1>3. PICK x \in Readable(gpr[Opcode.n], 4, mem, sq, ccn) :
            ctl' = [ctl EXCEPT ![LdsDestination(Opcode.c)] = x]
    BY DEF LoadControl
  <1>4. ctl' \in [CtlRegs -> Words]
    BY <1>1, <1>3, LoadedControl DEF IInv, TypeOK
  <1>5. gpr' \in [Regs -> Words]
    BY <1>1, Advanced, RegisterAt DEF LoadControl
  <1>6. UNCHANGED <<gpr_bank, sr, fpr, xpr, mem, sq, ccn>>
    BY DEF LoadControl
  <1> QED
    BY <1>1, <1>2, <1>4, <1>5, <1>6 DEF IInv, TypeOK, TurnTypes

LEMMA LoadSRInv == IInv /\ LoadSR => IInv'
  <1> SUFFICES ASSUME IInv, LoadSR PROVE IInv'
    OBVIOUS
  <1>1. executed' \in 0 .. MaxInstr /\ code' = code /\ Opcode \in Instructions
    BY FetchType DEF LoadSR
  <1>2. TurnTypes'
    BY GoOnType DEF LoadSR
  <1> DEFINE switch(x) == RB(x) # RB(sr)
             low(x) == IF switch(x) THEN gpr_bank ELSE [k \in Banked |-> gpr[k]]
             set(x) == [k \in Regs |-> IF k \in Banked THEN low(x)[k] ELSE gpr[k]]
  <1>3. PICK x \in Readable(gpr[Opcode.n], 4, mem, sq, ccn) :
            /\ ValidSR(x) /\ sr' = x
            /\ gpr' = [set(x) EXCEPT ![Opcode.n] = (@ + 4) % W]
            /\ gpr_bank' = IF switch(x) THEN [k \in Banked |-> gpr[k]] ELSE gpr_bank
    BY DEF LoadSR
  <1>4. sr' \in Words /\ MD(sr') = 1 /\ ~Reserved(sr')
    BY <1>1, <1>3, LoadedControl DEF ValidSR
  <1>5. [k \in Banked |-> gpr[k]] \in [Banked -> Words] /\ gpr_bank \in [Banked -> Words]
    BY DEF IInv, TypeOK, Regs
  <1>6. gpr_bank' \in [Banked -> Words]
    BY <1>3, <1>5
  <1>7. set(x) \in [Regs -> Words]
    <2>1. low(x) \in [Banked -> Words]
      BY <1>5
    <2>2. gpr \in [Regs -> Words]
      BY DEF IInv, TypeOK
    <2> HIDE DEF low
    <2> QED
      BY <2>1, <2>2
  <1> HIDE DEF set
  <1>8. gpr' \in [Regs -> Words]
    <2>1. Opcode.n \in Regs
      BY <1>1, RegisterAt
    <2>2. set(x)[Opcode.n] + 4 \in Int
      <3>1. set(x)[Opcode.n] \in Int
        BY <1>7, <2>1, WordsAreInts
      <3> QED
        BY <3>1
    <2>3. (set(x)[Opcode.n] + 4) % W \in Words
      BY <2>2, WordMod
    <2> QED
      BY <1>3, <1>7, <2>1, <2>3
  <1>9. UNCHANGED <<ctl, fpr, xpr, mem, sq, ccn>>
    BY DEF LoadSR
  <1> QED
    BY <1>1, <1>2, <1>4, <1>6, <1>8, <1>9 DEF IInv, TypeOK, TurnTypes

LEMMA MoveSRInv == IInv /\ MoveSR => IInv'
  <1> SUFFICES ASSUME IInv, MoveSR PROVE IInv'
    OBVIOUS
  <1>1. executed' \in 0 .. MaxInstr /\ code' = code /\ Opcode \in Instructions
    BY FetchType DEF MoveSR
  <1>2. TurnTypes'
    BY GoOnType DEF MoveSR
  <1>3. gpr[Opcode.n] \in Words
    BY <1>1, RegisterAt
  <1>4. sr' \in Words /\ MD(sr') = 1 /\ ~Reserved(sr')
    BY <1>3 DEF MoveSR, SetSR, ValidSR
  <1>5. gpr \in [Regs -> Words] /\ gpr_bank \in [Banked -> Words]
    BY DEF IInv, TypeOK
  <1>6. gpr' \in [Regs -> Words] /\ gpr_bank' \in [Banked -> Words]
    BY <1>5 DEF MoveSR, SetSR, Regs
  <1>7. UNCHANGED <<ctl, fpr, xpr, mem, sq, ccn>>
    BY DEF MoveSR
  <1> QED
    BY <1>1, <1>2, <1>4, <1>6, <1>7 DEF IInv, TypeOK, TurnTypes

LEMMA MoveControlInv == IInv /\ MoveControl => IInv'
  <1> SUFFICES ASSUME IInv, MoveControl PROVE IInv'
    OBVIOUS
  <1>1. /\ executed' \in 0 .. MaxInstr /\ code' = code /\ Opcode \in Instructions
        /\ Opcode.op \in {"stc sr", "sts", "lds", "mulu.w"}
    BY FetchType DEF MoveControl
  <1>2. TurnTypes'
    BY GoOnType DEF MoveControl
  <1>3. gpr[Opcode.n] \in Words /\ gpr[Opcode.m] \in Words
    BY <1>1, RegisterAt
  <1>4. Opcode.op \in {"lds", "sts"} => Opcode.c \in CtlRegs
    BY <1>1 DEF Instructions
  <1>5. gpr' \in [Regs -> Words]
    <2>1. Opcode.op = "sts" => ctl[Opcode.c] \in Words
      BY <1>4 DEF IInv, TypeOK
    <2> QED
      BY <1>1, <2>1 DEF MoveControl, IInv, TypeOK
  <1>6. ctl' \in [CtlRegs -> Words]
    <2>1. ((gpr[Opcode.n] % Half) * (gpr[Opcode.m] % Half)) % W \in Words
      <3>1. gpr[Opcode.n] % Half \in Int /\ gpr[Opcode.m] % Half \in Int
        BY <1>3, WordsAreInts, Divided
      <3>2. (gpr[Opcode.n] % Half) * (gpr[Opcode.m] % Half) \in Int
        BY <3>1
      <3> QED
        BY <3>2, WordMod
    <2> QED
      BY <1>1, <1>3, <1>4, <2>1 DEF MoveControl, IInv, TypeOK
  <1>7. UNCHANGED <<gpr_bank, sr, fpr, xpr, mem, sq, ccn>>
    BY DEF MoveControl
  <1> QED
    BY <1>1, <1>2, <1>5, <1>6, <1>7 DEF IInv, TypeOK, TurnTypes

LEMMA FloatLoadInv == IInv /\ FloatLoad => IInv'
  <1> SUFFICES ASSUME IInv, FloatLoad PROVE IInv'
    OBVIOUS
  <1>1. executed' \in 0 .. MaxInstr /\ code' = code /\ Opcode \in Instructions
    BY FetchType DEF FloatLoad
  <1>2. TurnTypes'
    BY GoOnType DEF FloatLoad
  <1>3. gpr' \in [Regs -> Words]
    BY <1>1, RegisterAt, Advanced DEF FloatLoad
  <1>4. \A k \in 0 .. 1 : Bytes(mem, gpr[Opcode.m] + 4 * k, 4) \in Words
    <2> SUFFICES ASSUME NEW k \in 0 .. 1 PROVE Bytes(mem, gpr[Opcode.m] + 4 * k, 4) \in Words
      OBVIOUS
    <2>1. gpr[Opcode.m] \in Int /\ IsRam(gpr[Opcode.m], 8) /\ mem \in Memory
      BY <1>1, RegisterAt, WordsAreInts DEF FloatLoad, IInv, TypeOK, Memory
    <2>2. IsRam(gpr[Opcode.m] + 4 * k, 4)
      BY <2>1, NextWord
    <2>3. gpr[Opcode.m] + 4 * k \in Int
      BY <2>1
    <2> QED
      BY <2>1, <2>2, <2>3, BytesType
  <1>5. fpr' \in [0 .. 1 -> Words]
    BY <1>4 DEF FloatLoad
  <1>6. UNCHANGED <<gpr_bank, sr, ctl, xpr, mem, sq, ccn>>
    BY DEF FloatLoad
  <1> QED
    BY <1>1, <1>2, <1>3, <1>5, <1>6 DEF IInv, TypeOK, TurnTypes

LEMMA FloatSwapInv == IInv /\ FloatSwap => IInv'
  <1> SUFFICES ASSUME IInv, FloatSwap PROVE IInv'
    OBVIOUS
  <1>1. executed' \in 0 .. MaxInstr /\ code' = code
    BY FetchType DEF FloatSwap
  <1>2. TurnTypes'
    BY GoOnType DEF FloatSwap
  <1>3. fpr' = xpr /\ xpr' = fpr /\ UNCHANGED <<gpr, gpr_bank, sr, ctl, mem, sq, ccn>>
    BY DEF FloatSwap
  <1> QED
    BY <1>1, <1>2, <1>3 DEF IInv, TypeOK, TurnTypes

LEMMA IdleInv == IInv /\ Idle => IInv'
  <1> SUFFICES ASSUME IInv, Idle PROVE IInv'
    OBVIOUS
  <1>1. executed' \in 0 .. MaxInstr /\ code' = code
    BY FetchType DEF Idle
  <1>2. TurnTypes'
    BY GoOnType DEF Idle
  <1>3. UNCHANGED <<gpr, gpr_bank, sr, ctl, fpr, xpr, mem, sq, ccn>>
    BY DEF Idle
  <1> QED
    BY <1>1, <1>2, <1>3 DEF IInv, TypeOK, TurnTypes

LEMMA BranchInv == IInv /\ ExecuteBranch => IInv'
  <1> SUFFICES ASSUME IInv, ExecuteBranch PROVE IInv'
    OBVIOUS
  <1> DEFINE target == Target(Opcode, gpr, ctl["pr"], pc)
  <1>1. /\ executed' \in 0 .. MaxInstr /\ code' = code
        /\ Opcode \in Instructions /\ Opcode.op \in BranchOps
    BY FetchType DEF ExecuteBranch
  <1>2. target \in Words
    <2>1. ctl["pr"] \in Words /\ gpr \in [Regs -> Words] /\ pc \in Words
      BY DEF IInv, TypeOK, CtlRegs
    <2> QED
      BY <1>1, <2>1, TargetType
  <1>3. (target - 2) % W \in Words
    <2>1. target \in Int
      BY <1>2, WordsAreInts
    <2>2. target - 2 \in Int
      BY <2>1
    <2> QED
      BY <2>2, WordMod
  <1>4. \/ GoOn
        \/ EndTurn(pc, "ENTERING_DELAY", target)
        \/ EndTurn((target - 2) % W, delayState, delayTarget)
    BY DEF ExecuteBranch
  <1> HIDE DEF target
  <1>5. TurnTypes'
    BY <1>2, <1>3, <1>4, GoOnType, EndTurnType DEF IInv, TypeOK
  <1>6. ctl' \in [CtlRegs -> Words]
    <2>1. ReturnAddress \in Words
      BY Incremented DEF ReturnAddress, IInv, TypeOK
    <2> QED
      BY <2>1 DEF ExecuteBranch, IInv, TypeOK
  <1>7. UNCHANGED <<gpr, gpr_bank, sr, fpr, xpr, mem, sq, ccn>>
    BY DEF ExecuteBranch
  <1> QED
    BY <1>1, <1>5, <1>6, <1>7 DEF IInv, TypeOK, TurnTypes

LEMMA EndInv == IInv /\ (Stop \/ Quit) => IInv'
  <1> SUFFICES ASSUME IInv, Stop \/ Quit PROVE IInv'
    OBVIOUS
  <1>1. executed' \in 0 .. MaxInstr /\ code' = code
    BY FetchType DEF Stop, Quit
  <1>2. /\ status' \in {"stopped", "quit"}
        /\ UNCHANGED <<gpr, gpr_bank, sr, ctl, fpr, xpr, mem, sq, ccn, pc, delayState, delayTarget>>
    BY DEF Stop, Quit
  <1> QED
    BY <1>1, <1>2 DEF IInv, TypeOK

LEMMA InductiveInvariant == Spec => []IInv
  <1>1. IInv /\ [Next]_vars => IInv'
    BY AluInv, LoadInv, StoreInv, LoadControlInv, LoadSRInv, MoveSRInv, MoveControlInv,
       FloatLoadInv, FloatSwapInv, IdleInv, BranchInv, EndInv, SameType DEF Next
  <1> QED
    BY <1>1, InitType, PTL DEF Spec

(* Whatever the program, registers, memory and the P4 registers stay in     *)
(* range, the processor stays privileged, and no turn ends before the delay *)
(* of its branch has been entered (Sh4aCpu::Execute, SetSR, OnPageFault).    *)
THEOREM TypeCorrect == Spec => []TypeOK
  <1>1. IInv => TypeOK
    BY DEF IInv
  <1> QED
    BY <1>1, InductiveInvariant, PTL

-----------------------------------------------------------------------------
(* The refinement.  Sh4aArch has the vocabulary of Sh4aOps.                 *)
LEMMA SameConstants ==
    /\ Arch!W = W /\ Arch!Half = Half /\ Arch!Words = Words
    /\ Arch!Banked = Banked /\ Arch!Unbanked = Unbanked /\ Arch!Regs = Regs
    /\ Arch!AluOps = AluOps /\ Arch!LoadOps = LoadOps /\ Arch!StoreOps = StoreOps
    /\ Arch!BranchOps = BranchOps /\ Arch!DelayedOps = DelayedOps
  BY DEF Arch!W, W, Arch!Half, Half, Arch!Words, Words, Arch!Banked, Banked, Arch!Unbanked, Unbanked,
         Arch!Regs, Regs, Arch!AluOps, AluOps, Arch!Ops2, Ops2, Arch!Ops3, Ops3, Arch!Ops4, Ops4,
         Arch!OpsShiftLeft, OpsShiftLeft, Arch!Ops6, Ops6, Arch!OpsImmediate, OpsImmediate,
         Arch!LoadOps, LoadOps, Arch!StoreOps, StoreOps, Arch!BranchOps, BranchOps,
         Arch!DelayedOps, DelayedOps

LEMMA SameBits ==
    /\ \A x : Arch!T(x) = T(x) /\ Arch!RB(x) = RB(x)
    /\ \A x, t : Arch!WithT(x, t) = WithT(x, t)
    /\ \A a : Arch!InCode(a) <=> InCode(a)
    /\ Arch!InCode(pc) => Arch!CodeAt(pc) = Opcode
  BY DEF Arch!T, T, Arch!RB, RB, Arch!WithT, WithT, Arch!W, W, Arch!InCode, InCode,
         Arch!IsPhysical, IsPhysical, Arch!Words, Words, Arch!Nibble, Nibble, Arch!Phys, Phys,
         Arch!CodePhys, CodePhys, Arch!CodeAt, Opcode

LEMMA SameAlu ==
    \A i, r, t, at : i.op \in AluOps => Arch!Alu(i, r, t, at) = Alu(i, r, t, at)
  <1>1. \A x, y : Arch!And(x, y) = And(x, y) /\ Arch!Or(x, y) = Or(x, y) /\ Arch!Xor(x, y) = Xor(x, y)
    BY DEF Arch!And, And, Arch!And1, And1, Arch!And2, And2, Arch!And4, And4, Arch!And8, And8,
           Arch!And16, And16, Arch!Or, Or, Arch!Xor, Xor
  <1>2. /\ \A v, t : Arch!Result(v, t) = Result(v, t)
        /\ \A c : Arch!Bit(c) = Bit(c)
        /\ \A x : Arch!Signed(x) = Signed(x)
        /\ Arch!WordBits = WordBits /\ Arch!W = W /\ Arch!Half = Half
    BY DEF Arch!Result, Result, Arch!Bit, Bit, Arch!Signed, Signed, Arch!WordBits, WordBits,
           Arch!W, W, Arch!Half, Half
  <1>3. \A i, x, y, t : Arch!Alu2(i, x, y, t) = Alu2(i, x, y, t)
    BY <1>1, <1>2 DEF Arch!Alu2, Alu2
  <1>4. \A i, x, y, t : Arch!Alu3(i, x, y, t) = Alu3(i, x, y, t)
    BY <1>1, <1>2 DEF Arch!Alu3, Alu3
  <1>5. \A i, x, y, t : Arch!Alu4(i, x, y, t) = Alu4(i, x, y, t)
    BY <1>1, <1>2 DEF Arch!Alu4, Alu4
  <1>6. \A i, x, y, t : Arch!ShiftLeft(i, x, y, t) = ShiftLeft(i, x, y, t)
    BY <1>1, <1>2 DEF Arch!ShiftLeft, ShiftLeft
  <1>7. \A i, x, y, t : Arch!Alu6(i, x, y, t) = Alu6(i, x, y, t)
    <2>1. \A y, t : Arch!Negc(y, t) = Negc(y, t)
      BY <1>2 DEF Arch!Negc, Negc
    <2> QED
      BY <1>2, <2>1 DEF Arch!Alu6, Alu6
  <1>8. \A i, x, t, at : Arch!AluImmediate(i, x, t, at) = AluImmediate(i, x, t, at)
    BY <1>1, <1>2 DEF Arch!AluImmediate, AluImmediate
  <1>9. /\ Arch!Ops2 = Ops2 /\ Arch!Ops3 = Ops3 /\ Arch!Ops4 = Ops4 /\ Arch!Ops6 = Ops6
        /\ Arch!OpsShiftLeft = OpsShiftLeft /\ Arch!OpsImmediate = OpsImmediate
    BY DEF Arch!Ops2, Ops2, Arch!Ops3, Ops3, Arch!Ops4, Ops4, Arch!OpsShiftLeft, OpsShiftLeft,
           Arch!Ops6, Ops6, Arch!OpsImmediate, OpsImmediate
  <1> QED
    <2> SUFFICES ASSUME NEW i, NEW r, NEW t, NEW at, i.op \in AluOps
                 PROVE  Arch!Alu(i, r, t, at) = Alu(i, r, t, at)
      OBVIOUS
    <2>1. /\ Arch!Alu2(i, r[i.n], r[i.m], t) = Alu2(i, r[i.n], r[i.m], t)
          /\ Arch!Alu3(i, r[i.n], r[i.m], t) = Alu3(i, r[i.n], r[i.m], t)
          /\ Arch!Alu4(i, r[i.n], r[i.m], t) = Alu4(i, r[i.n], r[i.m], t)
          /\ Arch!ShiftLeft(i, r[i.n], r[i.m], t) = ShiftLeft(i, r[i.n], r[i.m], t)
          /\ Arch!Alu6(i, r[i.n], r[i.m], t) = Alu6(i, r[i.n], r[i.m], t)
          /\ Arch!AluImmediate(i, r[i.n], t, at) = AluImmediate(i, r[i.n], t, at)
      BY <1>3, <1>4, <1>5, <1>6, <1>7, <1>8
    <2>2. /\ i.op \in Ops2 \/ i.op \in Ops3 \/ i.op \in Ops4 \/ i.op \in OpsShiftLeft
             \/ i.op \in Ops6 \/ i.op \in OpsImmediate
      BY DEF AluOps
    <2> QED
      BY <2>1, <2>2, <1>9 DEF Arch!Alu, Alu

LEMMA SameMemory ==
    /\ \A a, size : (Arch!IsRam(a, size) <=> IsRam(a, size))
    /\ \A m, a, size : Arch!Bytes(m, a, size) = Bytes(m, a, size)
    /\ \A m, a, size, x : Arch!WithBytes(m, a, size, x) = WithBytes(m, a, size, x)
    /\ \A a, size, m, q, c : Arch!Readable(a, size, m, q, c) = Readable(a, size, m, q, c)
    /\ \A a, size, x, q : Arch!P4Queue(a, size, x, q) = P4Queue(a, size, x, q)
    /\ \A a, size, x, c : Arch!P4Control(a, size, x, c) = P4Control(a, size, x, c)
  <1>1. /\ \A a : Arch!Nibble(a) = Nibble(a) /\ Arch!Phys(a) = Phys(a)
        /\ \A a : (Arch!IsPhysical(a) <=> IsPhysical(a)) /\ (Arch!IsP4(a) <=> IsP4(a))
        /\ \A a : (Arch!IsQueue(a) <=> IsQueue(a)) /\ Arch!QueueIndex(a) = QueueIndex(a)
        /\ Arch!W = W /\ Arch!Half = Half
    BY DEF Arch!Nibble, Nibble, Arch!Phys, Phys, Arch!IsPhysical, IsPhysical, Arch!IsP4, IsP4,
           Arch!IsQueue, IsQueue, Arch!QueueIndex, QueueIndex, Arch!W, W, Arch!Words, Words,
           Arch!Half, Half
  <1>2. \A a, size : (Arch!IsRam(a, size) <=> IsRam(a, size))
    BY <1>1 DEF Arch!IsRam, IsRam
  <1>3. \A m, a, size : Arch!Bytes(m, a, size) = Bytes(m, a, size)
    BY <1>1 DEF Arch!Bytes, Bytes
  <1>4. \A m, a, size, x : Arch!WithBytes(m, a, size, x) = WithBytes(m, a, size, x)
    <2>1. \A x, k : Arch!Byte(x, k) = Byte(x, k)
      BY <1>1 DEF Arch!Byte, Byte
    <2> QED
      BY <1>1, <2>1 DEF Arch!WithBytes, WithBytes
  <1>5. /\ Arch!EXPEVT = EXPEVT /\ Arch!QACR0 = QACR0 /\ Arch!QACR1 = QACR1 /\ Arch!RFCR = RFCR
    BY <1>1 DEF Arch!EXPEVT, EXPEVT, Arch!QACR0, QACR0, Arch!QACR1, QACR1, Arch!RFCR, RFCR,
                Arch!ControlBase, ControlBase
  <1>6. \A a, size, q, c : Arch!P4Read(a, size, q, c) = P4Read(a, size, q, c)
    BY <1>1, <1>5 DEF Arch!P4Read, P4Read, Arch!P4Read16, P4Read16, Arch!P4Read32, P4Read32
  <1>7. \A a, size, m, q, c : Arch!Readable(a, size, m, q, c) = Readable(a, size, m, q, c)
    BY <1>1, <1>2, <1>3, <1>6 DEF Arch!Readable, Readable
  <1>8. \A a, size, x, q : Arch!P4Queue(a, size, x, q) = P4Queue(a, size, x, q)
    BY <1>1 DEF Arch!P4Queue, P4Queue
  <1>9. \A a, size, x, c : Arch!P4Control(a, size, x, c) = P4Control(a, size, x, c)
    BY <1>5 DEF Arch!P4Control, P4Control
  <1> QED
    BY <1>2, <1>3, <1>4, <1>7, <1>8, <1>9

LEMMA SameAccesses ==
    /\ \A i, r, at : Arch!LoadAddr(i, r, at) = LoadAddr(i, r, at)
    /\ \A i : Arch!LoadSize(i) = LoadSize(i) /\ Arch!StoreSize(i) = StoreSize(i)
    /\ \A i, r, x : Arch!Loaded(i, r, x) = Loaded(i, r, x)
    /\ \A i, r : Arch!StoreAddr(i, r) = StoreAddr(i, r) /\ Arch!Stored(i, r) = Stored(i, r)
    /\ \A i, r, c, f : Arch!StoreValue(i, r, c, f) = StoreValue(i, r, c, f)
    /\ \A x : Arch!DoubleSize(x) <=> DoubleSize(x)
  <1>1. /\ Arch!W = W /\ Arch!Half = Half /\ Arch!Predecrement = Predecrement
        /\ \A i : Arch!LoadSize(i) = LoadSize(i) /\ Arch!StoreSize(i) = StoreSize(i)
        /\ \A x : Arch!DoubleSize(x) <=> DoubleSize(x)
    BY DEF Arch!W, W, Arch!Half, Half, Arch!LoadSize, LoadSize, Arch!StoreSize, StoreSize,
           Arch!Predecrement, Predecrement, Arch!DoubleSize, DoubleSize
  <1>2. \A i, r, at : Arch!LoadAddr(i, r, at) = LoadAddr(i, r, at)
    BY <1>1 DEF Arch!LoadAddr, LoadAddr
  <1>4. \A i, r, x : Arch!Loaded(i, r, x) = Loaded(i, r, x)
    BY DEF Arch!Loaded, Loaded, Arch!LoadValue, LoadValue, Arch!SignExtend, SignExtend,
           Arch!LoadSize, LoadSize, Arch!W, W, Arch!Half, Half
  <1>5. \A i, r : Arch!StoreAddr(i, r) = StoreAddr(i, r) /\ Arch!Stored(i, r) = Stored(i, r)
    BY <1>1 DEF Arch!StoreAddr, StoreAddr, Arch!Stored, Stored
  <1>6. \A i, r, c, f : Arch!StoreValue(i, r, c, f) = StoreValue(i, r, c, f)
    BY DEF Arch!StoreValue, StoreValue
  <1> QED
    BY <1>1, <1>2, <1>4, <1>5, <1>6

LEMMA SameBranches ==
    /\ \A i, r, pr, at : Arch!Target(i, r, pr, at) = Target(i, r, pr, at)
    /\ \A i, t : Arch!Taken(i, t) <=> Taken(i, t)
  BY DEF Arch!Target, Target, Arch!Taken, Taken, Arch!W, W

(* The registers instructions name are those of the selected bank, and both *)
(* a write of them and an exchange of the banks are what Sh4aArch says.     *)
LEMMA Selected ==
    ASSUME IInv
    PROVE  /\ RB(sr) \in 0 .. 1 /\ gpr \in [Regs -> Words] /\ gpr_bank \in [Banked -> Words]
           /\ RB(sr') \in {0, 1} => RB(sr') \in 0 .. 1
  <1>1. sr \in Int
    BY WordsAreInts DEF IInv, TypeOK
  <1>2. RB(sr) \in {0, 1}
    BY <1>1, BitsOfSR
  <1> QED
    BY <1>2 DEF IInv, TypeOK

LEMMA RegIsGpr == ASSUME IInv PROVE Arch!Reg = gpr
  <1>1. Arch!Regs = Regs /\ Arch!Banked = Banked /\ Arch!RB(sr) = RB(sr)
    BY SameConstants, SameBits
  <1>2. Arch!Reg = [r \in Regs |-> IF r \in Banked THEN archBank[RB(sr)][r] ELSE archHigh[r]]
    BY <1>1 DEF Arch!Reg
  <1>3. archBank[RB(sr)] = [k \in Banked |-> gpr[k]]
    BY Selected DEF archBank
  <1>4. \A r \in Regs : (IF r \in Banked THEN archBank[RB(sr)][r] ELSE archHigh[r]) = gpr[r]
    BY <1>3 DEF archHigh, Regs
  <1> QED
    BY <1>2, <1>4, Selected

LEMMA Written ==
    ASSUME IInv, gpr_bank' = gpr_bank, RB(sr') = RB(sr)
    PROVE  Arch!SetReg(gpr')
  <1>1. /\ Arch!Banked = Banked /\ Arch!Unbanked = Unbanked /\ Arch!RB(sr) = RB(sr)
    BY SameConstants, SameBits
  <1>2. archBank' = [b \in 0 .. 1 |-> IF b = RB(sr) THEN [k \in Banked |-> gpr'[k]] ELSE gpr_bank]
    BY DEF archBank
  <1>3. [archBank EXCEPT ![RB(sr)] = [k \in Banked |-> gpr'[k]]] =
            [b \in 0 .. 1 |-> IF b = RB(sr) THEN [k \in Banked |-> gpr'[k]] ELSE gpr_bank]
    BY DEF archBank
  <1>4. archHigh' = [k \in Unbanked |-> gpr'[k]]
    BY DEF archHigh
  <1> QED
    BY <1>1, <1>2, <1>3, <1>4 DEF Arch!SetReg

LEMMA Untouched ==
    ASSUME gpr' = gpr, gpr_bank' = gpr_bank, RB(sr') = RB(sr)
    PROVE  archBank' = archBank /\ archHigh' = archHigh
  BY DEF archBank, archHigh

LEMMA Exchanged ==
    ASSUME IInv, RB(sr') \in 0 .. 1, RB(sr') # RB(sr),
           \A k \in Banked : gpr'[k] = gpr_bank[k],
           gpr_bank' = [k \in Banked |-> gpr[k]]
    PROVE  archBank' = archBank
  <1>1. gpr_bank = [k \in Banked |-> gpr'[k]]
    BY Selected
  <1>2. \A b \in 0 .. 1 : (IF b = RB(sr') THEN [k \in Banked |-> gpr'[k]] ELSE gpr_bank') =
                          (IF b = RB(sr) THEN [k \in Banked |-> gpr[k]] ELSE gpr_bank)
    BY <1>1, Selected
  <1>3. archBank' = [b \in 0 .. 1 |-> IF b = RB(sr') THEN [k \in Banked |-> gpr'[k]] ELSE gpr_bank']
    BY DEF archBank
  <1> QED
    BY <1>2, <1>3 DEF archBank

(* A turn that is no taken branch continues at npc, wherever that is.       *)
LEMMA TurnIsSequential == ASSUME IInv, GoOn PROVE Arch!Sequential
  <1>1. Arch!W = W
    BY SameConstants
  <1>2. delayState \in {"NO_DELAY", "EXITING_DELAY"}
    BY DEF IInv, TypeOK
  <1>3. pc' = archNpc /\ ~archInSlot'
    BY <1>2 DEF GoOn, EndTurn, archNpc, archInSlot
  <1>4. archNpc' = (pc' + 2) % W
    BY <1>3 DEF archNpc, archInSlot
  <1> QED
    BY <1>1, <1>3, <1>4 DEF Arch!Sequential, Arch!After

LEMMA Executes ==
    ASSUME IInv, NEW ops, Fetch(ops), GoOn,
           \/ Arch!Compute(Opcode) \/ Arch!Load(Opcode) \/ Arch!Store(Opcode)
           \/ Arch!LoadControl(Opcode) \/ Arch!MoveControl(Opcode)
           \/ Arch!FloatMove(Opcode) \/ Arch!Idle(Opcode)
    PROVE  Arch!Execute
  <1>1. status = "running" /\ Arch!InCode(pc) /\ Arch!CodeAt(pc) = Opcode
    BY SameBits DEF Fetch
  <1>2. UNCHANGED <<code, status>>
    BY DEF Fetch, GoOn, EndTurn
  <1> QED
    BY <1>1, <1>2, TurnIsSequential DEF Arch!Execute

LEMMA AluStep == IInv /\ ExecuteAlu => Arch!Execute
  <1> SUFFICES ASSUME IInv, ExecuteAlu PROVE Arch!Execute
    OBVIOUS
  <1> DEFINE result == Alu(Opcode, gpr, T(sr), pc)
  <1>1. Fetch(AluOps) /\ GoOn
    BY DEF ExecuteAlu
  <1>2. Opcode \in Instructions /\ Opcode.op \in AluOps
    BY <1>1, FetchType
  <1>3. gpr' = [gpr EXCEPT ![Opcode.n] = result.value] /\ sr' = WithT(sr, result.t)
        /\ UNCHANGED <<gpr_bank, ctl, fpr, xpr, mem, sq, ccn>>
    BY DEF ExecuteAlu
  <1>4. RB(sr') = RB(sr)
    <2>1. T(sr) \in {0, 1}
      BY BitsOfSR, WordsAreInts DEF IInv, TypeOK
    <2>2. result.t \in {0, 1}
      BY <1>2, <2>1, AluType DEF IInv, TypeOK, IsResult
    <2> HIDE DEF result
    <2> QED
      BY <1>3, <2>2, TBit DEF IInv, TypeOK
  <1>5. Arch!SetReg(gpr')
    BY <1>3, <1>4, Written
  <1>6. Arch!Alu(Opcode, Arch!Reg, Arch!T(sr), pc) = result /\ Opcode.op \in Arch!AluOps
        /\ Arch!Reg = gpr
    BY <1>2, RegIsGpr, SameAlu, SameBits, SameConstants
  <1>7. sr' = Arch!WithT(sr, result.t)
    BY <1>3, SameBits
  <1> HIDE DEF result
  <1>8. Arch!Compute(Opcode)
    BY <1>3, <1>5, <1>6, <1>7 DEF Arch!Compute
  <1> QED
    BY <1>1, <1>8, Executes

LEMMA LoadStep == IInv /\ ExecuteLoad => Arch!Execute
  <1> SUFFICES ASSUME IInv, ExecuteLoad PROVE Arch!Execute
    OBVIOUS
  <1>1. Fetch(LoadOps) /\ GoOn /\ UNCHANGED <<gpr_bank, sr, ctl, fpr, xpr, mem, sq, ccn>>
    BY DEF ExecuteLoad
  <1>2. Opcode.op \in LoadOps
    BY <1>1, FetchType
  <1>3. PICK x \in Readable(LoadAddr(Opcode, gpr, pc), LoadSize(Opcode), mem, sq, ccn) :
            gpr' = Loaded(Opcode, gpr, x)
    BY DEF ExecuteLoad
  <1>4. Arch!SetReg(Loaded(Opcode, gpr, x))
    BY <1>1, <1>3, Written
  <1>5. /\ x \in Arch!Readable(Arch!LoadAddr(Opcode, Arch!Reg, pc), Arch!LoadSize(Opcode), mem, sq, ccn)
        /\ Arch!Loaded(Opcode, Arch!Reg, x) = Loaded(Opcode, gpr, x)
    BY <1>3, RegIsGpr, SameAccesses, SameMemory
  <1>6. Arch!Load(Opcode)
    BY <1>1, <1>2, <1>4, <1>5, SameConstants DEF Arch!Load
  <1> QED
    BY <1>1, <1>6, Executes

LEMMA StoreStep == IInv /\ ExecuteStore => Arch!Execute
  <1> SUFFICES ASSUME IInv, ExecuteStore PROVE Arch!Execute
    OBVIOUS
  <1> DEFINE a == StoreAddr(Opcode, gpr)
             size == StoreSize(Opcode)
             x == StoreValue(Opcode, gpr, ctl, fpr)
  <1>1. /\ Fetch(StoreOps) /\ GoOn /\ UNCHANGED <<gpr_bank, sr, ctl, fpr, xpr>>
        /\ mem' = IF IsRam(a, size) THEN WithBytes(mem, a, size, x) ELSE mem
        /\ sq' = P4Queue(a, size, x, sq)
        /\ ccn' = P4Control(a, size, x, ccn)
        /\ gpr' = Stored(Opcode, gpr)
    BY DEF ExecuteStore
  <1>2. Opcode.op \in StoreOps
    BY <1>1, FetchType
  <1>3. /\ Arch!StoreAddr(Opcode, Arch!Reg) = a /\ Arch!StoreSize(Opcode) = size
        /\ Arch!StoreValue(Opcode, Arch!Reg, ctl, fpr) = x
        /\ Arch!Stored(Opcode, Arch!Reg) = gpr'
    BY <1>1, RegIsGpr, SameAccesses
  <1> HIDE DEF a, size, x
  <1>4. /\ mem' = IF Arch!IsRam(a, size) THEN Arch!WithBytes(mem, a, size, x) ELSE mem
        /\ sq' = Arch!P4Queue(a, size, x, sq)
        /\ ccn' = Arch!P4Control(a, size, x, ccn)
    BY <1>1, SameMemory
  <1>5. Arch!SetReg(gpr')
    BY <1>1, Written
  <1>6. Arch!Store(Opcode)
    BY <1>1, <1>2, <1>3, <1>4, <1>5, SameConstants DEF Arch!Store
  <1> QED
    BY <1>1, <1>6, Executes

(* The programs of the theorem: the two forms of lds.l that do not do what  *)
(* the source says of them (LdsLoadsItsRegister, LdsIncrementsItsRegister)  *)
(* do not occur.                                                            *)
Avoided(i) == i.op = "lds.l @rm+" /\ (i.c = "macl" \/ (i.c = "sr" /\ i.n \in Banked))

ProgramsAvoidLds == \A p \in Programs : \A k \in DOMAIN p : ~Avoided(p[k])

LEMMA NotAvoided ==
    ASSUME IInv, InCode(pc), ProgramsAvoidLds PROVE ~Avoided(Opcode)
  <1>1. code \in Seq(Instructions) /\ code \in Programs
    BY ProgramsAssumption DEF IInv
  <1>2. PICK k \in 0 .. Len(code) - 1 : Phys(pc) = CodePhys + 2 * k
    BY DEF InCode
  <1>3. CodePhys \in Int
    BY Sizes DEF CodePhys
  <1>4. (Phys(pc) - CodePhys) \div 2 = k
    BY <1>2, <1>3
  <1>5. k + 1 \in DOMAIN code
    BY <1>1, <1>2
  <1> QED
    BY <1>1, <1>4, <1>5 DEF Opcode, ProgramsAvoidLds

LEMMA LoadControlStep ==
    ASSUME IInv, ProgramsAvoidLds, LoadControl PROVE Arch!Execute
  <1>1. /\ Fetch({"lds.l @rm+"}) /\ GoOn /\ UNCHANGED <<gpr_bank, sr, fpr, xpr, mem, sq, ccn>>
        /\ gpr' = [gpr EXCEPT ![Opcode.n] = (@ + 4) % W] /\ Opcode.c # "sr"
    BY DEF LoadControl
  <1>2. Opcode.op = "lds.l @rm+" /\ InCode(pc)
    BY <1>1 DEF Fetch
  <1>3. LdsDestination(Opcode.c) = Opcode.c
    BY <1>2, NotAvoided DEF LdsDestination, Avoided
  <1>4. PICK x \in Readable(gpr[Opcode.n], 4, mem, sq, ccn) : ctl' = [ctl EXCEPT ![Opcode.c] = x]
    BY <1>3 DEF LoadControl
  <1>5. x \in Arch!Readable(Arch!Reg[Opcode.n], 4, mem, sq, ccn)
    BY <1>4, RegIsGpr, SameMemory
  <1>6. Arch!SetReg([Arch!Reg EXCEPT ![Opcode.n] = (@ + 4) % Arch!W])
    <2>1. Arch!SetReg(gpr')
      BY <1>1, Written
    <2> QED
      BY <1>1, <2>1, RegIsGpr, SameConstants
  <1>7. Arch!LoadControl(Opcode)
    BY <1>1, <1>2, <1>4, <1>5, <1>6 DEF Arch!LoadControl
  <1> QED
    BY <1>1, <1>7, Executes

LEMMA LoadSRStep ==
    ASSUME IInv, ProgramsAvoidLds, LoadSR PROVE Arch!Execute
  <1> DEFINE switch(x) == RB(x) # RB(sr)
             low(x) == IF switch(x) THEN gpr_bank ELSE [k \in Banked |-> gpr[k]]
             set(x) == [k \in Regs |-> IF k \in Banked THEN low(x)[k] ELSE gpr[k]]
             n == Opcode.n
             old == [k \in Banked |-> gpr[k]]
             moved == [gpr EXCEPT ![n] = (@ + 4) % W]
  <1>1. Fetch({"lds.l @rm+"}) /\ GoOn /\ UNCHANGED <<ctl, fpr, xpr, mem, sq, ccn>> /\ Opcode.c = "sr"
    BY DEF LoadSR
  <1>2. Opcode.op = "lds.l @rm+" /\ InCode(pc) /\ Opcode \in Instructions
    BY <1>1, FetchType DEF Fetch
  <1>3. n \in Regs /\ n \notin Banked
    BY <1>1, <1>2, NotAvoided DEF Avoided, Instructions
  <1>4. PICK x \in Readable(gpr[n], 4, mem, sq, ccn) :
            /\ sr' = x
            /\ gpr' = [set(x) EXCEPT ![n] = (@ + 4) % W]
            /\ gpr_bank' = IF switch(x) THEN old ELSE gpr_bank
    BY DEF LoadSR
  <1>5. RB(sr') \in 0 .. 1
    <2>1. sr' \in Int
      BY <1>2, <1>4, LoadedControl, WordsAreInts
    <2> QED
      BY <2>1, BitsOfSR
  <1>6. \A k \in Regs : gpr'[k] = IF k \in Banked THEN low(x)[k] ELSE moved[k]
    <2>1. gpr \in [Regs -> Words]
      BY Selected
    <2> HIDE DEF low
    <2> QED
      BY <1>3, <1>4, <2>1
  <1>7. archBank' = archBank
    <2>1. CASE RB(sr') = RB(sr)
      <3>1. \A k \in Banked : gpr'[k] = gpr[k]
        BY <1>4, <1>6, <2>1 DEF Regs
      <3>2. [k \in Banked |-> gpr'[k]] = [k \in Banked |-> gpr[k]]
        BY <3>1
      <3>3. gpr_bank' = gpr_bank
        BY <1>4, <2>1
      <3> QED
        BY <2>1, <3>2, <3>3 DEF archBank
    <2>2. CASE RB(sr') # RB(sr)
      <3>1. \A k \in Banked : gpr'[k] = gpr_bank[k]
        BY <1>4, <1>6, <2>2 DEF Regs
      <3>2. gpr_bank' = [k \in Banked |-> gpr[k]]
        BY <1>4, <2>2
      <3> QED
        BY <1>5, <2>2, <3>1, <3>2, Exchanged
    <2> QED
      BY <2>1, <2>2
  <1>8. Arch!SetReg(moved)
    <2>1. /\ Arch!Banked = Banked /\ Arch!Unbanked = Unbanked /\ Arch!RB(sr) = RB(sr)
      BY SameConstants, SameBits
    <2>2. archHigh' = [k \in Unbanked |-> moved[k]]
      <3>1. \A k \in Unbanked : gpr'[k] = moved[k]
        BY <1>6 DEF Regs, Banked, Unbanked
      <3> HIDE DEF moved
      <3> QED
        BY <3>1 DEF archHigh
    <2>3. [archBank EXCEPT ![RB(sr)] = [k \in Banked |-> moved[k]]] = archBank
      <3>1. \A k \in Banked : moved[k] = gpr[k]
        BY <1>3, Selected DEF Regs
      <3>2. [k \in Banked |-> moved[k]] = [k \in Banked |-> gpr[k]]
        BY <3>1
      <3> HIDE DEF moved
      <3> QED
        BY <3>2, Selected DEF archBank
    <2> HIDE DEF moved
    <2> QED
      BY <1>7, <2>1, <2>2, <2>3 DEF Arch!SetReg
  <1>9. /\ x \in Arch!Readable(Arch!Reg[n], 4, mem, sq, ccn)
        /\ Arch!SetReg([Arch!Reg EXCEPT ![n] = (@ + 4) % Arch!W])
    BY <1>4, <1>8, RegIsGpr, SameMemory, SameConstants
  <1>10. Arch!LoadControl(Opcode)
    BY <1>1, <1>2, <1>4, <1>9 DEF Arch!LoadControl
  <1> QED
    BY <1>1, <1>10, Executes

LEMMA MoveSRStep == IInv /\ MoveSR => Arch!Execute
  <1> SUFFICES ASSUME IInv, MoveSR PROVE Arch!Execute
    OBVIOUS
  <1>1. Fetch({"ldc sr"}) /\ GoOn /\ UNCHANGED <<ctl, fpr, xpr, mem, sq, ccn>>
        /\ SetSR(gpr[Opcode.n], gpr)
    BY DEF MoveSR
  <1>2. Opcode.op = "ldc sr" /\ Opcode \in Instructions
    BY <1>1, FetchType DEF Fetch
  <1>3. sr' = gpr[Opcode.n] /\ RB(sr') \in 0 .. 1
    <2>1. gpr[Opcode.n] \in Int
      BY <1>2, RegisterAt, WordsAreInts
    <2>2. sr' = gpr[Opcode.n]
      BY <1>1 DEF SetSR
    <2>3. RB(sr') \in {0, 1}
      BY <2>1, <2>2, BitsOfSR
    <2> QED
      BY <2>2, <2>3
  <1>4. archBank' = archBank /\ archHigh' = archHigh
    <2>1. CASE RB(sr') = RB(sr)
      BY <1>1, <1>3, <2>1, Untouched DEF SetSR
    <2>2. CASE RB(sr') # RB(sr)
      <3>1. /\ gpr' = [k \in Regs |-> IF k \in Banked THEN gpr_bank[k] ELSE gpr[k]]
            /\ gpr_bank' = [k \in Banked |-> gpr[k]]
        BY <1>1, <1>3, <2>2 DEF SetSR
      <3>2. /\ \A k \in Banked : gpr'[k] = gpr_bank[k]
            /\ \A k \in Unbanked : gpr'[k] = gpr[k]
        BY <3>1 DEF Regs, Banked, Unbanked
      <3>3. archHigh' = archHigh
        BY <3>2 DEF archHigh
      <3> QED
        BY <1>3, <2>2, <3>1, <3>2, <3>3, Exchanged
    <2> QED
      BY <2>1, <2>2
  <1>5. Arch!MoveControl(Opcode)
    BY <1>1, <1>2, <1>3, <1>4, RegIsGpr DEF Arch!MoveControl
  <1> QED
    BY <1>1, <1>5, Executes

LEMMA MoveControlStep == IInv /\ MoveControl => Arch!Execute
  <1> SUFFICES ASSUME IInv, MoveControl PROVE Arch!Execute
    OBVIOUS
  <1> DEFINE product == ((gpr[Opcode.n] % Half) * (gpr[Opcode.m] % Half)) % W
  <1>1. /\ Fetch({"stc sr", "sts", "lds", "mulu.w"}) /\ GoOn
        /\ UNCHANGED <<gpr_bank, sr, fpr, xpr, mem, sq, ccn>>
    BY DEF MoveControl
  <1>2. Opcode.op \in {"stc sr", "sts", "lds", "mulu.w"}
    BY <1>1, FetchType
  <1>3. Arch!SetReg(gpr')
    BY <1>1, Written
  <1>4. CASE Opcode.op = "stc sr"
    <2>1. gpr' = [gpr EXCEPT ![Opcode.n] = sr] /\ ctl' = ctl
      BY <1>4 DEF MoveControl
    <2> QED
      BY <1>1, <1>3, <1>4, <2>1, RegIsGpr, Executes DEF Arch!MoveControl
  <1>5. CASE Opcode.op = "sts"
    <2>1. gpr' = [gpr EXCEPT ![Opcode.n] = ctl[Opcode.c]] /\ ctl' = ctl
      BY <1>5 DEF MoveControl
    <2> QED
      BY <1>1, <1>3, <1>5, <2>1, RegIsGpr, Executes DEF Arch!MoveControl
  <1>6. CASE Opcode.op = "lds"
    <2>1. gpr' = gpr /\ ctl' = [ctl EXCEPT ![Opcode.c] = gpr[Opcode.n]]
      BY <1>6 DEF MoveControl
    <2>2. archBank' = archBank /\ archHigh' = archHigh
      BY <1>1, <2>1, Untouched
    <2> QED
      BY <1>1, <1>6, <2>1, <2>2, RegIsGpr, Executes DEF Arch!MoveControl
  <1>7. CASE Opcode.op = "mulu.w"
    <2>1. gpr' = gpr /\ ctl' = [ctl EXCEPT !["macl"] = product]
      BY <1>7 DEF MoveControl
    <2>2. archBank' = archBank /\ archHigh' = archHigh
      BY <1>1, <2>1, Untouched
    <2> QED
      BY <1>1, <1>7, <2>1, <2>2, RegIsGpr, SameConstants, Executes DEF Arch!MoveControl
  <1> QED
    BY <1>2, <1>4, <1>5, <1>6, <1>7

LEMMA FloatLoadStep == IInv /\ FloatLoad => Arch!Execute
  <1> SUFFICES ASSUME IInv, FloatLoad PROVE Arch!Execute
    OBVIOUS
  <1>1. /\ Fetch({"fmov @rm+,drn"}) /\ GoOn /\ IsRam(gpr[Opcode.m], 8)
        /\ fpr' = [k \in 0 .. 1 |-> Bytes(mem, gpr[Opcode.m] + 4 * k, 4)]
        /\ gpr' = [gpr EXCEPT ![Opcode.m] = (@ + 8) % W]
        /\ UNCHANGED <<gpr_bank, sr, ctl, xpr, mem, sq, ccn>>
    BY DEF FloatLoad
  <1>2. Opcode.op = "fmov @rm+,drn"
    BY <1>1 DEF Fetch
  <1>3. Arch!SetReg([Arch!Reg EXCEPT ![Opcode.m] = (@ + 8) % Arch!W])
    <2>1. Arch!SetReg(gpr')
      BY <1>1, Written
    <2> QED
      BY <1>1, <2>1, RegIsGpr, SameConstants
  <1>4. /\ Arch!IsRam(Arch!Reg[Opcode.m], 8)
        /\ fpr' = [k \in 0 .. 1 |-> Arch!Bytes(mem, Arch!Reg[Opcode.m] + 4 * k, 4)]
    BY <1>1, RegIsGpr, SameMemory
  <1>5. Arch!FloatMove(Opcode)
    BY <1>1, <1>2, <1>3, <1>4 DEF Arch!FloatMove
  <1> QED
    BY <1>1, <1>5, Executes

LEMMA FloatSwapStep == IInv /\ FloatSwap => Arch!Execute
  <1> SUFFICES ASSUME IInv, FloatSwap PROVE Arch!Execute
    OBVIOUS
  <1>1. /\ Fetch({"frchg"}) /\ GoOn /\ fpr' = xpr /\ xpr' = fpr
        /\ UNCHANGED <<gpr, gpr_bank, sr, ctl, mem, sq, ccn>>
    BY DEF FloatSwap
  <1>2. Opcode.op = "frchg"
    BY <1>1, FetchType
  <1>3. archBank' = archBank /\ archHigh' = archHigh
    BY <1>1, Untouched
  <1>4. Arch!FloatMove(Opcode)
    BY <1>1, <1>2, <1>3 DEF Arch!FloatMove
  <1> QED
    BY <1>1, <1>4, Executes

LEMMA IdleStep == IInv /\ Idle => Arch!Execute
  <1> SUFFICES ASSUME IInv, Idle PROVE Arch!Execute
    OBVIOUS
  <1>1. /\ Fetch({"nop", "pref"}) /\ GoOn
        /\ UNCHANGED <<gpr, gpr_bank, sr, ctl, fpr, xpr, mem, sq, ccn>>
    BY DEF Idle
  <1>2. Opcode.op \in {"nop", "pref"}
    BY <1>1, FetchType
  <1>3. archBank' = archBank /\ archHigh' = archHigh
    BY <1>1, Untouched
  <1>4. Arch!Idle(Opcode)
    BY <1>1, <1>2, <1>3 DEF Arch!Idle, Arch!state
  <1> QED
    BY <1>1, <1>4, Executes

LEMMA BackAndForth == \A x \in Words : (((x - 2) % W) + 2) % W = x
  BY Sizes DEF Words

(* A branch in a slot is illegal; otherwise the target follows the slot, or *)
(* replaces the pc.                                                         *)
LEMMA BranchStep == IInv /\ ExecuteBranch => Arch!Execute
  <1> SUFFICES ASSUME IInv, ExecuteBranch PROVE Arch!Execute
    OBVIOUS
  <1> DEFINE target == Target(Opcode, gpr, ctl["pr"], pc)
  <1>1. /\ Fetch(BranchOps) /\ UNCHANGED <<gpr, gpr_bank, sr, fpr, xpr, mem, sq, ccn>>
        /\ ctl' = IF Opcode.op = "jsr" THEN [ctl EXCEPT !["pr"] = ReturnAddress] ELSE ctl
    BY DEF ExecuteBranch
  <1>2. /\ Opcode.op \in BranchOps /\ Opcode \in Instructions
        /\ status = "running" /\ Arch!InCode(pc) /\ Arch!CodeAt(pc) = Opcode
    BY <1>1, FetchType, SameBits DEF Fetch
  <1>3. CASE delayState = "EXITING_DELAY"
    BY <1>2, <1>3, SameConstants DEF Arch!Execute, Arch!IllegalSlot, archInSlot
  <1>4. CASE delayState # "EXITING_DELAY"
    <2>1. delayState = "NO_DELAY" /\ pc \in Words /\ archNpc = (pc + 2) % W
      BY <1>4 DEF IInv, TypeOK, archNpc, archInSlot
    <2>2. target \in Words
      <3>1. ctl["pr"] \in Words /\ gpr \in [Regs -> Words]
        BY DEF IInv, TypeOK, CtlRegs
      <3> QED
        BY <1>2, <2>1, <3>1, TargetType
    <2>3. archBank' = archBank /\ archHigh' = archHigh
      BY <1>1, Untouched
    <2>4. /\ Arch!Target(Opcode, Arch!Reg, ctl["pr"], pc) = target
          /\ Arch!Taken(Opcode, Arch!T(sr)) <=> Taken(Opcode, T(sr))
          /\ Arch!BranchOps = BranchOps /\ Arch!DelayedOps = DelayedOps /\ Arch!W = W
      BY RegIsGpr, SameBranches, SameBits, SameConstants
    <2>5. /\ ~Taken(Opcode, T(sr)) => GoOn
          /\ Taken(Opcode, T(sr)) /\ Opcode.op \in DelayedOps =>
               EndTurn(pc, "ENTERING_DELAY", target)
          /\ Taken(Opcode, T(sr)) /\ Opcode.op \notin DelayedOps =>
               EndTurn((target - 2) % W, delayState, delayTarget)
      BY DEF ExecuteBranch
    <2> HIDE DEF target
    <2>6. status' = status
      BY <2>5 DEF GoOn, EndTurn
    <2>7. CASE ~Taken(Opcode, T(sr))
      <3>1. Arch!Sequential
        BY <2>5, <2>7, TurnIsSequential
      <3> QED
        BY <1>1, <1>2, <2>3, <2>4, <2>6, <2>7, <3>1
        DEF Arch!Execute, Arch!Branch, ReturnAddress, Fetch
    <2>8. CASE Taken(Opcode, T(sr)) /\ Opcode.op \in DelayedOps
      <3>1. pc' = archNpc /\ archNpc' = target /\ archInSlot'
        BY <2>1, <2>5, <2>8 DEF EndTurn, archNpc, archInSlot
      <3> QED
        BY <1>1, <1>2, <2>3, <2>4, <2>6, <2>8, <3>1
        DEF Arch!Execute, Arch!Branch, Arch!After, ReturnAddress, Fetch
    <2>9. CASE Taken(Opcode, T(sr)) /\ Opcode.op \notin DelayedOps
      <3>1. pc' = target
        <4>1. pc' = (((target - 2) % W) + 2) % W
          BY <2>1, <2>5, <2>9 DEF EndTurn
        <4> QED
          BY <2>2, <4>1, BackAndForth
      <3>2. ~archInSlot' /\ archNpc' = (target + 2) % W
        BY <2>1, <2>5, <2>9, <3>1 DEF EndTurn, archNpc, archInSlot
      <3> QED
        BY <1>1, <1>2, <2>3, <2>4, <2>6, <2>9, <3>1, <3>2
        DEF Arch!Execute, Arch!Branch, ReturnAddress, Fetch
    <2> QED
      BY <2>7, <2>8, <2>9
  <1> QED
    BY <1>3, <1>4

LEMMA EndStep == Stop \/ Quit => Arch!GiveUp
  <1> SUFFICES ASSUME Stop \/ Quit PROVE Arch!GiveUp
    OBVIOUS
  <1>1. /\ status = "running" /\ status' \in {"stopped", "quit"} /\ code' = code
        /\ UNCHANGED <<gpr, gpr_bank, sr, ctl, fpr, xpr, mem, sq, ccn, pc, delayState, delayTarget>>
    BY DEF Stop, Quit, Fetch
  <1>2. UNCHANGED <<archBank, archHigh, archNpc, archInSlot>>
    BY <1>1 DEF archBank, archHigh, archNpc, archInSlot
  <1> QED
    BY <1>1, <1>2 DEF Arch!GiveUp, Arch!state

LEMMA InitStep == Init => Arch!ArchInit
  <1> SUFFICES ASSUME Init PROVE Arch!ArchInit
    OBVIOUS
  <1>1. IInv
    BY InitType
  <1>2. /\ archBank \in [0 .. 1 -> [Banked -> Words]]
        /\ archHigh \in [Unbanked -> Words]
    <2>1. /\ [k \in Banked |-> gpr[k]] \in [Banked -> Words] /\ gpr_bank \in [Banked -> Words]
          /\ [k \in Unbanked |-> gpr[k]] \in [Unbanked -> Words]
      BY <1>1, Selected DEF Regs
    <2> QED
      BY <2>1 DEF archBank, archHigh
  <1>3. sr \in Words /\ status = "running" /\ archInSlot = FALSE
    BY <1>1 DEF Init, IInv, TypeOK, archInSlot
  <1>4. archNpc = pc + 2
    <2>1. 10 * (W \div 16) + CodePhys + 2 \in Words
      BY Sizes DEF Words, CodePhys
    <2>2. \A x \in Words : x % W = x
      BY Sizes DEF Words
    <2>3. pc + 2 = 10 * (W \div 16) + CodePhys + 2
      BY DEF Init
    <2>4. (pc + 2) % W = pc + 2
      BY <2>1, <2>2, <2>3
    <2> QED
      BY <1>3, <2>4 DEF archNpc
  <1> QED
    BY <1>2, <1>3, <1>4, SameConstants DEF Arch!ArchInit

(* Whatever the program and the registers, the interpreter with its delay   *)
(* states and its exchange of banks is a processor with a pc, an npc and    *)
(* two banks (Sh4aCpu::Execute, SetSR).  The programs are all those without *)
(* the two defective forms of lds.l.                                        *)
THEOREM DelaySlotsAndBanks ==
    ASSUME ProgramsAvoidLds PROVE Spec => SlotsAndBanksAreKept
  <1>1. IInv /\ [Next]_vars => [Arch!ArchNext]_Arch!archVars
    <2> SUFFICES ASSUME IInv, [Next]_vars PROVE [Arch!ArchNext]_Arch!archVars
      OBVIOUS
    <2>1. CASE ExecuteAlu \/ ExecuteLoad \/ ExecuteStore \/ ExecuteBranch
      BY <2>1, AluStep, LoadStep, StoreStep, BranchStep DEF Arch!ArchNext
    <2>2. CASE LoadControl \/ LoadSR \/ MoveSR \/ MoveControl
      BY <2>2, LoadControlStep, LoadSRStep, MoveSRStep, MoveControlStep DEF Arch!ArchNext
    <2>3. CASE FloatLoad \/ FloatSwap \/ Idle
      BY <2>3, FloatLoadStep, FloatSwapStep, IdleStep DEF Arch!ArchNext
    <2>4. CASE Stop \/ Quit
      BY <2>4, EndStep DEF Arch!ArchNext
    <2>5. CASE UNCHANGED vars
      BY <2>5 DEF vars, Arch!archVars, Arch!state, archBank, archHigh, archNpc, archInSlot
    <2> QED
      BY <2>1, <2>2, <2>3, <2>4, <2>5 DEF Next
  <1> QED
    BY <1>1, InitStep, InductiveInvariant, PTL DEF Spec, SlotsAndBanksAreKept, Arch!ArchSpec
=============================================================================
