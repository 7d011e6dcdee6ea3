---------------------------- MODULE PpcCpu_proofs ----------------------------
(***************************************************************************)
(* Proofs about PpcCpu for every word size, set of programs and initial    *)
(* registers: it implements PpcArch.                                       *)
(***************************************************************************)
EXTENDS PpcCpu, TLAPS, SequenceTheorems

-----------------------------------------------------------------------------
(* Words and values.                                                        *)
LEMMA WFacts == W \in Nat /\ W > 6 /\ W * W \in Nat /\ W * W >= 7 * W
  BY WAssumption

LEMMA Product == ASSUME NEW h \in Words PROVE h * W \in Nat /\ h * W <= W * W - W
  <1>1. h \in Nat /\ h <= W - 1 /\ W \in Nat
    BY WFacts DEF Words
  <1>2. h * W \in Nat /\ h * W <= (W - 1) * W
    BY <1>1
  <1> QED
    BY <1>1, <1>2

LEMMA Joined ==
    ASSUME NEW h \in Words, NEW l \in Words
    PROVE  h * W + l \in Values /\ Low(h * W + l) = l
  <1>1. h * W \in Nat /\ h * W <= W * W - W
    BY Product
  <1>2. h * W + l \in Values
    BY <1>1, WFacts DEF Words, Values
  <1>3. (h * W + l) % W = l
    BY <1>1, WFacts DEF Words
  <1> QED
    BY <1>2, <1>3 DEF Low

LEMMA Parts ==
    ASSUME NEW x \in Values
    PROVE  Low(x) \in Words /\ High(x) \in Words
  <1>1. x \in Nat /\ x < W * W
    BY WFacts DEF Values
  <1>2. x % W \in 0 .. W - 1
    BY <1>1, WFacts
  <1>3. x \div W \in Nat /\ x = W * (x \div W) + (x % W)
    BY <1>1, WFacts
  <1>4. x \div W < W
    BY <1>1, <1>2, <1>3, WFacts
  <1> QED
    BY <1>2, <1>3, <1>4, WFacts DEF Low, High, Words

LEMMA SetHighFact ==
    ASSUME NEW x \in Values
    PROVE  SetHigh(x, 0) = Low(x) /\ Low(x) \in Words
  <1>1. Low(x) \in Words
    BY Parts
  <1>2. 0 * W + Low(x) = Low(x)
    BY <1>1, WFacts DEF Words
  <1> QED
    BY <1>1, <1>2 DEF SetHigh

LEMMA SumFacts ==
    ASSUME NEW x \in Values, NEW y \in Values
    PROVE  Plus(x, y) \in Values /\ Minus(x, y) \in Values /\ Plus(x, y) = Plus(y, x)
  BY WFacts DEF Values, Plus, Minus
-----------------------------------------------------------------------------
(* What an intermediate does to a context, when every word it touches is    *)
(* there: the actions of PpcCpu as functions.  rfid is left out.            *)
ContextType ==
    [gpr : {g \in [Regs -> Values] : g[GPR_CR] \in {0, 1}}, mem : [Words -> Words],
     isReserved : BOOLEAN, reservation : Values, pc : Values, msr : Msr]

ArithmeticOps == {"LD_64_IMM", "LD_32_IMM", "ADD", "ADD_IMM", "SUBU_IMM"}
BranchOps == {"BRANCH_ALWAYS", "BRANCH_GPR64", "BRANCH_NOT_ZERO"}
MemoryOps == Loads \union Stores \union {"PPC_STWCX"}

AddressIn(c, x) ==
    CASE x.op \in {"LD_32_ABS", "ST_ABS"} -> x.imm
      [] x.op = "LD_32_L" -> c.gpr[x.ra]
      [] x.op = "PPC_STWCX" -> Plus(c.gpr[x.ra], IF x.rb = 0 THEN 0 ELSE c.gpr[x.rb])
      [] OTHER -> Plus(c.gpr[x.ra], x.imm)

ReservedIn(c, x) == c.isReserved /\ c.reservation = AddressIn(c, x)

TouchedIn(c, x) ==
    IF x.op = "PPC_STWCX" /\ ~ReservedIn(c, x) THEN <<>>
    ELSE IF IsDouble(x) THEN <<Low(AddressIn(c, x)), Low(AddressIn(c, x)) + 1>>
    ELSE <<Low(AddressIn(c, x))>>

HitsIn(c, pages, a) == a < W /\ (~c.msr.relocated \/ DataPage(a) \in pages)
Fine(c, pages, x) ==
    x.op \in MemoryOps => \A k \in DOMAIN TouchedIn(c, x) : HitsIn(c, pages, TouchedIn(c, x)[k])

ResultIn(c, x) ==
    CASE x.op = "LD_64_IMM" -> x.imm
      [] x.op = "LD_32_IMM" -> SetHigh(c.gpr[x.dest], x.imm)
      [] x.op = "ADD" -> Plus(c.gpr[x.ra], c.gpr[x.rb])
      [] x.op = "ADD_IMM" -> Plus(c.gpr[x.ra], x.imm)
      [] x.op = "SUBU_IMM" -> Minus(c.gpr[x.ra], x.imm)

LoadedWord(c, x) ==
    LET a == Low(AddressIn(c, x))
    IN  IF IsDouble(x) THEN c.mem[a] * W + c.mem[a + 1] ELSE SetLow(c.gpr[x.dest], c.mem[a])

StoredIn(c, x) ==
    LET a == Low(AddressIn(c, x))
    IN  IF IsDouble(x)
          THEN [c.mem EXCEPT ![a] = High(c.gpr[x.rs]), ![a + 1] = Low(c.gpr[x.rs])]
          ELSE [c.mem EXCEPT ![a] = Low(c.gpr[x.rs])]

Built(g, m, i, r, p, s) ==
    [gpr |-> g, mem |-> m, isReserved |-> i, reservation |-> r, pc |-> p, msr |-> s]
Put(c, r, value) ==
    Built([c.gpr EXCEPT ![r] = value], c.mem, c.isReserved, c.reservation, c.pc, c.msr)
Jumped(c, target) ==
    Built(c.gpr, c.mem, c.isReserved, c.reservation, TruncatePC(target, c.msr), c.msr)
Linked(c, x) ==
    Built([c.gpr EXCEPT ![x.dest] = LoadedWord(c, x)], c.mem, TRUE, AddressIn(c, x), c.pc, c.msr)
Written(c, x) == Built(c.gpr, StoredIn(c, x), c.isReserved, c.reservation, c.pc, c.msr)
Conditional(c, x) ==
    Built([c.gpr EXCEPT ![GPR_CR] = 1], StoredIn(c, x), FALSE, c.reservation, c.pc, c.msr)

After(c, x) ==
    CASE x.op \in ArithmeticOps -> Put(c, x.dest, ResultIn(c, x))
      [] x.op = "BRANCH_ALWAYS" -> Jumped(c, x.imm)
      [] x.op = "BRANCH_GPR64" -> Jumped(c, c.gpr[x.ra])
      [] x.op = "BRANCH_NOT_ZERO" -> IF c.gpr[x.ra] # 0 THEN Jumped(c, x.imm) ELSE c
      [] x.op \in Loads \ {"LD_32_L"} -> Put(c, x.dest, LoadedWord(c, x))
      [] x.op = "LD_32_L" -> Linked(c, x)
      [] x.op \in Stores -> Written(c, x)
      [] x.op = "PPC_STWCX" -> IF ReservedIn(c, x) THEN Conditional(c, x) ELSE Put(c, GPR_CR, 0)

(* Intermediates as the builder makes them.                                 *)
Dests == Regs \ {GPR_CR}
IntermediateType ==
    [op : {"LD_64_IMM", "LD_32_ABS"}, dest : Dests, imm : Values]
    \union [op : {"LD_32_IMM"}, dest : Dests, imm : {0}]
    \union [op : {"LD_32_REG_OFF", "LD_64_REG_OFF", "ADD_IMM", "SUBU_IMM"},
             dest : Dests, ra : Regs, imm : Values]
    \union [op : {"LD_32_L"}, dest : Dests, ra : Regs]
    \union [op : {"ST_ABS"}, size : {32, 64}, rs : Regs, imm : Values]
    \union [op : {"ST_REG_OFF"}, size : {32, 64}, rs : Regs, ra : Regs, imm : Values]
    \union [op : {"ADD"}, dest : Dests, ra : Regs, rb : Regs]
    \union [op : {"BRANCH_ALWAYS"}, imm : Values]
    \union [op : {"BRANCH_GPR64"}, ra : Regs]
    \union [op : {"BRANCH_NOT_ZERO"}, ra : Regs, imm : Values]
    \union [op : {"PPC_STWCX"}, ra : Regs, rb : Regs, rs : Regs]
    \union [op : {"PPC_RFID", "UNKNOWN_OPCODE", "INVALID_OPCODE"}]

LEMMA RegFacts ==
    /\ Gprs \subseteq Dests /\ GPR_LR \in Dests /\ GPR_CTR \in Dests /\ GPR_TEMP \in Dests
    /\ Dests \subseteq Regs /\ GPR_CR \in Regs /\ GPR_CR \notin Dests
    /\ ArchRegs \subseteq Regs /\ GPR_TEMP \notin ArchRegs /\ Gprs \subseteq ArchRegs
    /\ GPR_LR \in ArchRegs /\ GPR_CTR \in ArchRegs /\ GPR_CR \in ArchRegs
    /\ GPR_LR # GPR_CTR /\ GPR_LR # GPR_CR /\ GPR_CTR # GPR_CR /\ 0 \in Gprs
  BY DEF Gprs, Dests, Regs, ArchRegs, GPR_LR, GPR_CTR, GPR_CR, GPR_TEMP

LEMMA PutType ==
    ASSUME NEW c \in ContextType, NEW r \in Dests, NEW v \in Values
    PROVE  Put(c, r, v) \in ContextType
  BY RegFacts DEF Put, Built, ContextType

LEMMA PutCrType ==
    ASSUME NEW c \in ContextType, NEW v \in {0, 1}
    PROVE  Put(c, GPR_CR, v) \in ContextType
  <1>1. v \in Values
    BY WFacts DEF Values
  <1> QED
    BY <1>1, RegFacts DEF Put, Built, ContextType

LEMMA TruncateType ==
    ASSUME NEW target \in Values, NEW m \in Msr
    PROVE  TruncatePC(target, m) \in Values
  <1>1. Low(target) \in Values
    BY Parts, WFacts DEF Words, Values
  <1> QED
    BY <1>1 DEF TruncatePC

LEMMA JumpedType ==
    ASSUME NEW c \in ContextType, NEW target \in Values
    PROVE  Jumped(c, target) \in ContextType
  BY TruncateType DEF Jumped, Built, ContextType

LEMMA AddressType ==
    ASSUME NEW c \in ContextType, NEW x \in IntermediateType, x.op \in MemoryOps
    PROVE  AddressIn(c, x) \in Values
  <1>1. 0 \in Values
    BY WFacts DEF Values
  <1>2. CASE x.op \in {"LD_32_ABS", "ST_ABS"}
    BY <1>2 DEF AddressIn, IntermediateType
  <1>3. CASE x.op = "LD_32_L"
    BY <1>3, RegFacts DEF AddressIn, IntermediateType, ContextType
  <1>4. CASE x.op = "PPC_STWCX"
    BY <1>1, <1>4, SumFacts DEF AddressIn, IntermediateType, ContextType
  <1>5. CASE x.op \in {"LD_32_REG_OFF", "LD_64_REG_OFF", "ST_REG_OFF"}
    BY <1>5, SumFacts DEF AddressIn, IntermediateType, ContextType
  <1> QED
    BY <1>2, <1>3, <1>4, <1>5 DEF MemoryOps, Loads, Stores

LEMMA AfterFacts ==
    ASSUME NEW c, NEW x
    PROVE  /\ x.op \in ArithmeticOps => After(c, x) = Put(c, x.dest, ResultIn(c, x))
           /\ x.op = "BRANCH_ALWAYS" => After(c, x) = Jumped(c, x.imm)
           /\ x.op = "BRANCH_GPR64" => After(c, x) = Jumped(c, c.gpr[x.ra])
           /\ x.op = "BRANCH_NOT_ZERO" =>
                After(c, x) = IF c.gpr[x.ra] # 0 THEN Jumped(c, x.imm) ELSE c
           /\ x.op \in Loads \ {"LD_32_L"} => After(c, x) = Put(c, x.dest, LoadedWord(c, x))
           /\ x.op = "LD_32_L" => After(c, x) = Linked(c, x)
           /\ x.op \in Stores => After(c, x) = Written(c, x)
           /\ x.op = "PPC_STWCX" =>
                After(c, x) = IF ReservedIn(c, x) THEN Conditional(c, x) ELSE Put(c, GPR_CR, 0)
  BY DEF After, ArithmeticOps, Loads, Stores

(* The words an access touches are words of memory when it is fine.         *)
LEMMA TouchedFacts ==
    ASSUME NEW c \in ContextType, NEW pages, NEW x \in IntermediateType, x.op \in MemoryOps,
           Fine(c, pages, x), x.op = "PPC_STWCX" => ReservedIn(c, x)
    PROVE  /\ Low(AddressIn(c, x)) \in Words
           /\ IsDouble(x) => Low(AddressIn(c, x)) + 1 \in Words
  <1>1. Low(AddressIn(c, x)) \in Words
    BY AddressType, Parts
  <1>2. ASSUME IsDouble(x) PROVE Low(AddressIn(c, x)) + 1 \in Words
    <2>1. TouchedIn(c, x) = <<Low(AddressIn(c, x)), Low(AddressIn(c, x)) + 1>>
      BY <1>2 DEF TouchedIn
    <2>2. 2 \in DOMAIN TouchedIn(c, x) /\ TouchedIn(c, x)[2] = Low(AddressIn(c, x)) + 1
      BY <2>1
    <2>3. Low(AddressIn(c, x)) + 1 < W
      BY <2>2 DEF Fine, HitsIn
    <2> QED
      BY <1>1, <2>3, WFacts DEF Words
  <1> QED
    BY <1>1, <1>2

LEMMA ValueOfWord == Words \subseteq Values /\ 0 \in Values /\ 1 \in Values
  BY WFacts DEF Words, Values

LEMMA LoadedType ==
    ASSUME NEW c \in ContextType, NEW pages, NEW x \in IntermediateType, x.op \in Loads,
           Fine(c, pages, x)
    PROVE  LoadedWord(c, x) \in Values
  <1>1. x.op \in MemoryOps /\ x.op # "PPC_STWCX" /\ x.dest \in Regs
    BY RegFacts DEF MemoryOps, Loads, IntermediateType
  <1> DEFINE a == Low(AddressIn(c, x))
  <1>2. a \in Words /\ (IsDouble(x) => a + 1 \in Words)
    BY <1>1, TouchedFacts
  <1> HIDE DEF a
  <1>3. c.mem[a] \in Words /\ (IsDouble(x) => c.mem[a + 1] \in Words) /\ c.gpr[x.dest] \in Values
    BY <1>1, <1>2 DEF ContextType
  <1>4. LoadedWord(c, x) =
          IF IsDouble(x) THEN c.mem[a] * W + c.mem[a + 1] ELSE SetLow(c.gpr[x.dest], c.mem[a])
    BY DEF LoadedWord, a
  <1> QED
    BY <1>3, <1>4, Joined, Parts DEF SetLow

LEMMA StoredType ==
    ASSUME NEW c \in ContextType, NEW pages, NEW x \in IntermediateType,
           x.op \in Stores \union {"PPC_STWCX"},
           Fine(c, pages, x), x.op = "PPC_STWCX" => ReservedIn(c, x)
    PROVE  StoredIn(c, x) \in [Words -> Words]
  <1>1. x.op \in MemoryOps /\ x.rs \in Regs
    BY RegFacts DEF MemoryOps, Stores, IntermediateType
  <1> DEFINE a == Low(AddressIn(c, x))
  <1>2. a \in Words /\ (IsDouble(x) => a + 1 \in Words)
    BY <1>1, TouchedFacts
  <1>3. Low(c.gpr[x.rs]) \in Words /\ High(c.gpr[x.rs]) \in Words /\ c.mem \in [Words -> Words]
    BY <1>1, Parts DEF ContextType
  <1> HIDE DEF a
  <1>4. StoredIn(c, x) =
          IF IsDouble(x)
            THEN [c.mem EXCEPT ![a] = High(c.gpr[x.rs]), ![a + 1] = Low(c.gpr[x.rs])]
            ELSE [c.mem EXCEPT ![a] = Low(c.gpr[x.rs])]
    BY DEF StoredIn, a
  <1> QED
    BY <1>2, <1>3, <1>4

(* Contexts stay contexts.                                                  *)
LEMMA AfterType ==
    ASSUME NEW c \in ContextType, NEW pages, NEW x \in IntermediateType, Fine(c, pages, x),
           x.op \in ArithmeticOps \union BranchOps \union MemoryOps
    PROVE  After(c, x) \in ContextType
  <1>1. CASE x.op \in ArithmeticOps
    <2>1. x.dest \in Dests /\ ResultIn(c, x) \in Values
      <3>1. x.dest \in Dests
        BY <1>1 DEF ArithmeticOps, IntermediateType
      <3>2. CASE x.op = "LD_64_IMM"
        BY <3>2 DEF ResultIn, IntermediateType
      <3>3. CASE x.op = "LD_32_IMM"
        <4>1. c.gpr[x.dest] \in Values /\ x.imm = 0
          BY <3>1, <3>3, RegFacts DEF IntermediateType, ContextType
        <4>2. SetHigh(c.gpr[x.dest], 0) \in Values
          BY <4>1, SetHighFact, ValueOfWord
        <4> QED
          BY <3>1, <3>3, <4>1, <4>2 DEF ResultIn
      <3>4. CASE x.op = "ADD"
        BY <3>4, SumFacts DEF ResultIn, IntermediateType, ContextType
      <3>5. CASE x.op = "ADD_IMM"
        BY <3>5, SumFacts DEF ResultIn, IntermediateType, ContextType
      <3>6. CASE x.op = "SUBU_IMM"
        BY <3>6, SumFacts DEF ResultIn, IntermediateType, ContextType
      <3> QED
        BY <1>1, <3>1, <3>2, <3>3, <3>4, <3>5, <3>6 DEF ArithmeticOps
    <2>2. After(c, x) = Put(c, x.dest, ResultIn(c, x))
      BY <1>1, AfterFacts
    <2> QED
      BY <2>1, <2>2, PutType
  <1>2. CASE x.op \in BranchOps
    <2>1. x.op # "BRANCH_GPR64" => x.imm \in Values
      BY <1>2 DEF BranchOps, IntermediateType
    <2>2. x.op = "BRANCH_GPR64" => c.gpr[x.ra] \in Values
      BY DEF IntermediateType, ContextType
    <2>3. \/ After(c, x) \in {c, Jumped(c, x.imm)} /\ x.op # "BRANCH_GPR64"
          \/ After(c, x) = Jumped(c, c.gpr[x.ra]) /\ x.op = "BRANCH_GPR64"
      BY <1>2, AfterFacts DEF BranchOps
    <2> QED
      BY <2>1, <2>2, <2>3, JumpedType
  <1>3. CASE x.op \in Loads
    <2>1. x.dest \in Dests
      BY <1>3 DEF Loads, IntermediateType
    <2>2. Put(c, x.dest, LoadedWord(c, x)) \in ContextType
      BY <1>3, <2>1, LoadedType, PutType
    <2>3. AddressIn(c, x) \in Values
      BY <1>3, AddressType DEF MemoryOps
    <2>4. CASE x.op = "LD_32_L"
      <3>1. After(c, x) = Linked(c, x)
        BY <2>4, AfterFacts
      <3> QED
        <4>1. [c.gpr EXCEPT ![x.dest] = LoadedWord(c, x)] \in
                {g \in [Regs -> Values] : g[GPR_CR] \in {0, 1}}
          BY <1>3, <2>1, LoadedType, RegFacts DEF ContextType
        <4> QED
          BY <2>3, <3>1, <4>1 DEF Linked, Built, ContextType
    <2>5. CASE x.op # "LD_32_L"
      <3>1. After(c, x) = Put(c, x.dest, LoadedWord(c, x))
        BY <1>3, <2>5, AfterFacts
      <3> QED
        BY <2>2, <3>1
    <2> QED
      BY <2>4, <2>5
  <1>4. CASE x.op \in Stores
    <2>1. StoredIn(c, x) \in [Words -> Words]
      BY <1>4, StoredType DEF Stores
    <2>2. After(c, x) = Written(c, x)
      BY <1>4, AfterFacts
    <2> QED
      BY <2>1, <2>2 DEF Written, Built, ContextType
  <1>5. CASE x.op = "PPC_STWCX"
    <2>1. After(c, x) = IF ReservedIn(c, x) THEN Conditional(c, x) ELSE Put(c, GPR_CR, 0)
      BY <1>5, AfterFacts
    <2>2. Put(c, GPR_CR, 0) \in ContextType
      BY PutCrType
    <2>3. ASSUME ReservedIn(c, x) PROVE Conditional(c, x) \in ContextType
      <3>1. StoredIn(c, x) \in [Words -> Words]
        BY <1>5, <2>3, StoredType
      <3>2. [c.gpr EXCEPT ![GPR_CR] = 1] \in {g \in [Regs -> Values] : g[GPR_CR] \in {0, 1}}
        BY RegFacts, ValueOfWord DEF ContextType
      <3> QED
        BY <3>1, <3>2 DEF Conditional, Built, ContextType
    <2> QED
      BY <2>1, <2>2, <2>3
  <1> QED
    BY <1>1, <1>2, <1>3, <1>4, <1>5 DEF MemoryOps

-----------------------------------------------------------------------------
(* The intermediates of each instruction.                                   *)
LEMMA Pair == ASSUME NEW x, NEW y PROVE <<x>> \o <<y>> = <<x, y>>
  <1> DEFINE S == {x, y}
  <1>1. <<x>> \in Seq(S) /\ <<y>> \in Seq(S) /\ <<x, y>> \in Seq(S)
    OBVIOUS
  <1> HIDE DEF S
  <1>2. /\ <<x>> \o <<y>> \in Seq(S)
        /\ Len(<<x>> \o <<y>>) = 2
        /\ \A k \in 1 .. 2 : (<<x>> \o <<y>>)[k] = IF k <= 1 THEN <<x>>[k] ELSE <<y>>[k - 1]
    BY <1>1, ConcatProperties
  <1>3. ASSUME NEW k \in 1 .. 2 PROVE (<<x>> \o <<y>>)[k] = <<x, y>>[k]
    <2>1. CASE k = 1
      BY <1>2, <2>1
    <2>2. CASE k = 2
      BY <1>2, <2>2
    <2> QED
      BY <2>1, <2>2
  <1> QED
    BY <1>1, <1>2, <1>3, SeqEqual

LEMMA Triple == ASSUME NEW x, NEW y, NEW z PROVE <<x, y>> \o <<z>> = <<x, y, z>>
  <1> DEFINE S == {x, y, z}
  <1>1. <<x, y>> \in Seq(S) /\ <<z>> \in Seq(S) /\ <<x, y, z>> \in Seq(S)
    OBVIOUS
  <1> HIDE DEF S
  <1>2. /\ <<x, y>> \o <<z>> \in Seq(S)
        /\ Len(<<x, y>> \o <<z>>) = 3
        /\ \A k \in 1 .. 3 : (<<x, y>> \o <<z>>)[k] = IF k <= 2 THEN <<x, y>>[k] ELSE <<z>>[k - 2]
    BY <1>1, ConcatProperties
  <1>3. ASSUME NEW k \in 1 .. 3 PROVE (<<x, y>> \o <<z>>)[k] = <<x, y, z>>[k]
    <2>1. CASE k \in {1, 2}
      BY <1>2, <2>1
    <2>2. CASE k = 3
      BY <1>2, <2>2
    <2> QED
      BY <2>1, <2>2
  <1> QED
    BY <1>1, <1>2, <1>3, SeqEqual

LEMMA Sequences ==
    ASSUME NEW x, NEW y, NEW z
    PROVE  /\ <<x>> # <<>> /\ Head(<<x>>) = x /\ Tail(<<x>>) = <<>> /\ Len(<<x>>) = 1
           /\ <<x, y>> # <<>> /\ Head(<<x, y>>) = x /\ Tail(<<x, y>>) = <<y>> /\ Len(<<x, y>>) = 2
           /\ <<x, y, z>> # <<>> /\ Head(<<x, y, z>>) = x /\ Tail(<<x, y, z>>) = <<y, z>>
           /\ Len(<<x, y, z>>) = 3
           /\ <<x>> \o <<>> = <<x>> /\ <<>> \o <<x>> = <<x>> /\ <<x>> \o <<y>> = <<x, y>>
           /\ <<x, y>> \o <<>> = <<x, y>> /\ <<x, y>> \o <<z>> = <<x, y, z>>
  <1>1. <<x>> # <<>> /\ Head(<<x>>) = x /\ Tail(<<x>>) = <<>> /\ Len(<<x>>) = 1
    OBVIOUS
  <1>2. <<x, y>> # <<>> /\ Head(<<x, y>>) = x /\ Tail(<<x, y>>) = <<y>> /\ Len(<<x, y>>) = 2
    OBVIOUS
  <1>3. /\ <<x, y, z>> # <<>> /\ Head(<<x, y, z>>) = x /\ Tail(<<x, y, z>>) = <<y, z>>
        /\ Len(<<x, y, z>>) = 3
    OBVIOUS
  <1>4. <<x>> \o <<>> = <<x>> /\ <<>> \o <<x>> = <<x>> /\ <<x, y>> \o <<>> = <<x, y>>
    OBVIOUS
  <1> QED
    BY <1>1, <1>2, <1>3, <1>4, Pair, Triple

LEMMA ShapeOfBranches ==
    ASSUME NEW i \in Instructions, NEW at
    PROVE  /\ (i.op = "b" /\ ~i.lk) =>
                BuildIntermediate(i, at) = <<BRANCH_ALWAYS(Plus(at, i.d))>>
           /\ (i.op = "b" /\ i.lk) =>
                BuildIntermediate(i, at) = <<LD_64_IMM(GPR_LR, at + 1),
                                             BRANCH_ALWAYS(Plus(at, i.d))>>
           /\ (i.op = "beq" /\ ~i.lk) =>
                BuildIntermediate(i, at) = <<BRANCH_MASK_NOT_ZERO(GPR_CR, Plus(at, i.d))>>
           /\ (i.op = "beq" /\ i.lk) =>
                BuildIntermediate(i, at) = <<BRANCH_MASK_NOT_ZERO(GPR_CR, Plus(at, i.d)),
                                             LD_64_IMM(GPR_LR, at + 1)>>
           /\ (i.op = "bdnz" /\ ~i.lk) =>
                BuildIntermediate(i, at) = <<SUBU_IMM(GPR_CTR, GPR_CTR, 1),
                                             BRANCH_GPR64_NOT_ZERO(GPR_CTR, Plus(at, i.d))>>
           /\ (i.op = "bdnz" /\ i.lk) =>
                BuildIntermediate(i, at) = <<SUBU_IMM(GPR_CTR, GPR_CTR, 1),
                                             BRANCH_GPR64_NOT_ZERO(GPR_CTR, Plus(at, i.d)),
                                             LD_64_IMM(GPR_LR, at + 1)>>
           /\ i.op = "blr" => BuildIntermediate(i, at) = <<BRANCH_GPR64(GPR_LR)>>
           /\ i.op = "bctrl" =>
                BuildIntermediate(i, at) = <<BRANCH_GPR64(GPR_CTR), LD_64_IMM(GPR_LR, at + 1)>>
           /\ i.op = "rfid" => BuildIntermediate(i, at) = <<PPC_RFID>>
  <1>1. i.op = "b" => BuildIntermediate(i, at) = IfLink(i.lk, at) \o <<BRANCH_ALWAYS(Plus(at, i.d))>>
    BY DEF BuildIntermediate
  <1>2. i.op \in {"beq", "bdnz"} => BuildIntermediate(i, at) = BuildIntermediateBcc(i, at)
    BY DEF BuildIntermediate
  <1>3. i.op \in {"blr", "bctrl", "rfid"} =>
            BuildIntermediate(i, at) = BuildIntermediateTable19(i, at)
    BY DEF BuildIntermediate
  <1>4. i.lk => IfLink(i.lk, at) = <<LD_64_IMM(GPR_LR, at + 1)>>
    BY DEF IfLink
  <1>5. ~i.lk => IfLink(i.lk, at) = <<>>
    BY DEF IfLink
  <1>6. i.op = "beq" => BuildIntermediate(i, at) =
            <<BRANCH_MASK_NOT_ZERO(GPR_CR, Plus(at, i.d))>> \o IfLink(i.lk, at)
    BY <1>2 DEF BuildIntermediateBcc
  <1>7. i.op = "bdnz" => BuildIntermediate(i, at) =
            <<SUBU_IMM(GPR_CTR, GPR_CTR, 1),
              BRANCH_GPR64_NOT_ZERO(GPR_CTR, Plus(at, i.d))>> \o IfLink(i.lk, at)
    BY <1>2 DEF BuildIntermediateBcc
  <1>8. /\ i.op = "blr" => BuildIntermediate(i, at) = <<BRANCH_GPR64(GPR_LR)>>
        /\ i.op = "bctrl" =>
             BuildIntermediate(i, at) = <<BRANCH_GPR64(GPR_CTR), LD_64_IMM(GPR_LR, at + 1)>>
        /\ i.op = "rfid" => BuildIntermediate(i, at) = <<PPC_RFID>>
    BY <1>3 DEF BuildIntermediateTable19
  <1>9. CASE i.op = "b"
    BY <1>1, <1>4, <1>5, <1>9, Sequences
  <1>10. CASE i.op = "beq"
    BY <1>4, <1>5, <1>6, <1>10, Sequences
  <1>11. CASE i.op = "bdnz"
    <2> DEFINE u == SUBU_IMM(GPR_CTR, GPR_CTR, 1)
               t == BRANCH_GPR64_NOT_ZERO(GPR_CTR, Plus(at, i.d))
               l == LD_64_IMM(GPR_LR, at + 1)
    <2>1. BuildIntermediate(i, at) = <<u, t>> \o IfLink(i.lk, at)
      BY <1>7, <1>11
    <2>2. CASE i.lk
      <3>1. BuildIntermediate(i, at) = <<u, t>> \o <<l>>
        BY <1>4, <2>1, <2>2
      <3>2. <<u, t>> \o <<l>> = <<u, t, l>>
        BY Triple
      <3> QED
        BY <1>11, <2>2, <3>1, <3>2
    <2>3. CASE ~i.lk
      <3>1. BuildIntermediate(i, at) = <<u, t>> \o <<>>
        BY <1>5, <2>1, <2>3
      <3> QED
        BY <1>11, <2>3, <3>1
    <2> QED
      BY <2>2, <2>3
  <1> QED
    BY <1>8, <1>9, <1>10, <1>11

LEMMA ShapeOfOthers ==
    ASSUME NEW i \in Instructions, NEW at
    PROVE  /\ i.op = "addi" =>
                BuildIntermediate(i, at) = IF i.ra = 0 THEN <<LD_64_IMM(i.rt, i.d)>>
                                                       ELSE <<ADD_IMM(i.ra, i.rt, i.d)>>
           /\ i.op = "lwz" =>
                BuildIntermediate(i, at) =
                   IF i.ra = 0 THEN <<LD_32_ABS(i.rt, i.d), LD_32_HIGH(i.rt, 0)>>
                               ELSE <<LD_32_REG_OFF(i.rt, i.ra, i.d), LD_32_HIGH(i.rt, 0)>>
           /\ i.op = "lwarx" =>
                BuildIntermediate(i, at) =
                   IF i.ra = 0 THEN <<LD_32_L(i.rt, i.rb), LD_32_HIGH(i.rt, 0)>>
                               ELSE <<ADD(GPR_TEMP, i.ra, i.rb), LD_32_L(i.rt, GPR_TEMP),
                                      LD_32_HIGH(i.rt, 0)>>
           /\ i.op = "stwcx" => BuildIntermediate(i, at) = <<PPC_STWCX(i.rb, i.ra, i.rt)>>
           /\ i.op = "stw" =>
                BuildIntermediate(i, at) = IF i.ra = 0 THEN <<ST_ABS(32, i.rt, i.d)>>
                                                       ELSE <<ST_REG_OFF(32, i.rt, i.ra, i.d)>>
           /\ i.op = "stwu" =>
                BuildIntermediate(i, at) =
                   IF i.ra = 0 THEN <<INVALID>>
                               ELSE <<ADD_IMM(i.ra, GPR_TEMP, i.d),
                                      ST_REG_OFF(32, i.rt, GPR_TEMP, 0),
                                      ADD_IMM(i.ra, i.ra, i.d)>>
           /\ i.op = "ld" => BuildIntermediate(i, at) = <<LD_64_REG_OFF(i.rt, i.ra, i.d)>>
           /\ i.op = "std" =>
                BuildIntermediate(i, at) = IF i.ra = 0 THEN <<ST_ABS(64, i.rt, i.d)>>
                                                       ELSE <<ST_REG_OFF(64, i.rt, i.ra, i.d)>>
           /\ i.op = "unknown" => BuildIntermediate(i, at) = <<UNKNOWN>>
  <1>1. /\ i.op = "lwarx" => BuildIntermediate(i, at) = BuildLwarx(i)
        /\ i.op = "stwu" => BuildIntermediate(i, at) = BuildStwu(i)
    BY DEF BuildIntermediate
  <1>2. i.op = "lwarx" =>
          BuildIntermediate(i, at) =
             IF i.ra = 0 THEN <<LD_32_L(i.rt, i.rb), LD_32_HIGH(i.rt, 0)>>
                         ELSE <<ADD(GPR_TEMP, i.ra, i.rb), LD_32_L(i.rt, GPR_TEMP),
                                LD_32_HIGH(i.rt, 0)>>
    BY <1>1, Sequences DEF BuildLwarx
  <1>3. i.op = "stwu" =>
          BuildIntermediate(i, at) =
             IF i.ra = 0 THEN <<INVALID>>
                         ELSE <<ADD_IMM(i.ra, GPR_TEMP, i.d), ST_REG_OFF(32, i.rt, GPR_TEMP, 0),
                                ADD_IMM(i.ra, i.ra, i.d)>>
    BY <1>1 DEF BuildStwu
  <1>4. i.op \in {"addi", "lwz"} =>
          BuildIntermediate(i, at) =
             IF i.op = "addi"
               THEN IF i.ra = 0 THEN <<LD_64_IMM(i.rt, i.d)>> ELSE <<ADD_IMM(i.ra, i.rt, i.d)>>
               ELSE IF i.ra = 0 THEN <<LD_32_ABS(i.rt, i.d), LD_32_HIGH(i.rt, 0)>>
                                ELSE <<LD_32_REG_OFF(i.rt, i.ra, i.d), LD_32_HIGH(i.rt, 0)>>
    BY DEF BuildIntermediate
  <1>5. /\ i.op = "stwcx" => BuildIntermediate(i, at) = <<PPC_STWCX(i.rb, i.ra, i.rt)>>
        /\ i.op = "stw" =>
             BuildIntermediate(i, at) = IF i.ra = 0 THEN <<ST_ABS(32, i.rt, i.d)>>
                                                    ELSE <<ST_REG_OFF(32, i.rt, i.ra, i.d)>>
        /\ i.op = "ld" => BuildIntermediate(i, at) = <<LD_64_REG_OFF(i.rt, i.ra, i.d)>>
        /\ i.op = "std" =>
             BuildIntermediate(i, at) = IF i.ra = 0 THEN <<ST_ABS(64, i.rt, i.d)>>
                                                    ELSE <<ST_REG_OFF(64, i.rt, i.ra, i.d)>>
        /\ i.op = "unknown" => BuildIntermediate(i, at) = <<UNKNOWN>>
    BY DEF BuildIntermediate
  <1> QED
    BY <1>2, <1>3, <1>4, <1>5

(* All but the last of several intermediates can be executed; of those only *)
(* the first accesses memory, or the second after a sum into GPR_TEMP.      *)
Plain(x) == x.op \in ArithmeticOps \union BranchOps \union MemoryOps
Sums(x) == x.op \in {"ADD", "ADD_IMM"} /\ x.dest = GPR_TEMP

One(s, x) == s = <<x>> /\ x \in IntermediateType
Two(s, x, y) ==
    /\ s = <<x, y>> /\ x \in IntermediateType /\ y \in IntermediateType
    /\ Plain(x) /\ Plain(y) /\ y.op \notin MemoryOps
Three(s, x, y, z) ==
    /\ s = <<x, y, z>>
    /\ x \in IntermediateType /\ y \in IntermediateType /\ z \in IntermediateType
    /\ Plain(x) /\ Plain(y) /\ Plain(z) /\ x.op \notin MemoryOps /\ z.op \notin MemoryOps
    /\ y.op \in MemoryOps => Sums(x)

(* What the builder's constructors make.                                    *)
LEMMA Arithmetics ==
    ASSUME NEW dest \in Dests, NEW ra \in Regs, NEW rb \in Regs, NEW imm \in Values
    PROVE  \A x \in {LD_64_IMM(dest, imm), LD_32_HIGH(dest, 0), ADD(dest, ra, rb),
                     ADD_IMM(ra, dest, imm), SUBU_IMM(ra, dest, imm)} :
              x \in IntermediateType /\ Plain(x) /\ x.op \notin MemoryOps
  BY DEF LD_64_IMM, LD_32_HIGH, ADD, ADD_IMM, SUBU_IMM, IntermediateType, Plain, ArithmeticOps,
         MemoryOps, Loads, Stores

LEMMA Jumps ==
    ASSUME NEW ra \in Regs, NEW imm \in Values
    PROVE  \A x \in {BRANCH_ALWAYS(imm), BRANCH_GPR64(ra), BRANCH_MASK_NOT_ZERO(ra, imm),
                     BRANCH_GPR64_NOT_ZERO(ra, imm)} :
              x \in IntermediateType /\ Plain(x) /\ x.op \notin MemoryOps
  BY DEF BRANCH_ALWAYS, BRANCH_GPR64, BRANCH_MASK_NOT_ZERO, BRANCH_GPR64_NOT_ZERO,
         IntermediateType, Plain, BranchOps, MemoryOps, Loads, Stores

LEMMA Memories ==
    ASSUME NEW dest \in Dests, NEW ra \in Regs, NEW rb \in Regs, NEW rs \in Regs,
           NEW imm \in Values, NEW size \in {32, 64}
    PROVE  \A x \in {LD_32_ABS(dest, imm), LD_32_REG_OFF(dest, ra, imm),
                     LD_64_REG_OFF(dest, ra, imm), LD_32_L(dest, ra), ST_ABS(size, rs, imm),
                     ST_REG_OFF(size, rs, ra, imm), PPC_STWCX(ra, rb, rs)} :
              x \in IntermediateType /\ Plain(x)
  BY DEF LD_32_ABS, LD_32_REG_OFF, LD_64_REG_OFF, LD_32_L, ST_ABS, ST_REG_OFF, PPC_STWCX,
         IntermediateType, Plain, MemoryOps, Loads, Stores

LEMMA Translation ==
    ASSUME NEW i \in Instructions, NEW at \in 0 .. HandlerRfid
    PROVE  LET s == BuildIntermediate(i, at)
           IN  \/ \E x : One(s, x)
               \/ \E x, y : Two(s, x, y)
               \/ \E x, y, z : Three(s, x, y, z)
  <1> DEFINE s == BuildIntermediate(i, at)
             l == LD_64_IMM(GPR_LR, at + 1)
             t == Plus(at, i.d)
             Shaped == \/ \E x : One(s, x)
                       \/ \E x, y : Two(s, x, y)
                       \/ \E x, y, z : Three(s, x, y, z)
  <1>1. at + 1 \in Values /\ at \in Values
    BY WFacts DEF Values, HandlerRfid
  <1>2. 0 \in Values /\ 1 \in Values
    BY WFacts DEF Values
  <1>3. l \in IntermediateType /\ Plain(l) /\ l.op \notin MemoryOps
    BY <1>1, RegFacts, Arithmetics
  <1>4. i.op \in {"b", "beq", "bdnz"} => t \in Values
    BY <1>1, SumFacts DEF Instructions
  <1>5. CASE i.op = "b"
    <2>1. s = IF i.lk THEN <<l, BRANCH_ALWAYS(t)>> ELSE <<BRANCH_ALWAYS(t)>>
      BY <1>5, ShapeOfBranches
    <2>2. BRANCH_ALWAYS(t) \in IntermediateType /\ Plain(BRANCH_ALWAYS(t))
          /\ BRANCH_ALWAYS(t).op \notin MemoryOps
      BY <1>4, <1>5, RegFacts, Jumps
    <2> HIDE DEF s, l, t
    <2>3. Two(s, l, BRANCH_ALWAYS(t)) \/ One(s, BRANCH_ALWAYS(t))
      BY <1>3, <2>1, <2>2 DEF One, Two
    <2> QED
      BY <2>3 DEF s
  <1>6. CASE i.op = "beq"
    <2> DEFINE x == BRANCH_MASK_NOT_ZERO(GPR_CR, t)
    <2>1. s = IF i.lk THEN <<x, l>> ELSE <<x>>
      BY <1>6, ShapeOfBranches
    <2>2. x \in IntermediateType /\ Plain(x) /\ x.op \notin MemoryOps
      BY <1>4, <1>6, RegFacts, Jumps
    <2> HIDE DEF s, l, t, x
    <2>3. Two(s, x, l) \/ One(s, x)
      BY <1>3, <2>1, <2>2 DEF One, Two
    <2> QED
      BY <2>3 DEF s
  <1>7. CASE i.op = "bdnz"
    <2> DEFINE x == SUBU_IMM(GPR_CTR, GPR_CTR, 1)
               y == BRANCH_GPR64_NOT_ZERO(GPR_CTR, t)
    <2>1. s = IF i.lk THEN <<x, y, l>> ELSE <<x, y>>
      BY <1>7, ShapeOfBranches
    <2>2. x \in IntermediateType /\ Plain(x) /\ x.op \notin MemoryOps
      BY <1>2, RegFacts, Arithmetics
    <2>3. y \in IntermediateType /\ Plain(y) /\ y.op \notin MemoryOps
      BY <1>4, <1>7, RegFacts, Jumps
    <2> HIDE DEF s, l, t, x, y
    <2>4. Three(s, x, y, l) \/ Two(s, x, y)
      BY <1>3, <2>1, <2>2, <2>3 DEF Two, Three
    <2> QED
      BY <2>4 DEF s
  <1>8. CASE i.op \in {"blr", "rfid", "unknown"}
    <2>1. s = <<BRANCH_GPR64(GPR_LR)>> \/ s = <<PPC_RFID>> \/ s = <<UNKNOWN>>
      BY <1>8, ShapeOfBranches, ShapeOfOthers
    <2>2. BRANCH_GPR64(GPR_LR) \in IntermediateType
      BY <1>2, RegFacts, Jumps
    <2>3. PPC_RFID \in IntermediateType /\ UNKNOWN \in IntermediateType
      BY DEF PPC_RFID, UNKNOWN, IntermediateType
    <2> QED
      BY <2>1, <2>2, <2>3 DEF One
  <1>9. CASE i.op = "bctrl"
    <2> DEFINE x == BRANCH_GPR64(GPR_CTR)
    <2>1. s = <<x, l>>
      BY <1>9, ShapeOfBranches
    <2>2. x \in IntermediateType /\ Plain(x)
      BY <1>2, RegFacts, Jumps
    <2> HIDE DEF s, l, x
    <2>3. Two(s, x, l)
      BY <1>3, <2>1, <2>2 DEF Two
    <2> QED
      BY <2>3 DEF s
  <1>10. CASE i.op = "addi"
    <2>1. s = <<LD_64_IMM(i.rt, i.d)>> \/ s = <<ADD_IMM(i.ra, i.rt, i.d)>>
      BY <1>10, ShapeOfOthers
    <2>2. i.rt \in Dests /\ i.ra \in Regs /\ i.d \in Values
      BY <1>10, RegFacts DEF Instructions
    <2> QED
      BY <2>1, <2>2, Arithmetics DEF One
  <1>11. CASE i.op = "lwz"
    <2>1. i.rt \in Dests /\ i.ra \in Regs /\ i.d \in Values
      BY <1>11, RegFacts DEF Instructions
    <2>2. PICK x \in {LD_32_ABS(i.rt, i.d), LD_32_REG_OFF(i.rt, i.ra, i.d)} :
            s = <<x, LD_32_HIGH(i.rt, 0)>>
      BY <1>11, ShapeOfOthers
    <2>3. x \in IntermediateType /\ Plain(x)
      BY <2>1, <2>2, Memories
    <2>4. Two(s, x, LD_32_HIGH(i.rt, 0))
      BY <2>1, <2>2, <2>3, Arithmetics DEF Two
    <2> QED
      BY <2>4
  <1>12. CASE i.op = "lwarx"
    <2> DEFINE h == LD_32_HIGH(i.rt, 0)
               u == ADD(GPR_TEMP, i.ra, i.rb)
               y(r) == LD_32_L(i.rt, r)
    <2>1. i.rt \in Dests /\ i.ra \in Regs /\ i.rb \in Regs
      BY <1>12, RegFacts DEF Instructions
    <2>2. s = IF i.ra = 0 THEN <<y(i.rb), h>> ELSE <<u, y(GPR_TEMP), h>>
      BY <1>12, ShapeOfOthers
    <2>3. h \in IntermediateType /\ Plain(h) /\ h.op \notin MemoryOps
      BY <1>2, <2>1, Arithmetics
    <2>4. u \in IntermediateType /\ Plain(u) /\ u.op \notin MemoryOps
      BY <1>2, <2>1, Arithmetics, RegFacts
    <2>5. Sums(u)
      BY DEF Sums, ADD
    <2>6. \A r \in Regs : y(r) \in IntermediateType /\ Plain(y(r))
      BY <1>2, <2>1, Memories
    <2>7. GPR_TEMP \in Regs
      BY RegFacts
    <2> HIDE DEF s, h, u, y
    <2>8. Two(s, y(i.rb), h) \/ Three(s, u, y(GPR_TEMP), h)
      BY <2>1, <2>2, <2>3, <2>4, <2>5, <2>6, <2>7 DEF Two, Three
    <2> QED
      BY <2>8 DEF s
  <1>13. CASE i.op \in {"stw", "ld", "std"}
    <2>1. i.rt \in Dests /\ i.rt \in Regs /\ i.ra \in Regs /\ i.d \in Values
      BY <1>13, RegFacts DEF Instructions
    <2>2. \E size \in {32, 64} :
            s \in {<<ST_ABS(size, i.rt, i.d)>>, <<ST_REG_OFF(size, i.rt, i.ra, i.d)>>,
                   <<LD_64_REG_OFF(i.rt, i.ra, i.d)>>}
      BY <1>13, ShapeOfOthers
    <2> QED
      BY <2>1, <2>2, Memories DEF One
  <1>14. CASE i.op = "stwcx"
    <2>1. i.rt \in Dests /\ i.rt \in Regs /\ i.ra \in Regs /\ i.rb \in Regs
      BY <1>14, RegFacts DEF Instructions
    <2>2. s = <<PPC_STWCX(i.rb, i.ra, i.rt)>>
      BY <1>14, ShapeOfOthers
    <2> QED
      BY <1>2, <2>1, <2>2, Memories DEF One
  <1>15. CASE i.op = "stwu"
    <2> DEFINE u == ADD_IMM(i.ra, GPR_TEMP, i.d)
               y == ST_REG_OFF(32, i.rt, GPR_TEMP, 0)
               z == ADD_IMM(i.ra, i.ra, i.d)
    <2>1. i.rt \in Regs /\ i.ra \in Dests /\ i.ra \in Regs /\ i.d \in Values
      BY <1>15, RegFacts DEF Instructions
    <2>2. s = IF i.ra = 0 THEN <<INVALID>> ELSE <<u, y, z>>
      BY <1>15, ShapeOfOthers
    <2>3. u \in IntermediateType /\ Plain(u) /\ u.op \notin MemoryOps /\ Sums(u)
      <3>1. Sums(u)
        BY DEF Sums, ADD_IMM
      <3> QED
        BY <2>1, <3>1, RegFacts, Arithmetics
    <2>4. y \in IntermediateType /\ Plain(y)
      BY <1>2, <2>1, RegFacts, Memories
    <2>5. z \in IntermediateType /\ Plain(z) /\ z.op \notin MemoryOps
      BY <2>1, Arithmetics
    <2>6. INVALID \in IntermediateType
      BY DEF INVALID, IntermediateType
    <2> HIDE DEF s, u, y, z
    <2>7. One(s, INVALID) \/ Three(s, u, y, z)
      BY <2>2, <2>3, <2>4, <2>5, <2>6 DEF One, Three
    <2> QED
      BY <2>7 DEF s
  <1>16. i.op \in {"addi", "lwz", "ld", "stw", "stwu", "std", "lwarx", "stwcx", "b", "beq", "bdnz",
                  "bctrl", "blr", "rfid", "unknown"}
    BY DEF Instructions
  <1> HIDE DEF Shaped
  <1> QED
    BY <1>5, <1>6, <1>7, <1>8, <1>9, <1>10, <1>11, <1>12, <1>13, <1>14, <1>15, <1>16 DEF Shaped

-----------------------------------------------------------------------------
(* The invariant.  While an instruction is in flight, what is left of its   *)
(* intermediates is a suffix of its translation and the context is the one  *)
(* it started with, after the others.                                       *)
AllOf == BuildIntermediate(CodeAt(start.pc), start.pc)
Begun ==
    Built(start.gpr, start.mem, start.isReserved, start.reservation, start.pc + 1, start.msr)

NoneDone == intermediates = AllOf /\ Context = Begun
FirstOfTwoDone ==
    \E x, y :
        /\ Two(AllOf, x, y)
        /\ intermediates = <<y>>
        /\ Fine(Begun, mapped, x)
        /\ Context = After(Begun, x)
FirstOfThreeDone ==
    \E x, y, z :
        /\ Three(AllOf, x, y, z)
        /\ intermediates = <<y, z>>
        /\ Fine(Begun, mapped, x)
        /\ Context = After(Begun, x)
SecondOfThreeDone ==
    \E x, y, z :
        /\ Three(AllOf, x, y, z)
        /\ intermediates = <<z>>
        /\ Fine(Begun, mapped, x)
        /\ Fine(After(Begun, x), mapped, y)
        /\ Context = After(After(Begun, x), y)

InFlight ==
    /\ start \in ContextType
    /\ InCode(start.pc)
    /\ ~start.msr.relocated \/ CodePage(start.pc) \in mapped
    /\ retired < MaxInstr
    /\ NoneDone \/ FirstOfTwoDone \/ FirstOfThreeDone \/ SecondOfThreeDone

IInv ==
    /\ TypeOK
    /\ Context \in ContextType
    /\ dar \in 0 .. W /\ srr0 \in DOMAIN code \union {HandlerRfid}
    /\ readingInstructions <=> intermediates = <<>>
    /\ InProgress <=> (running /\ intermediates # <<>>)
    /\ InProgress => InFlight

LEMMA ContextFacts ==
    /\ Context.gpr = gpr /\ Context.mem = mem /\ Context.isReserved = isReserved
    /\ Context.reservation = reservation /\ Context.pc = pc /\ Context.msr = msr
  BY DEF Context

(* An intermediate touches what it touches in the context.                  *)
LEMMA InContext ==
    ASSUME NEW x
    PROVE  /\ Address(x) = AddressIn(Context, x)
           /\ Reserved(x) = ReservedIn(Context, x)
           /\ Touched(x) = TouchedIn(Context, x)
           /\ x.op \in MemoryOps => (AllHit(x) <=> Fine(Context, mapped, x))
  <1>1. Address(x) = AddressIn(Context, x)
    BY ContextFacts DEF Address, AddressIn
  <1>2. Reserved(x) = ReservedIn(Context, x)
    BY <1>1, ContextFacts DEF Reserved, ReservedIn
  <1>3. Touched(x) = TouchedIn(Context, x)
    BY <1>1, <1>2 DEF Touched, TouchedIn
  <1>4. \A a : Hits(a) <=> HitsIn(Context, mapped, a)
    BY ContextFacts DEF Hits, HitsIn, Present
  <1> QED
    BY <1>1, <1>2, <1>3, <1>4 DEF AllHit, Fine

(* Those that succeed do what After says.                                   *)
Succeeds ==
    \/ InterpretArithmetic \/ InterpretBranch
    \/ InterpretLoad \/ InterpretStore \/ InterpretStwcx

LEMMA Effects ==
    ASSUME Context \in ContextType, Current \in IntermediateType, Succeeds
    PROVE  /\ running /\ intermediates # <<>> /\ Plain(Current)
           /\ Fine(Context, mapped, Current)
           /\ Context' = After(Context, Current)
           /\ Proceed
  <1> DEFINE x == Current
             c == Context
  <1>1. Context' = Built(gpr', mem', isReserved', reservation', pc', msr')
    BY DEF Context, Built
  <1>2. CASE InterpretArithmetic
    <2>1. x.op \in ArithmeticOps /\ x.op \notin MemoryOps
      BY <1>2 DEF InterpretArithmetic, Interpreting, ArithmeticOps, MemoryOps, Loads, Stores
    <2>2. gpr' = [c.gpr EXCEPT ![x.dest] = ResultIn(c, x)]
      BY <1>2, ContextFacts DEF InterpretArithmetic, ResultIn
    <2>3. Context' = Put(c, x.dest, ResultIn(c, x))
      BY <1>1, <1>2, <2>2, ContextFacts DEF InterpretArithmetic, Put
    <2> QED
      BY <1>2, <2>1, <2>3, AfterFacts DEF InterpretArithmetic, Interpreting, Plain, Fine
  <1>3. CASE InterpretBranch
    <2>1. x.op \in BranchOps /\ x.op \notin MemoryOps /\ msr' = msr
      BY <1>3 DEF InterpretBranch, Interpreting, BranchOps, MemoryOps, Loads, Stores
    <2>2. ASSUME NEW target, SetPC(target) PROVE Context' = Jumped(c, target)
      BY <1>1, <1>3, <2>1, <2>2, ContextFacts DEF InterpretBranch, SetPC, Jumped
    <2>3. pc' = pc => Context' = c
      BY <1>3 DEF InterpretBranch, Context
    <2>4. Context' = After(c, x)
      <3>1. CASE x.op = "BRANCH_ALWAYS"
        BY <1>3, <2>2, <3>1, AfterFacts DEF InterpretBranch
      <3>2. CASE x.op = "BRANCH_GPR64"
        BY <1>3, <2>2, <3>2, AfterFacts, ContextFacts DEF InterpretBranch
      <3>3. CASE x.op = "BRANCH_NOT_ZERO"
        BY <1>3, <2>2, <2>3, <3>3, AfterFacts, ContextFacts DEF InterpretBranch
      <3> QED
        BY <2>1, <3>1, <3>2, <3>3 DEF BranchOps
    <2> QED
      BY <1>3, <2>1, <2>4 DEF InterpretBranch, Interpreting, Plain, Fine
  <1>4. CASE InterpretLoad
    <2>1. x.op \in Loads /\ x.op \in MemoryOps
      BY <1>4 DEF InterpretLoad, Interpreting, MemoryOps
    <2>2. x.dest \in Regs /\ gpr \in [Regs -> Values]
      BY <2>1, ContextFacts, RegFacts DEF IntermediateType, Loads, ContextType
    <2>3. gpr' = [c.gpr EXCEPT ![x.dest] = LoadedWord(c, x)]
      BY <1>4, <2>2, InContext, ContextFacts DEF InterpretLoad, LoadedWord
    <2>4. mem' = mem /\ pc' = pc /\ msr' = msr
      BY <1>4 DEF InterpretLoad
    <2>5. Context' = After(c, x)
      <3>1. CASE x.op = "LD_32_L"
        <4>1. isReserved' = TRUE /\ reservation' = AddressIn(c, x)
          BY <1>4, <3>1, InContext DEF InterpretLoad
        <4>2. Context' = Linked(c, x)
          BY <1>1, <2>3, <2>4, <4>1, ContextFacts DEF Linked
        <4> QED
          BY <3>1, <4>2, AfterFacts
      <3>2. CASE x.op # "LD_32_L"
        <4>1. isReserved' = isReserved /\ reservation' = reservation
          BY <1>4, <3>2 DEF InterpretLoad
        <4>2. Context' = Put(c, x.dest, LoadedWord(c, x))
          BY <1>1, <2>3, <2>4, <4>1, ContextFacts DEF Put
        <4> QED
          BY <2>1, <3>2, <4>2, AfterFacts
      <3> QED
        BY <3>1, <3>2
    <2> QED
      BY <1>4, <2>1, <2>5, InContext DEF InterpretLoad, Interpreting, Plain
  <1>5. CASE InterpretStore
    <2>1. x.op \in Stores /\ x.op \in MemoryOps
      BY <1>5 DEF InterpretStore, Interpreting, MemoryOps
    <2>2. mem' = StoredIn(c, x)
      BY <1>5, InContext, ContextFacts DEF InterpretStore, StoredIn
    <2>3. Context' = Written(c, x)
      BY <1>1, <1>5, <2>2, ContextFacts DEF InterpretStore, Written
    <2> QED
      BY <1>5, <2>1, <2>3, InContext, AfterFacts DEF InterpretStore, Interpreting, Plain
  <1>6. CASE InterpretStwcx
    <2>1. x.op = "PPC_STWCX" /\ x.op \in MemoryOps /\ ~IsDouble(x)
      BY <1>6 DEF InterpretStwcx, Interpreting, MemoryOps, IsDouble, Stores
    <2>2. reservation' = reservation /\ pc' = pc /\ msr' = msr
      BY <1>6 DEF InterpretStwcx
    <2>3. Context' = After(c, x)
      <3>1. CASE ReservedIn(c, x)
        <4>1. /\ mem' = StoredIn(c, x)
              /\ gpr' = [c.gpr EXCEPT ![GPR_CR] = 1]
              /\ isReserved' = FALSE
          BY <1>6, <2>1, <3>1, InContext, ContextFacts DEF InterpretStwcx, StoredIn
        <4>2. Context' = Conditional(c, x)
          BY <1>1, <2>2, <4>1, ContextFacts DEF Conditional
        <4> QED
          BY <2>1, <3>1, <4>2, AfterFacts
      <3>2. CASE ~ReservedIn(c, x)
        <4>1. /\ mem' = mem
              /\ gpr' = [c.gpr EXCEPT ![GPR_CR] = 0]
              /\ isReserved' = isReserved
          BY <1>6, <3>2, InContext, ContextFacts DEF InterpretStwcx
        <4>2. Context' = Put(c, GPR_CR, 0)
          BY <1>1, <2>2, <4>1, ContextFacts DEF Put
        <4> QED
          BY <2>1, <3>2, <4>2, AfterFacts
      <3> QED
        BY <3>1, <3>2
    <2> QED
      BY <1>6, <2>1, <2>3, InContext DEF InterpretStwcx, Interpreting, Plain
  <1> QED
    BY <1>2, <1>3, <1>4, <1>5, <1>6 DEF Succeeds

LEMMA CodeFacts ==
    ASSUME TypeOK
    PROVE  /\ DOMAIN code \subseteq 0 .. 2 /\ 0 \in DOMAIN code
           /\ \A a : InCode(a) => a \in 0 .. HandlerRfid /\ CodeAt(a) \in Instructions
  <1>1. PICK p \in Programs : code = CodeOf(p)
    BY DEF TypeOK
  <1>2. p \in Seq(Instructions) /\ Len(p) \in 1 .. 3
    BY ProgramsAssumption DEF DsiVector
  <1>3. DOMAIN code = 0 .. Len(p) - 1 /\ \A a \in 0 .. Len(p) - 1 : code[a] = p[a + 1]
    BY <1>1 DEF CodeOf
  <1>4. \A a \in DOMAIN code : code[a] \in Instructions
    <2>1. \A k \in 1 .. Len(p) : p[k] \in Instructions
      BY <1>2
    <2> QED
      BY <1>2, <1>3, <2>1
  <1>5. Rfid \in Instructions
    BY DEF Rfid, Instructions
  <1>6. DOMAIN code \subseteq 0 .. 2 /\ 0 \in DOMAIN code
    <2>1. \A n \in 1 .. 3 : 0 .. n - 1 \subseteq 0 .. 2 /\ 0 \in 0 .. n - 1
      OBVIOUS
    <2> QED
      BY <1>2, <1>3, <2>1
  <1> QED
    BY <1>4, <1>5, <1>6 DEF InCode, CodeAt, HandlerRfid

LEMMA ContextParts ==
    ASSUME Context \in ContextType
    PROVE  /\ gpr \in [Regs -> Values] /\ gpr[GPR_CR] \in {0, 1} /\ mem \in [Words -> Words]
           /\ isReserved \in BOOLEAN /\ reservation \in Values /\ pc \in Values /\ msr \in Msr
  BY ContextFacts DEF ContextType

LEMMA ContextWhole ==
    ASSUME gpr \in [Regs -> Values], gpr[GPR_CR] \in {0, 1}, mem \in [Words -> Words],
           isReserved \in BOOLEAN, reservation \in Values, pc \in Values, msr \in Msr
    PROVE  Context \in ContextType
  BY DEF Context, ContextType

(* The parts of the invariant that a step within an instruction leaves.     *)
LEMMA Kept ==
    ASSUME IInv, Context' \in ContextType,
           UNCHANGED <<code, mapped, dar, srr0, srr1, faultingAddr>>,
           {readingInstructions', running'} \subseteq BOOLEAN,
           Len(intermediates') <= 4, retired' \in 0 .. MaxInstr
    PROVE  TypeOK' /\ dar' \in 0 .. W /\ srr0' \in DOMAIN code' \union {HandlerRfid}
  <1>1. /\ gpr' \in [Regs -> Values] /\ mem' \in [Words -> Words] /\ isReserved' \in BOOLEAN
        /\ reservation' \in Values /\ pc' \in Values /\ msr' \in Msr
    <2>1. /\ Context'.gpr = gpr' /\ Context'.mem = mem' /\ Context'.isReserved = isReserved'
          /\ Context'.reservation = reservation' /\ Context'.pc = pc' /\ Context'.msr = msr'
      BY DEF Context
    <2> QED
      BY <2>1 DEF ContextType
  <1>2. TypeOK
    BY DEF IInv
  <1> QED
    BY <1>1, <1>2 DEF TypeOK, IInv

LEMMA Sources ==
    ASSUME IInv, InProgress
    PROVE  /\ InFlight /\ running
           /\ start \in ContextType /\ Begun \in ContextType
           /\ start.pc \in 0 .. HandlerRfid /\ CodeAt(start.pc) \in Instructions
           /\ retired \in Nat /\ retired < MaxInstr
           /\ \/ \E x : One(AllOf, x)
              \/ \E x, y : Two(AllOf, x, y)
              \/ \E x, y, z : Three(AllOf, x, y, z)
  <1>1. InFlight /\ TypeOK /\ running
    BY DEF IInv
  <1>2. start \in ContextType /\ start.pc \in 0 .. HandlerRfid /\ CodeAt(start.pc) \in Instructions
    BY <1>1, CodeFacts DEF InFlight
  <1>3. start.pc + 1 \in Values
    BY <1>2, WFacts DEF Values, HandlerRfid
  <1>4. Begun \in ContextType
    BY <1>2, <1>3 DEF Begun, Built, ContextType
  <1>5. retired \in Nat /\ retired < MaxInstr
    BY <1>1, MaxInstrAssumption DEF TypeOK, InFlight
  <1>6. \/ \E x : One(AllOf, x)
        \/ \E x, y : Two(AllOf, x, y)
        \/ \E x, y, z : Three(AllOf, x, y, z)
    BY <1>2, Translation DEF AllOf
  <1> QED
    BY <1>1, <1>2, <1>4, <1>5, <1>6

(* Where an instruction in flight can be.                                   *)
LEMMA Stages ==
    ASSUME IInv, InProgress
    PROVE  \/ \E x : One(AllOf, x) /\ intermediates = <<x>> /\ Context = Begun
           \/ \E x, y : Two(AllOf, x, y) /\ intermediates = <<x, y>> /\ Context = Begun
           \/ \E x, y, z : Three(AllOf, x, y, z) /\ intermediates = <<x, y, z>> /\ Context = Begun
           \/ FirstOfTwoDone
           \/ FirstOfThreeDone
           \/ SecondOfThreeDone
  <1>1. InFlight
    BY DEF IInv
  <1>2. CASE NoneDone
    BY <1>2, Sources DEF NoneDone, One, Two, Three
  <1> QED
    BY <1>1, <1>2 DEF InFlight

LEMMA CurrentFacts ==
    ASSUME IInv, InProgress
    PROVE  /\ intermediates # <<>>
           /\ Current \in IntermediateType
           /\ Len(intermediates) \in 1 .. 3
           /\ Len(intermediates) # 1 => Plain(Current)
  BY Stages, Sequences DEF FirstOfTwoDone, FirstOfThreeDone, SecondOfThreeDone, One, Two, Three, Current

(* An intermediate that succeeds takes an instruction to its next stage.    *)
LEMMA StageStep ==
    ASSUME IInv, InProgress, Proceed, Context' = After(Context, Current),
           Fine(Context, mapped, Current)
    PROVE  \/ Len(intermediates) = 1 /\ intermediates' = <<>> /\ start' = <<>>
              /\ retired' \in 0 .. MaxInstr /\ readingInstructions'
           \/ /\ Len(intermediates) # 1 /\ intermediates' # <<>> /\ Len(intermediates') <= 4
              /\ UNCHANGED <<start, retired, readingInstructions>>
              /\ (NoneDone \/ FirstOfTwoDone \/ FirstOfThreeDone \/ SecondOfThreeDone)'
  <1>1. intermediates' = Tail(intermediates) /\ mapped' = mapped /\ code' = code
    BY DEF Proceed
  <1>2. ASSUME Len(intermediates) # 1
        PROVE  UNCHANGED <<start, retired, readingInstructions>> /\ AllOf' = AllOf /\ Begun' = Begun
    BY <1>1, <1>2 DEF Proceed, AllOf, Begun, CodeAt
  <1>3. ASSUME NEW x, intermediates = <<x>>
        PROVE  Len(intermediates) = 1 /\ intermediates' = <<>> /\ start' = <<>>
               /\ retired' \in 0 .. MaxInstr /\ readingInstructions'
    <2>1. Len(intermediates) = 1 /\ intermediates' = <<>>
      BY <1>1, <1>3, Sequences
    <2> QED
      BY <2>1, Sources, MaxInstrAssumption DEF Proceed
  <1>4. ASSUME NEW x, NEW y, Two(AllOf, x, y), intermediates = <<x, y>>, Context = Begun
        PROVE  Len(intermediates) # 1 /\ intermediates' # <<>> /\ Len(intermediates') <= 4
               /\ FirstOfTwoDone'
    <2>1. Current = x /\ intermediates' = <<y>> /\ Len(intermediates) # 1
      BY <1>1, <1>4, Sequences DEF Current
    <2>2. AllOf' = AllOf /\ Begun' = Begun
      BY <1>2, <2>1
    <2>3. Two(AllOf', x, y) /\ Fine(Begun', mapped', x) /\ Context' = After(Begun', x)
      BY <1>1, <1>4, <2>1, <2>2
    <2> QED
      BY <2>1, <2>3, Sequences DEF FirstOfTwoDone
  <1>5. ASSUME NEW x, NEW y, NEW z, Three(AllOf, x, y, z), intermediates = <<x, y, z>>,
               Context = Begun
        PROVE  Len(intermediates) # 1 /\ intermediates' # <<>> /\ Len(intermediates') <= 4
               /\ FirstOfThreeDone'
    <2>1. Current = x /\ intermediates' = <<y, z>> /\ Len(intermediates) # 1
      BY <1>1, <1>5, Sequences DEF Current
    <2>2. AllOf' = AllOf /\ Begun' = Begun
      BY <1>2, <2>1
    <2>3. Three(AllOf', x, y, z) /\ Fine(Begun', mapped', x) /\ Context' = After(Begun', x)
      BY <1>1, <1>5, <2>1, <2>2
    <2> QED
      BY <2>1, <2>3, Sequences DEF FirstOfThreeDone
  <1>6. ASSUME NEW x, NEW y, NEW z, Three(AllOf, x, y, z), intermediates = <<y, z>>,
               Fine(Begun, mapped, x), Context = After(Begun, x)
        PROVE  Len(intermediates) # 1 /\ intermediates' # <<>> /\ Len(intermediates') <= 4
               /\ SecondOfThreeDone'
    <2>1. Current = y /\ intermediates' = <<z>> /\ Len(intermediates) # 1
      BY <1>1, <1>6, Sequences DEF Current
    <2>2. AllOf' = AllOf /\ Begun' = Begun
      BY <1>2, <2>1
    <2>3. /\ Three(AllOf', x, y, z) /\ Fine(Begun', mapped', x)
          /\ Fine(After(Begun', x), mapped', y)
          /\ Context' = After(After(Begun', x), y)
      BY <1>1, <1>6, <2>1, <2>2
    <2> QED
      BY <2>1, <2>3, Sequences DEF SecondOfThreeDone
  <1> QED
    BY <1>2, <1>3, <1>4, <1>5, <1>6, Stages DEF FirstOfTwoDone, FirstOfThreeDone, SecondOfThreeDone

LEMMA SucceedsInv == IInv /\ Succeeds => IInv'
  <1> SUFFICES ASSUME IInv, Succeeds PROVE IInv'
    OBVIOUS
  <1>1. running /\ intermediates # <<>> /\ InProgress
    BY DEF IInv, Succeeds, InterpretArithmetic, InterpretBranch, InterpretLoad, InterpretStore,
           InterpretStwcx, Interpreting
  <1>2. Current \in IntermediateType /\ Context \in ContextType
    BY <1>1, CurrentFacts DEF IInv
  <1>3. /\ Plain(Current) /\ Fine(Context, mapped, Current)
        /\ Context' = After(Context, Current) /\ Proceed
    BY <1>2, Effects
  <1>4. Context' \in ContextType
    BY <1>2, <1>3, AfterType DEF Plain
  <1>5. running' = running /\ UNCHANGED <<code, mapped, dar, srr0, srr1, faultingAddr>>
    BY <1>3 DEF Proceed
  <1>6. TypeOK /\ InFlight
    BY <1>1 DEF IInv
  <1>7. CASE Len(intermediates) = 1 /\ intermediates' = <<>> /\ start' = <<>>
             /\ retired' \in 0 .. MaxInstr /\ readingInstructions'
    <2>1. readingInstructions' \in BOOLEAN /\ running' \in BOOLEAN /\ Len(intermediates') <= 4
      <3>1. readingInstructions' = TRUE
        BY <1>3, <1>7 DEF Proceed
      <3>2. running' \in BOOLEAN
        BY <1>5, <1>6 DEF TypeOK
      <3>3. Len(<<>>) <= 4
        OBVIOUS
      <3> QED
        BY <1>7, <3>1, <3>2, <3>3
    <2>2. TypeOK' /\ dar' \in 0 .. W /\ srr0' \in DOMAIN code' \union {HandlerRfid}
      BY <1>4, <1>5, <1>7, <2>1, Kept
    <2> QED
      BY <1>4, <1>7, <2>2 DEF IInv, InProgress
  <1>8. CASE /\ Len(intermediates) # 1 /\ intermediates' # <<>> /\ Len(intermediates') <= 4
             /\ UNCHANGED <<start, retired, readingInstructions>>
             /\ (NoneDone \/ FirstOfTwoDone \/ FirstOfThreeDone \/ SecondOfThreeDone)'
    <2>1. TypeOK' /\ dar' \in 0 .. W /\ srr0' \in DOMAIN code' \union {HandlerRfid}
      BY <1>4, <1>5, <1>6, <1>8, Kept DEF TypeOK
    <2>2. InFlight'
      BY <1>5, <1>6, <1>8 DEF InFlight, InCode
    <2>3. readingInstructions' <=> intermediates' = <<>>
      BY <1>1, <1>8 DEF IInv
    <2>4. InProgress' /\ running'
      BY <1>1, <1>5, <1>8 DEF InProgress
    <2> QED
      BY <1>4, <1>8, <2>1, <2>2, <2>3, <2>4 DEF IInv
  <1> QED
    BY <1>1, <1>3, <1>7, <1>8, StageStep

LEMMA Vectors ==
    ASSUME NEW m
    PROVE  /\ TruncatePC(DsiVector, m) = DsiVector /\ TruncatePC(IsiVector, m) = IsiVector
           /\ {DsiVector, IsiVector, HandlerRfid} \subseteq Values
           /\ m \in Msr => RealMode(m) \in Msr
  <1>1. 3 % W = 3 /\ 4 % W = 4
    BY WFacts
  <1>2. {DsiVector, IsiVector, HandlerRfid} \subseteq Values
    BY WFacts DEF DsiVector, IsiVector, HandlerRfid, Values
  <1>3. ASSUME m \in Msr PROVE RealMode(m) \in Msr
    BY <1>3 DEF RealMode, Msr
  <1> QED
    BY <1>1, <1>2, <1>3 DEF TruncatePC, DsiVector, IsiVector, Low

LEMMA InitInv == Init => IInv
  <1> SUFFICES ASSUME Init PROVE IInv
    OBVIOUS
  <1>1. gpr \in [Regs -> Values] /\ gpr[GPR_CR] \in {0, 1}
    <2>1. PICK g \in InitGprs, temp \in {0, W + 1}, ctr \in {1, W * W - W, W} :
             gpr = [r \in Regs |-> CASE r \in Gprs -> g[r]
                                     [] r = GPR_TEMP -> temp
                                     [] r = GPR_CTR -> ctr
                                     [] OTHER -> 0]
      BY DEF Init
    <2>2. \A r \in Gprs : g[r] \in Values
      BY InitGprsAssumption
    <2>3. temp \in Values /\ ctr \in Values /\ 0 \in Values
      BY WFacts DEF Values
    <2>4. \A r \in Regs : gpr[r] = CASE r \in Gprs -> g[r]
                                     [] r = GPR_TEMP -> temp
                                     [] r = GPR_CTR -> ctr
                                     [] OTHER -> 0
      BY <2>1
    <2>5. \A r \in Regs : gpr[r] \in Values
      BY <2>2, <2>3, <2>4
    <2>6. gpr[GPR_CR] = 0
      BY <2>4, RegFacts DEF Gprs, GPR_CR, GPR_TEMP, GPR_CTR
    <2> QED
      BY <2>1, <2>5, <2>6
  <1>2. mem \in [Words -> Words]
    <2>1. \A a \in Words : (3 * a + 1) % W \in Words
      BY WFacts DEF Words
    <2> QED
      BY <2>1 DEF Init
  <1>3. msr \in Msr /\ srr1 \in Msr
    <2>1. msr \in Msr /\ srr1 = [msr EXCEPT !.relocated = TRUE]
      BY DEF Init, Msr
    <2> QED
      BY <2>1 DEF Msr
  <1>4. pc \in Values /\ reservation \in Values /\ srr0 \in Values /\ dar \in Values
        /\ faultingAddr \in Values /\ dar \in 0 .. W
    BY WFacts, ValueOfWord, Vectors DEF Init
  <1>5. Context \in ContextType
    BY <1>1, <1>2, <1>3, <1>4, ContextWhole DEF Init
  <1>6. Len(intermediates) <= 4 /\ retired \in 0 .. MaxInstr
    BY MaxInstrAssumption DEF Init
  <1>7. TypeOK
    BY <1>1, <1>2, <1>3, <1>4, <1>6 DEF TypeOK, Init
  <1>8. srr0 \in DOMAIN code
    BY <1>7, CodeFacts DEF Init
  <1>9. readingInstructions /\ intermediates = <<>> /\ ~InProgress
    BY DEF Init, InProgress
  <1> QED
    BY <1>4, <1>5, <1>7, <1>8, <1>9 DEF IInv

LEMMA FetchInv == IInv /\ Fetch => IInv' /\ InProgress' /\ AllOf' = BuildIntermediate(CodeAt(pc), pc)
  <1> SUFFICES ASSUME IInv, Fetch
               PROVE  IInv' /\ InProgress' /\ AllOf' = BuildIntermediate(CodeAt(pc), pc)
    OBVIOUS
  <1>1. TypeOK /\ Context \in ContextType /\ running /\ InCode(pc) /\ retired < MaxInstr
    BY DEF IInv, Fetch, CanFetch
  <1>2. pc \in 0 .. HandlerRfid /\ CodeAt(pc) \in Instructions
    BY <1>1, CodeFacts
  <1>3. start' = Context /\ start'.pc = pc /\ start' \in ContextType /\ start'.msr = msr
    BY <1>1, ContextFacts DEF Fetch
  <1>4. AllOf' = BuildIntermediate(CodeAt(pc), pc) /\ intermediates' = AllOf'
    BY <1>3 DEF AllOf, Fetch, CodeAt
  <1>5. Context' = Begun'
    BY <1>3, ContextFacts DEF Fetch, Begun, Built, Context
  <1>6. pc + 1 \in Values
    BY <1>2, WFacts DEF Values, HandlerRfid
  <1>7. Context' \in ContextType
    <2>1. Context' = Built(gpr, mem, isReserved, reservation, pc + 1, msr)
      BY DEF Context, Built, Fetch
    <2> QED
      BY <1>1, <1>6, <2>1, ContextParts DEF Built, ContextType
  <1>8. Len(intermediates') <= 4 /\ intermediates' # <<>>
    <2> DEFINE s == BuildIntermediate(CodeAt(pc), pc)
    <2>1. (\E x : s = <<x>>) \/ (\E x, y : s = <<x, y>>) \/ (\E x, y, z : s = <<x, y, z>>)
      BY <1>2, Translation DEF One, Two, Three
    <2> HIDE DEF s
    <2>2. Len(s) <= 4 /\ s # <<>>
      BY <2>1, Sequences
    <2>3. intermediates' = s
      BY <1>4 DEF s
    <2> QED
      BY <2>2, <2>3
  <1>9. InFlight'
    BY <1>1, <1>3, <1>4, <1>5 DEF InFlight, NoneDone, InCode, Present, Fetch
  <1>10. TypeOK' /\ dar' \in 0 .. W /\ srr0' \in DOMAIN code' \union {HandlerRfid}
    <2>1. /\ UNCHANGED <<code, mapped, dar, srr0, srr1, faultingAddr>>
          /\ {readingInstructions', running'} \subseteq BOOLEAN
          /\ retired' \in 0 .. MaxInstr
      BY <1>1 DEF TypeOK, Fetch
    <2> QED
      BY <1>7, <1>8, <2>1, Kept
  <1>11. InProgress' /\ running' /\ ~readingInstructions'
    <2>1. Context # <<>>
      BY <1>1 DEF ContextType
    <2> QED
      BY <1>1, <1>3, <2>1 DEF InProgress, Fetch
  <1> QED
    BY <1>4, <1>7, <1>8, <1>9, <1>10, <1>11 DEF IInv

LEMMA InterruptInv ==
    ASSUME IInv, NEW addr \in 0 .. W, PageFault(addr), running,
           UNCHANGED <<code, mapped, running, retired>>,
           gpr' \in [Regs -> Values], gpr'[GPR_CR] \in {0, 1}, mem' \in [Words -> Words],
           isReserved' \in BOOLEAN, reservation' \in Values,
           IF readingInstructions THEN InCode(pc) ELSE InCode(pc - 1)
    PROVE  IInv'
  <1>1. TypeOK /\ Context \in ContextType
    BY DEF IInv
  <1>2. msr \in Msr /\ pc \in Values /\ dar \in 0 .. W /\ dar \in Values
    BY <1>1, ContextParts DEF TypeOK, IInv
  <1>3. addr \in Values /\ Low(addr) \in 0 .. W /\ Low(addr) \in Values
    <2>1. addr \in Values
      BY WFacts DEF Values
    <2> QED
      BY <2>1, Parts, ValueOfWord, WFacts DEF Words
  <1>4. srr0' \in DOMAIN code \union {HandlerRfid} /\ srr0' \in Values
    <2>1. srr0' = (IF readingInstructions THEN pc ELSE pc - 1) /\ InCode(srr0')
      BY DEF PageFault
    <2>2. srr0' \in DOMAIN code \union {HandlerRfid} /\ srr0' \in 0 .. HandlerRfid
      BY <1>1, <2>1, CodeFacts DEF InCode
    <2> QED
      BY <2>2, WFacts DEF Values, HandlerRfid
  <1>5. msr' \in Msr /\ srr1' = msr /\ pc' \in Values
    BY <1>2, Vectors DEF PageFault, SetMsr, SetPC
  <1>6. dar' \in 0 .. W /\ dar' \in Values /\ faultingAddr' \in Values
    BY <1>2, <1>3 DEF PageFault
  <1>7. Context' \in ContextType
    BY <1>5 DEF Context, ContextType
  <1>8. intermediates' = <<>> /\ readingInstructions' = TRUE /\ start' = <<>> /\ Len(intermediates') <= 4
    BY DEF PageFault
  <1>9. TypeOK'
    BY <1>1, <1>2, <1>4, <1>5, <1>6, <1>8 DEF TypeOK
  <1> QED
    BY <1>4, <1>6, <1>7, <1>8, <1>9 DEF IInv, InProgress

LEMMA FetchFaultInv == IInv /\ FetchFault => IInv' /\ msr.relocated
  <1> SUFFICES ASSUME IInv, FetchFault PROVE IInv' /\ msr.relocated
    OBVIOUS
  <1>1. Context \in ContextType /\ readingInstructions /\ running /\ InCode(pc) /\ TypeOK
    BY DEF IInv, FetchFault, CanFetch
  <1>2. pc \in 0 .. W
    BY <1>1, CodeFacts, WFacts DEF HandlerRfid
  <1> QED
    BY <1>1, <1>2, ContextParts, InterruptInv DEF FetchFault, Present

(* Up to the access of an instruction only GPR_TEMP has changed.            *)
LEMMA AtAccess ==
    ASSUME IInv, InProgress, Current.op \in MemoryOps
    PROVE  /\ mem = start.mem /\ isReserved = start.isReserved /\ reservation = start.reservation
           /\ pc = start.pc + 1 /\ msr = start.msr
           /\ \A r \in Regs \ {GPR_TEMP} : gpr[r] = start.gpr[r]
           /\ \/ Context = Begun /\ \E x : One(AllOf, x) /\ Current = x
              \/ Context = Begun /\ \E x, y : Two(AllOf, x, y) /\ Current = x
              \/ Context = Begun /\ \E x, y, z : Three(AllOf, x, y, z) /\ Current = x
              \/ \E x, y, z : /\ Three(AllOf, x, y, z) /\ Sums(x) /\ Current = y
                              /\ Context = After(Begun, x)
  <1>1. \/ Context = Begun /\ \E x : One(AllOf, x) /\ Current = x
        \/ Context = Begun /\ \E x, y : Two(AllOf, x, y) /\ Current = x
        \/ Context = Begun /\ \E x, y, z : Three(AllOf, x, y, z) /\ Current = x
        \/ \E x, y, z : /\ Three(AllOf, x, y, z) /\ Sums(x) /\ Current = y
                        /\ Context = After(Begun, x)
    <2>1. ~FirstOfTwoDone
      BY Sequences DEF FirstOfTwoDone, Current, Two
    <2>2. ~SecondOfThreeDone
      BY Sequences DEF SecondOfThreeDone, Current, Three
    <2>3. FirstOfThreeDone =>
            \E x, y, z : /\ Three(AllOf, x, y, z) /\ Sums(x) /\ Current = y
                         /\ Context = After(Begun, x)
      BY Sequences DEF FirstOfThreeDone, Current, Three
    <2> QED
      BY <2>1, <2>2, <2>3, Stages, Sequences DEF Current
  <1>2. CASE Context = Begun
    BY <1>1, <1>2, ContextFacts, Sources DEF Begun, Built
  <1>3. ASSUME NEW x, Sums(x), Context = After(Begun, x)
        PROVE  /\ mem = start.mem /\ isReserved = start.isReserved
               /\ reservation = start.reservation /\ pc = start.pc + 1 /\ msr = start.msr
               /\ \A r \in Regs \ {GPR_TEMP} : gpr[r] = start.gpr[r]
    <2>1. Context = Put(Begun, GPR_TEMP, ResultIn(Begun, x))
      BY <1>3, AfterFacts DEF Sums, ArithmeticOps
    <2>2. /\ mem = Begun.mem /\ isReserved = Begun.isReserved /\ reservation = Begun.reservation
          /\ pc = Begun.pc /\ msr = Begun.msr
          /\ gpr = [Begun.gpr EXCEPT ![GPR_TEMP] = ResultIn(Begun, x)]
      BY <2>1, ContextFacts DEF Put, Built
    <2>3. Begun.gpr \in [Regs -> Values]
      BY Sources DEF ContextType
    <2>4. \A r \in Regs \ {GPR_TEMP} : gpr[r] = Begun.gpr[r]
      BY <2>2, <2>3
    <2> QED
      BY <2>2, <2>4 DEF Begun, Built
  <1> QED
    BY <1>1, <1>2, <1>3

(* Which word of an access misses.                                          *)
LEMMA Misses ==
    ASSUME Context \in ContextType, NEW x \in IntermediateType, x.op \in MemoryOps, ~AllHit(x)
    PROVE  LET k == FirstMiss(x)
               a == Low(Address(x))
           IN  /\ a \in Words
               /\ Touched(x)[k] \in 0 .. W /\ ~Hits(Touched(x)[k])
               /\ k \in DOMAIN Touched(x) /\ 1 \in DOMAIN Touched(x)
               /\ x.op = "PPC_STWCX" => Reserved(x)
               /\ \/ k = 1 /\ Touched(x)[k] = a
                  \/ k = 2 /\ IsDouble(x) /\ Touched(x)[k] = a + 1 /\ Touched(x)[1] = a
                     /\ Hits(a)
  <1> DEFINE a == Low(Address(x))
             k == FirstMiss(x)
             t == Touched(x)
  <1>1. Address(x) \in Values
    BY AddressType, InContext
  <1>2. a \in Words
    BY <1>1, Parts
  <1>3. t = (IF x.op = "PPC_STWCX" /\ ~Reserved(x) THEN <<>>
             ELSE IF IsDouble(x) THEN <<a, a + 1>> ELSE <<a>>)
    BY DEF Touched
  <1> HIDE DEF a, t
  <1>4. PICK j \in DOMAIN t : ~Hits(t[j])
    BY DEF AllHit, t
  <1>5. ~(x.op = "PPC_STWCX" /\ ~Reserved(x))
    BY <1>3, <1>4
  <1>6. \E n \in DOMAIN t : ~Hits(t[n]) /\ \A m \in 1 .. n - 1 : Hits(t[m])
    <2>1. CASE Hits(t[1])
      <3>1. IsDouble(x) /\ j = 2
        BY <1>3, <1>4, <1>5, <2>1
      <3> QED
        BY <1>4, <2>1, <3>1
    <2>2. CASE ~Hits(t[1])
      <3>1. 1 \in DOMAIN t
        BY <1>3, <1>5
      <3> QED
        BY <2>2, <3>1
    <2> QED
      BY <2>1, <2>2
  <1>7. k \in DOMAIN t /\ ~Hits(t[k]) /\ \A m \in 1 .. k - 1 : Hits(t[m])
    BY <1>6 DEF FirstMiss, t
  <1> HIDE DEF k
  <1>8. CASE IsDouble(x)
    <2>1. k \in {1, 2} /\ t[1] = a /\ t[2] = a + 1
      BY <1>3, <1>5, <1>7, <1>8
    <2>2. 1 \in DOMAIN t
      BY <1>3, <1>5, <1>8
    <2> QED
      BY <1>2, <1>5, <1>7, <1>8, <2>1, <2>2, WFacts DEF Words, a, t, k
  <1>9. CASE ~IsDouble(x)
    <2>1. k = 1 /\ t[1] = a
      BY <1>3, <1>5, <1>7, <1>9
    <2>2. 1 \in DOMAIN t
      BY <1>3, <1>5, <1>9
    <2> QED
      BY <1>2, <1>5, <1>7, <2>1, <2>2, WFacts DEF Words, a, t, k
  <1> QED
    BY <1>8, <1>9

LEMMA DataFaultInv == IInv /\ DataFault => IInv'
  <1> SUFFICES ASSUME IInv, DataFault PROVE IInv'
    OBVIOUS
  <1> DEFINE x == Current
             k == FirstMiss(x)
             a == Low(Address(x))
  <1>1. x.op \in MemoryOps /\ ~AllHit(x) /\ running /\ intermediates # <<>>
    BY DEF DataFault, Interpreting, MemoryOps
  <1>2. InProgress /\ ~readingInstructions /\ Context \in ContextType
    BY <1>1 DEF IInv
  <1>3. x \in IntermediateType
    BY <1>2, CurrentFacts
  <1>4. /\ a \in Words /\ Touched(x)[k] \in 0 .. W
        /\ k = 2 => Touched(x)[1] = a
    BY <1>1, <1>2, <1>3, Misses
  <1>5. /\ gpr \in [Regs -> Values] /\ gpr[GPR_CR] \in {0, 1} /\ mem \in [Words -> Words]
        /\ isReserved \in BOOLEAN /\ reservation \in Values
    BY <1>2, ContextParts
  <1>6. gpr' \in [Regs -> Values] /\ gpr'[GPR_CR] \in {0, 1}
    <2>1. gpr' = gpr \/ gpr' = [gpr EXCEPT ![GPR_CR] = 0]
      BY DEF DataFault
    <2> QED
      BY <1>5, <2>1, RegFacts, ValueOfWord
  <1>7. mem' \in [Words -> Words]
    <2>1. CASE x.op \in Stores /\ k = 2
      <3>1. High(gpr[x.rs]) \in Words
        BY <1>3, <1>5, <2>1, Parts DEF Stores, IntermediateType
      <3>2. mem' = [mem EXCEPT ![a] = High(gpr[x.rs])]
        BY <1>4, <2>1 DEF DataFault
      <3> QED
        BY <1>5, <3>1, <3>2
    <2>2. CASE ~(x.op \in Stores /\ k = 2)
      BY <1>5, <2>2 DEF DataFault
    <2> QED
      BY <2>1, <2>2
  <1>8. isReserved' \in BOOLEAN /\ reservation' \in Values
    <2>1. Address(x) \in Values
      BY <1>1, <1>2, <1>3, AddressType, InContext
    <2> QED
      BY <1>5, <2>1 DEF DataFault
  <1>9. InCode(pc - 1)
    <2>1. pc = start.pc + 1 /\ start.pc \in 0 .. HandlerRfid /\ InFlight
      BY <1>1, <1>2, AtAccess, Sources
    <2>2. pc - 1 = start.pc
      BY <2>1 DEF HandlerRfid
    <2> QED
      BY <2>1, <2>2 DEF InFlight
  <1>10. PageFault(Touched(x)[k]) /\ UNCHANGED <<code, mapped, running, retired>>
    BY DEF DataFault
  <1> QED
    BY <1>1, <1>2, <1>4, <1>6, <1>7, <1>8, <1>9, <1>10, InterruptInv

(* What cannot be executed further stands alone in its instruction.         *)
LEMMA Alone ==
    ASSUME IInv, InProgress, ~Plain(Current)
    PROVE  One(AllOf, Current) /\ intermediates = <<Current>> /\ Context = Begun
  BY Stages, Sequences DEF FirstOfTwoDone, FirstOfThreeDone, SecondOfThreeDone, One, Two, Three, Current

LEMMA RfidInv == IInv /\ InterpretRfid => IInv'
  <1> SUFFICES ASSUME IInv, InterpretRfid PROVE IInv'
    OBVIOUS
  <1>1. InProgress /\ running /\ Current.op = "PPC_RFID"
    BY DEF IInv, InterpretRfid, Interpreting
  <1>2. ~Plain(Current)
    BY <1>1 DEF Plain, ArithmeticOps, BranchOps, MemoryOps, Loads, Stores
  <1>3. Len(intermediates) = 1 /\ intermediates' = <<>>
    BY <1>1, <1>2, Alone, Sequences DEF InterpretRfid, Proceed
  <1>4. TypeOK /\ Context \in ContextType
    BY DEF IInv
  <1>5. start' = <<>> /\ readingInstructions' = TRUE /\ retired' \in 0 .. MaxInstr
    BY <1>1, <1>3, Sources, MaxInstrAssumption DEF InterpretRfid, Proceed
  <1>6. UNCHANGED <<code, mapped, dar, srr0, srr1, faultingAddr, running>>
    BY DEF InterpretRfid, Proceed
  <1>7. Context' \in ContextType
    <2>1. msr' = srr1 /\ pc' = TruncatePC(srr0, srr1)
      BY DEF InterpretRfid, SetMsr, SetPC
    <2>2. msr' \in Msr /\ pc' \in Values
      BY <1>4, <2>1, TruncateType DEF TypeOK
    <2>3. Context' = Built(gpr, mem, isReserved, reservation, pc', msr')
      BY DEF InterpretRfid, Context, Built
    <2> QED
      BY <1>4, <2>2, <2>3, ContextParts DEF Built, ContextType
  <1>8. Len(intermediates') <= 4 /\ {readingInstructions', running'} \subseteq BOOLEAN
    <2>1. Len(<<>>) <= 4
      OBVIOUS
    <2> QED
      BY <1>3, <1>4, <1>5, <1>6, <2>1 DEF TypeOK
  <1>9. TypeOK' /\ dar' \in 0 .. W /\ srr0' \in DOMAIN code' \union {HandlerRfid}
    BY <1>5, <1>6, <1>7, <1>8, Kept
  <1> QED
    BY <1>3, <1>5, <1>7, <1>9 DEF IInv, InProgress

LEMMA FailsInv == IInv /\ InterpretFails => IInv'
  <1> SUFFICES ASSUME IInv, InterpretFails PROVE IInv'
    OBVIOUS
  <1>1. InProgress /\ running /\ intermediates # <<>>
        /\ Current.op \in {"UNKNOWN_OPCODE", "INVALID_OPCODE"}
    BY DEF IInv, InterpretFails, Interpreting
  <1>2. ~Plain(Current)
    BY <1>1 DEF Plain, ArithmeticOps, BranchOps, MemoryOps, Loads, Stores
  <1>3. Context = Begun /\ start.pc \in 0 .. HandlerRfid /\ start \in ContextType
    BY <1>1, <1>2, Alone, Sources
  <1>4. TypeOK /\ Context \in ContextType
    BY DEF IInv
  <1>5. pc' = start.pc /\ pc' \in Values
    <2>1. pc = start.pc + 1
      BY <1>3, ContextFacts DEF Begun, Built
    <2> QED
      BY <1>3, <2>1 DEF InterpretFails, ContextType, HandlerRfid
  <1>6. Context' \in ContextType
    <2>1. Context' = Built(gpr, mem, isReserved, reservation, pc', msr)
      BY DEF InterpretFails, Context, Built
    <2> QED
      BY <1>4, <1>5, <2>1, ContextParts DEF Built, ContextType
  <1>7. TypeOK' /\ dar' \in 0 .. W /\ srr0' \in DOMAIN code' \union {HandlerRfid}
    BY <1>4, <1>6, Kept DEF InterpretFails, TypeOK
  <1>8. intermediates' # <<>> /\ ~readingInstructions' /\ ~running' /\ start' = <<>>
    BY <1>1 DEF InterpretFails, IInv
  <1> QED
    BY <1>6, <1>7, <1>8 DEF IInv, InProgress

LEMMA HandlerInv == IInv /\ HandlerMaps => IInv'
  <1> SUFFICES ASSUME IInv, HandlerMaps PROVE IInv'
    OBVIOUS
  <1>1. TypeOK /\ Context \in ContextType /\ dar \in 0 .. W
        /\ srr0 \in DOMAIN code \union {HandlerRfid}
    BY DEF IInv
  <1>2. ~InProgress /\ ~InProgress'
    BY DEF IInv, HandlerMaps, InProgress
  <1>3. pc' \in Values
    BY Vectors DEF HandlerMaps
  <1>4. Context' \in ContextType
    <2>1. Context' = Built(gpr, mem, isReserved, reservation, pc', msr)
      BY DEF HandlerMaps, Context, Built
    <2> QED
      BY <1>1, <1>3, <2>1, ContextParts DEF Built, ContextType
  <1>5. mapped' \subseteq {DataPage(a) : a \in 0 .. W}
                             \union {CodePage(a) : a \in DOMAIN code' \union {HandlerRfid}}
    <2>1. \/ mapped' = mapped \union {DataPage(dar)}
          \/ mapped' = mapped \union {CodePage(srr0)}
      BY DEF HandlerMaps
    <2> HIDE DEF DataPage, CodePage
    <2>2. code' = code
      BY DEF HandlerMaps
    <2> QED
      BY <1>1, <2>1, <2>2 DEF TypeOK
  <1>6. TypeOK'
    BY <1>1, <1>3, <1>5 DEF TypeOK, HandlerMaps
  <1>7. UNCHANGED <<code, dar, srr0, readingInstructions, intermediates, running>>
    BY DEF HandlerMaps
  <1> QED
    BY <1>1, <1>2, <1>4, <1>6, <1>7 DEF IInv

LEMMA StutterInv == IInv /\ UNCHANGED vars => IInv'
  <1> SUFFICES ASSUME IInv, UNCHANGED vars PROVE IInv'
    OBVIOUS
  <1>1. TypeOK'
    BY DEF IInv, TypeOK, vars
  <1>2. Context' = Context /\ AllOf' = AllOf /\ Begun' = Begun
    BY DEF Context, AllOf, Begun, CodeAt, vars
  <1>3. (InProgress <=> InProgress') /\ (InFlight <=> InFlight')
    BY <1>2 DEF InProgress, InFlight, InCode, NoneDone, FirstOfTwoDone, FirstOfThreeDone,
                SecondOfThreeDone, vars
  <1> QED
    BY <1>1, <1>2, <1>3 DEF IInv, vars

LEMMA InductiveInvariant == Spec => []IInv
  <1>1. Init => IInv
    BY InitInv
  <1>2. IInv /\ [Next]_vars => IInv'
    BY FetchInv, FetchFaultInv, SucceedsInv, DataFaultInv, RfidInv, FailsInv, HandlerInv,
       StutterInv DEF Next, Succeeds
  <1> QED
    BY <1>1, <1>2, PTL DEF Spec

(* Registers, words, addresses and mapped pages stay in range whatever the  *)
(* program and wherever its instructions are cut off by faults.             *)
THEOREM TypeCorrect == Spec => []TypeOK
  <1>1. IInv => TypeOK
    BY DEF IInv
  <1> QED
    BY <1>1, InductiveInvariant, PTL

-----------------------------------------------------------------------------
(* The architecture, in the words of PpcCpu.                                *)
LEMMA Vocabulary ==
    /\ Arch!Words = Words /\ Arch!Values = Values /\ Arch!ArchRegs = ArchRegs
    /\ Arch!GPR_LR = GPR_LR /\ Arch!GPR_CTR = GPR_CTR /\ Arch!GPR_CR = GPR_CR
    /\ Arch!NoReservation = NoReservation /\ Arch!HandlerRfid = HandlerRfid
    /\ Arch!DsiVector = DsiVector /\ Arch!IsiVector = IsiVector
    /\ \A x : Arch!Low(x) = Low(x) /\ Arch!High(x) = High(x)
    /\ \A x, y : Arch!Plus(x, y) = Plus(x, y) /\ Arch!Minus(x, y) = Minus(x, y)
    /\ \A a : Arch!DataPage(a) = DataPage(a) /\ Arch!CodePage(a) = CodePage(a)
    /\ \A m : Arch!RealMode(m) = RealMode(m)
    /\ \A a, m : Arch!TruncatePC(a, m) = TruncatePC(a, m)
    /\ \A a : Arch!CodeAt(a) = CodeAt(a) /\ (Arch!InCode(a) <=> InCode(a))
  <1>1. /\ Arch!Words = Words /\ Arch!Values = Values /\ Arch!ArchRegs = ArchRegs
        /\ Arch!GPR_LR = GPR_LR /\ Arch!GPR_CTR = GPR_CTR /\ Arch!GPR_CR = GPR_CR
        /\ Arch!NoReservation = NoReservation /\ Arch!HandlerRfid = HandlerRfid
        /\ Arch!DsiVector = DsiVector /\ Arch!IsiVector = IsiVector
    BY DEF Arch!Words, Words, Arch!Values, Values, Arch!ArchRegs, ArchRegs, Arch!Gprs, Gprs,
           Arch!GPR_LR, GPR_LR, Arch!GPR_CTR, GPR_CTR, Arch!GPR_CR, GPR_CR, Arch!NoReservation,
           NoReservation, Arch!HandlerRfid, HandlerRfid, Arch!DsiVector, DsiVector,
           Arch!IsiVector, IsiVector
  <1>2. /\ \A x : Arch!Low(x) = Low(x) /\ Arch!High(x) = High(x)
        /\ \A x, y : Arch!Plus(x, y) = Plus(x, y) /\ Arch!Minus(x, y) = Minus(x, y)
    BY DEF Arch!Low, Low, Arch!High, High, Arch!Plus, Plus, Arch!Minus, Minus
  <1>3. /\ \A a : Arch!DataPage(a) = DataPage(a) /\ Arch!CodePage(a) = CodePage(a)
        /\ \A m : Arch!RealMode(m) = RealMode(m)
        /\ \A a, m : Arch!TruncatePC(a, m) = TruncatePC(a, m)
    BY <1>2 DEF Arch!DataPage, DataPage, Arch!CodePage, CodePage, Arch!RealMode, RealMode,
                Arch!TruncatePC, TruncatePC
  <1>4. \A a : Arch!CodeAt(a) = CodeAt(a) /\ (Arch!InCode(a) <=> InCode(a))
    BY <1>1 DEF Arch!CodeAt, CodeAt, Arch!InCode, InCode, Arch!Rfid, Rfid
  <1> QED
    BY <1>1, <1>2, <1>3, <1>4

(* What the guest sees of a context.                                        *)
RegOf(c) == [r \in ArchRegs |-> c.gpr[r]]
ReservationOf(c) == IF c.isReserved THEN c.reservation ELSE NoReservation

LEMMA Seen ==
    /\ InProgress => /\ archReg = RegOf(start) /\ archMem = start.mem
                     /\ archReservation = ReservationOf(start)
                     /\ archPc = start.pc /\ archMsr = start.msr
    /\ ~InProgress => /\ archReg = RegOf(Context) /\ archMem = Context.mem
                      /\ archReservation = ReservationOf(Context)
                      /\ archPc = Context.pc /\ archMsr = Context.msr
  BY ContextFacts DEF archReg, archMem, archReservation, archPc, archMsr, RegOf, ReservationOf

LEMMA SeenNext ==
    /\ InProgress' => /\ archReg' = RegOf(start') /\ archMem' = start'.mem
                      /\ archReservation' = ReservationOf(start')
                      /\ archPc' = start'.pc /\ archMsr' = start'.msr
    /\ ~InProgress' => /\ archReg' = RegOf(Context') /\ archMem' = Context'.mem
                       /\ archReservation' = ReservationOf(Context')
                       /\ archPc' = Context'.pc /\ archMsr' = Context'.msr
  BY DEF archReg, archMem, archReservation, archPc, archMsr, RegOf, ReservationOf, Context

LEMMA RegOfPut ==
    ASSUME NEW c \in ContextType, NEW r \in Regs, NEW v, NEW d,
           d.gpr = [c.gpr EXCEPT ![r] = v]
    PROVE  /\ r \in ArchRegs => RegOf(d) = [RegOf(c) EXCEPT ![r] = v]
           /\ r \notin ArchRegs => RegOf(d) = RegOf(c)
  <1>1. \A q \in Regs : d.gpr[q] = IF q = r THEN v ELSE c.gpr[q]
    BY DEF ContextType
  <1> QED
    BY <1>1, RegFacts DEF RegOf

LEMMA PlusZero ==
    ASSUME NEW v \in Values PROVE Plus(0, v) = v /\ Plus(v, 0) = v
  BY WFacts DEF Values, Plus

(* The operands of the instruction in flight, and the access it makes.      *)
InFlightOp == CodeAt(start.pc)

Corresponds(i, x) ==
    /\ i.op = "lwz" => x.op \in {"LD_32_ABS", "LD_32_REG_OFF"}
    /\ i.op = "ld" => x.op = "LD_64_REG_OFF"
    /\ i.op = "lwarx" => x.op = "LD_32_L"
    /\ i.op \in {"lwz", "ld", "lwarx"} => x.dest = i.rt
    /\ i.op \in {"stw", "stwu", "std"} => x.op \in Stores /\ x.rs = i.rt
    /\ i.op \in {"ld", "std"} <=> IsDouble(x)
    /\ i.op = "stwcx" => x.op = "PPC_STWCX" /\ x.rs = i.rt
    /\ i.op \in {"lwz", "ld", "lwarx", "stw", "stwu", "std", "stwcx"}
    /\ i.op = "stwu" => i.ra # 0

LEMMA FirstAccess ==
    ASSUME IInv, InProgress, NEW x, x.op \in MemoryOps,
           One(AllOf, x) \/ (\E y : Two(AllOf, x, y))
    PROVE  /\ Corresponds(InFlightOp, x)
           /\ Arch!EffectiveAddress(InFlightOp) = AddressIn(Begun, x)
  <1> DEFINE i == InFlightOp
  <1>1. i \in Instructions /\ start \in ContextType /\ AllOf = BuildIntermediate(i, start.pc)
    BY Sources DEF InFlightOp, AllOf
  <1> HIDE DEF i
  <1>2. archReg = RegOf(start) /\ \A r \in ArchRegs : archReg[r] = start.gpr[r]
    BY Seen DEF RegOf
  <1>3. Begun.gpr = start.gpr
    BY DEF Begun, Built
  <1>4. \A r \in ArchRegs : start.gpr[r] \in Values
    BY <1>1, RegFacts DEF ContextType
  <1>5. Arch!EffectiveAddress(i) =
          CASE i.op \in {"lwarx", "stwcx"} ->
                  Plus(IF i.ra = 0 THEN 0 ELSE archReg[i.ra], archReg[i.rb])
            [] i.op = "ld" -> Plus(archReg[i.ra], i.d)
            [] OTHER -> Plus(IF i.ra = 0 THEN 0 ELSE archReg[i.ra], i.d)
    BY Vocabulary DEF Arch!EffectiveAddress, Arch!Base
  <1>6. x = AllOf[1] /\ Len(AllOf) # 3
    BY DEF One, Two
  <1>7. \/ i.op = "lwz" /\ x = (IF i.ra = 0 THEN LD_32_ABS(i.rt, i.d)
                                            ELSE LD_32_REG_OFF(i.rt, i.ra, i.d))
        \/ i.op = "ld" /\ x = LD_64_REG_OFF(i.rt, i.ra, i.d)
        \/ i.op = "lwarx" /\ i.ra = 0 /\ x = LD_32_L(i.rt, i.rb)
        \/ i.op = "stw" /\ x = (IF i.ra = 0 THEN ST_ABS(32, i.rt, i.d)
                                            ELSE ST_REG_OFF(32, i.rt, i.ra, i.d))
        \/ i.op = "std" /\ x = (IF i.ra = 0 THEN ST_ABS(64, i.rt, i.d)
                                            ELSE ST_REG_OFF(64, i.rt, i.ra, i.d))
        \/ i.op = "stwcx" /\ x = PPC_STWCX(i.rb, i.ra, i.rt)
    <2>1. CASE i.op \in {"lwz", "ld", "stw", "std", "stwcx"}
      BY <1>1, <1>6, <2>1, ShapeOfOthers
    <2>2. CASE i.op = "lwarx"
      <3>1. i.ra # 0 => Len(AllOf) = 3
        BY <1>1, <2>2, ShapeOfOthers
      <3> QED
        BY <1>1, <1>6, <2>2, <3>1, ShapeOfOthers
    <2>3. CASE i.op = "stwu"
      <3>1. x = INVALID
        BY <1>1, <1>6, <2>3, ShapeOfOthers
      <3> QED
        BY <3>1 DEF INVALID, MemoryOps, Loads, Stores
    <2>4. CASE i.op \in {"addi", "unknown"}
      <3>1. x \in {LD_64_IMM(i.rt, i.d), ADD_IMM(i.ra, i.rt, i.d), UNKNOWN}
        BY <1>1, <1>6, <2>4, ShapeOfOthers
      <3> QED
        BY <3>1 DEF LD_64_IMM, ADD_IMM, UNKNOWN, MemoryOps, Loads, Stores
    <2>5. CASE i.op \in {"b", "beq", "bdnz", "bctrl", "blr", "rfid"}
      <3>1. x \in {LD_64_IMM(GPR_LR, start.pc + 1), BRANCH_ALWAYS(Plus(start.pc, i.d)),
                   BRANCH_MASK_NOT_ZERO(GPR_CR, Plus(start.pc, i.d)),
                   SUBU_IMM(GPR_CTR, GPR_CTR, 1), BRANCH_GPR64(GPR_CTR), BRANCH_GPR64(GPR_LR),
                   PPC_RFID}
        BY <1>1, <1>6, <2>5, ShapeOfBranches
      <3> QED
        BY <3>1 DEF LD_64_IMM, BRANCH_ALWAYS, BRANCH_MASK_NOT_ZERO, SUBU_IMM, BRANCH_GPR64, PPC_RFID,
                    MemoryOps, Loads, Stores
    <2> QED
      BY <1>1, <2>1, <2>2, <2>3, <2>4, <2>5 DEF Instructions
  <1>8. Corresponds(i, x)
    BY <1>7 DEF Corresponds, LD_32_ABS, LD_32_REG_OFF, LD_64_REG_OFF, LD_32_L, ST_ABS, ST_REG_OFF,
                PPC_STWCX, Stores, IsDouble
  <1>9. Arch!EffectiveAddress(i) = AddressIn(Begun, x)
    <2>1. CASE i.op \in {"lwz", "stw", "std"}
      <3>1. i.ra \in ArchRegs /\ i.d \in Values
        BY <1>1, <2>1, RegFacts DEF Instructions
      <3>2. AddressIn(Begun, x) = IF i.ra = 0 THEN i.d ELSE Plus(start.gpr[i.ra], i.d)
        BY <1>3, <1>7, <2>1 DEF AddressIn, LD_32_ABS, LD_32_REG_OFF, ST_ABS, ST_REG_OFF
      <3> QED
        BY <1>2, <1>5, <2>1, <3>1, <3>2, PlusZero
    <2>2. CASE i.op = "ld"
      <3>1. i.ra \in ArchRegs
        BY <1>1, <2>2, RegFacts DEF Instructions
      <3>2. AddressIn(Begun, x) = Plus(start.gpr[i.ra], i.d)
        BY <1>3, <1>7, <2>2 DEF AddressIn, LD_64_REG_OFF
      <3> QED
        BY <1>2, <1>5, <2>2, <3>1, <3>2
    <2>3. CASE i.op = "lwarx"
      <3>1. i.rb \in ArchRegs /\ i.ra = 0
        BY <1>1, <1>7, <2>3, RegFacts DEF Instructions
      <3>2. AddressIn(Begun, x) = start.gpr[i.rb]
        BY <1>3, <1>7, <2>3 DEF AddressIn, LD_32_L
      <3> QED
        BY <1>2, <1>4, <1>5, <2>3, <3>1, <3>2, PlusZero
    <2>4. CASE i.op = "stwcx"
      <3>1. i.ra \in ArchRegs /\ i.rb \in ArchRegs
        BY <1>1, <2>4, RegFacts DEF Instructions
      <3>2. AddressIn(Begun, x) =
              Plus(start.gpr[i.rb], IF i.ra = 0 THEN 0 ELSE start.gpr[i.ra])
        BY <1>3, <1>7, <2>4 DEF AddressIn, PPC_STWCX
      <3> QED
        BY <1>2, <1>4, <1>5, <2>4, <3>1, <3>2, SumFacts, ValueOfWord
    <2> QED
      BY <1>7, <2>1, <2>2, <2>3, <2>4
  <1> QED
    BY <1>8, <1>9 DEF i

(* The access after a sum: lwarx with a base, and stwu.                     *)
LEMMA SecondAccess ==
    ASSUME IInv, InProgress, NEW x, NEW y, NEW z, Three(AllOf, x, y, z), y.op \in MemoryOps
    PROVE  /\ Corresponds(InFlightOp, y)
           /\ Arch!EffectiveAddress(InFlightOp) = AddressIn(After(Begun, x), y)
  <1> DEFINE i == InFlightOp
  <1>1. i \in Instructions /\ start \in ContextType /\ AllOf = BuildIntermediate(i, start.pc)
    BY Sources DEF InFlightOp, AllOf
  <1> HIDE DEF i
  <1>2. archReg = RegOf(start) /\ \A r \in ArchRegs : archReg[r] = start.gpr[r]
    BY Seen DEF RegOf
  <1>3. Begun.gpr = start.gpr /\ Begun \in ContextType
    BY Sources DEF Begun, Built
  <1>4. \A r \in ArchRegs : start.gpr[r] \in Values
    BY <1>1, RegFacts DEF ContextType
  <1>5. Arch!EffectiveAddress(i) =
          CASE i.op \in {"lwarx", "stwcx"} ->
                  Plus(IF i.ra = 0 THEN 0 ELSE archReg[i.ra], archReg[i.rb])
            [] i.op = "ld" -> Plus(archReg[i.ra], i.d)
            [] OTHER -> Plus(IF i.ra = 0 THEN 0 ELSE archReg[i.ra], i.d)
    BY Vocabulary DEF Arch!EffectiveAddress, Arch!Base
  <1>6. /\ \A p : AllOf # <<p>>
        /\ \A p, q : AllOf # <<p, q>>
        /\ \A p, q, r : AllOf = <<p, q, r>> => x = p /\ y = q
    BY Sequences DEF Three
  <1>7. \/ i.op = "lwarx" /\ i.ra # 0 /\ x = ADD(GPR_TEMP, i.ra, i.rb)
           /\ y = LD_32_L(i.rt, GPR_TEMP)
        \/ i.op = "stwu" /\ i.ra # 0 /\ x = ADD_IMM(i.ra, GPR_TEMP, i.d)
           /\ y = ST_REG_OFF(32, i.rt, GPR_TEMP, 0)
    <2>1. CASE i.op \in {"lwarx", "stwu"}
      BY <1>1, <1>6, <2>1, ShapeOfOthers
    <2>2. CASE i.op \in {"lwz", "ld", "stw", "std", "stwcx", "addi", "unknown"}
      BY <1>1, <1>6, <2>2, ShapeOfOthers
    <2>3. CASE i.op \in {"b", "beq", "bdnz", "bctrl", "blr", "rfid"}
      <3>1. y = BRANCH_GPR64_NOT_ZERO(GPR_CTR, Plus(start.pc, i.d))
        BY <1>1, <1>6, <2>3, ShapeOfBranches
      <3> QED
        BY <3>1 DEF BRANCH_GPR64_NOT_ZERO, MemoryOps, Loads, Stores
    <2> QED
      BY <1>1, <2>1, <2>2, <2>3 DEF Instructions
  <1>8. Corresponds(i, y)
    BY <1>7 DEF Corresponds, LD_32_L, ST_REG_OFF, Stores, IsDouble
  <1>9. x.op \in ArithmeticOps /\ x.dest = GPR_TEMP
    BY <1>7 DEF ADD, ADD_IMM, ArithmeticOps
  <1>10. After(Begun, x).gpr[GPR_TEMP] = ResultIn(Begun, x)
    <2>1. After(Begun, x) = Put(Begun, GPR_TEMP, ResultIn(Begun, x))
      BY <1>9, AfterFacts
    <2> QED
      BY <1>3, <2>1, RegFacts DEF Put, Built, ContextType
  <1>11. CASE i.op = "lwarx"
    <2>1. i.ra \in ArchRegs /\ i.rb \in ArchRegs
      BY <1>1, <1>11, RegFacts DEF Instructions
    <2>2. ResultIn(Begun, x) = Plus(start.gpr[i.ra], start.gpr[i.rb])
      BY <1>3, <1>7, <1>11 DEF ResultIn, ADD
    <2>3. AddressIn(After(Begun, x), y) = After(Begun, x).gpr[GPR_TEMP]
      BY <1>7, <1>11 DEF AddressIn, LD_32_L
    <2> QED
      BY <1>2, <1>5, <1>7, <1>8, <1>10, <1>11, <2>1, <2>2, <2>3 DEF i
  <1>12. CASE i.op = "stwu"
    <2>1. i.ra \in ArchRegs /\ i.d \in Values
      BY <1>1, <1>12, RegFacts DEF Instructions
    <2>2. ResultIn(Begun, x) = Plus(start.gpr[i.ra], i.d)
      BY <1>3, <1>7, <1>12 DEF ResultIn, ADD_IMM
    <2>3. AddressIn(After(Begun, x), y) = Plus(After(Begun, x).gpr[GPR_TEMP], 0)
      BY <1>7, <1>12 DEF AddressIn, ST_REG_OFF
    <2>4. Plus(start.gpr[i.ra], i.d) \in Values
      BY <1>4, <2>1, SumFacts
    <2>5. AddressIn(After(Begun, x), y) = Plus(start.gpr[i.ra], i.d)
      BY <1>10, <2>2, <2>3, <2>4, PlusZero
    <2> QED
      BY <1>2, <1>5, <1>7, <1>8, <1>12, <2>1, <2>5 DEF i
  <1> QED
    BY <1>7, <1>11, <1>12

LEMMA AccessSet ==
    ASSUME IInv, InProgress, NEW c \in ContextType, NEW x \in IntermediateType,
           x.op \in MemoryOps, Corresponds(InFlightOp, x),
           Arch!EffectiveAddress(InFlightOp) = AddressIn(c, x),
           c.isReserved = start.isReserved, c.reservation = start.reservation, c.msr = start.msr
    PROVE  /\ Arch!Accesses(InFlightOp) = {TouchedIn(c, x)[k] : k \in DOMAIN TouchedIn(c, x)}
           /\ Arch!Missing(InFlightOp) =
                {a \in Arch!Accesses(InFlightOp) : ~HitsIn(c, mapped, a)}
  <1> DEFINE i == InFlightOp
             a == Low(AddressIn(c, x))
  <1>1. AddressIn(c, x) \in Values /\ a \in Words
    BY AddressType, Parts
  <1>2. archReservation = (IF c.isReserved THEN c.reservation ELSE NoReservation)
        /\ archMsr = c.msr
    BY Seen DEF ReservationOf
  <1>3. ~Arch!Malformed(i) /\ i.op \in {"lwz", "ld", "lwarx", "stw", "stwu", "std", "stwcx"}
    BY DEF Corresponds, Arch!Malformed
  <1>4. /\ i.op \in {"lwz", "stw", "stwu", "lwarx"} => Arch!Accesses(i) = {a}
        /\ i.op \in {"ld", "std"} => Arch!Accesses(i) = {a, a + 1}
        /\ i.op = "stwcx" =>
             Arch!Accesses(i) = {b \in {a} : archReservation = AddressIn(c, x)}
    BY <1>3, Vocabulary DEF Arch!Accesses, Arch!Malformed
  <1>5. ReservedIn(c, x) <=> archReservation = AddressIn(c, x)
    <2>1. NoReservation # AddressIn(c, x)
      BY <1>1, WFacts DEF NoReservation, Values
    <2> QED
      BY <1>2, <2>1 DEF ReservedIn
  <1> HIDE DEF i
  <1>6. Arch!Accesses(i) = {TouchedIn(c, x)[k] : k \in DOMAIN TouchedIn(c, x)}
    <2>1. CASE i.op \in {"ld", "std"}
      <3>1. IsDouble(x) /\ x.op # "PPC_STWCX"
        BY <2>1 DEF i, Corresponds, Stores
      <3>2. TouchedIn(c, x) = <<a, a + 1>>
        BY <3>1 DEF TouchedIn
      <3> HIDE DEF a
      <3>3. DOMAIN <<a, a + 1>> = {1, 2} /\ <<a, a + 1>>[1] = a /\ <<a, a + 1>>[2] = a + 1
        OBVIOUS
      <3> QED
        BY <1>4, <2>1, <3>2, <3>3
    <2>2. CASE i.op \in {"lwz", "stw", "stwu", "lwarx"}
      <3>1. ~IsDouble(x) /\ x.op # "PPC_STWCX"
        BY <2>2 DEF i, Corresponds, Stores
      <3>2. TouchedIn(c, x) = <<a>>
        BY <3>1 DEF TouchedIn
      <3> HIDE DEF a
      <3>3. DOMAIN <<a>> = {1} /\ <<a>>[1] = a
        OBVIOUS
      <3> QED
        BY <1>4, <2>2, <3>2, <3>3
    <2>3. CASE i.op = "stwcx"
      <3>1. ~IsDouble(x) /\ x.op = "PPC_STWCX"
        BY <2>3 DEF i, Corresponds
      <3>2. TouchedIn(c, x) = IF ReservedIn(c, x) THEN <<a>> ELSE <<>>
        BY <3>1 DEF TouchedIn
      <3> HIDE DEF a
      <3>3. DOMAIN <<a>> = {1} /\ <<a>>[1] = a /\ DOMAIN <<>> = {}
        OBVIOUS
      <3> QED
        BY <1>4, <1>5, <2>3, <3>2, <3>3
    <2> QED
      BY <1>3, <2>1, <2>2, <2>3
  <1>7. Arch!Missing(i) = {b \in Arch!Accesses(i) : ~HitsIn(c, mapped, b)}
    <2>1. Arch!Accesses(i) \subseteq {a, a + 1}
      BY <1>3, <1>4
    <2>2. \A b \in {a, a + 1} : b = W <=> ~(b < W)
      BY <1>1, WFacts DEF Words
    <2>3. Arch!Missing(i) = {b \in Arch!Accesses(i) :
                                b = W \/ ~(~c.msr.relocated \/ DataPage(b) \in mapped)}
      BY <1>2, Vocabulary DEF Arch!Missing, Arch!Present
    <2> QED
      BY <2>1, <2>2, <2>3 DEF HitsIn
  <1> QED
    BY <1>6, <1>7 DEF i

(* An access that misses is a DSI that leaves no other trace.               *)
LEMMA DsiStep ==
    ASSUME IInv, DataFault PROVE Arch!Dsi
  <1> DEFINE x == Current
             k == FirstMiss(x)
             a == Low(Address(x))
             i == InFlightOp
  <1>1. x.op \in MemoryOps /\ ~AllHit(x) /\ running /\ intermediates # <<>>
    BY DEF DataFault, Interpreting, MemoryOps
  <1>2. InProgress /\ ~readingInstructions /\ Context \in ContextType
    BY <1>1 DEF IInv
  <1>3. x \in IntermediateType
    BY <1>2, CurrentFacts
  <1>4. InFlight /\ start \in ContextType /\ start.pc \in 0 .. HandlerRfid /\ Begun \in ContextType
    BY <1>2, Sources
  <1>5. /\ mem = start.mem /\ isReserved = start.isReserved /\ reservation = start.reservation
        /\ pc = start.pc + 1 /\ msr = start.msr
        /\ \A r \in Regs \ {GPR_TEMP} : gpr[r] = start.gpr[r]
    BY <1>1, <1>2, AtAccess
  <1>6. Corresponds(i, x) /\ Arch!EffectiveAddress(i) = Address(x)
    <2>1. \A p, q, r : Three(AllOf, p, q, r) => p.op \notin MemoryOps
      BY DEF Three
    <2>2. Corresponds(i, x) /\ Arch!EffectiveAddress(i) = AddressIn(Context, x)
      BY <1>1, <1>2, <2>1, AtAccess, FirstAccess, SecondAccess
    <2> QED
      BY <2>2, InContext
  <1>7. /\ Arch!Accesses(i) = {Touched(x)[n] : n \in DOMAIN Touched(x)}
        /\ Arch!Missing(i) = {b \in Arch!Accesses(i) : ~Hits(b)}
    <2>1. /\ Arch!Accesses(i) = {TouchedIn(Context, x)[n] : n \in DOMAIN TouchedIn(Context, x)}
          /\ Arch!Missing(i) = {b \in Arch!Accesses(i) : ~HitsIn(Context, mapped, b)}
      BY <1>1, <1>2, <1>3, <1>5, <1>6, AccessSet, InContext, ContextFacts
    <2>2. \A b : Hits(b) <=> HitsIn(Context, mapped, b)
      BY ContextFacts DEF Hits, HitsIn, Present
    <2> QED
      BY <2>1, <2>2, InContext
  <1>8. /\ a \in Words
        /\ Touched(x)[k] \in 0 .. W /\ ~Hits(Touched(x)[k]) /\ k \in DOMAIN Touched(x)
        /\ x.op = "PPC_STWCX" => Reserved(x)
        /\ k # 1 => k = 2 /\ IsDouble(x) /\ Touched(x)[1] = a /\ Hits(a)
        /\ 1 \in DOMAIN Touched(x)
    BY <1>1, <1>2, <1>3, Misses
  <1>9. PageFault(Touched(x)[k]) /\ UNCHANGED <<code, mapped, running>>
    BY DEF DataFault
  <1> HIDE DEF k, a, i
  <1>10. ~InProgress' /\ start' = <<>>
    BY <1>9 DEF PageFault, InProgress
  <1>11. /\ archReg = RegOf(start) /\ archMem = start.mem /\ archReservation = ReservationOf(start)
         /\ archPc = start.pc /\ archMsr = start.msr
    BY <1>2, Seen
  <1>12. /\ archReg' = [r \in ArchRegs |-> gpr'[r]] /\ archMem' = mem'
         /\ archReservation' = (IF isReserved' THEN reservation' ELSE NoReservation)
         /\ archPc' = pc' /\ archMsr' = msr'
    BY <1>10 DEF archReg, archMem, archReservation, archPc, archMsr, Context
  <1>13. Touched(x)[k] \in Arch!Missing(i)
    BY <1>7, <1>8
  <1>14. Arch!Interrupt(Arch!DsiVector)
    <2>1. srr0' = start.pc
      BY <1>2, <1>4, <1>5, <1>9 DEF PageFault, HandlerRfid
    <2>2. srr1' = start.msr /\ msr' = RealMode(start.msr) /\ pc' = DsiVector
      BY <1>2, <1>5, <1>9, Vectors DEF PageFault, SetMsr, SetPC
    <2> QED
      BY <1>9, <1>11, <1>12, <2>1, <2>2, Vocabulary DEF Arch!Interrupt
  <1>15. \E b \in Arch!Missing(i) : dar' = IF archMsr.sf THEN b ELSE Low(b)
    <2>1. dar' = IF archMsr.sf THEN Touched(x)[k] ELSE Low(Touched(x)[k])
      BY <1>2, <1>5, <1>9, <1>11 DEF PageFault
    <2> QED
      BY <1>13, <2>1
  <1>16. archReg' = archReg \/ (i.op = "stwcx" /\ archReg' = [archReg EXCEPT ![GPR_CR] = 0])
    <2>1. gpr' = IF x.op = "PPC_STWCX" THEN [gpr EXCEPT ![GPR_CR] = 0] ELSE gpr
      BY DEF DataFault
    <2>2. \A r \in ArchRegs : archReg[r] = gpr[r]
      BY <1>5, <1>11, RegFacts DEF RegOf
    <2>3. archReg \in [ArchRegs -> Values]
      BY <1>4, <1>11, RegFacts DEF RegOf, ContextType
    <2>4. gpr \in [Regs -> Values]
      BY <1>2, ContextParts
    <2>5. CASE x.op = "PPC_STWCX"
      <3>1. i.op = "stwcx"
        BY <1>6, <2>5 DEF i, Corresponds, Stores
      <3>2. \A r \in ArchRegs : gpr'[r] = IF r = GPR_CR THEN 0 ELSE archReg[r]
        BY <2>1, <2>2, <2>4, <2>5, RegFacts
      <3>3. archReg' = [archReg EXCEPT ![GPR_CR] = 0]
        BY <1>12, <2>3, <3>2
      <3> QED
        BY <3>1, <3>3
    <2>6. CASE x.op # "PPC_STWCX"
      BY <1>12, <2>1, <2>2, <2>3, <2>6
    <2> QED
      BY <2>5, <2>6
  <1>17. \/ archReservation' = archReservation
         \/ i.op = "lwarx" /\ archReservation' = Arch!EffectiveAddress(i)
    <2>1. CASE x.op = "LD_32_L"
      <3>1. i.op = "lwarx"
        BY <1>6, <2>1 DEF i, Corresponds, Stores
      <3>2. archReservation' = Address(x)
        BY <1>12, <2>1 DEF DataFault
      <3> QED
        BY <1>6, <3>1, <3>2 DEF i
    <2>2. CASE x.op # "LD_32_L"
      BY <1>5, <1>11, <1>12, <2>2 DEF DataFault, ReservationOf
    <2> QED
      BY <2>1, <2>2
  <1>18. \/ archMem' = archMem
         \/ \E b \in Arch!Accesses(i) \ Arch!Missing(i) :
               i.op = "std" /\ archMem' = [archMem EXCEPT ![b] = High(archReg[i.rt])]
    <2>1. CASE x.op \in Stores /\ k = 2
      <3>1. i.op = "std" /\ x.rs = i.rt
        BY <1>6, <1>8, <2>1 DEF i, Corresponds, Stores
      <3>2. a \in Arch!Accesses(i) \ Arch!Missing(i)
        BY <1>7, <1>8, <2>1
      <3>3. mem' = [mem EXCEPT ![a] = High(gpr[x.rs])]
        <4>1. Touched(x)[1] = a
          BY <1>8, <2>1
        <4>2. mem' = [mem EXCEPT ![Touched(x)[1]] = High(gpr[x.rs])]
          BY <2>1 DEF DataFault, k
        <4> QED
          BY <4>1, <4>2
      <3>4. i.rt \in ArchRegs /\ i.rt # GPR_TEMP
        <4>1. i \in Instructions
          BY <1>2, Sources DEF i, InFlightOp
        <4> QED
          BY <3>1, <4>1, RegFacts DEF Instructions
      <3>5. archReg[i.rt] = gpr[x.rs]
        BY <1>5, <1>11, <3>1, <3>4, RegFacts DEF RegOf
      <3>6. archMem' = [archMem EXCEPT ![a] = High(archReg[i.rt])]
        BY <1>5, <1>11, <1>12, <3>3, <3>5
      <3> QED
        BY <3>1, <3>2, <3>6
    <2>2. CASE ~(x.op \in Stores /\ k = 2)
      BY <1>5, <1>11, <1>12, <2>2 DEF DataFault, k
    <2> QED
      BY <2>1, <2>2
  <1>19. ~(~running) /\ Arch!InCode(archPc) /\ Arch!Present(Arch!CodePage(archPc))
         /\ Arch!CodeAt(archPc) = i
    BY <1>1, <1>4, <1>11, Vocabulary DEF InFlight, Arch!Present, i, InFlightOp
  <1> QED
    BY <1>14, <1>15, <1>16, <1>17, <1>18, <1>19, Vocabulary DEF Arch!Dsi

(* The last intermediate of an instruction: the context it leaves.          *)
Becomes(d) ==
    /\ archReg' = RegOf(d) /\ archMem' = d.mem /\ archReservation' = ReservationOf(d)
    /\ archPc' = d.pc /\ archMsr' = d.msr

Ends(d) ==
    \/ \E x : One(AllOf, x) /\ Plain(x) /\ Fine(Begun, mapped, x) /\ d = After(Begun, x)
    \/ \E x, y : Two(AllOf, x, y) /\ Fine(Begun, mapped, x) /\ d = After(After(Begun, x), y)
    \/ \E x, y, z : /\ Three(AllOf, x, y, z) /\ Fine(After(Begun, x), mapped, y)
                    /\ d = After(After(After(Begun, x), y), z)

LEMMA Ending ==
    ASSUME IInv, Succeeds, Len(intermediates) = 1
    PROVE  /\ InProgress /\ running /\ running' /\ ~InProgress'
           /\ Ends(Context') /\ Becomes(Context')
           /\ UNCHANGED <<code, mapped, srr0, srr1, dar, running>>
  <1>1. running /\ intermediates # <<>> /\ InProgress
    BY DEF IInv, Succeeds, InterpretArithmetic, InterpretBranch, InterpretLoad, InterpretStore,
           InterpretStwcx, Interpreting
  <1>2. Current \in IntermediateType /\ Context \in ContextType
    BY <1>1, CurrentFacts DEF IInv
  <1>3. /\ Plain(Current) /\ Fine(Context, mapped, Current)
        /\ Context' = After(Context, Current) /\ Proceed
    BY <1>2, Effects
  <1>4. ~InProgress' /\ running' /\ UNCHANGED <<code, mapped, srr0, srr1, dar, running>>
    BY <1>1, <1>3 DEF Proceed, InProgress
  <1>5. Becomes(Context')
    BY <1>4, SeenNext DEF Becomes
  <1>6. ~FirstOfThreeDone
    BY Sequences DEF FirstOfThreeDone
  <1>7. Ends(Context')
    <2>1. CASE \E x : One(AllOf, x) /\ intermediates = <<x>> /\ Context = Begun
      BY <1>3, <2>1, Sequences DEF Ends, Current
    <2>2. CASE FirstOfTwoDone
      BY <1>3, <2>2, Sequences DEF Ends, Current, FirstOfTwoDone
    <2>3. CASE SecondOfThreeDone
      BY <1>3, <2>3, Sequences DEF Ends, Current, SecondOfThreeDone
    <2> QED
      BY <1>1, <1>6, <2>1, <2>2, <2>3, Stages, Sequences
  <1> QED
    BY <1>1, <1>4, <1>5, <1>7

(* Contexts in which the instruction has changed nothing but GPR_TEMP.      *)
Agrees(c) ==
    /\ c \in ContextType
    /\ c.mem = start.mem /\ c.isReserved = start.isReserved /\ c.reservation = start.reservation
    /\ c.pc = start.pc + 1 /\ c.msr = start.msr
    /\ \A r \in Regs \ {GPR_TEMP} : c.gpr[r] = start.gpr[r]

LEMMA BegunAgrees == ASSUME IInv, InProgress PROVE Agrees(Begun)
  BY Sources DEF Agrees, Begun, Built

LEMMA SumAgrees ==
    ASSUME IInv, InProgress, NEW x \in IntermediateType, Sums(x)
    PROVE  Agrees(After(Begun, x)) /\ After(Begun, x).gpr[GPR_TEMP] = ResultIn(Begun, x)
  <1>1. x.op \in ArithmeticOps /\ x.op \notin MemoryOps
    BY DEF Sums, ArithmeticOps, MemoryOps, Loads, Stores
  <1>2. After(Begun, x) = Put(Begun, GPR_TEMP, ResultIn(Begun, x))
    BY <1>1, AfterFacts DEF Sums
  <1>3. After(Begun, x) \in ContextType
    <2>1. Fine(Begun, mapped, x)
      BY <1>1 DEF Fine
    <2> QED
      BY <1>1, <2>1, Sources, AfterType
  <1>4. Begun \in ContextType /\ Agrees(Begun)
    BY Sources, BegunAgrees
  <1>5. \A r \in Regs : After(Begun, x).gpr[r] =
            IF r = GPR_TEMP THEN ResultIn(Begun, x) ELSE Begun.gpr[r]
    BY <1>2, <1>4 DEF Put, Built, ContextType
  <1> QED
    BY <1>2, <1>3, <1>4, <1>5, RegFacts DEF Agrees, Put, Built

MemoryInstructions == {"lwz", "ld", "lwarx", "stw", "stwu", "std", "stwcx"}

Accesses(i, c, x) ==
    /\ Agrees(c)
    /\ x \in IntermediateType /\ x.op \in MemoryOps /\ Fine(c, mapped, x)
    /\ Corresponds(i, x)
    /\ Arch!EffectiveAddress(i) = AddressIn(c, x)

LEMMA EndOfMemory ==
    ASSUME IInv, InProgress, NEW d, Ends(d), InFlightOp.op \in MemoryInstructions
    PROVE  \E c, x :
              /\ Accesses(InFlightOp, c, x)
              /\ d = CASE InFlightOp.op \in {"lwz", "lwarx"} ->
                             After(After(c, x), LD_32_HIGH(InFlightOp.rt, 0))
                       [] InFlightOp.op = "stwu" ->
                             After(After(c, x), ADD_IMM(InFlightOp.ra, InFlightOp.ra, InFlightOp.d))
                       [] OTHER -> After(c, x)
  <1> DEFINE i == InFlightOp
  <1>1. i \in Instructions /\ AllOf = BuildIntermediate(i, start.pc)
    BY Sources DEF InFlightOp, AllOf
  <1> HIDE DEF i
  <1>2. CASE \E x : One(AllOf, x) /\ Plain(x) /\ Fine(Begun, mapped, x) /\ d = After(Begun, x)
    <2>1. PICK x : One(AllOf, x) /\ Plain(x) /\ Fine(Begun, mapped, x) /\ d = After(Begun, x)
      BY <1>2
    <2>2. (\A p, q : AllOf # <<p, q>>) /\ (\A p, q, r : AllOf # <<p, q, r>>)
          /\ \A p : AllOf = <<p>> => x = p
      BY <2>1, Sequences DEF One
    <2>3. i.op \in {"ld", "stw", "std", "stwcx"}
      <3>1. i.op \notin {"lwz", "lwarx"}
        BY <1>1, <2>2, ShapeOfOthers
      <3>2. i.op # "stwu"
        <4>1. ~Plain(INVALID)
          BY DEF INVALID, Plain, ArithmeticOps, BranchOps, MemoryOps, Loads, Stores
        <4> QED
          BY <1>1, <2>1, <2>2, <4>1, ShapeOfOthers
      <3> QED
        BY <3>1, <3>2 DEF MemoryInstructions, i
    <2>4. x.op \in MemoryOps
      <3>1. x \in {LD_64_REG_OFF(i.rt, i.ra, i.d), PPC_STWCX(i.rb, i.ra, i.rt),
                   ST_ABS(32, i.rt, i.d), ST_REG_OFF(32, i.rt, i.ra, i.d),
                   ST_ABS(64, i.rt, i.d), ST_REG_OFF(64, i.rt, i.ra, i.d)}
        BY <1>1, <2>2, <2>3, ShapeOfOthers
      <3> QED
        BY <3>1 DEF LD_64_REG_OFF, PPC_STWCX, ST_ABS, ST_REG_OFF, MemoryOps, Loads, Stores
    <2>5. Accesses(i, Begun, x)
      BY <2>1, <2>4, BegunAgrees, FirstAccess DEF Accesses, One, i
    <2> QED
      BY <2>1, <2>3, <2>5 DEF i
  <1>3. CASE \E x, y : Two(AllOf, x, y) /\ Fine(Begun, mapped, x) /\ d = After(After(Begun, x), y)
    <2>1. PICK x, y : Two(AllOf, x, y) /\ Fine(Begun, mapped, x) /\ d = After(After(Begun, x), y)
      BY <1>3
    <2>2. (\A p : AllOf # <<p>>) /\ (\A p, q, r : AllOf # <<p, q, r>>)
          /\ \A p, q : AllOf = <<p, q>> => x = p /\ y = q
      BY <2>1, Sequences DEF Two
    <2>3. i.op \in {"lwz", "lwarx"}
      BY <1>1, <2>2, ShapeOfOthers DEF MemoryInstructions, i
    <2>4. y = LD_32_HIGH(i.rt, 0) /\ x \in {LD_32_ABS(i.rt, i.d), LD_32_REG_OFF(i.rt, i.ra, i.d),
                                            LD_32_L(i.rt, i.rb)}
      BY <1>1, <2>2, <2>3, ShapeOfOthers
    <2>5. x.op \in MemoryOps
      BY <2>4 DEF LD_32_ABS, LD_32_REG_OFF, LD_32_L, MemoryOps, Loads
    <2>6. Accesses(i, Begun, x)
      BY <2>1, <2>5, BegunAgrees, FirstAccess DEF Accesses, Two, i
    <2> QED
      BY <2>1, <2>3, <2>4, <2>6 DEF i
  <1>4. CASE \E x, y, z : /\ Three(AllOf, x, y, z) /\ Fine(After(Begun, x), mapped, y)
                          /\ d = After(After(After(Begun, x), y), z)
    <2>1. PICK x, y, z : /\ Three(AllOf, x, y, z) /\ Fine(After(Begun, x), mapped, y)
                         /\ d = After(After(After(Begun, x), y), z)
      BY <1>4
    <2>2. (\A p : AllOf # <<p>>) /\ (\A p, q : AllOf # <<p, q>>)
          /\ \A p, q, r : AllOf = <<p, q, r>> => x = p /\ y = q /\ z = r
      BY <2>1, Sequences DEF Three
    <2>3. i.op \in {"lwarx", "stwu"}
      BY <1>1, <2>2, ShapeOfOthers DEF MemoryInstructions, i
    <2>4. /\ y \in {LD_32_L(i.rt, GPR_TEMP), ST_REG_OFF(32, i.rt, GPR_TEMP, 0)}
          /\ z = IF i.op = "lwarx" THEN LD_32_HIGH(i.rt, 0) ELSE ADD_IMM(i.ra, i.ra, i.d)
      BY <1>1, <2>2, <2>3, ShapeOfOthers
    <2>5. y.op \in MemoryOps
      BY <2>4 DEF LD_32_L, ST_REG_OFF, MemoryOps, Loads, Stores
    <2>6. Accesses(i, After(Begun, x), y)
      BY <2>1, <2>5, SumAgrees, SecondAccess DEF Accesses, Three, i
    <2> QED
      BY <2>1, <2>3, <2>4, <2>6 DEF i
  <1> QED
    BY <1>2, <1>3, <1>4 DEF Ends

(* No word misses, so the instruction executes.                             *)
LEMMA NothingMissing ==
    ASSUME IInv, InProgress, NEW c, NEW x, Accesses(InFlightOp, c, x)
    PROVE  Arch!Missing(InFlightOp) = {}
  <1>1. /\ Arch!Accesses(InFlightOp) = {TouchedIn(c, x)[k] : k \in DOMAIN TouchedIn(c, x)}
        /\ Arch!Missing(InFlightOp) =
             {a \in Arch!Accesses(InFlightOp) : ~HitsIn(c, mapped, a)}
    BY AccessSet DEF Accesses, Agrees
  <1>2. \A k \in DOMAIN TouchedIn(c, x) : HitsIn(c, mapped, TouchedIn(c, x)[k])
    BY DEF Accesses, Fine
  <1> QED
    BY <1>1, <1>2

LEMMA Executes ==
    ASSUME IInv, InProgress, running', NEW d, Becomes(d), d.msr = start.msr,
           UNCHANGED <<code, mapped, srr0, srr1, dar>>,
           Arch!Missing(InFlightOp) = {},
           \/ Arch!Load(InFlightOp) \/ Arch!Store(InFlightOp)
           \/ Arch!StoreConditional(InFlightOp)
           \/ Arch!Branches(InFlightOp) \/ Arch!AddImmediate(InFlightOp)
    PROVE  Arch!Execute
  <1>1. InFlight /\ running
    BY Sources
  <1>2. archPc = start.pc /\ archMsr = start.msr
    BY Seen
  <1>3. Arch!InCode(archPc) /\ Arch!CodeAt(archPc) = InFlightOp
        /\ Arch!Present(Arch!CodePage(archPc))
    BY <1>1, <1>2, Vocabulary DEF InFlight, InFlightOp, Arch!Present
  <1>4. archMsr' = archMsr /\ (~running)' = (~running)
    BY <1>1, <1>2 DEF Becomes
  <1> QED
    BY <1>1, <1>3, <1>4 DEF Arch!Execute

(* A load of a word and the clearing of the high word after it.             *)
LEMMA LoadWord ==
    ASSUME NEW c \in ContextType, NEW x \in IntermediateType, x.op \in Loads, ~IsDouble(x),
           Fine(c, mapped, x), NEW d, d = After(After(c, x), LD_32_HIGH(x.dest, 0))
    PROVE  /\ d.gpr = [c.gpr EXCEPT ![x.dest] = c.mem[Low(AddressIn(c, x))]]
           /\ d.mem = c.mem /\ d.pc = c.pc /\ d.msr = c.msr
           /\ d.isReserved = (IF x.op = "LD_32_L" THEN TRUE ELSE c.isReserved)
           /\ d.reservation = (IF x.op = "LD_32_L" THEN AddressIn(c, x) ELSE c.reservation)
  <1> DEFINE h == LD_32_HIGH(x.dest, 0)
             e == After(c, x)
             a == Low(AddressIn(c, x))
  <1>1. x.op \in MemoryOps /\ x.op # "PPC_STWCX" /\ x.dest \in Regs
    BY RegFacts DEF MemoryOps, Loads, IntermediateType
  <1>2. a \in Words /\ c.mem[a] \in Words /\ c.gpr \in [Regs -> Values]
    BY <1>1, TouchedFacts DEF ContextType
  <1>3. LoadedWord(c, x) = High(c.gpr[x.dest]) * W + c.mem[a]
    BY DEF LoadedWord, SetLow
  <1>4. LoadedWord(c, x) \in Values /\ Low(LoadedWord(c, x)) = c.mem[a]
    <2>1. High(c.gpr[x.dest]) \in Words
      BY <1>1, <1>2, Parts
    <2> HIDE DEF a
    <2> QED
      BY <1>2, <1>3, <2>1, Joined
  <1>5. /\ e.gpr = [c.gpr EXCEPT ![x.dest] = LoadedWord(c, x)]
        /\ e.mem = c.mem /\ e.pc = c.pc /\ e.msr = c.msr
        /\ e.isReserved = (IF x.op = "LD_32_L" THEN TRUE ELSE c.isReserved)
        /\ e.reservation = (IF x.op = "LD_32_L" THEN AddressIn(c, x) ELSE c.reservation)
    <2>1. CASE x.op = "LD_32_L"
      <3>1. e = Linked(c, x)
        BY <2>1, AfterFacts
      <3> QED
        BY <2>1, <3>1 DEF Linked, Built
    <2>2. CASE x.op # "LD_32_L"
      <3>1. e = Put(c, x.dest, LoadedWord(c, x))
        BY <2>2, AfterFacts
      <3> QED
        BY <2>2, <3>1 DEF Put, Built
    <2> QED
      BY <2>1, <2>2
  <1>6. h.op = "LD_32_IMM" /\ h.dest = x.dest /\ h.imm = 0
    BY DEF LD_32_HIGH
  <1>7. d = Put(e, x.dest, ResultIn(e, h))
    BY <1>6, AfterFacts DEF ArithmeticOps
  <1>8. ResultIn(e, h) = c.mem[a]
    <2>1. ResultIn(e, h) = SetHigh(e.gpr[x.dest], 0)
      BY <1>6 DEF ResultIn
    <2>2. e.gpr[x.dest] = LoadedWord(c, x)
      BY <1>1, <1>2, <1>5
    <2> QED
      BY <1>4, <2>1, <2>2, SetHighFact
  <1> HIDE DEF e, a
  <1>9. [e.gpr EXCEPT ![x.dest] = c.mem[a]] = [c.gpr EXCEPT ![x.dest] = c.mem[a]]
    BY <1>2, <1>4, <1>5, ValueOfWord
  <1> QED
    <2>1. d = Built([c.gpr EXCEPT ![x.dest] = c.mem[a]], e.mem, e.isReserved, e.reservation,
                    e.pc, e.msr)
      BY <1>7, <1>8, <1>9 DEF Put
    <2>2. /\ d.gpr = [c.gpr EXCEPT ![x.dest] = c.mem[a]] /\ d.mem = e.mem /\ d.pc = e.pc
          /\ d.msr = e.msr /\ d.isReserved = e.isReserved /\ d.reservation = e.reservation
      BY <2>1 DEF Built
    <2> QED
      BY <1>5, <2>2 DEF a

(* What the operands of a memory instruction are.                           *)
LEMMA Operands ==
    ASSUME IInv, InProgress, NEW c, Agrees(c)
    PROVE  LET i == InFlightOp
           IN  /\ i \in Instructions
               /\ archReg = RegOf(c) /\ archMem = c.mem /\ archPc = start.pc /\ c.pc = archPc + 1
               /\ archReservation = ReservationOf(c) /\ archMsr = c.msr
               /\ \A r \in ArchRegs : archReg[r] = c.gpr[r]
               /\ i.op \in MemoryInstructions => i.rt \in ArchRegs /\ i.ra \in ArchRegs
               /\ i.op \in {"stwu", "addi"} => i.ra \in ArchRegs /\ i.rt \in ArchRegs /\ i.d \in Values
  <1>1. InFlightOp \in Instructions /\ start \in ContextType
    BY Sources DEF InFlightOp
  <1>2. archReg = RegOf(c)
    BY <1>1, Seen, RegFacts DEF RegOf, Agrees
  <1>3. /\ archMem = c.mem /\ archPc = start.pc /\ c.pc = archPc + 1
        /\ archReservation = ReservationOf(c) /\ archMsr = c.msr
    BY Seen DEF Agrees, ReservationOf
  <1> QED
    BY <1>1, <1>2, <1>3, RegFacts DEF RegOf, Instructions, MemoryInstructions

LEMMA LoadsDone ==
    ASSUME IInv, InProgress, NEW d, Becomes(d), NEW c, NEW x, Accesses(InFlightOp, c, x),
           InFlightOp.op \in {"lwz", "lwarx", "ld"},
           d = IF InFlightOp.op = "ld" THEN After(c, x)
                                       ELSE After(After(c, x), LD_32_HIGH(InFlightOp.rt, 0))
    PROVE  Arch!Load(InFlightOp) /\ d.msr = start.msr
  <1> DEFINE i == InFlightOp
             a == Low(AddressIn(c, x))
  <1>1. /\ c \in ContextType /\ x \in IntermediateType /\ x.op \in Loads /\ x.dest = i.rt
        /\ Fine(c, mapped, x) /\ Agrees(c) /\ (i.op = "ld" <=> IsDouble(x))
        /\ (i.op = "lwarx" <=> x.op = "LD_32_L")
        /\ Arch!EffectiveAddress(i) = AddressIn(c, x)
    BY DEF Accesses, Agrees, Corresponds, Loads, Stores
  <1>2. i.rt \in ArchRegs /\ i.rt \in Regs
    BY <1>1, Operands, RegFacts DEF MemoryInstructions
  <1>3. /\ d.gpr = [c.gpr EXCEPT ![i.rt] = IF i.op = "ld" THEN c.mem[a] * W + c.mem[a + 1]
                                                          ELSE c.mem[a]]
        /\ d.mem = c.mem /\ d.pc = c.pc /\ d.msr = c.msr
        /\ d.isReserved = (IF i.op = "lwarx" THEN TRUE ELSE c.isReserved)
        /\ d.reservation = (IF i.op = "lwarx" THEN AddressIn(c, x) ELSE c.reservation)
    <2>1. CASE i.op = "ld"
      <3>1. d = Put(c, i.rt, c.mem[a] * W + c.mem[a + 1])
        <4>1. LoadedWord(c, x) = c.mem[a] * W + c.mem[a + 1]
          BY <1>1, <2>1 DEF LoadedWord
        <4> QED
          BY <1>1, <2>1, <4>1, AfterFacts
      <3> QED
        BY <2>1, <3>1 DEF Put, Built
    <2>2. CASE i.op # "ld"
      <3>1. d = After(After(c, x), LD_32_HIGH(x.dest, 0)) /\ ~IsDouble(x)
        BY <1>1, <2>2
      <3>2. /\ d.gpr = [c.gpr EXCEPT ![x.dest] = c.mem[a]]
            /\ d.mem = c.mem /\ d.pc = c.pc /\ d.msr = c.msr
            /\ d.isReserved = (IF x.op = "LD_32_L" THEN TRUE ELSE c.isReserved)
            /\ d.reservation = (IF x.op = "LD_32_L" THEN AddressIn(c, x) ELSE c.reservation)
        BY <1>1, <3>1, LoadWord
      <3> QED
        BY <1>1, <2>2, <3>2
    <2> QED
      BY <2>1, <2>2
  <1> HIDE DEF i, a
  <1>4. archReg' = [archReg EXCEPT ![i.rt] = IF i.op = "ld" THEN archMem[a] * W + archMem[a + 1]
                                                            ELSE archMem[a]]
    BY <1>1, <1>2, <1>3, RegOfPut, Operands DEF Becomes
  <1>5. archReservation' = IF i.op = "lwarx" THEN Arch!EffectiveAddress(i) ELSE archReservation
    BY <1>1, <1>3, Operands DEF Becomes, ReservationOf
  <1>6. archPc' = archPc + 1 /\ archMem' = archMem
    BY <1>1, <1>3, Operands DEF Becomes
  <1>7. Arch!Load(i)
    BY <1>1, <1>4, <1>5, <1>6, Vocabulary DEF Arch!Load, a, i
  <1> QED
    BY <1>1, <1>3, <1>7 DEF i, Agrees

LEMMA StoresDone ==
    ASSUME IInv, InProgress, NEW d, Becomes(d), NEW c, NEW x, Accesses(InFlightOp, c, x),
           InFlightOp.op \in {"stw", "stwu", "std"},
           d = IF InFlightOp.op = "stwu"
                 THEN After(After(c, x), ADD_IMM(InFlightOp.ra, InFlightOp.ra, InFlightOp.d))
                 ELSE After(c, x)
    PROVE  Arch!Store(InFlightOp) /\ d.msr = start.msr
  <1> DEFINE i == InFlightOp
             a == Low(AddressIn(c, x))
             e == After(c, x)
             v == Plus(c.gpr[i.ra], i.d)
  <1>1. /\ c \in ContextType /\ x.op \in Stores /\ x.rs = i.rt /\ Agrees(c)
        /\ (i.op = "std" <=> IsDouble(x)) /\ (i.op = "stwu" => i.ra # 0)
        /\ Arch!EffectiveAddress(i) = AddressIn(c, x)
    BY DEF Accesses, Agrees, Corresponds
  <1>2. i.rt \in ArchRegs /\ i.ra \in ArchRegs /\ i.rt \in Regs /\ i.ra \in Regs
    BY <1>1, Operands, RegFacts DEF MemoryInstructions
  <1>3. e = Built(c.gpr, StoredIn(c, x), c.isReserved, c.reservation, c.pc, c.msr)
    BY <1>1, AfterFacts DEF Written
  <1>4. d = IF i.op = "stwu"
              THEN Built([c.gpr EXCEPT ![i.ra] = v], StoredIn(c, x), c.isReserved, c.reservation,
                         c.pc, c.msr)
              ELSE e
    <2> DEFINE h == ADD_IMM(i.ra, i.ra, i.d)
    <2>1. h.op = "ADD_IMM" /\ h.dest = i.ra /\ h.ra = i.ra /\ h.imm = i.d
      BY DEF ADD_IMM
    <2>2. ResultIn(e, h) = Plus(e.gpr[i.ra], i.d)
      BY <2>1 DEF ResultIn
    <2>3. After(e, h) = Put(e, i.ra, ResultIn(e, h))
      BY <2>1, AfterFacts DEF ArithmeticOps
    <2>4. /\ e.gpr = c.gpr /\ e.mem = StoredIn(c, x) /\ e.isReserved = c.isReserved
          /\ e.reservation = c.reservation /\ e.pc = c.pc /\ e.msr = c.msr
      BY <1>3 DEF Built
    <2> HIDE DEF h, e
    <2>5. After(e, h) = Built([c.gpr EXCEPT ![i.ra] = v], StoredIn(c, x), c.isReserved,
                              c.reservation, c.pc, c.msr)
      BY <2>2, <2>3, <2>4 DEF Put
    <2> QED
      BY <2>5 DEF h, e
  <1>5. StoredIn(c, x) = IF i.op = "std"
                           THEN [c.mem EXCEPT ![a] = High(c.gpr[i.rt]), ![a + 1] = Low(c.gpr[i.rt])]
                           ELSE [c.mem EXCEPT ![a] = Low(c.gpr[i.rt])]
    BY <1>1 DEF StoredIn
  <1>6. /\ d.gpr = (IF i.op = "stwu" THEN [c.gpr EXCEPT ![i.ra] = v] ELSE c.gpr)
        /\ d.mem = StoredIn(c, x) /\ d.isReserved = c.isReserved
        /\ d.reservation = c.reservation /\ d.pc = c.pc /\ d.msr = c.msr
    BY <1>3, <1>4 DEF Built
  <1> HIDE DEF i, a, e
  <1>7. archReg' = IF i.op = "stwu" THEN [archReg EXCEPT ![i.ra] = Plus(@, i.d)] ELSE archReg
    <2>1. CASE i.op = "stwu"
      <3>1. RegOf(d) = [RegOf(c) EXCEPT ![i.ra] = v]
        BY <1>1, <1>2, <1>6, <2>1, RegOfPut
      <3>2. archReg[i.ra] = c.gpr[i.ra] /\ archReg = RegOf(c)
        BY <1>1, <1>2, Operands
      <3> QED
        BY <2>1, <3>1, <3>2 DEF Becomes
    <2>2. CASE i.op # "stwu"
      BY <1>1, <1>6, <2>2, Operands DEF Becomes, RegOf
    <2> QED
      BY <2>1, <2>2
  <1>8. archReservation' = archReservation /\ archPc' = archPc + 1
    BY <1>1, <1>6, Operands DEF Becomes, ReservationOf
  <1>9. archMem' = IF i.op = "std"
                     THEN [archMem EXCEPT ![a] = High(archReg[i.rt]), ![a + 1] = Low(archReg[i.rt])]
                     ELSE [archMem EXCEPT ![a] = Low(archReg[i.rt])]
    BY <1>1, <1>2, <1>5, <1>6, Operands DEF Becomes
  <1>10. i.op \in {"stw", "stwu", "std"} /\ ~Arch!Malformed(i)
    BY <1>1 DEF i, Arch!Malformed
  <1>11. Arch!Store(i)
    BY <1>1, <1>7, <1>8, <1>9, <1>10, Vocabulary DEF Arch!Store, a
  <1> QED
    BY <1>1, <1>6, <1>11 DEF i, Agrees

LEMMA ConditionalDone ==
    ASSUME IInv, InProgress, NEW d, Becomes(d), NEW c, NEW x, Accesses(InFlightOp, c, x),
           InFlightOp.op = "stwcx", d = After(c, x)
    PROVE  Arch!StoreConditional(InFlightOp) /\ d.msr = start.msr
  <1> DEFINE i == InFlightOp
             a == Low(AddressIn(c, x))
  <1>1. /\ c \in ContextType /\ x.op = "PPC_STWCX" /\ x.rs = i.rt /\ Agrees(c) /\ ~IsDouble(x)
        /\ Arch!EffectiveAddress(i) = AddressIn(c, x)
    BY DEF Accesses, Agrees, Corresponds
  <1>2. i.rt \in ArchRegs /\ i.rt \in Regs /\ GPR_CR \in ArchRegs /\ GPR_CR \in Regs
    BY <1>1, Operands, RegFacts DEF MemoryInstructions
  <1>3. Arch!Accesses(i) = {TouchedIn(c, x)[k] : k \in DOMAIN TouchedIn(c, x)}
    BY AccessSet DEF Accesses, Agrees
  <1> HIDE DEF i, a
  <1>4. CASE ReservedIn(c, x)
    <2>1. d = Built([c.gpr EXCEPT ![GPR_CR] = 1], StoredIn(c, x), FALSE, c.reservation, c.pc, c.msr)
      BY <1>1, <1>4, AfterFacts DEF Conditional
    <2>2. /\ d.gpr = [c.gpr EXCEPT ![GPR_CR] = 1] /\ d.mem = StoredIn(c, x)
          /\ d.isReserved = FALSE /\ d.pc = c.pc /\ d.msr = c.msr
      BY <2>1 DEF Built
    <2>3. StoredIn(c, x) = [c.mem EXCEPT ![a] = Low(c.gpr[i.rt])]
      BY <1>1 DEF StoredIn, a
    <2>4. archReg' = [archReg EXCEPT ![GPR_CR] = 1]
      BY <1>1, <1>2, <2>2, RegOfPut, Operands DEF Becomes
    <2>5. archReservation' = NoReservation /\ archPc' = archPc + 1
      BY <1>1, <2>2, Operands DEF Becomes, ReservationOf
    <2>6. archMem' = [archMem EXCEPT ![a] = Low(archReg[i.rt])]
      BY <1>1, <1>2, <2>2, <2>3, Operands DEF Becomes
    <2>7. a \in Arch!Accesses(i)
      <3>1. TouchedIn(c, x) = <<a>>
        BY <1>1, <1>4 DEF TouchedIn, a
      <3>2. DOMAIN <<a>> = {1} /\ <<a>>[1] = a
        OBVIOUS
      <3> QED
        BY <1>3, <3>1, <3>2
    <2>8. Arch!StoreConditional(i)
      <3>1. i.op = "stwcx"
        BY DEF i
      <3> QED
        BY <2>4, <2>5, <2>6, <2>7, <3>1, Vocabulary DEF Arch!StoreConditional
    <2> QED
      BY <1>1, <2>2, <2>8 DEF Agrees, i
  <1>5. CASE ~ReservedIn(c, x)
    <2>1. d = Put(c, GPR_CR, 0)
      BY <1>1, <1>5, AfterFacts
    <2>2. /\ d.gpr = [c.gpr EXCEPT ![GPR_CR] = 0] /\ d.mem = c.mem /\ d.reservation = c.reservation
          /\ d.isReserved = c.isReserved /\ d.pc = c.pc /\ d.msr = c.msr
      BY <2>1 DEF Put, Built
    <2>3. archReg' = [archReg EXCEPT ![GPR_CR] = 0]
      BY <1>1, <1>2, <2>2, RegOfPut, Operands DEF Becomes
    <2>4. archReservation' = archReservation /\ archPc' = archPc + 1 /\ archMem' = archMem
      BY <1>1, <2>2, Operands DEF Becomes, ReservationOf
    <2>5. Arch!Accesses(i) = {}
      <3>1. TouchedIn(c, x) = <<>>
        BY <1>1, <1>5 DEF TouchedIn
      <3>2. DOMAIN <<>> = {}
        OBVIOUS
      <3> QED
        BY <1>3, <3>1, <3>2
    <2>6. Arch!StoreConditional(i)
      <3>1. i.op = "stwcx"
        BY DEF i
      <3> QED
        BY <2>3, <2>4, <2>5, <3>1, Vocabulary DEF Arch!StoreConditional
    <2> QED
      BY <1>1, <2>2, <2>6 DEF Agrees, i
  <1> QED
    BY <1>4, <1>5

LEMMA EndsByLength ==
    ASSUME NEW d, Ends(d), NEW x, NEW y, NEW z
    PROVE  /\ AllOf = <<x>> => Plain(x) /\ d = After(Begun, x)
           /\ AllOf = <<x, y>> => d = After(After(Begun, x), y)
           /\ AllOf = <<x, y, z>> => d = After(After(After(Begun, x), y), z)
  <1>1. CASE AllOf = <<x>>
    BY <1>1, Sequences DEF Ends, One, Two, Three
  <1>2. CASE AllOf = <<x, y>>
    BY <1>2, Sequences DEF Ends, One, Two, Three
  <1>3. CASE AllOf = <<x, y, z>>
    BY <1>3, Sequences DEF Ends, One, Two, Three
  <1> QED
    BY <1>1, <1>2, <1>3, Sequences

LEMMA AfterOthers ==
    /\ \A c, r, imm : After(c, LD_64_IMM(r, imm)) = Put(c, r, imm)
    /\ \A c, r, ra, imm : After(c, ADD_IMM(ra, r, imm)) = Put(c, r, Plus(c.gpr[ra], imm))
    /\ \A c, r, ra, imm : After(c, SUBU_IMM(ra, r, imm)) = Put(c, r, Minus(c.gpr[ra], imm))
    /\ \A c, imm : After(c, BRANCH_ALWAYS(imm)) = Jumped(c, imm)
    /\ \A c, ra : After(c, BRANCH_GPR64(ra)) = Jumped(c, c.gpr[ra])
    /\ \A c, ra, imm : After(c, BRANCH_MASK_NOT_ZERO(ra, imm)) =
                          IF c.gpr[ra] # 0 THEN Jumped(c, imm) ELSE c
    /\ \A c, ra, imm : After(c, BRANCH_GPR64_NOT_ZERO(ra, imm)) =
                          IF c.gpr[ra] # 0 THEN Jumped(c, imm) ELSE c
  BY AfterFacts DEF LD_64_IMM, ADD_IMM, SUBU_IMM, BRANCH_ALWAYS, BRANCH_GPR64, BRANCH_MASK_NOT_ZERO,
                    BRANCH_GPR64_NOT_ZERO, ArithmeticOps, ResultIn

LEMMA EndOfOthers ==
    ASSUME IInv, InProgress, NEW d, Ends(d), InFlightOp.op \notin MemoryInstructions
    PROVE  LET i == InFlightOp
               t == Plus(start.pc, i.d)
               Lk(c) == Put(c, GPR_LR, start.pc + 1)
               JumpIf(c, r) == IF c.gpr[r] # 0 THEN Jumped(c, t) ELSE c
               s == Put(Begun, GPR_CTR, Minus(Begun.gpr[GPR_CTR], 1))
           IN  \/ i.op = "b" /\ d = Jumped(IF i.lk THEN Lk(Begun) ELSE Begun, t)
               \/ i.op = "beq" /\ d = (IF i.lk THEN Lk(JumpIf(Begun, GPR_CR))
                                               ELSE JumpIf(Begun, GPR_CR))
               \/ i.op = "bdnz" /\ d = (IF i.lk THEN Lk(JumpIf(s, GPR_CTR)) ELSE JumpIf(s, GPR_CTR))
               \/ i.op = "bctrl" /\ d = Lk(Jumped(Begun, Begun.gpr[GPR_CTR]))
               \/ i.op = "blr" /\ d = Jumped(Begun, Begun.gpr[GPR_LR])
               \/ i.op = "addi" /\ d = Put(Begun, i.rt, IF i.ra = 0 THEN i.d
                                                                    ELSE Plus(Begun.gpr[i.ra], i.d))
  <1> DEFINE i == InFlightOp
             t == Plus(start.pc, i.d)
             Lk(c) == Put(c, GPR_LR, start.pc + 1)
             JumpIf(c, r) == IF c.gpr[r] # 0 THEN Jumped(c, t) ELSE c
             s == Put(Begun, GPR_CTR, Minus(Begun.gpr[GPR_CTR], 1))
  <1>1. i \in Instructions /\ AllOf = BuildIntermediate(i, start.pc)
    BY Sources DEF InFlightOp, AllOf
  <1> HIDE DEF i
  <1>2. CASE i.op = "b"
    <2>1. CASE i.lk
      <3>1. AllOf = <<LD_64_IMM(GPR_LR, start.pc + 1), BRANCH_ALWAYS(t)>>
        BY <1>1, <1>2, <2>1, ShapeOfBranches
      <3> QED
        BY <1>2, <2>1, <3>1, EndsByLength, AfterOthers DEF i
    <2>2. CASE ~i.lk
      <3>1. AllOf = <<BRANCH_ALWAYS(t)>>
        BY <1>1, <1>2, <2>2, ShapeOfBranches
      <3> QED
        BY <1>2, <2>2, <3>1, EndsByLength, AfterOthers DEF i
    <2> QED
      BY <2>1, <2>2
  <1>3. CASE i.op = "beq"
    <2>1. CASE i.lk
      <3>1. AllOf = <<BRANCH_MASK_NOT_ZERO(GPR_CR, t), LD_64_IMM(GPR_LR, start.pc + 1)>>
        BY <1>1, <1>3, <2>1, ShapeOfBranches
      <3>2. d = Lk(JumpIf(Begun, GPR_CR))
        BY <3>1, EndsByLength, AfterOthers
      <3> QED
        BY <1>3, <2>1, <3>2 DEF i
    <2>2. CASE ~i.lk
      <3>1. AllOf = <<BRANCH_MASK_NOT_ZERO(GPR_CR, t)>>
        BY <1>1, <1>3, <2>2, ShapeOfBranches
      <3>2. d = JumpIf(Begun, GPR_CR)
        BY <3>1, EndsByLength, AfterOthers
      <3> QED
        BY <1>3, <2>2, <3>2 DEF i
    <2> QED
      BY <2>1, <2>2
  <1>4. CASE i.op = "bdnz"
    <2>1. After(Begun, SUBU_IMM(GPR_CTR, GPR_CTR, 1)) = s
      BY AfterOthers
    <2>2. CASE i.lk
      <3>1. AllOf = <<SUBU_IMM(GPR_CTR, GPR_CTR, 1), BRANCH_GPR64_NOT_ZERO(GPR_CTR, t),
                      LD_64_IMM(GPR_LR, start.pc + 1)>>
        BY <1>1, <1>4, <2>2, ShapeOfBranches
      <3>2. d = After(After(s, BRANCH_GPR64_NOT_ZERO(GPR_CTR, t)), LD_64_IMM(GPR_LR, start.pc + 1))
        BY <2>1, <3>1, EndsByLength
      <3>3. d = Lk(JumpIf(s, GPR_CTR))
        BY <3>2, AfterOthers
      <3> QED
        BY <1>4, <2>2, <3>3 DEF i
    <2>3. CASE ~i.lk
      <3>1. AllOf = <<SUBU_IMM(GPR_CTR, GPR_CTR, 1), BRANCH_GPR64_NOT_ZERO(GPR_CTR, t)>>
        BY <1>1, <1>4, <2>3, ShapeOfBranches
      <3>2. d = After(s, BRANCH_GPR64_NOT_ZERO(GPR_CTR, t))
        BY <2>1, <3>1, EndsByLength
      <3>3. d = JumpIf(s, GPR_CTR)
        BY <3>2, AfterOthers
      <3> QED
        BY <1>4, <2>3, <3>3 DEF i
    <2> QED
      BY <2>2, <2>3
  <1>5. CASE i.op = "bctrl"
    <2>1. AllOf = <<BRANCH_GPR64(GPR_CTR), LD_64_IMM(GPR_LR, start.pc + 1)>>
      BY <1>1, <1>5, ShapeOfBranches
    <2>2. d = Lk(Jumped(Begun, Begun.gpr[GPR_CTR]))
      BY <2>1, EndsByLength, AfterOthers
    <2> QED
      BY <1>5, <2>2 DEF i
  <1>6. CASE i.op = "blr"
    <2>1. AllOf = <<BRANCH_GPR64(GPR_LR)>>
      BY <1>1, <1>6, ShapeOfBranches
    <2>2. d = Jumped(Begun, Begun.gpr[GPR_LR])
      BY <2>1, EndsByLength, AfterOthers
    <2> QED
      BY <1>6, <2>2 DEF i
  <1>7. CASE i.op = "addi"
    <2>1. AllOf = IF i.ra = 0 THEN <<LD_64_IMM(i.rt, i.d)>> ELSE <<ADD_IMM(i.ra, i.rt, i.d)>>
      BY <1>1, <1>7, ShapeOfOthers
    <2>2. d = Put(Begun, i.rt, IF i.ra = 0 THEN i.d ELSE Plus(Begun.gpr[i.ra], i.d))
      BY <2>1, EndsByLength, AfterOthers
    <2> QED
      BY <1>7, <2>2 DEF i
  <1>8. i.op \notin {"rfid", "unknown"}
    <2>1. ~Plain(PPC_RFID) /\ ~Plain(UNKNOWN)
      BY DEF PPC_RFID, UNKNOWN, Plain, ArithmeticOps, BranchOps, MemoryOps, Loads, Stores
    <2> QED
      BY <1>1, <2>1, ShapeOfBranches, ShapeOfOthers, EndsByLength
  <1> QED
    BY <1>1, <1>2, <1>3, <1>4, <1>5, <1>6, <1>7, <1>8 DEF Instructions, MemoryInstructions, i

(* Jumping, linking and putting, as the architecture sees them.             *)
LEMMA JumpedFields ==
    \A c, t :
       /\ Jumped(c, t).gpr = c.gpr /\ Jumped(c, t).mem = c.mem
       /\ Jumped(c, t).isReserved = c.isReserved /\ Jumped(c, t).reservation = c.reservation
       /\ Jumped(c, t).pc = TruncatePC(t, c.msr) /\ Jumped(c, t).msr = c.msr
  BY DEF Jumped, Built

With(f, r, v) == [f EXCEPT ![r] = v]

LEMMA PutFields ==
    \A c, r, v :
       /\ Put(c, r, v).gpr = With(c.gpr, r, v) /\ Put(c, r, v).mem = c.mem
       /\ Put(c, r, v).isReserved = c.isReserved /\ Put(c, r, v).reservation = c.reservation
       /\ Put(c, r, v).pc = c.pc /\ Put(c, r, v).msr = c.msr
  BY DEF Put, Built, With

Same(c) ==
    /\ c.mem = Begun.mem /\ c.isReserved = Begun.isReserved
    /\ c.reservation = Begun.reservation /\ c.msr = Begun.msr

LEMMA SameSteps ==
    /\ Same(Begun)
    /\ \A c, t : Same(c) => Same(Jumped(c, t))
    /\ \A c, r, v : Same(c) => Same(Put(c, r, v))
  BY JumpedFields, PutFields DEF Same

LEMMA SameSeen ==
    ASSUME IInv, InProgress, NEW d, Becomes(d), Same(d)
    PROVE  archMem' = archMem /\ archReservation' = archReservation /\ d.msr = start.msr
  <1>1. Agrees(Begun)
    BY BegunAgrees
  <1> QED
    BY <1>1, Operands DEF Becomes, Same, ReservationOf, Agrees

LEMMA BranchesDone ==
    ASSUME IInv, InProgress, NEW d, Becomes(d), Ends(d),
           InFlightOp.op \in {"b", "beq", "bdnz", "bctrl", "blr"}
    PROVE  Arch!Branches(InFlightOp) /\ d.msr = start.msr /\ Arch!Missing(InFlightOp) = {}
  <1> DEFINE i == InFlightOp
             t == Plus(start.pc, i.d)
             g == Begun.gpr
             link == start.pc + 1
             Linking(f) == With(f, GPR_LR, link)
             s == Put(Begun, GPR_CTR, Minus(g[GPR_CTR], 1))
             Lk(c) == Put(c, GPR_LR, link)
             JumpIf(c, r) == IF c.gpr[r] # 0 THEN Jumped(c, t) ELSE c
  <1>1. Agrees(Begun) /\ Begun \in ContextType /\ g \in [Regs -> Values] /\ g[GPR_CR] \in {0, 1}
    BY BegunAgrees DEF Agrees, ContextType
  <1>2. /\ archReg = RegOf(Begun) /\ archPc = start.pc /\ Begun.pc = archPc + 1
        /\ archMsr = Begun.msr /\ \A r \in ArchRegs : archReg[r] = g[r]
    BY <1>1, Operands
  <1>3. archReg' = RegOf(d) /\ archPc' = d.pc
    BY DEF Becomes
  <1>4. archReg \in [ArchRegs -> Values]
    BY <1>1, <1>2, RegFacts DEF RegOf
  <1> HIDE DEF i, g
  <1>5. \/ i.op = "b" /\ d = Jumped(IF i.lk THEN Lk(Begun) ELSE Begun, t)
        \/ i.op = "beq" /\ d = (IF i.lk THEN Lk(JumpIf(Begun, GPR_CR)) ELSE JumpIf(Begun, GPR_CR))
        \/ i.op = "bdnz" /\ d = (IF i.lk THEN Lk(JumpIf(s, GPR_CTR)) ELSE JumpIf(s, GPR_CTR))
        \/ i.op = "bctrl" /\ d = Lk(Jumped(Begun, g[GPR_CTR]))
        \/ i.op = "blr" /\ d = Jumped(Begun, g[GPR_LR])
    BY EndOfOthers DEF i, g, MemoryInstructions
  <1>6. Same(d)
    <2>1. Same(s) /\ Same(Lk(Begun)) /\ Same(JumpIf(Begun, GPR_CR)) /\ Same(JumpIf(s, GPR_CTR))
      BY SameSteps
    <2> QED
      BY <1>5, <2>1, SameSteps
  <1>7. archMem' = archMem /\ archReservation' = archReservation /\ d.msr = start.msr
    BY <1>6, SameSeen
  <1>8. \A f : \A r \in ArchRegs :
            f \in [Regs -> Values] => Linking(f)[r] = IF r = GPR_LR THEN link ELSE f[r]
    BY RegFacts DEF With
  <1>9. CASE i.op = "b"
    <2>1. d.pc = TruncatePC(t, Begun.msr)
      BY <1>5, <1>9, JumpedFields, PutFields
    <2>2. d.gpr = IF i.lk THEN Linking(g) ELSE g
      BY <1>5, <1>9, JumpedFields, PutFields DEF g
    <2>3. archReg' = IF i.lk THEN Linking(archReg) ELSE archReg
      BY <1>1, <1>2, <1>3, <2>2, RegOfPut, RegFacts DEF g, RegOf, With
    <2>4. archPc' = TruncatePC(t, archMsr)
      BY <1>2, <1>3, <2>1
    <2> QED
      BY <1>2, <1>7, <1>9, <2>3, <2>4, Vocabulary DEF i, Arch!Branches, Arch!Jump, Arch!Link,
         Arch!Missing, Arch!Accesses, Arch!Malformed, With
  <1>10. CASE i.op = "beq"
    <2>1. d.pc = IF g[GPR_CR] = 1 THEN TruncatePC(t, Begun.msr) ELSE Begun.pc
      BY <1>1, <1>5, <1>10, JumpedFields, PutFields DEF g
    <2>2. d.gpr = IF i.lk THEN Linking(g) ELSE g
      BY <1>5, <1>10, JumpedFields, PutFields DEF g
    <2>3. archReg' = IF i.lk THEN Linking(archReg) ELSE archReg
      BY <1>1, <1>2, <1>3, <2>2, RegOfPut, RegFacts DEF g, RegOf, With
    <2>4. archPc' = IF archReg[GPR_CR] = 1 THEN TruncatePC(t, archMsr) ELSE archPc + 1
      BY <1>2, <1>3, <2>1, RegFacts
    <2> QED
      BY <1>2, <1>7, <1>10, <2>3, <2>4, Vocabulary DEF i, Arch!Branches, Arch!Taken, Arch!Jump,
         Arch!Link, Arch!Missing, Arch!Accesses, Arch!Malformed, With
  <1>11. CASE i.op = "bdnz"
    <2> DEFINE n == Minus(g[GPR_CTR], 1)
    <2>1. s.gpr = [g EXCEPT ![GPR_CTR] = n] /\ s.gpr[GPR_CTR] = n /\ s.pc = Begun.pc
          /\ s.msr = Begun.msr
      BY <1>1, PutFields, RegFacts DEF g, With
    <2> HIDE DEF s, n
    <2>2. d.pc = IF n # 0 THEN TruncatePC(t, Begun.msr) ELSE Begun.pc
      BY <1>5, <1>11, <2>1, JumpedFields, PutFields
    <2>3. d.gpr = IF i.lk THEN Linking(s.gpr) ELSE s.gpr
      BY <1>5, <1>11, JumpedFields, PutFields
    <2>4. n = Minus(archReg[GPR_CTR], 1)
      BY <1>2, RegFacts DEF n
    <2>5. archReg' = [(IF i.lk THEN Linking(archReg) ELSE archReg) EXCEPT ![GPR_CTR] = Minus(@, 1)]
      <3> DEFINE u == [(IF i.lk THEN Linking(archReg) ELSE archReg) EXCEPT ![GPR_CTR] = Minus(@, 1)]
      <3>1. \A r \in ArchRegs : u[r] = IF r = GPR_CTR THEN n
                                       ELSE IF i.lk /\ r = GPR_LR THEN link ELSE archReg[r]
        BY <1>4, <2>4, RegFacts DEF With
      <3>2. \A r \in ArchRegs : d.gpr[r] = IF r = GPR_CTR THEN n
                                       ELSE IF i.lk /\ r = GPR_LR THEN link ELSE g[r]
        BY <1>1, <2>1, <2>3, RegFacts DEF With
      <3>3. DOMAIN u = ArchRegs /\ u = [r \in ArchRegs |-> u[r]]
        BY <1>4 DEF With
      <3> QED
        BY <1>2, <1>3, <3>1, <3>2, <3>3 DEF RegOf
    <2>6. archPc' = IF Minus(archReg[GPR_CTR], 1) # 0 THEN TruncatePC(t, archMsr) ELSE archPc + 1
      BY <1>2, <1>3, <2>2, <2>4
    <2> QED
      BY <1>2, <1>7, <1>11, <2>5, <2>6, Vocabulary DEF i, Arch!Branches, Arch!Taken, Arch!Jump,
         Arch!Link, Arch!Missing, Arch!Accesses, Arch!Malformed, With
  <1>12. CASE i.op = "bctrl"
    <2>1. d.pc = TruncatePC(g[GPR_CTR], Begun.msr)
      BY <1>5, <1>12, JumpedFields, PutFields
    <2>2. d.gpr = Linking(g)
      BY <1>5, <1>12, JumpedFields, PutFields DEF g
    <2>3. archReg' = Linking(archReg)
      BY <1>1, <1>2, <1>3, <2>2, RegOfPut, RegFacts DEF g, With
    <2>4. archPc' = TruncatePC(archReg[GPR_CTR], archMsr)
      BY <1>2, <1>3, <2>1, RegFacts
    <2> QED
      BY <1>2, <1>7, <1>12, <2>3, <2>4, Vocabulary DEF i, Arch!Branches, Arch!Jump, Arch!Link,
         Arch!Missing, Arch!Accesses, Arch!Malformed, With
  <1>13. CASE i.op = "blr"
    <2>1. d.pc = TruncatePC(g[GPR_LR], Begun.msr) /\ d.gpr = g
      BY <1>5, <1>13, JumpedFields DEF g
    <2>2. archReg' = archReg
      BY <1>2, <1>3, <2>1 DEF g, RegOf
    <2>3. archPc' = TruncatePC(archReg[GPR_LR], archMsr)
      BY <1>2, <1>3, <2>1, RegFacts
    <2> QED
      BY <1>2, <1>7, <1>13, <2>2, <2>3, Vocabulary DEF i, Arch!Branches, Arch!Jump,
         Arch!Missing, Arch!Accesses, Arch!Malformed, With
  <1> QED
    BY <1>9, <1>10, <1>11, <1>12, <1>13 DEF i

LEMMA AddiDone ==
    ASSUME IInv, InProgress, NEW d, Becomes(d), Ends(d), InFlightOp.op = "addi"
    PROVE  Arch!AddImmediate(InFlightOp) /\ d.msr = start.msr /\ Arch!Missing(InFlightOp) = {}
  <1> DEFINE i == InFlightOp
             v == IF i.ra = 0 THEN i.d ELSE Plus(Begun.gpr[i.ra], i.d)
  <1>1. Agrees(Begun) /\ Begun \in ContextType
    BY BegunAgrees DEF Agrees
  <1>2. d = Put(Begun, i.rt, v)
    BY EndOfOthers DEF MemoryInstructions
  <1>3. Same(d)
    BY <1>2, SameSteps
  <1>4. archMem' = archMem /\ archReservation' = archReservation /\ d.msr = start.msr
    BY <1>3, SameSeen
  <1>5. i.rt \in ArchRegs /\ i.rt \in Regs /\ i.ra \in ArchRegs /\ i.d \in Values
    BY <1>1, Operands, RegFacts
  <1>6. archReg = RegOf(Begun) /\ Begun.pc = archPc + 1 /\ archReg[i.ra] = Begun.gpr[i.ra]
    BY <1>1, <1>5, Operands
  <1>7. v = Plus(IF i.ra = 0 THEN 0 ELSE archReg[i.ra], i.d)
    BY <1>5, <1>6, PlusZero
  <1> HIDE DEF v, i
  <1>8. d.gpr = With(Begun.gpr, i.rt, v) /\ d.pc = Begun.pc
    BY <1>2, PutFields
  <1>9. archReg' = [archReg EXCEPT ![i.rt] = v] /\ archPc' = archPc + 1
    <2>1. archReg' = RegOf(d) /\ archPc' = d.pc
      BY DEF Becomes
    <2>2. RegOf(d) = With(RegOf(Begun), i.rt, v)
      BY <1>1, <1>5, <1>8, RegOfPut DEF With
    <2> QED
      BY <1>6, <1>8, <2>1, <2>2 DEF With
  <1>10. i.op = "addi"
    BY DEF i
  <1>11. Arch!AddImmediate(i)
    BY <1>4, <1>7, <1>9, <1>10, Vocabulary DEF Arch!AddImmediate, Arch!Base
  <1>12. Arch!Missing(i) = {}
    BY <1>10 DEF Arch!Missing, Arch!Accesses, Arch!Malformed
  <1> QED
    BY <1>4, <1>11, <1>12 DEF i

(* Which instructions cannot be executed further.                           *)
LEMMA OddOnes ==
    ASSUME IInv, InProgress, ~Plain(Current)
    PROVE  /\ Current.op = "PPC_RFID" => InFlightOp.op = "rfid"
           /\ Current.op \in {"UNKNOWN_OPCODE", "INVALID_OPCODE"} => Arch!Malformed(InFlightOp)
  <1> DEFINE i == InFlightOp
             x == Current
  <1>1. AllOf = <<x>> /\ i \in Instructions /\ AllOf = BuildIntermediate(i, start.pc)
    BY Alone, Sources DEF One, InFlightOp, AllOf
  <1>2. (\A p : AllOf = <<p>> => x = p) /\ (\A p, q : AllOf # <<p, q>>)
        /\ \A p, q, r : AllOf # <<p, q, r>>
    BY <1>1, Sequences
  <1>3. ~Plain(x)
    OBVIOUS
  <1> HIDE DEF i, x
  <1>4. i.op \notin {"addi", "lwz", "ld", "stw", "std", "lwarx", "stwcx"}
    <2>1. i.op \notin {"lwz", "lwarx"}
      BY <1>1, <1>2, ShapeOfOthers
    <2>2. i.op = "addi" => x \in {LD_64_IMM(i.rt, i.d), ADD_IMM(i.ra, i.rt, i.d)}
      BY <1>1, <1>2, ShapeOfOthers
    <2>3. i.op \in {"ld", "stw", "std", "stwcx"} =>
              x \in {LD_64_REG_OFF(i.rt, i.ra, i.d), PPC_STWCX(i.rb, i.ra, i.rt),
                     ST_ABS(32, i.rt, i.d), ST_REG_OFF(32, i.rt, i.ra, i.d),
                     ST_ABS(64, i.rt, i.d), ST_REG_OFF(64, i.rt, i.ra, i.d)}
      BY <1>1, <1>2, ShapeOfOthers
    <2>4. \A y \in {LD_64_IMM(i.rt, i.d), ADD_IMM(i.ra, i.rt, i.d)} : Plain(y)
      BY DEF LD_64_IMM, ADD_IMM, Plain, ArithmeticOps
    <2>5. \A y \in {LD_64_REG_OFF(i.rt, i.ra, i.d), PPC_STWCX(i.rb, i.ra, i.rt),
                    ST_ABS(32, i.rt, i.d), ST_REG_OFF(32, i.rt, i.ra, i.d),
                    ST_ABS(64, i.rt, i.d), ST_REG_OFF(64, i.rt, i.ra, i.d)} : Plain(y)
      BY DEF LD_64_REG_OFF, PPC_STWCX, ST_ABS, ST_REG_OFF, Plain, MemoryOps, Loads, Stores
    <2> QED
      BY <1>3, <2>1, <2>2, <2>3, <2>4, <2>5
  <1>5. i.op \notin {"b", "beq", "bdnz", "bctrl", "blr"}
    <2>1. i.op \in {"b", "beq", "bdnz", "bctrl", "blr"} =>
              x \in {BRANCH_ALWAYS(Plus(start.pc, i.d)), BRANCH_GPR64(GPR_LR),
                     BRANCH_MASK_NOT_ZERO(GPR_CR, Plus(start.pc, i.d))}
      <3>1. i.op \in {"b", "beq", "bdnz"} => i.lk \in BOOLEAN
        BY <1>1 DEF Instructions
      <3> QED
        BY <1>1, <1>2, <3>1, ShapeOfBranches
    <2>2. \A y \in {BRANCH_ALWAYS(Plus(start.pc, i.d)), BRANCH_GPR64(GPR_LR),
                    BRANCH_MASK_NOT_ZERO(GPR_CR, Plus(start.pc, i.d))} : Plain(y)
      BY DEF BRANCH_ALWAYS, BRANCH_GPR64, BRANCH_MASK_NOT_ZERO, Plain, BranchOps
    <2> QED
      BY <1>3, <2>1, <2>2
  <1>6. CASE i.op = "rfid"
    <2>1. x = PPC_RFID
      BY <1>1, <1>2, <1>6, ShapeOfBranches
    <2> QED
      BY <1>6, <2>1 DEF PPC_RFID, i, x
  <1>7. CASE i.op = "unknown"
    <2>1. x = UNKNOWN
      BY <1>1, <1>2, <1>7, ShapeOfOthers
    <2> QED
      BY <1>7, <2>1 DEF UNKNOWN, i, x, Arch!Malformed
  <1>8. CASE i.op = "stwu"
    <2>1. x = INVALID /\ i.ra = 0
      BY <1>1, <1>2, <1>8, ShapeOfOthers
    <2> QED
      BY <1>8, <2>1 DEF INVALID, i, x, Arch!Malformed
  <1> QED
    BY <1>1, <1>4, <1>5, <1>6, <1>7, <1>8 DEF Instructions, i, x

(* An instruction in flight is one the architecture can execute.            *)
LEMMA Executable ==
    ASSUME IInv, InProgress
    PROVE  /\ running /\ Arch!InCode(archPc) /\ Arch!CodeAt(archPc) = InFlightOp
           /\ Arch!Present(Arch!CodePage(archPc))
           /\ archPc = start.pc /\ archMsr = start.msr
           /\ archReg = RegOf(start) /\ archMem = start.mem
           /\ archReservation = ReservationOf(start)
  <1>1. InFlight /\ running
    BY Sources
  <1>2. /\ archPc = start.pc /\ archMsr = start.msr /\ archReg = RegOf(start)
        /\ archMem = start.mem /\ archReservation = ReservationOf(start)
    BY Seen
  <1> QED
    BY <1>1, <1>2, Vocabulary DEF InFlight, InFlightOp, Arch!Present

(* Nothing but pc and MSR changes when an instruction that stands alone     *)
(* leaves the registers, the memory and the reservation.                    *)
LEMMA AloneSeen ==
    ASSUME IInv, InProgress, ~Plain(Current), ~InProgress',
           UNCHANGED <<gpr, mem, isReserved, reservation>>
    PROVE  /\ UNCHANGED <<archReg, archMem, archReservation>>
           /\ archPc' = pc' /\ archMsr' = msr' /\ pc = start.pc + 1 /\ msr = start.msr
  <1>1. Context = Begun
    BY Alone
  <1>2. /\ gpr = start.gpr /\ mem = start.mem /\ isReserved = start.isReserved
        /\ reservation = start.reservation /\ pc = start.pc + 1 /\ msr = start.msr
    BY <1>1, ContextFacts DEF Begun, Built
  <1>3. archReg = RegOf(start) /\ archMem = start.mem /\ archReservation = ReservationOf(start)
    BY Seen
  <1>4. archReg' = [r \in ArchRegs |-> gpr'[r]] /\ archMem' = mem'
        /\ archPc' = pc' /\ archMsr' = msr'
        /\ archReservation' = IF isReserved' THEN reservation' ELSE NoReservation
    BY DEF archReg, archMem, archPc, archMsr, archReservation, Context
  <1> QED
    BY <1>2, <1>3, <1>4 DEF RegOf, ReservationOf

LEMMA RfidStep ==
    ASSUME IInv, InterpretRfid PROVE Arch!Execute
  <1> DEFINE i == InFlightOp
  <1>1. InProgress /\ Current.op = "PPC_RFID"
    BY DEF IInv, InterpretRfid, Interpreting
  <1>2. ~Plain(Current)
    BY <1>1 DEF Plain, ArithmeticOps, BranchOps, MemoryOps, Loads, Stores
  <1>3. Len(intermediates) = 1
    BY <1>1, <1>2, Alone, Sequences
  <1>4. ~InProgress' /\ UNCHANGED <<code, mapped, dar, srr0, srr1, running>>
        /\ UNCHANGED <<gpr, mem, isReserved, reservation>>
        /\ msr' = srr1 /\ pc' = TruncatePC(srr0, srr1)
    BY <1>3 DEF InterpretRfid, Proceed, InProgress, SetMsr, SetPC
  <1>5. /\ UNCHANGED <<archReg, archMem, archReservation>>
        /\ archMsr' = srr1 /\ archPc' = TruncatePC(srr0, srr1)
    BY <1>1, <1>2, <1>4, AloneSeen
  <1>6. i.op = "rfid"
    BY <1>1, <1>2, OddOnes
  <1>7. Arch!Missing(i) = {}
    BY <1>6 DEF Arch!Missing, Arch!Accesses, Arch!Malformed
  <1>8. Arch!ReturnFromInterrupt(i)
    BY <1>4, <1>5, <1>6, Vocabulary DEF Arch!ReturnFromInterrupt
  <1> HIDE DEF i
  <1> QED
    BY <1>1, <1>4, <1>7, <1>8, Executable DEF i, Arch!Execute

LEMMA GiveUpStep ==
    ASSUME IInv, InterpretFails PROVE Arch!Execute
  <1> DEFINE i == InFlightOp
  <1>1. InProgress /\ Current.op \in {"UNKNOWN_OPCODE", "INVALID_OPCODE"}
    BY DEF IInv, InterpretFails, Interpreting
  <1>2. ~Plain(Current)
    BY <1>1 DEF Plain, ArithmeticOps, BranchOps, MemoryOps, Loads, Stores
  <1>3. ~InProgress' /\ UNCHANGED <<code, mapped, dar, srr0, srr1>> /\ ~running'
        /\ UNCHANGED <<gpr, mem, isReserved, reservation, msr>> /\ pc' = pc - 1
    BY DEF InterpretFails, InProgress
  <1>4. start.pc \in 0 .. HandlerRfid
    BY <1>1, Sources
  <1>5. UNCHANGED <<archReg, archMem, archReservation, archPc, archMsr>>
    BY <1>1, <1>2, <1>3, <1>4, AloneSeen, Executable DEF HandlerRfid
  <1>6. Arch!Malformed(i)
    BY <1>1, <1>2, OddOnes
  <1>7. Arch!Missing(i) = {}
    BY <1>6 DEF Arch!Missing, Arch!Accesses, Arch!Malformed
  <1>8. Arch!GiveUp(i)
    BY <1>3, <1>5, <1>6 DEF Arch!GiveUp
  <1> HIDE DEF i
  <1> QED
    BY <1>1, <1>3, <1>7, <1>8, Executable DEF i, Arch!Execute

(* Between instructions the guest sees the context.                         *)
LEMMA SeenBetween ==
    /\ ~InProgress => /\ archReg = [r \in ArchRegs |-> gpr[r]] /\ archMem = mem
                      /\ archReservation = (IF isReserved THEN reservation ELSE NoReservation)
                      /\ archPc = pc /\ archMsr = msr
    /\ ~InProgress' => /\ archReg' = [r \in ArchRegs |-> gpr'[r]] /\ archMem' = mem'
                       /\ archReservation' = (IF isReserved' THEN reservation' ELSE NoReservation)
                       /\ archPc' = pc' /\ archMsr' = msr'
  <1>1. ~InProgress => /\ archReg = [r \in ArchRegs |-> gpr[r]] /\ archMem = mem
                       /\ archReservation = (IF isReserved THEN reservation ELSE NoReservation)
                       /\ archPc = pc /\ archMsr = msr
    BY ContextFacts DEF archReg, archMem, archReservation, archPc, archMsr
  <1>2. ~InProgress' =>
          /\ archReg' = [r \in ArchRegs |-> gpr'[r]] /\ archMem' = mem'
          /\ archReservation' = (IF isReserved' THEN reservation' ELSE NoReservation)
          /\ archPc' = pc' /\ archMsr' = msr'
    BY DEF archReg, archMem, archReservation, archPc, archMsr, Context
  <1> QED
    BY <1>1, <1>2

LEMMA IsiStep ==
    ASSUME IInv, FetchFault PROVE Arch!Isi
  <1>1. ~InProgress /\ running /\ InCode(pc) /\ readingInstructions
    BY DEF IInv, FetchFault, CanFetch
  <1>2. ~InProgress' /\ UNCHANGED <<code, mapped, gpr, mem, isReserved, reservation, running>>
        /\ ~Present(CodePage(pc))
    BY DEF FetchFault, PageFault, InProgress
  <1>3. /\ srr1' = msr /\ srr0' = pc /\ msr' = RealMode(msr) /\ pc' = IsiVector /\ dar' = dar
    BY <1>1, Vectors DEF FetchFault, PageFault, SetMsr, SetPC
  <1>4. /\ archPc = pc /\ archMsr = msr
        /\ UNCHANGED <<archReg, archMem, archReservation>>
        /\ archPc' = IsiVector /\ archMsr' = RealMode(msr)
    BY <1>1, <1>2, <1>3, SeenBetween
  <1>5. Arch!Interrupt(Arch!IsiVector)
    BY <1>2, <1>3, <1>4, Vocabulary DEF Arch!Interrupt
  <1>6. Arch!InCode(archPc) /\ ~Arch!Present(Arch!CodePage(archPc))
    BY <1>1, <1>2, <1>4, Vocabulary DEF Arch!Present, Present
  <1> QED
    BY <1>1, <1>3, <1>4, <1>5, <1>6 DEF Arch!Isi

LEMMA HandleStep ==
    ASSUME IInv, HandlerMaps PROVE Arch!Handle
  <1>1. ~InProgress /\ ~InProgress'
    BY DEF IInv, HandlerMaps, InProgress
  <1>2. /\ running /\ pc \in {DsiVector, IsiVector} /\ pc' = HandlerRfid
        /\ mapped' = mapped \union {IF pc = DsiVector THEN DataPage(dar) ELSE CodePage(srr0)}
        /\ UNCHANGED <<code, gpr, mem, isReserved, reservation, msr, srr0, srr1, dar, running>>
    BY DEF HandlerMaps
  <1>3. /\ archPc = pc /\ archPc' = pc'
        /\ UNCHANGED <<archReg, archMem, archReservation, archMsr>>
    BY <1>1, <1>2, SeenBetween
  <1> QED
    BY <1>2, <1>3, Vocabulary DEF Arch!Handle

(* Nothing is seen of a fetch, nor of an intermediate that is not the last. *)
LEMMA FetchUnseen ==
    ASSUME IInv, Fetch PROVE UNCHANGED Arch!archVars
  <1>1. ~InProgress /\ InProgress' /\ start' = Context
    BY FetchInv DEF IInv, Fetch, CanFetch
  <1>2. /\ archReg' = RegOf(Context) /\ archMem' = Context.mem
        /\ archReservation' = ReservationOf(Context)
        /\ archPc' = Context.pc /\ archMsr' = Context.msr
    BY <1>1, SeenNext
  <1>3. UNCHANGED <<archReg, archMem, archReservation, archPc, archMsr>>
    BY <1>1, <1>2, Seen
  <1>4. UNCHANGED <<code, mapped, srr0, srr1, dar, running>>
    BY DEF Fetch
  <1> QED
    BY <1>3, <1>4 DEF Arch!archVars

LEMMA SucceedsUnseen ==
    ASSUME IInv, Succeeds, Len(intermediates) # 1 PROVE UNCHANGED Arch!archVars
  <1>1. running /\ intermediates # <<>> /\ InProgress
    BY DEF IInv, Succeeds, InterpretArithmetic, InterpretBranch, InterpretLoad, InterpretStore,
           InterpretStwcx, Interpreting
  <1>2. Current \in IntermediateType /\ Context \in ContextType
    BY <1>1, CurrentFacts DEF IInv
  <1>3. Proceed
    BY <1>2, Effects
  <1>4. UNCHANGED <<code, mapped, srr0, srr1, dar, running, start>>
    BY <1>3 DEF Proceed
  <1>5. InProgress'
    BY <1>1, <1>4 DEF InProgress
  <1>6. UNCHANGED <<archReg, archMem, archReservation, archPc, archMsr>>
    <2>1. /\ archReg' = RegOf(start) /\ archMem' = start.mem
          /\ archReservation' = ReservationOf(start)
          /\ archPc' = start.pc /\ archMsr' = start.msr
      BY <1>4, <1>5, SeenNext
    <2> QED
      BY <1>1, <2>1, Seen
  <1> QED
    BY <1>4, <1>6 DEF Arch!archVars

(* The last intermediate is the whole instruction.                          *)
LEMMA SucceedsStep ==
    ASSUME IInv, Succeeds, Len(intermediates) = 1 PROVE Arch!Execute
  <1> DEFINE i == InFlightOp
             d == Context'
  <1>1. /\ InProgress /\ running' /\ Ends(d) /\ Becomes(d)
        /\ UNCHANGED <<code, mapped, srr0, srr1, dar>>
    BY Ending
  <1> HIDE DEF d
  <1>2. CASE i.op \in MemoryInstructions
    <2>1. PICK c, x :
            /\ Accesses(i, c, x)
            /\ d = CASE i.op \in {"lwz", "lwarx"} -> After(After(c, x), LD_32_HIGH(i.rt, 0))
                     [] i.op = "stwu" -> After(After(c, x), ADD_IMM(i.ra, i.ra, i.d))
                     [] OTHER -> After(c, x)
      BY <1>1, <1>2, EndOfMemory
    <2>2. Arch!Missing(i) = {}
      BY <1>1, <2>1, NothingMissing
    <2>3. (Arch!Load(i) \/ Arch!Store(i) \/ Arch!StoreConditional(i)) /\ d.msr = start.msr
      <3>1. CASE i.op \in {"lwz", "lwarx", "ld"}
        <4>1. d = IF i.op = "ld" THEN After(c, x)
                                 ELSE After(After(c, x), LD_32_HIGH(i.rt, 0))
          BY <2>1, <3>1
        <4> QED
          BY <1>1, <2>1, <3>1, <4>1, LoadsDone
      <3>2. CASE i.op \in {"stw", "stwu", "std"}
        <4>1. d = IF i.op = "stwu" THEN After(After(c, x), ADD_IMM(i.ra, i.ra, i.d))
                                   ELSE After(c, x)
          BY <2>1, <3>2
        <4> QED
          BY <1>1, <2>1, <3>2, <4>1, StoresDone
      <3>3. CASE i.op = "stwcx"
        <4>1. d = After(c, x)
          BY <2>1, <3>3
        <4> QED
          BY <1>1, <2>1, <3>3, <4>1, ConditionalDone
      <3> QED
        BY <1>2, <3>1, <3>2, <3>3 DEF MemoryInstructions
    <2> QED
      BY <1>1, <2>2, <2>3, Executes
  <1>3. CASE i.op \notin MemoryInstructions
    <2>1. i.op \in {"b", "beq", "bdnz", "bctrl", "blr", "addi"}
      BY <1>1, <1>3, EndOfOthers
    <2>2. CASE i.op = "addi"
      BY <1>1, <2>2, AddiDone, Executes
    <2>3. CASE i.op \in {"b", "beq", "bdnz", "bctrl", "blr"}
      BY <1>1, <2>3, BranchesDone, Executes
    <2> QED
      BY <2>1, <2>2, <2>3
  <1> QED
    BY <1>2, <1>3

LEMMA InitStep == Init => Arch!ArchInit
  <1> SUFFICES ASSUME Init PROVE Arch!ArchInit
    OBVIOUS
  <1>1. TypeOK /\ ~InProgress
    BY InitInv DEF IInv, Init, InProgress
  <1>2. /\ archReg = [r \in ArchRegs |-> gpr[r]] /\ archMem = mem
        /\ archReservation = (IF isReserved THEN reservation ELSE NoReservation)
        /\ archPc = pc /\ archMsr = msr
    BY <1>1, SeenBetween
  <1>3. archReg \in [ArchRegs -> Values] /\ archMem \in [Words -> Words]
    BY <1>1, <1>2, RegFacts DEF TypeOK
  <1>4. archReservation \in {NoReservation} \union Values /\ dar \in Values
    BY <1>1, <1>2 DEF TypeOK
  <1>5. /\ mapped = {} /\ pc = HandlerRfid /\ srr0 = 0 /\ running = TRUE
        /\ msr.relocated = FALSE
    BY DEF Init
  <1>6. srr1 = [sf |-> msr.sf, relocated |-> TRUE]
    BY DEF Init
  <1> QED
    BY <1>2, <1>3, <1>4, <1>5, <1>6, Vocabulary DEF Arch!ArchInit

(* However the intermediates of an instruction are cut off by page faults,  *)
(* the guest observes an execution of PpcArch: every interrupt is precise   *)
(* and every instruction that was interrupted restarts as if never begun.   *)
THEOREM AtomicInstructions == Spec => InstructionsAreAtomic
  <1>1. Init => Arch!ArchInit
    BY InitStep
  <1>2. IInv /\ [Next]_vars => [Arch!ArchNext]_Arch!archVars
    <2> SUFFICES ASSUME IInv, [Next]_vars PROVE [Arch!ArchNext]_Arch!archVars
      OBVIOUS
    <2>1. CASE Fetch
      BY <2>1, FetchUnseen
    <2>2. CASE FetchFault
      BY <2>2, IsiStep DEF Arch!ArchNext
    <2>3. CASE Succeeds
      BY <2>3, SucceedsUnseen, SucceedsStep DEF Arch!ArchNext
    <2>4. CASE DataFault
      BY <2>4, DsiStep DEF Arch!ArchNext
    <2>5. CASE InterpretRfid
      BY <2>5, RfidStep DEF Arch!ArchNext
    <2>6. CASE InterpretFails
      BY <2>6, GiveUpStep DEF Arch!ArchNext
    <2>7. CASE HandlerMaps
      BY <2>7, HandleStep DEF Arch!ArchNext
    <2>8. CASE UNCHANGED vars
      BY <2>8 DEF vars, Arch!archVars, archReg, archMem, archReservation, archPc, archMsr, Context,
                  InProgress
    <2> QED
      BY <2>1, <2>2, <2>3, <2>4, <2>5, <2>6, <2>7, <2>8 DEF Next, Succeeds
  <1> QED
    BY <1>1, <1>2, InductiveInvariant, PTL DEF Spec, InstructionsAreAtomic, Arch!ArchSpec
=============================================================================
