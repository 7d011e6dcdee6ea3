--------------------------- MODULE GekkoCpu_proofs ---------------------------
(***************************************************************************)
(* Proofs about GekkoCpu for every word size, memory, set of windows and   *)
(* set of programs: it implements GekkoArch.                               *)
(***************************************************************************)
EXTENDS GekkoCpu, TLAPS

(* The instruction fetched at an address that can be read.                  *)
Fetched(addr) == code[WordOf(addr)]

(* An instruction half-way: its operations, or those after the first.       *)
All == BuildOps(Fetched(at), at)
NoneDone == ops = All /\ gpr = before
LinkDone ==
    /\ Len(All) = 2 /\ ops = <<All[2]>>
    /\ gpr = GprAfter(All[1], before)
InFlight ==
    phase = "execute" => Readable(at) /\ pc = NextPc(at) /\ All # <<>> /\ (NoneDone \/ LinkDone)

GekkoInv == TypeOK /\ InFlight /\ ReportNamesCulprit /\ (phase = "returned" => pc = NextPc(report))

(* Words are a nonempty interval, and a multiple of Half is a word.         *)
LEMMA WordFacts ==
    /\ W \in Nat /\ W > 1
    /\ \A v \in Halves : v \in Words /\ v * Half \in Words
    /\ \A n \in Int : n % W \in Words
  <1>1. W \in Nat /\ W > 1 /\ W >= Half
    BY HalfAssumption DEF W
  <1>2. ASSUME NEW v \in Halves PROVE v \in Words /\ v * Half \in Words
    <2>1. v \in Nat /\ v <= Half - 1
      BY HalfAssumption DEF Halves
    <2>2. v * Half \in Nat /\ v * Half <= (Half - 1) * Half
      BY <2>1, HalfAssumption
    <2>3. (Half - 1) * Half <= W - 1
      BY HalfAssumption DEF W
    <2> QED
      BY <1>1, <2>1, <2>2, <2>3, HalfAssumption DEF Words
  <1>3. ASSUME NEW n \in Int PROVE n % W \in Words
    BY <1>1 DEF Words
  <1> QED
    BY <1>1, <1>2, <1>3

(* A readable address has its word in MEM1.                                 *)
LEMMA FetchedType ==
    ASSUME TypeOK, NEW addr, Readable(addr)
    PROVE  Fetched(addr) \in Instructions /\ Fetched(addr) \in InstructionType
  <1>1. WordOf(addr) \in 0 .. MemWords - 1
    BY DEF Readable, WordOf, InWindow
  <1> QED
    BY <1>1, InstructionsAssumption DEF Fetched, TypeOK

(* What the translator makes of an instruction.                             *)
Loads(i) == i.op = "addis" /\ i.ra = 0
Moves(i) == i.op = "mfspr" /\ i.spr = "lr"

LEMMA Shape ==
    ASSUME NEW i \in InstructionType, NEW a
    PROVE  /\ i.op = "b" /\ ~i.lk => BuildOps(i, a) = <<BranchOp(BranchTarget(i, a))>>
           /\ i.op = "b" /\ i.lk =>
                BuildOps(i, a) = <<LoadImm(GPR_LR, NextPc(a)), BranchOp(BranchTarget(i, a))>>
           /\ Loads(i) => BuildOps(i, a) = <<LoadImm(i.rt, i.imm * Half)>>
           /\ Moves(i) => BuildOps(i, a) = <<LoadGpr(i.rt, GPR_LR)>>
           /\ i.op = "ori" => BuildOps(i, a) = <<OrImm(i.ra, i.rt, i.imm)>>
           /\ i.op = "oris" => BuildOps(i, a) = <<OrImm(i.ra, i.rt, i.imm * Half)>>
           /\ ~Arch!Implemented(i) => BuildOps(i, a) = <<>>
  <1> USE DEF BuildOps, DecodeInstruction, DecodeSpecial, InstructionType, Loads, Moves
  <1>1. i.op = "b" => BuildOps(i, a) = OnBranch(i, a)
    OBVIOUS
  <1>2. i.op = "b" /\ ~i.lk => BuildOps(i, a) = <<BranchOp(BranchTarget(i, a))>>
    BY <1>1 DEF OnBranch, Link
  <1>3. i.op = "b" /\ i.lk =>
          BuildOps(i, a) = <<LoadImm(GPR_LR, NextPc(a)), BranchOp(BranchTarget(i, a))>>
    BY <1>1 DEF OnBranch, Link
  <1>4. Loads(i) => BuildOps(i, a) = <<LoadImm(i.rt, i.imm * Half)>>
    BY DEF OnLis
  <1>5. Moves(i) => BuildOps(i, a) = <<LoadGpr(i.rt, GPR_LR)>>
    BY DEF OnMflr
  <1>6. i.op = "ori" => BuildOps(i, a) = <<OrImm(i.ra, i.rt, i.imm)>>
    BY DEF OnOri
  <1>7. i.op = "oris" => BuildOps(i, a) = <<OrImm(i.ra, i.rt, i.imm * Half)>>
    BY DEF OnOris
  <1>8. ~Arch!Implemented(i) => BuildOps(i, a) = <<>>
    BY DEF Arch!Implemented
  <1> QED
    BY <1>2, <1>3, <1>4, <1>5, <1>6, <1>7, <1>8

LEMMA Implementable ==
    ASSUME NEW i \in InstructionType, Arch!Implemented(i)
    PROVE  \/ i.op = "b" /\ ~i.lk
           \/ i.op = "b" /\ i.lk
           \/ Loads(i)
           \/ Moves(i)
           \/ i.op = "ori"
           \/ i.op = "oris"
  BY DEF Arch!Implemented, InstructionType, Loads, Moves

(* What the interpreter makes of an operation.                              *)
Does(op, regs, after) == Known(op) /\ op.type # "BRANCH" /\ GprAfter(op, regs) = after

LEMMA LoadImmDoes ==
    ASSUME NEW r, NEW v, NEW regs
    PROVE  Does(LoadImm(r, v), regs, [regs EXCEPT ![r] = v])
  BY DEF Does, LoadImm, Known, GprAfter, Source

LEMMA LoadGprDoes ==
    ASSUME NEW r, NEW f, NEW regs
    PROVE  Does(LoadGpr(r, f), regs, [regs EXCEPT ![r] = regs[f]])
  BY DEF Does, LoadGpr, Known, GprAfter, Source

LEMMA OrImmDoes ==
    ASSUME NEW r, NEW f, NEW v, NEW regs
    PROVE  Does(OrImm(r, f, v), regs, [regs EXCEPT ![r] = Or(regs[f], v)])
  BY DEF Does, OrImm, Known, GprAfter, Source

LEMMA BranchDoes ==
    ASSUME NEW t, NEW regs, NEW from
    PROVE  /\ Known(BranchOp(t)) /\ BranchOp(t).type = "BRANCH"
           /\ GprAfter(BranchOp(t), regs) = regs
           /\ PcAfter(BranchOp(t), from) = t % W
  BY DEF BranchOp, Known, GprAfter, PcAfter, SetPc

LEMMA Sequences ==
    ASSUME NEW x, NEW y
    PROVE  /\ <<x>> # <<>> /\ Head(<<x>>) = x /\ Tail(<<x>>) = <<>> /\ Len(<<x>>) = 1
           /\ <<x, y>> # <<>> /\ Head(<<x, y>>) = x /\ Tail(<<x, y>>) = <<y>> /\ Len(<<x, y>>) = 2
           /\ <<x, y>>[1] = x /\ <<x, y>>[2] = y
  OBVIOUS

(* What an instruction that is no branch does to the registers.             *)
Effect(regs, i) ==
    CASE Loads(i) -> [regs EXCEPT ![i.rt] = i.imm * Half]
      [] Moves(i) -> [regs EXCEPT ![i.rt] = regs[GPR_LR]]
      [] i.op = "ori" -> [regs EXCEPT ![i.ra] = Or(regs[i.rt], i.imm)]
      [] i.op = "oris" -> [regs EXCEPT ![i.ra] = Or(regs[i.rt], i.imm * Half)]

LEMMA EffectFacts ==
    ASSUME NEW i \in InstructionType, NEW regs
    PROVE  /\ Loads(i) => Effect(regs, i) = [regs EXCEPT ![i.rt] = i.imm * Half]
           /\ Moves(i) => Effect(regs, i) = [regs EXCEPT ![i.rt] = regs[GPR_LR]]
           /\ i.op = "ori" => Effect(regs, i) = [regs EXCEPT ![i.ra] = Or(regs[i.rt], i.imm)]
           /\ i.op = "oris" => Effect(regs, i) = [regs EXCEPT ![i.ra] = Or(regs[i.rt], i.imm * Half)]
  <1>1. \/ Loads(i) /\ ~Moves(i) /\ i.op \notin {"ori", "oris"}
        \/ ~Loads(i)
    BY DEF Loads, Moves
  <1>2. \/ Moves(i) /\ i.op \notin {"ori", "oris"}
        \/ ~Moves(i)
    BY DEF Moves
  <1>3. i.op = "ori" => i.op # "oris"
    OBVIOUS
  <1> QED
    BY <1>1, <1>2, <1>3 DEF Effect

(* An instruction that is no branch is one operation with its effect.       *)
LEMMA Single ==
    ASSUME NEW i \in InstructionType, NEW a, NEW regs \in [Regs -> Words],
           Arch!Implemented(i), i.op # "b"
    PROVE  /\ \E op : BuildOps(i, a) = <<op>> /\ Does(op, regs, Effect(regs, i))
           /\ Effect(regs, i) \in [Regs -> Words]
  <1>1. i.rt \in Regs /\ i.ra \in Regs /\ GPR_LR \in Regs /\ i.imm \in Words /\ i.imm * Half \in Words
    BY WordFacts DEF InstructionType, Regs
  <1>2. \A v \in Words, r \in Regs : [regs EXCEPT ![r] = v] \in [Regs -> Words]
    OBVIOUS
  <1>3. \A r \in Regs, v \in Words : Or(regs[r], v) \in Words
    BY OrAssumption
  <1>4. CASE Loads(i)
    BY <1>1, <1>2, <1>4, Shape, EffectFacts, LoadImmDoes
  <1>5. CASE Moves(i)
    BY <1>1, <1>2, <1>5, Shape, EffectFacts, LoadGprDoes
  <1>6. CASE i.op = "ori"
    BY <1>1, <1>2, <1>3, <1>6, Shape, EffectFacts, OrImmDoes
  <1>7. CASE i.op = "oris"
    <2> DEFINE v == i.imm * Half
    <2>1. BuildOps(i, a) = <<OrImm(i.ra, i.rt, v)>>
      BY <1>7, Shape
    <2>2. Effect(regs, i) = [regs EXCEPT ![i.ra] = Or(regs[i.rt], v)]
      BY <1>7, EffectFacts
    <2>3. v \in Words
      BY <1>1
    <2> HIDE DEF v
    <2> DEFINE r == i.ra
               f == i.rt
    <2>6. Does(OrImm(r, f, v), regs, [regs EXCEPT ![r] = Or(regs[f], v)])
      <3> HIDE DEF r, f
      <3> QED
        BY OrImmDoes
    <2>4. Does(OrImm(i.ra, i.rt, v), regs, Effect(regs, i))
      BY <2>2, <2>6
    <2>5. Effect(regs, i) \in [Regs -> Words]
      BY <1>1, <1>2, <1>3, <2>2, <2>3
    <2> QED
      BY <2>1, <2>4, <2>5
  <1> QED
    BY <1>4, <1>5, <1>6, <1>7, Implementable
-----------------------------------------------------------------------------
(* A remainder is known by its range and a multiple.                        *)
LEMMA ModUnique ==
    ASSUME NEW n \in Int, NEW m \in Nat \ {0}, NEW q \in Int, NEW r \in 0 .. m - 1,
           n = r - q * m
    PROVE  n % m = r
  OBVIOUS

LEMMA DivMod ==
    ASSUME NEW n \in Int, NEW m \in Nat \ {0}
    PROVE  (n \div m) \in Int /\ n = (n \div m) * m + (n % m)
  OBVIOUS

(* The next instruction, and the target of a branch, are words.             *)
LEMMA PcFacts ==
    /\ \A a \in Words : a \in Int /\ NextPc(a) \in Words /\ (NextPc(a) - 4) % W = a
    /\ \A i \in InstructionType, a \in Words : BranchTarget(i, a) \in Int
  <1>1. ASSUME NEW a \in Words
        PROVE  a \in Int /\ NextPc(a) \in Words /\ (NextPc(a) - 4) % W = a
    <2>1. a \in Nat /\ a < W /\ W \in Nat \ {0}
      BY <1>1, WordFacts DEF Words
    <2>2. NextPc(a) \in Words
      BY <2>1, WordFacts DEF NextPc
    <2>3. PICK q \in Int : a + 4 = q * W + NextPc(a)
      BY <2>1, DivMod, a + 4 \in Int DEF NextPc
    <2>4. (NextPc(a) - 4) % W = a
      <3>1. NextPc(a) \in Int /\ NextPc(a) - 4 \in Int /\ a \in 0 .. W - 1
        BY <2>1, <2>2 DEF Words
      <3>2. NextPc(a) - 4 = a - q * W
        BY <2>1, <2>3, <3>1, q * W \in Int
      <3> QED
        BY <2>1, <3>1, <3>2, ModUnique
    <2> QED
      BY <2>1, <2>2, <2>4
  <1>2. ASSUME NEW i \in InstructionType, NEW a \in Words PROVE BranchTarget(i, a) \in Int
    BY <1>1 DEF BranchTarget, InstructionType
  <1> QED
    BY <1>1, <1>2

(* The first state.                                                         *)
LEMMA GekkoInvInit == ASSUME Init PROVE GekkoInv
  <1>1. 0 \in Words
    BY WordFacts DEF Words
  <1>2. TypeOK
    BY <1>1, ProgramsAssumption, EntriesAssumption DEF Init, TypeOK
  <1> QED
    BY <1>2 DEF Init, GekkoInv, InFlight, ReportNamesCulprit, NoReport

(* The first operation of an instruction in flight is known, and what is    *)
(* left when it has been executed.                                          *)
LEMMA OneMore ==
    ASSUME GekkoInv, phase = "execute"
    PROVE  LET i == Fetched(at) IN
           \/ /\ i.op # "b" /\ Arch!Implemented(i) /\ gpr = before
              /\ \E op : ops = <<op>> /\ Does(op, gpr, Effect(before, i))
              /\ Effect(before, i) \in [Regs -> Words]
           \/ /\ i.op = "b" /\ ~i.lk /\ gpr = before
              /\ ops = <<BranchOp(BranchTarget(i, at))>>
           \/ /\ i.op = "b" /\ i.lk /\ gpr = before
              /\ ops = <<LoadImm(GPR_LR, NextPc(at)), BranchOp(BranchTarget(i, at))>>
              /\ ops = All
           \/ /\ i.op = "b" /\ i.lk /\ gpr = [before EXCEPT ![GPR_LR] = NextPc(at)]
              /\ ops = <<BranchOp(BranchTarget(i, at))>>
  <1> DEFINE i == Fetched(at)
  <1>1. Readable(at) /\ All # <<>> /\ (NoneDone \/ LinkDone)
    BY DEF GekkoInv, InFlight
  <1>2. i \in InstructionType
    BY <1>1, FetchedType DEF GekkoInv
  <1>3. Arch!Implemented(i)
    BY <1>1, <1>2, Shape DEF All
  <1>4. before \in [Regs -> Words]
    BY DEF GekkoInv, TypeOK
  <1> HIDE DEF i
  <1>5. CASE i.op # "b"
    <2>1. PICK op : BuildOps(i, at) = <<op>> /\ Does(op, before, Effect(before, i))
      BY <1>2, <1>3, <1>4, <1>5, Single
    <2>2. Effect(before, i) \in [Regs -> Words]
      BY <1>2, <1>3, <1>4, <1>5, Single
    <2>3. All = <<op>> /\ Len(All) = 1
      BY <2>1, Sequences DEF All, i
    <2>4. NoneDone
      BY <1>1, <2>3 DEF LinkDone
    <2> QED
      BY <1>3, <1>5, <2>1, <2>2, <2>3, <2>4 DEF NoneDone, i
  <1>6. CASE i.op = "b" /\ ~i.lk
    <2>1. All = <<BranchOp(BranchTarget(i, at))>>
      BY <1>2, <1>6, Shape DEF All, i
    <2>2. NoneDone
      BY <1>1, <2>1, Sequences DEF LinkDone
    <2> QED
      BY <1>6, <2>1, <2>2 DEF NoneDone, i
  <1>7. CASE i.op = "b" /\ i.lk
    <2> DEFINE load == LoadImm(GPR_LR, NextPc(at))
               jump == BranchOp(BranchTarget(i, at))
    <2>1. All = <<load, jump>>
      BY <1>2, <1>7, Shape DEF All, i
    <2>2. Does(load, before, [before EXCEPT ![GPR_LR] = NextPc(at)])
      BY LoadImmDoes
    <2> HIDE DEF load, jump
    <2>3. All[1] = load /\ All[2] = jump
      BY <2>1
    <2>4. LinkDone => ops = <<jump>> /\ gpr = [before EXCEPT ![GPR_LR] = NextPc(at)]
      BY <2>2, <2>3 DEF LinkDone, Does
    <2>5. NoneDone => ops = <<load, jump>> /\ ops = All /\ gpr = before
      BY <2>1 DEF NoneDone
    <2> QED
      BY <1>1, <1>7, <2>4, <2>5 DEF load, jump, i
  <1> QED
    BY <1>5, <1>6, <1>7 DEF InstructionType

(* A fetch starts an instruction with all its operations.                   *)
LEMMA FetchStep == ASSUME GekkoInv, Fetch PROVE GekkoInv'
  <1>1. TypeOK'
    BY PcFacts DEF GekkoInv, TypeOK, Fetch
  <1>2. InFlight'
    <2>1. at' = pc /\ pc' = NextPc(pc) /\ code' = code /\ before' = gpr /\ gpr' = gpr
      BY DEF Fetch
    <2>2. All' = BuildOps(code[WordOf(pc)], pc)
      BY <2>1 DEF All, Fetched
    <2>3. Readable(pc) /\ ops' = BuildOps(code[WordOf(pc)], pc) /\ ops' # <<>>
      BY DEF Fetch
    <2> QED
      BY <2>1, <2>2, <2>3 DEF InFlight, NoneDone, LinkDone
  <1>3. ReportNamesCulprit' /\ phase' # "returned"
    BY DEF GekkoInv, Fetch, ReportNamesCulprit
  <1> QED
    BY <1>1, <1>2, <1>3 DEF GekkoInv

LEMMA FetchFailsStep == ASSUME GekkoInv, FetchFails PROVE GekkoInv'
  <1>1. TypeOK'
    BY PcFacts DEF GekkoInv, TypeOK, FetchFails, ReportAt
  <1>2. InFlight' /\ (phase' = "returned" => pc' = NextPc(report'))
    BY DEF FetchFails, InFlight, ReportAt
  <1>3. ReportNamesCulprit'
    BY DEF FetchFails, ReportNamesCulprit, ReportAt
  <1> QED
    BY <1>1, <1>2, <1>3 DEF GekkoInv

LEMMA FetchFaultStep == ASSUME GekkoInv, FetchFault PROVE GekkoInv'
  <1>1. TypeOK'
    BY DEF GekkoInv, TypeOK, FetchFault
  <1>2. InFlight' /\ phase' # "returned"
    BY DEF FetchFault, InFlight
  <1>3. ReportNamesCulprit'
    BY DEF GekkoInv, FetchFault, ReportNamesCulprit
  <1> QED
    BY <1>1, <1>2, <1>3 DEF GekkoInv

(* One operation: the last of its instruction, which then is done with      *)
(* Effect and the next pc, or LR's of a branch.                             *)
OpDone(i) ==
    \/ /\ i.op # "b" /\ Arch!Implemented(i) /\ phase' = "fetch" /\ ops' = <<>>
       /\ gpr' = Effect(before, i) /\ gpr' \in [Regs -> Words] /\ pc' = NextPc(at)
    \/ /\ i.op = "b" /\ phase' = "fetch" /\ ops' = <<>>
       /\ gpr' = IF i.lk THEN [before EXCEPT ![GPR_LR] = NextPc(at)] ELSE before
       /\ pc' = BranchTarget(i, at) % W
    \/ /\ i.op = "b" /\ i.lk /\ phase' = "execute" /\ LinkDone' /\ ops' # <<>>
       /\ gpr' = [before EXCEPT ![GPR_LR] = NextPc(at)] /\ pc' = pc

LEMMA ExecuteOpDoes ==
    ASSUME GekkoInv, ExecuteOp
    PROVE  /\ UNCHANGED <<code, at, before, report>>
           /\ Readable(at) /\ Fetched(at) \in InstructionType
           /\ OpDone(Fetched(at))
  <1> DEFINE i == Fetched(at)
             op == Head(ops)
  <1>1. phase = "execute" /\ UNCHANGED <<code, at, before>>
    BY DEF ExecuteOp
  <1>2. Readable(at) /\ pc = NextPc(at) /\ All # <<>>
    BY <1>1 DEF GekkoInv, InFlight
  <1>3. i \in InstructionType
    BY <1>2, FetchedType DEF GekkoInv
  <1> HIDE DEF i
  <1>4. ASSUME Known(op)
        PROVE  /\ gpr' = GprAfter(op, gpr) /\ pc' = PcAfter(op, pc) /\ ops' = Tail(ops)
               /\ phase' = (IF Tail(ops) = <<>> THEN "fetch" ELSE "execute") /\ report' = report
    BY <1>4 DEF ExecuteOp
  <1>5. \A o : o.type # "BRANCH" => PcAfter(o, pc) = pc
    BY DEF PcAfter
  <1>6. CASE /\ i.op # "b" /\ Arch!Implemented(i) /\ gpr = before
             /\ \E o : ops = <<o>> /\ Does(o, gpr, Effect(before, i))
             /\ Effect(before, i) \in [Regs -> Words]
    <2>1. Known(op) /\ GprAfter(op, gpr) = Effect(before, i) /\ op.type # "BRANCH" /\ Tail(ops) = <<>>
      BY <1>6, Sequences DEF Does
    <2> QED
      BY <1>1, <1>2, <1>3, <1>4, <1>5, <1>6, <2>1 DEF OpDone, i
  <1>7. CASE /\ i.op = "b" /\ ops = <<BranchOp(BranchTarget(i, at))>>
             /\ gpr = IF i.lk THEN [before EXCEPT ![GPR_LR] = NextPc(at)] ELSE before
    <2>1. op = BranchOp(BranchTarget(i, at)) /\ Tail(ops) = <<>>
      BY <1>7, Sequences
    <2>2. /\ Known(op) /\ GprAfter(op, gpr) = gpr
          /\ PcAfter(op, pc) = BranchTarget(i, at) % W
      BY <2>1, BranchDoes
    <2> QED
      BY <1>1, <1>2, <1>3, <1>4, <1>7, <2>1, <2>2 DEF OpDone, i
  <1>8. CASE /\ i.op = "b" /\ i.lk /\ gpr = before /\ ops = All
             /\ ops = <<LoadImm(GPR_LR, NextPc(at)), BranchOp(BranchTarget(i, at))>>
    <2> DEFINE load == LoadImm(GPR_LR, NextPc(at))
               jump == BranchOp(BranchTarget(i, at))
    <2>1. Does(load, before, [before EXCEPT ![GPR_LR] = NextPc(at)])
      BY LoadImmDoes
    <2>2. ops = <<load, jump>> /\ All = <<load, jump>>
      BY <1>8
    <2>3. All' = All
      BY <1>1 DEF All, Fetched
    <2> HIDE DEF load, jump
    <2>4. /\ op = load /\ Tail(ops) = <<jump>> /\ Tail(ops) # <<>>
          /\ Len(All) = 2 /\ All[1] = load /\ All[2] = jump
      BY <2>2, Sequences
    <2>5. /\ Known(op) /\ op.type # "BRANCH"
          /\ GprAfter(op, gpr) = [before EXCEPT ![GPR_LR] = NextPc(at)]
          /\ GprAfter(load, before) = [before EXCEPT ![GPR_LR] = NextPc(at)]
      BY <1>8, <2>1, <2>4 DEF Does
    <2>6. LinkDone'
      BY <1>1, <1>4, <2>3, <2>4, <2>5 DEF LinkDone
    <2> QED
      BY <1>1, <1>2, <1>3, <1>4, <1>5, <1>8, <2>4, <2>5, <2>6 DEF OpDone, i
  <1> QED
    BY <1>1, <1>6, <1>7, <1>8, OneMore DEF i

LEMMA ExecuteOpStep == ASSUME GekkoInv, ExecuteOp PROVE GekkoInv'
  <1> DEFINE i == Fetched(at)
  <1>1. /\ UNCHANGED <<code, at, before, report>>
        /\ Readable(at) /\ i \in InstructionType
        /\ OpDone(i)
    BY ExecuteOpDoes
  <1>2. NextPc(at) \in Words /\ BranchTarget(i, at) % W \in Words /\ pc \in Words
    BY <1>1, PcFacts, WordFacts DEF GekkoInv, TypeOK
  <1>3. before \in [Regs -> Words] /\ [before EXCEPT ![GPR_LR] = NextPc(at)] \in [Regs -> Words]
    BY <1>2 DEF GekkoInv, TypeOK, Regs
  <1> HIDE DEF i
  <1>4. gpr' \in [Regs -> Words] /\ pc' \in Words
    BY <1>1, <1>2, <1>3 DEF OpDone
  <1>5. phase' \in {"fetch", "execute"} /\ (ops' = <<>> <=> phase' # "execute")
    BY <1>1 DEF OpDone
  <1>6. TypeOK'
    BY <1>1, <1>3, <1>4, <1>5 DEF GekkoInv, TypeOK
  <1>7. InFlight'
    <2>1. ASSUME phase' = "execute" PROVE LinkDone' /\ pc' = pc
      BY <1>1, <2>1 DEF OpDone
    <2>2. All' = All /\ phase = "execute"
      BY <1>1 DEF All, Fetched, ExecuteOp
    <2> QED
      BY <1>1, <2>1, <2>2 DEF GekkoInv, InFlight
  <1>8. ReportNamesCulprit'
    BY <1>1 DEF GekkoInv, ReportNamesCulprit
  <1> QED
    BY <1>5, <1>6, <1>7, <1>8 DEF GekkoInv

(* The invariant holds in every reachable state.                            *)
LEMMA Invariance == Spec => []GekkoInv
  <1>1. Init => GekkoInv
    BY GekkoInvInit
  <1>2. GekkoInv /\ [Next]_vars => GekkoInv'
    <2>1. CASE Next
      BY <2>1, FetchStep, FetchFailsStep, FetchFaultStep, ExecuteOpStep DEF Next
    <2>2. CASE UNCHANGED vars
      <3>1. GekkoInv => GekkoInv'
        BY <2>2 DEF vars, GekkoInv, TypeOK, InFlight, All, Fetched, NoneDone, LinkDone, ReportNamesCulprit
      <3> QED
        BY <3>1
    <2> QED
      BY <2>1, <2>2
  <1> QED
    BY <1>1, <1>2, PTL DEF Spec

(* TypeOK holds in every reachable state.                                   *)
THEOREM TypeCorrect == Spec => []TypeOK
  <1>1. GekkoInv => TypeOK
    BY DEF GekkoInv
  <1> QED
    BY <1>1, Invariance, PTL

(* No operation the translator emits is refused by the interpreter.         *)
THEOREM OperationsAreKnown == Spec => []NeverFailsHalfway
  <1>1. ASSUME GekkoInv, phase = "execute", NEW k \in DOMAIN ops PROVE Known(ops[k])
    <2>1. \A x, y : /\ ops = <<x>> /\ Known(x) => Known(ops[k])
                   /\ ops = <<x, y>> /\ Known(x) /\ Known(y) => Known(ops[k])
      <3>1. ASSUME NEW x, NEW y, ops = <<x>>, Known(x) PROVE Known(ops[k])
        <4>1. k = 1 /\ ops[1] = x
          BY <3>1
        <4> QED
          BY <3>1, <4>1
      <3>2. ASSUME NEW x, NEW y, ops = <<x, y>>, Known(x), Known(y) PROVE Known(ops[k])
        <4>1. (k = 1 \/ k = 2) /\ ops[1] = x /\ ops[2] = y
          BY <3>2
        <4> QED
          BY <3>2, <4>1
      <3> QED
        BY <3>1, <3>2
    <2>2. \A t : Known(BranchOp(t))
      BY BranchDoes
    <2>3. \A v : Known(LoadImm(GPR_LR, v))
      BY LoadImmDoes DEF Does
    <2> QED
      BY <1>1, <2>1, <2>2, <2>3, OneMore DEF Does
  <1>2. GekkoInv => NeverFailsHalfway
    BY <1>1 DEF NeverFailsHalfway
  <1> QED
    BY <1>2, Invariance, PTL

(* A failure report names an instruction without operations.                *)
THEOREM ReportsAreRight == Spec => []ReportNamesCulprit
  <1>1. GekkoInv => ReportNamesCulprit
    BY DEF GekkoInv
  <1> QED
    BY <1>1, Invariance, PTL
-----------------------------------------------------------------------------
(* Both modules speak of the same words, memory and fields.                 *)
LEMMA Vocabulary ==
    /\ Arch!Words = Words /\ Arch!W = W /\ Arch!Regs = Regs /\ Arch!GPR_LR = GPR_LR
    /\ \A a : (Arch!Readable(a) <=> Readable(a)) /\ Arch!WordOf(a) = WordOf(a)
    /\ \A a : Arch!NextPc(a) = NextPc(a)
    /\ \A i, a : Arch!BranchTarget(i, a) = BranchTarget(i, a)
  BY DEF Arch!Words, Words, Arch!W, W, Arch!Regs, Regs, Arch!Gprs, Gprs, Arch!GPR_LR, GPR_LR,
         Arch!Readable, Readable, Arch!WordOf, WordOf, Arch!InWindow, InWindow,
         Arch!NextPc, NextPc, Arch!BranchTarget, BranchTarget

(* An instruction done is one step of the architecture.                     *)
LEMMA ArchExecutes ==
    ASSUME GekkoInv, ExecuteOp, phase' = "fetch" PROVE Arch!Execute
  <1> DEFINE i == Fetched(at)
  <1>1. phase = "execute" /\ UNCHANGED <<code, at, before, report>> /\ Readable(at)
        /\ i \in InstructionType /\ OpDone(i)
    BY ExecuteOpDoes DEF ExecuteOp
  <1>2. archReg = before /\ archPc = at /\ archState = "running"
    BY <1>1 DEF archReg, archPc, archState
  <1>3. archReg' = gpr' /\ archPc' = pc' /\ archState' = "running"
    BY DEF archReg, archPc, archState
  <1>4. i = code[WordOf(archPc)] /\ Readable(archPc)
    BY <1>1, <1>2 DEF Fetched
  <1> HIDE DEF i
  <1>5. CASE /\ i.op # "b" /\ Arch!Implemented(i) /\ gpr' = Effect(before, i) /\ pc' = NextPc(at)
    <2>1. Loads(i) => Arch!Lis(i)
      BY <1>1, <1>2, <1>3, <1>5, EffectFacts, Vocabulary DEF Arch!Lis, Arch!Set, Loads
    <2>2. Moves(i) => Arch!Mflr(i)
      BY <1>1, <1>2, <1>3, <1>5, EffectFacts, Vocabulary DEF Arch!Mflr, Arch!Set, Moves
    <2>3. i.op = "ori" => Arch!Ori(i)
      BY <1>1, <1>2, <1>3, <1>5, EffectFacts, Vocabulary DEF Arch!Ori, Arch!Set
    <2>4. i.op = "oris" => Arch!Oris(i)
      BY <1>1, <1>2, <1>3, <1>5, EffectFacts, Vocabulary DEF Arch!Oris, Arch!Set
    <2>5. Arch!Lis(i) \/ Arch!Ori(i) \/ Arch!Oris(i) \/ Arch!Mflr(i) \/ Arch!Branch(i)
      BY <1>1, <1>5, <2>1, <2>2, <2>3, <2>4, Implementable
    <2> QED
      BY <1>1, <1>2, <1>3, <1>4, <2>5, Vocabulary DEF Arch!Execute
  <1>6. CASE /\ i.op = "b" /\ pc' = BranchTarget(i, at) % W
             /\ gpr' = IF i.lk THEN [before EXCEPT ![GPR_LR] = NextPc(at)] ELSE before
    <2>1. Arch!Branch(i)
      BY <1>2, <1>3, <1>6, Vocabulary DEF Arch!Branch, Arch!Set
    <2> QED
      BY <1>1, <1>2, <1>3, <1>4, <2>1, Vocabulary DEF Arch!Execute
  <1> QED
    BY <1>1, <1>5, <1>6 DEF OpDone

LEMMA ArchStops == ASSUME GekkoInv, FetchFails PROVE Arch!Stop
  <1>1. phase = "fetch" /\ Readable(pc) /\ BuildOps(Fetched(pc), pc) = <<>> /\ UNCHANGED <<code, gpr>>
    BY DEF FetchFails, Fetched
  <1>2. archReg = gpr /\ archPc = pc /\ archState = "running"
    BY <1>1 DEF archReg, archPc, archState
  <1>3. Fetched(pc) \in InstructionType
    BY <1>1, FetchedType DEF GekkoInv
  <1>4. ~Arch!Implemented(Fetched(pc))
    <2> DEFINE i == Fetched(pc)
    <2>1. i \in InstructionType /\ BuildOps(i, pc) = <<>>
      BY <1>1, <1>3
    <2> HIDE DEF i
    <2>2. SUFFICES ASSUME Arch!Implemented(i) PROVE FALSE
      BY DEF i
    <2> QED
      BY <2>1, <2>2, Shape, Implementable, Sequences
  <1>5. CASE phase' = "returned" /\ pc' = NextPc(pc)
    <2>1. archReg' = gpr' /\ archPc' = (pc' - 4) % W /\ archState' = "stopped"
      BY <1>5 DEF archReg, archPc, archState
    <2>2. archPc' = pc
      BY <1>5, <2>1, PcFacts DEF GekkoInv, TypeOK
    <2> QED
      BY <1>1, <1>2, <1>4, <2>1, <2>2, Vocabulary DEF Arch!Stop, Fetched
  <1>6. CASE phase' = "gone" /\ pc' = pc
    <2>1. archReg' = gpr' /\ archPc' = pc' /\ archState' = "gone"
      BY <1>6 DEF archReg, archPc, archState
    <2> QED
      BY <1>1, <1>2, <1>4, <1>6, <2>1, Vocabulary DEF Arch!Stop, Fetched
  <1> QED
    BY <1>5, <1>6 DEF FetchFails

LEMMA ArchIsLost == ASSUME FetchFault PROVE Arch!Lost
  BY Vocabulary DEF FetchFault, Arch!Lost, archReg, archPc, archState

(* Starting an instruction, and its link, are stuttering steps.             *)
LEMMA ArchStutters ==
    ASSUME GekkoInv, Fetch \/ (ExecuteOp /\ phase' = "execute") \/ UNCHANGED vars
    PROVE  UNCHANGED <<code, archReg, archPc, archState>>
  <1>1. CASE Fetch
    BY <1>1 DEF Fetch, archReg, archPc, archState
  <1>2. CASE ExecuteOp /\ phase' = "execute"
    BY <1>2 DEF ExecuteOp, archReg, archPc, archState
  <1>3. CASE UNCHANGED vars
    BY <1>3 DEF vars, archReg, archPc, archState
  <1> QED
    BY <1>1, <1>2, <1>3

(* The interpreter implements the architecture.                             *)
THEOREM GekkoImplementsArch == Spec => InstructionsAreWhole
  <1>1. Init => Arch!Init
    <2>1. 0 \in Words
      BY WordFacts DEF Words
    <2> QED
      BY <2>1, ProgramsAssumption, EntriesAssumption, Vocabulary
      DEF Init, Arch!Init, archReg, archPc, archState
  <1>2. ASSUME GekkoInv, [Next]_vars
        PROVE  Arch!Next \/ UNCHANGED <<code, archReg, archPc, archState>>
    <2>1. CASE ExecuteOp
      <3>1. phase' \in {"fetch", "execute"}
        BY <1>2, <2>1, ExecuteOpDoes DEF OpDone
      <3> QED
        BY <1>2, <2>1, <3>1, ArchExecutes, ArchStutters DEF Arch!Next
    <2> QED
      BY <1>2, <2>1, ArchStops, ArchIsLost, ArchStutters DEF Next, Arch!Next
  <1> QED
    BY <1>1, <1>2, Invariance, PTL DEF Spec, Arch!Spec, InstructionsAreWhole
=============================================================================
