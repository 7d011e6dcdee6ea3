------------------------------- MODULE PpcCpu -------------------------------
(***************************************************************************)
(* PpcCpu::Execute (vmm/PpcCpu.cpp) over CpuInterpreter.h and              *)
(* PowerPCIntermediateBuilder.cpp: an instruction is fetched through the   *)
(* guest's own mapping, translated into up to four intermediates and these *)
(* are interpreted one by one.  Any access may raise an x86 page fault,    *)
(* whose handler restores the context getmcontext saved on entry, so that  *)
(* Execute starts over as if getmcontext had returned a second time: the   *)
(* intermediates left are abandoned, what the others did stays done.       *)
(*                                                                         *)
(* The guest's page-fault handlers are guest code outside the repository:  *)
(* HandlerMaps stands for what they do before their rfid.                  *)
(***************************************************************************)
EXTENDS PpcWords

CONSTANTS
    Programs,      \* programs the guest may run: sequences of instructions
    InitGprs,      \* what the general registers may hold at the start
    MaxInstr       \* instructions a behaviour may retire (bound of the model)

ASSUME ProgramsAssumption ==
    /\ Programs \subseteq Seq(Instructions)
    /\ \A p \in Programs : Len(p) \in 1 .. DsiVector
ASSUME InitGprsAssumption == InitGprs \subseteq [Gprs -> Values]
ASSUME MaxInstrAssumption == MaxInstr \in Nat

Regs == ArchRegs \union {GPR_TEMP}

VARIABLES
    code, mapped,                  \* the program, the guest's mapped pages
    gpr,                           \* [Regs -> Values], the register array of the context
    mem, isReserved, reservation,
    pc, msr, srr0, srr1, dar,
    readingInstructions, faultingAddr,
    intermediates,                 \* those of the instruction not interpreted yet
    running,                       \* Execute has not returned
    retired,                       \* instructions completed, capped by MaxInstr
    start                          \* history: the context when the instruction was fetched

vars == <<code, mapped, gpr, mem, isReserved, reservation, pc, msr, srr0, srr1, dar,
          readingInstructions, faultingAddr, intermediates, running, retired, start>>

CodeOf(p) == [a \in 0 .. Len(p) - 1 |-> p[a + 1]]
CodeAt(a) == IF a = HandlerRfid THEN Rfid ELSE code[a]
InCode(a) == a = HandlerRfid \/ a \in DOMAIN code
Present(page) == ~msr.relocated \/ page \in mapped
-----------------------------------------------------------------------------
(* PowerPCIntermediateBuilder::BuildIntermediate, by opcode.                *)
LD_64_IMM(dest, imm) == [op |-> "LD_64_IMM", dest |-> dest, imm |-> imm]
LD_32_HIGH(dest, imm) == [op |-> "LD_32_IMM", dest |-> dest, imm |-> imm]
LD_32_ABS(dest, addr) == [op |-> "LD_32_ABS", dest |-> dest, imm |-> addr]
LD_32_REG_OFF(dest, ra, d) == [op |-> "LD_32_REG_OFF", dest |-> dest, ra |-> ra, imm |-> d]
LD_64_REG_OFF(dest, ra, d) == [op |-> "LD_64_REG_OFF", dest |-> dest, ra |-> ra, imm |-> d]
LD_32_L(dest, ra) == [op |-> "LD_32_L", dest |-> dest, ra |-> ra]
ST_ABS(size, rs, addr) == [op |-> "ST_ABS", size |-> size, rs |-> rs, imm |-> addr]
ST_REG_OFF(size, rs, ra, d) ==
    [op |-> "ST_REG_OFF", size |-> size, rs |-> rs, ra |-> ra, imm |-> d]
ADD(dest, ra, rb) == [op |-> "ADD", dest |-> dest, ra |-> ra, rb |-> rb]
ADD_IMM(ra, dest, imm) == [op |-> "ADD_IMM", dest |-> dest, ra |-> ra, imm |-> imm]
SUBU_IMM(ra, dest, imm) == [op |-> "SUBU_IMM", dest |-> dest, ra |-> ra, imm |-> imm]
BRANCH_ALWAYS(target) == [op |-> "BRANCH_ALWAYS", imm |-> target]
BRANCH_GPR64(ra) == [op |-> "BRANCH_GPR64", ra |-> ra]
BRANCH_MASK_NOT_ZERO(ra, target) == [op |-> "BRANCH_NOT_ZERO", ra |-> ra, imm |-> target]
BRANCH_GPR64_NOT_ZERO(ra, target) == [op |-> "BRANCH_NOT_ZERO", ra |-> ra, imm |-> target]
PPC_STWCX(ra, rb, rs) == [op |-> "PPC_STWCX", ra |-> ra, rb |-> rb, rs |-> rs]
PPC_RFID == [op |-> "PPC_RFID"]
UNKNOWN == [op |-> "UNKNOWN_OPCODE"]
INVALID == [op |-> "INVALID_OPCODE"]

IfLink(lk, at) == IF lk THEN <<LD_64_IMM(GPR_LR, at + 1)>> ELSE <<>>

BuildIntermediateBcc(i, at) ==
    CASE i.op = "beq" ->
            <<BRANCH_MASK_NOT_ZERO(GPR_CR, Plus(at, i.d))>> \o IfLink(i.lk, at)
      [] i.op = "bdnz" ->
            <<SUBU_IMM(GPR_CTR, GPR_CTR, 1),
              BRANCH_GPR64_NOT_ZERO(GPR_CTR, Plus(at, i.d))>> \o IfLink(i.lk, at)

BuildLwarx(i) ==
    (IF i.ra = 0
       THEN <<LD_32_L(i.rt, i.rb)>>
       ELSE <<ADD(GPR_TEMP, i.ra, i.rb), LD_32_L(i.rt, GPR_TEMP)>>)
    \o <<LD_32_HIGH(i.rt, 0)>>

BuildStwu_Bug(i) ==                   \* the base is updated before the store
    <<ADD_IMM(i.ra, i.ra, i.d), ST_REG_OFF(32, i.rt, i.ra, 0)>>

BuildStwu(i) ==
    IF i.ra = 0 THEN <<INVALID>>
    ELSE <<ADD_IMM(i.ra, GPR_TEMP, i.d), ST_REG_OFF(32, i.rt, GPR_TEMP, 0),
           ADD_IMM(i.ra, i.ra, i.d)>>

BuildIntermediateTable19(i, at) ==
    CASE i.op = "blr" -> <<BRANCH_GPR64(GPR_LR)>>
      [] i.op = "bctrl" -> <<BRANCH_GPR64(GPR_CTR), LD_64_IMM(GPR_LR, at + 1)>>
      [] i.op = "rfid" -> <<PPC_RFID>>

BuildIntermediate(i, at) ==
    CASE i.op = "addi" -> IF i.ra = 0 THEN <<LD_64_IMM(i.rt, i.d)>>
                                      ELSE <<ADD_IMM(i.ra, i.rt, i.d)>>
      [] i.op \in {"beq", "bdnz"} -> BuildIntermediateBcc(i, at)
      [] i.op = "b" -> IfLink(i.lk, at) \o <<BRANCH_ALWAYS(Plus(at, i.d))>>
      [] i.op = "lwz" -> <<IF i.ra = 0 THEN LD_32_ABS(i.rt, i.d)
                                       ELSE LD_32_REG_OFF(i.rt, i.ra, i.d),
                           LD_32_HIGH(i.rt, 0)>>
      [] i.op = "lwarx" -> BuildLwarx(i)
      [] i.op = "stwcx" -> <<PPC_STWCX(i.rb, i.ra, i.rt)>>
      [] i.op = "stw" -> <<IF i.ra = 0 THEN ST_ABS(32, i.rt, i.d)
                                       ELSE ST_REG_OFF(32, i.rt, i.ra, i.d)>>
      [] i.op = "stwu" -> BuildStwu(i)
      [] i.op = "ld" -> <<LD_64_REG_OFF(i.rt, i.ra, i.d)>>
      [] i.op = "std" -> <<IF i.ra = 0 THEN ST_ABS(64, i.rt, i.d)
                                       ELSE ST_REG_OFF(64, i.rt, i.ra, i.d)>>
      [] i.op \in {"blr", "bctrl", "rfid"} -> BuildIntermediateTable19(i, at)
      [] OTHER -> <<UNKNOWN>>
-----------------------------------------------------------------------------
Init ==
    /\ code \in {CodeOf(p) : p \in Programs}
    /\ mapped = {}
    /\ \E g \in InitGprs, temp \in {0, W + 1}, ctr \in {1, W * W - W, W} :
          gpr = [r \in Regs |-> CASE r \in Gprs -> g[r]
                                  [] r = GPR_TEMP -> temp
                                  [] r = GPR_CTR -> ctr
                                  [] OTHER -> 0]
    /\ mem = [a \in Words |-> (3 * a + 1) % W]
    /\ isReserved = FALSE
    /\ reservation = 0
    /\ pc = HandlerRfid
    /\ \E sf \in BOOLEAN : msr = [sf |-> sf, relocated |-> FALSE]
    /\ srr0 = 0
    /\ srr1 = [msr EXCEPT !.relocated = TRUE]
    /\ dar = 0
    /\ readingInstructions = TRUE
    /\ faultingAddr = 0
    /\ intermediates = <<>>
    /\ running = TRUE
    /\ retired = 0
    /\ start = <<>>
-----------------------------------------------------------------------------
(* The fetch phase reads *PC with the whole 64-bit pc, under the guest's    *)
(* mapping; pc already points behind the instruction while it executes.     *)
Context == [gpr |-> gpr, mem |-> mem, isReserved |-> isReserved,
            reservation |-> reservation, pc |-> pc, msr |-> msr]

CanFetch ==
    /\ running
    /\ intermediates = <<>>
    /\ InCode(pc)
    /\ retired < MaxInstr

Fetch ==
    /\ CanFetch
    /\ Present(CodePage(pc))
    /\ intermediates' = BuildIntermediate(CodeAt(pc), pc)
    /\ pc' = pc + 1
    /\ readingInstructions' = FALSE
    /\ start' = Context
    /\ UNCHANGED <<code, mapped, gpr, mem, isReserved, reservation, msr, srr0, srr1, dar,
                   faultingAddr, running, retired>>

(* OnInterpPageFault restores error_context; Execute then builds the        *)
(* interrupt and enters its loop again.                                     *)
SetMsr(m) == msr' = m
SetPC(target) == pc' = TruncatePC(target, msr')

PageFault_Bug(addr) ==                \* DAR gets the address of the instruction
    /\ faultingAddr' = addr
    /\ srr1' = msr
    /\ SetMsr(RealMode(msr))
    /\ \/ /\ readingInstructions
          /\ srr0' = pc /\ SetPC(IsiVector) /\ UNCHANGED dar
       \/ /\ ~readingInstructions
          /\ srr0' = pc - 1 /\ SetPC(DsiVector) /\ dar' = pc - 1
    /\ intermediates' = <<>>
    /\ readingInstructions' = TRUE
    /\ start' = <<>>

PageFault(addr) ==
    /\ faultingAddr' = addr
    /\ srr1' = msr
    /\ SetMsr(RealMode(msr))
    /\ IF readingInstructions
         THEN /\ srr0' = pc
              /\ SetPC(IsiVector)
              /\ UNCHANGED dar
         ELSE /\ srr0' = pc - 1
              /\ dar' = IF msr.sf THEN addr ELSE Low(addr)
              /\ SetPC(DsiVector)
    /\ intermediates' = <<>>
    /\ readingInstructions' = TRUE
    /\ start' = <<>>

FetchFault ==
    /\ CanFetch
    /\ ~Present(CodePage(pc))
    /\ PageFault(pc)
    /\ UNCHANGED <<code, mapped, gpr, mem, isReserved, reservation, running, retired>>
-----------------------------------------------------------------------------
(* CpuInterpreter::InterpretIntermediate.                                   *)
Current == Head(intermediates)

Interpreting(ops) ==
    /\ running
    /\ intermediates # <<>>
    /\ Current.op \in ops

(* On to the next intermediate, or to the next instruction.                 *)
Proceed ==
    /\ intermediates' = Tail(intermediates)
    /\ IF Len(intermediates) = 1
         THEN /\ readingInstructions' = TRUE
              /\ start' = <<>>
              /\ retired' = IF start.pc = HandlerRfid THEN retired ELSE retired + 1
         ELSE UNCHANGED <<readingInstructions, start, retired>>
    /\ UNCHANGED <<code, mapped, dar, srr0, srr1, faultingAddr, running>>

SetLow(old, word) == High(old) * W + word
SetHigh(old, word) == word * W + Low(old)

InterpretArithmetic ==
    /\ Interpreting({"LD_64_IMM", "LD_32_IMM", "ADD", "ADD_IMM", "SUBU_IMM"})
    /\ LET x == Current
           result == CASE x.op = "LD_64_IMM" -> x.imm
                       [] x.op = "LD_32_IMM" -> SetHigh(gpr[x.dest], x.imm)
                       [] x.op = "ADD" -> Plus(gpr[x.ra], gpr[x.rb])
                       [] x.op = "ADD_IMM" -> Plus(gpr[x.ra], x.imm)
                       [] x.op = "SUBU_IMM" -> Minus(gpr[x.ra], x.imm)
       IN gpr' = [gpr EXCEPT ![x.dest] = result]
    /\ Proceed
    /\ UNCHANGED <<mem, isReserved, reservation, pc, msr>>

InterpretBranch ==
    /\ Interpreting({"BRANCH_ALWAYS", "BRANCH_GPR64", "BRANCH_NOT_ZERO"})
    /\ UNCHANGED msr
    /\ CASE Current.op = "BRANCH_ALWAYS" -> SetPC(Current.imm)
         [] Current.op = "BRANCH_GPR64" -> SetPC(gpr[Current.ra])
         [] Current.op = "BRANCH_NOT_ZERO" ->
               IF gpr[Current.ra] # 0 THEN SetPC(Current.imm) ELSE UNCHANGED pc
    /\ Proceed
    /\ UNCHANGED <<gpr, mem, isReserved, reservation>>

(* ThirtyTwoBitMemoryPolicy: an access drops the high word of its address,  *)
(* a 64-bit one touches two words, high word first, the second possibly one *)
(* past the 4 GiB.                                                          *)
Address(x) ==
    CASE x.op \in {"LD_32_ABS", "ST_ABS"} -> x.imm
      [] x.op = "LD_32_L" -> gpr[x.ra]
      [] x.op = "PPC_STWCX" -> Plus(gpr[x.ra], IF x.rb = 0 THEN 0 ELSE gpr[x.rb])
      [] OTHER -> Plus(gpr[x.ra], x.imm)

Loads == {"LD_32_ABS", "LD_32_REG_OFF", "LD_64_REG_OFF", "LD_32_L"}
Stores == {"ST_ABS", "ST_REG_OFF"}

IsDouble(x) == x.op = "LD_64_REG_OFF" \/ (x.op \in Stores /\ x.size = 64)

(* stwcx. stores only while it holds the reservation of its address.        *)
Reserved(x) == isReserved /\ reservation = Address(x)

Touched_Bug(x) ==                     \* the memory policy keeps the high word
    IF x.op = "PPC_STWCX" /\ ~Reserved(x) THEN <<>>
    ELSE IF IsDouble(x) THEN <<Address(x), Address(x) + 1>>
    ELSE <<Address(x)>>

Touched(x) ==
    IF x.op = "PPC_STWCX" /\ ~Reserved(x) THEN <<>>
    ELSE IF IsDouble(x) THEN <<Low(Address(x)), Low(Address(x)) + 1>>
    ELSE <<Low(Address(x))>>

Hits(a) == a < W /\ Present(DataPage(a))
AllHit(x) == \A k \in DOMAIN Touched(x) : Hits(Touched(x)[k])

InterpretLoad ==
    /\ Interpreting(Loads)
    /\ AllHit(Current)
    /\ LET x == Current
           a == Low(Address(x))
       IN /\ gpr' = [gpr EXCEPT ![x.dest] =
                        IF IsDouble(x) THEN mem[a] * W + mem[a + 1] ELSE SetLow(@, mem[a])]
          /\ IF x.op = "LD_32_L"
               THEN isReserved' = TRUE /\ reservation' = Address(x)
               ELSE UNCHANGED <<isReserved, reservation>>
    /\ Proceed
    /\ UNCHANGED <<mem, pc, msr>>

InterpretStore ==
    /\ Interpreting(Stores)
    /\ AllHit(Current)
    /\ LET a == Low(Address(Current))
           value == gpr[Current.rs]
       IN mem' = IF IsDouble(Current)
                   THEN [mem EXCEPT ![a] = High(value), ![a + 1] = Low(value)]
                   ELSE [mem EXCEPT ![a] = Low(value)]
    /\ Proceed
    /\ UNCHANGED <<gpr, isReserved, reservation, pc, msr>>

InterpretStwcx ==
    /\ Interpreting({"PPC_STWCX"})
    /\ AllHit(Current)
    /\ IF Reserved(Current)
         THEN /\ mem' = [mem EXCEPT ![Low(Address(Current))] = Low(gpr[Current.rs])]
              /\ isReserved' = FALSE
              /\ gpr' = [gpr EXCEPT ![GPR_CR] = 1]
         ELSE /\ gpr' = [gpr EXCEPT ![GPR_CR] = 0]
              /\ UNCHANGED <<mem, isReserved>>
    /\ Proceed
    /\ UNCHANGED <<reservation, pc, msr>>

(* A word that misses: what the intermediate did before touching it stays.  *)
FirstMiss(x) ==
    CHOOSE k \in DOMAIN Touched(x) :
        ~Hits(Touched(x)[k]) /\ \A j \in 1 .. k - 1 : Hits(Touched(x)[j])

DataFault ==
    /\ Interpreting(Loads \union Stores \union {"PPC_STWCX"})
    /\ ~AllHit(Current)
    /\ LET x == Current
       IN /\ IF x.op = "LD_32_L"
               THEN isReserved' = TRUE /\ reservation' = Address(x)
               ELSE UNCHANGED <<isReserved, reservation>>
          /\ gpr' = IF x.op = "PPC_STWCX" THEN [gpr EXCEPT ![GPR_CR] = 0] ELSE gpr
          /\ mem' = IF x.op \in Stores /\ FirstMiss(x) = 2
                      THEN [mem EXCEPT ![Touched(x)[1]] = High(gpr[x.rs])]
                      ELSE mem
          /\ PageFault(Touched(x)[FirstMiss(x)])
    /\ UNCHANGED <<code, mapped, running, retired>>

(* PPC_RFID: the new MSR decides whether the new pc is truncated.           *)
InterpretRfid ==
    /\ Interpreting({"PPC_RFID"})
    /\ SetMsr(srr1)
    /\ SetPC(srr0)
    /\ Proceed
    /\ UNCHANGED <<gpr, mem, isReserved, reservation>>

(* An intermediate that fails ends Execute, and with it the machine.        *)
InterpretFails ==
    /\ Interpreting({"UNKNOWN_OPCODE", "INVALID_OPCODE"})
    /\ pc' = pc - 1
    /\ running' = FALSE
    /\ start' = <<>>
    /\ UNCHANGED <<code, mapped, gpr, mem, isReserved, reservation, msr, srr0, srr1, dar,
                   readingInstructions, faultingAddr, intermediates, retired>>
-----------------------------------------------------------------------------
(* The guest's handler: it maps the page DAR or SRR0 names, and gets to its *)
(* rfid.  It runs in real mode and restores the registers it uses.          *)
HandlerMaps ==
    /\ running
    /\ intermediates = <<>>
    /\ pc \in {DsiVector, IsiVector}
    /\ mapped' = mapped \union {IF pc = DsiVector THEN DataPage(dar) ELSE CodePage(srr0)}
    /\ pc' = HandlerRfid
    /\ UNCHANGED <<code, gpr, mem, isReserved, reservation, msr, srr0, srr1, dar,
                   readingInstructions, faultingAddr, intermediates, running, retired, start>>

Next ==
    \/ Fetch \/ FetchFault
    \/ InterpretArithmetic \/ InterpretBranch
    \/ InterpretLoad \/ InterpretStore \/ InterpretStwcx \/ DataFault
    \/ InterpretRfid \/ InterpretFails
    \/ HandlerMaps

(* The loop runs as long as the host runs the virtual CPU.                  *)
Spec == Init /\ [][Next]_vars /\ WF_vars(Next)
-----------------------------------------------------------------------------
(* Registers and addresses stay 64-bit values whatever wraps on the way, a  *)
(* word of memory takes one word, and no address past the 4 GiB is mapped.  *)
TypeOK ==
    /\ code \in {CodeOf(p) : p \in Programs}
    /\ mapped \subseteq {DataPage(a) : a \in 0 .. W}
                          \union {CodePage(a) : a \in DOMAIN code \union {HandlerRfid}}
    /\ gpr \in [Regs -> Values]
    /\ mem \in [Words -> Words]
    /\ isReserved \in BOOLEAN
    /\ {reservation, pc, srr0, dar, faultingAddr} \subseteq Values
    /\ {msr, srr1} \subseteq Msr
    /\ {readingInstructions, running} \subseteq BOOLEAN
    /\ Len(intermediates) <= 4
    /\ retired \in 0 .. MaxInstr

(* The guest sees whole instructions: seen between instructions the context *)
(* is the one the guest has, and while one is in progress (or abandoned by  *)
(* a fault) it is the one the instruction started with.                     *)
InProgress == start # <<>>

archReg == [r \in ArchRegs |-> IF InProgress THEN start.gpr[r] ELSE gpr[r]]
archMem == IF InProgress THEN start.mem ELSE mem
archReservation ==
    LET c == IF InProgress THEN start ELSE Context
    IN  IF c.isReserved THEN c.reservation ELSE NoReservation
archPc == IF InProgress THEN start.pc ELSE pc
archMsr == IF InProgress THEN start.msr ELSE msr

Arch == INSTANCE PpcArch WITH
    reg <- archReg, mem <- archMem, reservation <- archReservation,
    pc <- archPc, msr <- archMsr, stopped <- ~running

(* However the intermediates of an instruction are cut off by page faults,  *)
(* the guest observes an execution of PpcArch: every interrupt is precise   *)
(* and every instruction that was interrupted restarts as if never begun.   *)
InstructionsAreAtomic == Arch!ArchSpec

(* Faults do not livelock: SRR0 and DAR name the page that missed, so every *)
(* instruction completes, unless the program ends or leaves the model, or   *)
(* touches the word behind the 4 GiB, which no guest page table can map.    *)
BeyondMemory == faultingAddr = W /\ pc = DsiVector
OutsideModel == ~InProgress /\ ~InCode(pc) /\ pc \notin {DsiVector, IsiVector}
EveryInstructionCompletes ==
    <>(retired = MaxInstr \/ ~running \/ BeyondMemory \/ OutsideModel)
=============================================================================
