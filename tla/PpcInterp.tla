----------------------------- MODULE PpcInterp ------------------------------
(***************************************************************************)
(* What an instruction computes: PpcCpu::Execute translates it and gives   *)
(* its intermediates, one by one, to CpuInterpreter::InterpretIntermediate *)
(* and PpcCpu::InterpretProcessorSpecific.  Module PpcCpu says what page   *)
(* faults do between them; here every access succeeds, and the values are  *)
(* those of the code, bit by bit.                                          *)
(*                                                                         *)
(* Memory is what the virtual machine sees: a guest word is kept in host   *)
(* order, so a guest byte is found at its address ^ 3.                     *)
(***************************************************************************)
EXTENDS PpcOps

CONSTANTS
    Instructions,  \* the instructions a behaviour may execute
    Contexts,      \* the contexts a behaviour may start from
    MemSize,       \* bytes of memory (up to 2^32 in the code)
    MaxInstr       \* instructions a behaviour executes (bound of the model)

ASSUME MaxInstrAssumption == MaxInstr \in Nat
ASSUME MemSizeAssumption == MemSize \in 8 .. W /\ MemSize % 4 = 0

Regs == Gprs \union (GPR_LR .. GPR_TEMP)
SysRegs == {SPR_DAR, SPR_SRR0, SPR_SRR1, SPR_HRMOR, SPR_LPCR, SPR_LPIDR, SPR_HID6,
            SPR_PIR, SPR_MSR}
CpuContexts ==
    [gpr : [Regs -> Values], sys : [SysRegs -> Values], pc : Values,
     mem : [0 .. MemSize - 1 -> 0 .. 2 ^ ByteBits - 1]]

ASSUME InstructionsAssumption == Instructions \subseteq Encodings
ASSUME ContextsAssumption == Contexts \subseteq CpuContexts

VARIABLES
    ctx,           \* [gpr, sys, pc, mem]: the context and the memory
    intermediates, \* those of the instruction not interpreted yet
    instr,         \* the instruction, from its fetch to the next one
    running,       \* Execute has not returned
    retired,       \* instructions completed
    start,         \* history: the context before instr
    previous       \* history: the instruction before instr

vars == <<ctx, intermediates, instr, running, retired, start, previous>>
-----------------------------------------------------------------------------
(* XenonCpuContext.h: fields of CR from the left, the carry of XER.         *)
Lt(f) == 2 ^ (N - 1 - 4 * f)
Gt(f) == 2 ^ (N - 2 - 4 * f)
Eq(f) == 2 ^ (N - 3 - 4 * f)
So(f) == 2 ^ (N - 4 - 4 * f)
ClearCr(cr, f) == Andc(cr, Lt(f) + Gt(f) + Eq(f) + So(f))

XerCa == 2 ^ (N - 3)
XerSo == 2 ^ (N - 1)
SetCa(xer, on) == IF on THEN Or(xer, XerCa) ELSE Andc(xer, XerCa)

Is64Bit(c) == c.sys[SPR_MSR] >= 2 ^ (2 * N - 1)

(* PpcCpu::SetPC.                                                           *)
SetPC(c, target) == [c EXCEPT !.pc = IF Is64Bit(c) THEN target ELSE Low(target)]

(* Mutant: a word written counts one into the high word, unwrapped.         *)
SetLow_Bug(old, word) == old - Low(old) + word + W

SetLow(old, word) == High(old) * W + word
SetHigh(old, word) == word * W + Low(old)
-----------------------------------------------------------------------------
(* ReadReg and SetReg, ReadSystemReg and SetSystemReg.  The registers of    *)
(* the TLB are in module PpcTlbFill.                                        *)
Readable(o) ==
    o.type = "SYS64" =>
        o.reg \in {SPR_XER, SPR_DAR, SPR_SRR0, SPR_LPCR, SPR_HID6, SPR_PIR, SPR_MSR}

Writable(o) ==
    o.type = "SYS64" =>
        o.reg \in {SPR_XER, SPR_SRR0, SPR_SRR1, SPR_HRMOR, SPR_LPCR, SPR_LPIDR, SPR_HID6}

ReadReg(c, o) ==
    CASE o.type = "GPR8" -> c.gpr[o.reg] % 2 ^ ByteBits
      [] o.type = "GPR32" -> Low(c.gpr[o.reg])
      [] o.type = "GPR64" -> c.gpr[o.reg]
      [] o.type = "SYS64" /\ o.reg = SPR_XER -> c.gpr[GPR_XER]
      [] o.type = "SYS64" /\ o.reg # SPR_XER -> c.sys[o.reg]

(* HRMOR keeps 22 of its bits, the real-memory offset.                      *)
HrmorMask == 2 ^ ((21 * N) \div 16) - 2 ^ ((5 * N) \div 8)

SetReg(c, o, value) ==
    CASE o.type = "GPR32" -> [c EXCEPT !.gpr[o.reg] = SetLow(@, Low(value))]
      [] o.type = "GPR32HIGH" -> [c EXCEPT !.gpr[o.reg] = SetHigh(@, Low(value))]
      [] o.type = "GPR64" -> [c EXCEPT !.gpr[o.reg] = value]
      [] o.type = "SYS64" /\ o.reg = SPR_XER -> [c EXCEPT !.gpr[GPR_XER] = value]
      [] o.type = "SYS64" /\ o.reg = SPR_HRMOR ->
            [c EXCEPT !.sys[SPR_HRMOR] = And(value, HrmorMask)]
      [] o.type = "SYS64" /\ o.reg \notin {SPR_XER, SPR_HRMOR} ->
            [c EXCEPT !.sys[o.reg] = value]

(* ThirtyTwoBitMemoryPolicy<true>.                                          *)
Byte(word, k) == (word \div 2 ^ (k * ByteBits)) % 2 ^ ByteBits
FourBytes(b0, b1, b2, b3) ==
    b0 * 2 ^ (3 * ByteBits) + b1 * 2 ^ (2 * ByteBits) + b2 * 2 ^ ByteBits + b3
ReadMem32(c, addr) ==
    FourBytes(c.mem[Low(addr + 3)], c.mem[Low(addr + 2)], c.mem[Low(addr + 1)], c.mem[Low(addr)])
ReadMem64(c, addr) == ReadMem32(c, addr) * W + ReadMem32(c, addr + 4)

HostByte(addr) == addr + 3 - 2 * (addr % 4)

WriteMem8(c, addr, value) == [c EXCEPT !.mem[HostByte(Low(addr))] = value]

WriteMem32(c, addr, value) ==
    [c EXCEPT !.mem = [a \in DOMAIN @ |->
        IF a \in Low(addr) .. Low(addr) + 3 THEN Byte(value, a - Low(addr)) ELSE @[a]]]

WriteMem64(c, addr, value) == WriteMem32(WriteMem32(c, addr, High(value)), addr + 4, Low(value))

WriteMem(c, type, addr, value) ==
    CASE type = "GPR8" -> WriteMem8(c, addr, value)
      [] type = "GPR32" -> WriteMem32(c, addr, value)
      [] type = "GPR64" -> WriteMem64(c, addr, value)
-----------------------------------------------------------------------------
(* InterpretIntermediate returned false.                                    *)
Fails(x) ==
    \/ x.op \in {"UNKNOWN_OPCODE", "INVALID_OPCODE"}
    \/ x.op = "MOVE_REG" /\ ~(Readable(x.source) /\ Writable(x.dest))
    \/ x.op = "PPC_SRAWI" /\ x.rc

Branch(c, x) ==
    CASE x.op = "BRANCH_ALWAYS" -> SetPC(c, x.target)
      [] x.op = "BRANCH_GPR64" -> SetPC(c, c.gpr[x.source])
      [] x.op = "BRANCH_GPR32_MASK_ZERO" ->
            IF And(Low(c.gpr[x.source]), x.imm) = 0 THEN SetPC(c, x.target) ELSE c
      [] x.op = "BRANCH_GPR32_MASK_NOT_ZERO" ->
            IF And(Low(c.gpr[x.source]), x.imm) # 0 THEN SetPC(c, x.target) ELSE c
      [] x.op = "BRANCH_GPR64_NOT_ZERO" ->
            IF c.gpr[x.source] # 0 THEN SetPC(c, x.target) ELSE c
      [] x.op = "BRANCH_GPR64_NOT_ZERO_GPR64" ->
            IF c.gpr[x.source] # 0 THEN SetPC(c, c.gpr[x.target]) ELSE c

LoadStore(c, x) ==
    CASE x.op = "LD_IMM" -> SetReg(c, x.dest, x.imm)
      [] x.op = "LD_32_ABS" -> SetReg(c, x.dest, ReadMem32(c, x.imm))
      [] x.op = "LD_32_REG_OFF" -> SetReg(c, x.dest, ReadMem32(c, Wrap(c.gpr[x.addr] + x.imm)))
      [] x.op = "LD_64_REG_OFF" -> SetReg(c, x.dest, ReadMem64(c, Wrap(c.gpr[x.addr] + x.imm)))
      [] x.op = "ST_ABS" -> WriteMem(c, x.value.type, x.imm, ReadReg(c, x.value))
      [] x.op = "ST_REG_OFF" ->
            WriteMem(c, x.value.type, Wrap(c.gpr[x.addr] + x.imm), ReadReg(c, x.value))

ByteSwap(word) == FourBytes(Byte(word, 0), Byte(word, 1), Byte(word, 2), Byte(word, 3))

(* Operations on the whole register.                                        *)
Result64(c, x) ==
    LET a == c.gpr[x.source]
    IN  CASE x.op = "ADD" -> Wrap(a + c.gpr[x.source2])
          [] x.op = "ADD_IMM" -> Wrap(a + x.imm)
          [] x.op = "SUB" -> Wrap(c.gpr[x.source2] + Ones - a + 1)
          [] x.op = "SUBU_IMM" -> Wrap(a - x.imm)
          [] x.op = "AND_IMM_64" -> And(a, x.imm)
          [] x.op = "ANDC" -> Andc(a, c.gpr[x.source2])
          [] x.op = "ANDC_IMM" -> Andc(a, x.imm)
          [] x.op = "OR" -> Or(a, c.gpr[x.source2])
          [] x.op = "OR_IMM" -> Or(a, x.imm)
          [] x.op = "XOR_IMM" -> Xor(a, x.imm)
          [] x.op = "ROL64_IMM" -> Rotl(a, x.imm)
          [] x.op = "SLL64_IMM" -> Wrap(a * 2 ^ x.imm)
          [] x.op = "SLR64_IMM" -> a \div 2 ^ x.imm

(* Operations on the low word; the high word of the destination stays.  The *)
(* processor takes a shift count modulo the word size.                      *)
Result32(c, x) ==
    LET a == Low(c.gpr[x.source])
    IN  CASE x.op = "AND_IMM_32" -> And(a, x.imm)
          [] x.op = "SLL32" -> Low(a * 2 ^ (Low(c.gpr[x.source2]) % N))
          [] x.op = "SLL32_IMM" -> Low(a * 2 ^ x.imm)
          [] x.op = "SLR32_IMM" -> a \div 2 ^ x.imm
          [] x.op = "BYTE_SWAP_32" -> ByteSwap(a)

Ops64 == {"ADD", "ADD_IMM", "SUB", "SUBU_IMM", "AND_IMM_64", "ANDC", "ANDC_IMM", "OR", "OR_IMM",
          "XOR_IMM", "ROL64_IMM", "SLL64_IMM", "SLR64_IMM"}
Ops32 == {"AND_IMM_32", "SLL32", "SLL32_IMM", "SLR32_IMM", "BYTE_SWAP_32"}
BranchOps == {"BRANCH_ALWAYS", "BRANCH_GPR64", "BRANCH_GPR32_MASK_ZERO",
              "BRANCH_GPR32_MASK_NOT_ZERO", "BRANCH_GPR64_NOT_ZERO",
              "BRANCH_GPR64_NOT_ZERO_GPR64"}
MemoryOps == {"LD_IMM", "LD_32_ABS", "LD_32_REG_OFF", "LD_64_REG_OFF", "ST_ABS", "ST_REG_OFF"}
Compares == {"PPC_CMPD", "PPC_CMPDI", "PPC_CMPW", "PPC_CMPWI", "PPC_CMPLD", "PPC_CMPLDI",
             "PPC_CMPLW", "PPC_CMPLWI"}
-----------------------------------------------------------------------------
(* InterpretProcessorSpecific.  cmpd compares words, like cmpw.             *)
CompareOperands(c, x) ==
    LET a == c.gpr[x.source]
        b == c.gpr[x.source2]
    IN  CASE x.op \in {"PPC_CMPD", "PPC_CMPW"} -> <<Signed(Low(a), N), Signed(Low(b), N)>>
          [] x.op = "PPC_CMPDI" -> <<Signed(a, 2 * N), Signed(x.imm, 2 * N)>>
          [] x.op = "PPC_CMPWI" -> <<Signed(Low(a), N), Signed(x.imm, 2 * N)>>
          [] x.op = "PPC_CMPLD" -> <<a, b>>
          [] x.op = "PPC_CMPLDI" -> <<a, x.imm>>
          [] x.op = "PPC_CMPLW" -> <<Low(a), Low(b)>>
          [] x.op = "PPC_CMPLWI" -> <<Low(a), x.imm>>

(* No comparison sets SO.                                                   *)
Order(f, a, b) == IF a < b THEN Lt(f) ELSE IF a > b THEN Gt(f) ELSE Eq(f)

Compare(c, x) ==
    LET v == CompareOperands(c, x)
    IN  [c EXCEPT !.gpr[GPR_CR] = ClearCr(@, x.dest) + Order(x.dest, v[1], v[2])]

Srawi(c, x) ==
    LET value == Low(c.gpr[x.source])
    IN  [c EXCEPT !.gpr[x.dest] = Wrap(Signed(value, N) \div 2 ^ x.imm),
                  !.gpr[GPR_XER] = SetCa(@, value % 2 ^ x.imm # 0)]

(* The carry of subfic, in signed arithmetic whose overflow is undefined:   *)
(* the compiler wraps, or folds (s + imm) < s into imm < 0 and              *)
(* (s + imm + 1) < 1 into s + imm < 0.                                      *)
SubficCarries(s, imm) ==
    LET sum == Signed(Wrap(s + imm), 2 * N)
    IN  { sum < s \/ Signed(Wrap(s + imm + 1), 2 * N) < 1, imm < 0 \/ sum < 0 }

Subfic(c, x) ==
    LET s == Signed(Ones - c.gpr[x.source], 2 * N)
        imm == Signed(x.imm, 2 * N)
    IN  { [c EXCEPT !.gpr[x.dest] = Wrap(s + imm + 1), !.gpr[GPR_XER] = SetCa(@, ca)] :
              ca \in SubficCarries(s, imm) }

(* The contexts an intermediate may leave.                                  *)
InterpretIntermediate(c, x) ==
    CASE x.op \in {"NOP", "PPC_NO_EFFECT"} -> {c}
      [] x.op = "MOVE_REG" -> {SetReg(c, x.dest, ReadReg(c, x.source))}
      [] x.op \in BranchOps -> {Branch(c, x)}
      [] x.op \in MemoryOps -> {LoadStore(c, x)}
      [] x.op \in Ops64 -> {SetReg(c, GPR64(x.dest), Result64(c, x))}
      [] x.op \in Ops32 -> {SetReg(c, GPR32(x.dest), Result32(c, x))}
      [] x.op \in Compares -> {Compare(c, x)}
      [] x.op = "PPC_SRAWI" -> {Srawi(c, x)}
      [] x.op = "PPC_SUBFIC" -> Subfic(c, x)
-----------------------------------------------------------------------------
NoInstruction == [op |-> "none"]

Init ==
    /\ ctx \in Contexts
    /\ intermediates = <<>>
    /\ instr = NoInstruction
    /\ running = TRUE
    /\ retired = 0
    /\ start = ctx
    /\ previous = NoInstruction

(* Addresses stay inside the model's memory.                                *)
InMemory(i, c) ==
    LET base == IF i.ra = 0 /\ i.op \notin {"ld", "ldu", "lwa"} THEN 0 ELSE c.gpr[i.ra]
    IN  /\ i.op \in {"lwz", "ld", "ldu", "lwa", "stb", "stw", "std", "stdu", "stwu"} =>
              /\ Wrap(base + D_SI(i)) \in 0 .. MemSize - 8
              /\ c.gpr[i.ra] < D - MemSize
        /\ i.op = "lwbrx" => c.gpr[i.rb] \in 0 .. MemSize - 8

(* The fetch phase: pc already points behind the instruction afterwards.    *)
(* No instruction ends at the very top of the addresses, where pc + 4 would *)
(* wrap (bound of the model).                                               *)
Fetch ==
    /\ running
    /\ intermediates = <<>>
    /\ retired < MaxInstr
    /\ ctx.pc \in 0 .. D - 5
    /\ \E i \in Instructions :
          /\ InMemory(i, ctx)
          /\ instr' = i
          /\ intermediates' = BuildIntermediate(i, ctx.pc)
    /\ previous' = instr
    /\ start' = ctx
    /\ ctx' = [ctx EXCEPT !.pc = @ + 4]
    /\ UNCHANGED <<running, retired>>

Interpret ==
    /\ running
    /\ intermediates # <<>>
    /\ ~Fails(Head(intermediates))
    /\ ctx' \in InterpretIntermediate(ctx, Head(intermediates))
    /\ intermediates' = Tail(intermediates)
    /\ retired' = IF Len(intermediates) = 1 THEN retired + 1 ELSE retired
    /\ UNCHANGED <<instr, running, start, previous>>

(* An intermediate that fails ends Execute, and with it the machine.        *)
InterpretFails ==
    /\ running
    /\ intermediates # <<>>
    /\ Fails(Head(intermediates))
    /\ ctx' = [ctx EXCEPT !.pc = @ - 4]
    /\ running' = FALSE
    /\ UNCHANGED <<intermediates, instr, retired, start, previous>>

Next == Fetch \/ Interpret \/ InterpretFails

Spec == Init /\ [][Next]_vars
=============================================================================
