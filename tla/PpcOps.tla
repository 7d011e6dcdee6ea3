------------------------------- MODULE PpcOps -------------------------------
(***************************************************************************)
(* PowerPC instructions and the intermediates they are translated into:    *)
(* PowerPCIntermediateBuilder.cpp, InterInstr.h and PowerPCHelpers.h.      *)
(*                                                                         *)
(* A word has N bits instead of 32; everything the code derives from that  *)
(* scales with it: a register has 2N bits, a half word and an immediate    *)
(* N / 2, a byte N / 4, and the condition register N / 4 fields.           *)
(* The registers are those of the context, by their number there; a high   *)
(* word is named by its own operand type instead of its byte offset.       *)
(***************************************************************************)
EXTENDS Integers, Sequences, FiniteSets, FiniteSetsExt

CONSTANTS
    N,         \* bits of a word (32 in the code)
    NumGprs    \* general registers (32 in the code)

(* A shift count is taken modulo N, so N divides the number of words.       *)
ASSUME NAssumption == N \in Nat /\ N >= 8 /\ N % 4 = 0 /\ (2 ^ N) % N = 0
ASSUME NumGprsAssumption == NumGprs \in 1 .. 32

W == 2 ^ N
D == 2 ^ (2 * N)
Half == 2 ^ (N \div 2)
ByteBits == N \div 4
Values == 0 .. D - 1

Low(x) == x % W
High(x) == x \div W
Wrap(x) == x % D
Signed(x, bits) == IF x >= 2 ^ (bits - 1) THEN x - 2 ^ bits ELSE x

BitsOf(x) == {b \in 0 .. 2 * N - 1 : (x \div 2 ^ b) % 2 = 1}
Num(bits) == MapThenSumSet(LAMBDA b : 2 ^ b, bits)

And(x, y) == Num(BitsOf(x) \cap BitsOf(y))
Andc(x, y) == Num(BitsOf(x) \ BitsOf(y))
Or(x, y) == Num(BitsOf(x) \union BitsOf(y))
Xor(x, y) == Num((BitsOf(x) \ BitsOf(y)) \union (BitsOf(y) \ BitsOf(x)))
Rotl(x, n) == Wrap(x * 2 ^ n) + x \div 2 ^ (2 * N - n)

Ones == D - 1
-----------------------------------------------------------------------------
(* Registers of the context.                                                *)
GPR_LR == 32
GPR_CTR == 33
GPR_SPRG0 == 34
GPR_SPRG1 == 35
GPR_SPRG2 == 36
GPR_SPRG3 == 37
GPR_CR == 38
GPR_XER == 39
GPR_TEMP == 40

SPR_XER == 1
SPR_LR == 8
SPR_CTR == 9
SPR_DAR == 19
SPR_SRR0 == 26
SPR_SRR1 == 27
SPR_SPRG0 == 272
SPR_SPRG1 == 273
SPR_SPRG2 == 274
SPR_SPRG3 == 275
SPR_HRMOR == 313
SPR_LPCR == 318
SPR_LPIDR == 319
SPR_HID6 == 1017
SPR_PIR == 1023
SPR_MSR == 1024

(* Fields of an instruction, each as wide as its encoding: registers rt (or *)
(* rs), ra, rb; imm is an immediate without its sign.  The shift counts and *)
(* masks of the instructions on words are narrower.                         *)
Gprs == 0 .. NumGprs - 1
Encodings ==
    {i \in [op : STRING, rt : Gprs, ra : Gprs, rb : Gprs, imm : 0 .. Half - 1,
            sh : 0 .. 2 * N - 1, mb : 0 .. 2 * N - 1, me : 0 .. N - 1,
            bo : 0 .. 31, bi : 0 .. N - 1, lk : BOOLEAN, aa : BOOLEAN,
            bf : 0 .. N \div 4 - 1, l : BOOLEAN, spr : 0 .. 1023,
            fxm : 0 .. 2 ^ (N \div 4) - 1, rc : BOOLEAN,
            bt : 0 .. N - 1, ba : 0 .. N - 1, bb : 0 .. N - 1] :
        i.op \in {"rlwinm", "srawi"} => i.sh < N /\ i.mb < N}

D_SI(i) == Wrap(Signed(i.imm, N \div 2))
D_UI(i) == i.imm
B_Target(i, at) == IF i.aa THEN D_SI(i) ELSE Wrap(at + D_SI(i))
-----------------------------------------------------------------------------
(* InterInstr.h: operands and intermediates.                                *)
GPR8(r) == [type |-> "GPR8", reg |-> r]
GPR32(r) == [type |-> "GPR32", reg |-> r]
GPR32High(r) == [type |-> "GPR32HIGH", reg |-> r]
GPR64(r) == [type |-> "GPR64", reg |-> r]
SYS64(s) == [type |-> "SYS64", reg |-> s]

Unknown == [op |-> "UNKNOWN_OPCODE"]
Invalid == [op |-> "INVALID_OPCODE"]
Nop == [op |-> "NOP"]
MoveReg(dest, source) == [op |-> "MOVE_REG", dest |-> dest, source |-> source]

BranchAlways(target) == [op |-> "BRANCH_ALWAYS", target |-> target]
BranchGpr64(r) == [op |-> "BRANCH_GPR64", source |-> r]
BranchGpr32MaskZero(r, mask, target) ==
    [op |-> "BRANCH_GPR32_MASK_ZERO", source |-> r, imm |-> mask, target |-> target]
BranchGpr32MaskNotZero(r, mask, target) ==
    [op |-> "BRANCH_GPR32_MASK_NOT_ZERO", source |-> r, imm |-> mask, target |-> target]
BranchGpr64NotZero(r, target) ==
    [op |-> "BRANCH_GPR64_NOT_ZERO", source |-> r, target |-> target]
BranchGpr64NotZeroGpr64(r, t) ==
    [op |-> "BRANCH_GPR64_NOT_ZERO_GPR64", source |-> r, target |-> t]

LoadImm(dest, value) == [op |-> "LD_IMM", dest |-> dest, imm |-> value]
Load32Abs(dest, addr) == [op |-> "LD_32_ABS", dest |-> dest, imm |-> addr]
Load32RegOffset(dest, addrReg, offset) ==
    [op |-> "LD_32_REG_OFF", dest |-> dest, addr |-> addrReg, imm |-> offset]
Load64RegOffset(dest, addrReg, offset) ==
    [op |-> "LD_64_REG_OFF", dest |-> dest, addr |-> addrReg, imm |-> offset]
StoreAbs(value, addr) == [op |-> "ST_ABS", value |-> value, imm |-> addr]
StoreRegOffset(value, addrReg, offset) ==
    [op |-> "ST_REG_OFF", value |-> value, addr |-> addrReg, imm |-> offset]

Reg3(op, source1, source2, dest) ==
    [op |-> op, source |-> source1, source2 |-> source2, dest |-> dest]
RegImm(op, source, dest, imm) ==
    [op |-> op, source |-> source, dest |-> dest, imm |-> imm]

ClearHigh(r) == LoadImm(GPR32High(r), 0)
Link(i, at) == IF i.lk THEN <<LoadImm(GPR64(GPR_LR), at + 4)>> ELSE <<>>
-----------------------------------------------------------------------------
BuildIntermediateBcc(i, at) ==
    LET target == Wrap(at + D_SI(i))
        mask == 2 ^ (N - 1 - i.bi)
    IN  CASE i.aa -> <<Unknown>>
          [] ~i.aa /\ i.bo \in {4, 6, 7} ->
                <<BranchGpr32MaskZero(GPR_CR, mask, target)>> \o Link(i, at)
          [] ~i.aa /\ i.bo \in {12, 15} ->
                <<BranchGpr32MaskNotZero(GPR_CR, mask, target)>> \o Link(i, at)
          [] ~i.aa /\ i.bo = 20 -> <<BranchAlways(target)>> \o Link(i, at)
          [] ~i.aa /\ i.bo = 25 ->
                <<RegImm("SUBU_IMM", GPR_CTR, GPR_CTR, 1),
                  BranchGpr64NotZero(GPR_CTR, target)>> \o Link(i, at)
          [] OTHER -> <<Unknown>>

BuildMfspr(i) ==
    CASE i.spr = SPR_LR -> MoveReg(GPR64(i.rt), GPR64(GPR_LR))
      [] i.spr = SPR_CTR -> MoveReg(GPR64(i.rt), GPR64(GPR_CTR))
      [] i.spr = SPR_SPRG0 -> MoveReg(GPR64(i.rt), GPR64(GPR_CTR))
      [] i.spr = SPR_SPRG1 -> MoveReg(GPR64(i.rt), GPR64(GPR_SPRG1))
      [] i.spr = SPR_SPRG2 -> MoveReg(GPR64(i.rt), GPR64(GPR_SPRG2))
      [] i.spr = SPR_SPRG3 -> MoveReg(GPR64(i.rt), GPR64(GPR_SPRG2))
      [] OTHER -> MoveReg(GPR64(i.rt), SYS64(i.spr))

BuildMtspr(i) ==
    CASE i.spr = SPR_LR -> MoveReg(GPR64(GPR_LR), GPR64(i.rt))
      [] i.spr = SPR_CTR -> MoveReg(GPR64(GPR_CTR), GPR64(i.rt))
      [] i.spr = SPR_SPRG0 -> MoveReg(GPR64(GPR_SPRG0), GPR64(i.rt))
      [] i.spr = SPR_SPRG1 -> MoveReg(GPR64(GPR_SPRG1), GPR64(i.rt))
      [] i.spr = SPR_SPRG2 -> MoveReg(GPR64(GPR_SPRG2), GPR64(i.rt))
      [] i.spr = SPR_SPRG3 -> MoveReg(GPR64(GPR_SPRG3), GPR64(i.rt))
      [] OTHER -> MoveReg(SYS64(i.spr), GPR64(i.rt))

BuildLwbrx(i) ==
    IF i.ra = 0
    THEN <<Load32RegOffset(GPR32(i.rt), i.rb, 0),
           RegImm("BYTE_SWAP_32", i.rt, i.rt, 0), ClearHigh(i.rt)>>
    ELSE <<Unknown>>

OrUnknown(i, x) == IF i.rc THEN Unknown ELSE x

(* Reservations and the return from an interrupt are in module PpcCpu.      *)
(* The record forms are unknown, except that srawi. fails when it is        *)
(* interpreted.  So is mfocrf, which is mfcr with bit 20 set; mtcrf is not  *)
(* told from mtocrf.  SLBs and TLB invalidations leave the context alone.   *)
BuildIntermediateSpecial(i) ==
    CASE i.op = "add" -> <<OrUnknown(i, Reg3("ADD", i.ra, i.rb, i.rt))>>
      [] i.op = "andc" -> <<OrUnknown(i, Reg3("ANDC", i.rt, i.rb, i.ra))>>
      [] i.op = "cmp" ->
            <<Reg3(IF i.l THEN "PPC_CMPD" ELSE "PPC_CMPW", i.ra, i.rb, i.bf)>>
      [] i.op = "cmpl" ->
            <<Reg3(IF i.l THEN "PPC_CMPLD" ELSE "PPC_CMPLW", i.ra, i.rb, i.bf)>>
      [] i.op \in {"eieio", "sync"} -> <<Nop>>
      [] i.op = "lwbrx" -> BuildLwbrx(i)
      [] i.op = "mfcr" -> <<MoveReg(GPR32(i.rt), GPR32(GPR_CR)), ClearHigh(i.rt)>>
      [] i.op = "mfocrf" -> <<Unknown>>
      [] i.op = "mfmsr" -> <<MoveReg(GPR64(i.rt), SYS64(SPR_MSR))>>
      [] i.op = "mfspr" -> <<BuildMfspr(i)>>
      [] i.op = "mtcrf" ->
            IF i.fxm = 2 ^ (N \div 4) - 1 THEN <<MoveReg(GPR32(GPR_CR), GPR32(i.rt))>>
                                          ELSE <<Unknown>>
      [] i.op = "mtspr" -> <<BuildMtspr(i)>>
      [] i.op = "or" -> <<OrUnknown(i, Reg3("OR", i.rt, i.rb, i.ra))>>
      [] i.op \in {"slbia", "slbmte", "tlbiel"} -> <<[op |-> "PPC_NO_EFFECT"]>>
      [] i.op = "slw" -> <<OrUnknown(i, Reg3("SLL32", i.rt, i.rb, i.ra))>>
      [] i.op = "srawi" ->
            <<[op |-> "PPC_SRAWI", source |-> i.rt, dest |-> i.ra, imm |-> i.sh, rc |-> i.rc]>>
      [] i.op = "subf" -> <<OrUnknown(i, Reg3("SUB", i.ra, i.rb, i.rt))>>
      [] OTHER -> <<Unknown>>
-----------------------------------------------------------------------------
(* Of bclr, bcctr and crxor one encoding or two are known: blr, beqlr on    *)
(* the last field, bctrl, and the crclr of bit 6.                           *)
BuildIntermediateTable19(i, at) ==
    CASE i.op = "bclr" /\ i.bo = 20 /\ i.bi = 0 /\ ~i.lk -> <<BranchGpr64(GPR_LR)>>
      [] i.op = "bclr" /\ i.bo = 12 /\ i.bi = N - 2 /\ ~i.lk ->
            <<RegImm("AND_IMM_64", GPR_CR, GPR_TEMP, 2),
              BranchGpr64NotZeroGpr64(GPR_TEMP, GPR_LR)>>
      [] i.op = "bcctr" /\ i.bo = 20 /\ i.bi = 0 /\ i.lk ->
            <<BranchGpr64(GPR_CTR), LoadImm(GPR64(GPR_LR), at + 4)>>
      [] i.op = "crxor" /\ i.bt = 6 /\ i.ba = 6 /\ i.bb = 6 ->
            <<RegImm("AND_IMM_32", GPR_CR, GPR_CR, W - 1 - 2 ^ (N - 7))>>
      [] i.op = "isync" -> <<Nop>>
      [] OTHER -> <<Unknown>>

(* rlwinm: the code lists nine instructions of these four families, clrlwi, *)
(* clrrwi, slwi and srwi, at its own word size.                             *)
BuildRotate21(i) ==
    CASE ~i.rc /\ i.sh = 0 /\ i.mb > 0 /\ i.me = N - 1 ->
            RegImm("AND_IMM_64", i.rt, i.ra, 2 ^ (N - i.mb) - 1)
      [] ~i.rc /\ i.sh = 0 /\ i.mb = 0 /\ i.me < N - 1 ->
            RegImm("AND_IMM_64", i.rt, i.ra, W - 2 ^ (N - 1 - i.me))
      [] ~i.rc /\ i.sh > 0 /\ i.mb = 0 /\ i.me = N - 1 - i.sh ->
            RegImm("SLL32_IMM", i.rt, i.ra, i.sh)
      [] ~i.rc /\ i.sh > 0 /\ i.mb = N - i.sh /\ i.me = N - 1 ->
            RegImm("SLR32_IMM", i.rt, i.ra, i.mb)
      [] OTHER -> Unknown

BuildRotateAnd(i, mask) ==
    <<RegImm("ROL64_IMM", i.rt, i.ra, i.sh), RegImm("AND_IMM_64", i.ra, i.ra, mask)>>

(* Mutant: the mask that keeps the left bits is one bit short.              *)
LeftOnes_Bug(last) == Wrap((Ones - 1) * 2 ^ (2 * N - 1 - last))

(* Ones from the left up to bit last.                                       *)
LeftOnes(last) == Wrap(Ones * 2 ^ (2 * N - 1 - last))

(* The shift counts of the masks are taken modulo the register size, as the *)
(* processor does.                                                          *)
BuildRotate30(i) ==
    LET right == Ones \div 2 ^ i.mb
        left == LeftOnes(i.mb)
        inserted == Wrap((Ones \div 2 ^ ((i.sh + i.mb) % (2 * N))) * 2 ^ i.sh)
    IN  CASE i.rc -> <<Unknown>>
          [] ~i.rc /\ i.op = "rldicl" /\ i.sh = 0 -> <<RegImm("AND_IMM_64", i.rt, i.ra, right)>>
          [] ~i.rc /\ i.op = "rldicl" /\ i.sh # 0 /\ 2 * N - i.sh = i.mb ->
                <<RegImm("SLR64_IMM", i.rt, i.ra, i.mb)>>
          [] ~i.rc /\ i.op = "rldicl" /\ i.sh # 0 /\ 2 * N - i.sh # i.mb ->
                BuildRotateAnd(i, right)
          [] ~i.rc /\ i.op = "rldicr" /\ i.sh = 0 -> <<RegImm("AND_IMM_64", i.rt, i.ra, left)>>
          [] ~i.rc /\ i.op = "rldicr" /\ i.sh # 0 /\ 2 * N - 1 - i.mb = i.sh ->
                <<RegImm("SLL64_IMM", i.rt, i.ra, i.sh)>>
          [] ~i.rc /\ i.op = "rldicr" /\ i.sh # 0 /\ 2 * N - 1 - i.mb # i.sh ->
                BuildRotateAnd(i, left)
          [] ~i.rc /\ i.op = "rldimi" ->
                <<RegImm("ANDC_IMM", i.ra, i.ra, inserted),
                  RegImm("ROL64_IMM", i.rt, GPR_TEMP, i.sh),
                  RegImm("AND_IMM_64", GPR_TEMP, GPR_TEMP, inserted),
                  Reg3("OR", GPR_TEMP, i.ra, i.ra)>>
          [] OTHER -> <<Unknown>>
-----------------------------------------------------------------------------
OrImmediate(i, imm) ==
    IF i.rt = 0 /\ i.ra = 0 /\ imm = 0 THEN Nop ELSE RegImm("OR_IMM", i.rt, i.ra, imm)

AddImmediate(i, imm) ==
    IF i.ra = 0 THEN LoadImm(GPR64(i.rt), imm) ELSE RegImm("ADD_IMM", i.ra, i.rt, imm)

(* Mutant: stwu updates its base before it stores.                          *)
BuildStwu_Bug(i) ==
    IF i.ra = 0 THEN <<Invalid>>
    ELSE <<RegImm("ADD_IMM", i.ra, i.ra, D_SI(i)), StoreRegOffset(GPR32(i.rt), i.ra, 0)>>

BuildStwu(i) ==
    IF i.ra = 0 THEN <<Invalid>>
    ELSE <<RegImm("ADD_IMM", i.ra, GPR_TEMP, D_SI(i)),
           StoreRegOffset(GPR32(i.rt), GPR_TEMP, 0),
           RegImm("ADD_IMM", i.ra, i.ra, D_SI(i))>>

(* The code does not look at the two bits that tell ldu and lwa from ld,    *)
(* and stdu from std.                                                       *)
BuildIntermediateStore(i) ==
    CASE i.op = "stb" ->
            <<IF i.ra = 0 THEN Unknown ELSE StoreRegOffset(GPR8(i.rt), i.ra, D_SI(i))>>
      [] i.op = "stw" -> <<IF i.ra = 0 THEN StoreAbs(GPR32(i.rt), D_SI(i))
                                       ELSE StoreRegOffset(GPR32(i.rt), i.ra, D_SI(i))>>
      [] i.op \in {"std", "stdu"} -> <<IF i.ra = 0 THEN StoreAbs(GPR64(i.rt), D_SI(i))
                                         ELSE StoreRegOffset(GPR64(i.rt), i.ra, D_SI(i))>>
      [] i.op = "stwu" -> BuildStwu(i)

BuildIntermediate(i, at) ==
    CASE i.op = "addi" -> <<AddImmediate(i, D_SI(i))>>
      [] i.op = "addis" -> <<AddImmediate(i, Wrap(D_SI(i) * Half))>>
      [] i.op = "bc" -> BuildIntermediateBcc(i, at)
      [] i.op = "b" -> Link(i, at) \o <<BranchAlways(B_Target(i, at))>>
      [] i.op = "cmpi" ->
            <<RegImm(IF i.l THEN "PPC_CMPDI" ELSE "PPC_CMPWI", i.ra, i.bf, D_SI(i))>>
      [] i.op = "cmpli" ->
            <<RegImm(IF i.l THEN "PPC_CMPLDI" ELSE "PPC_CMPLWI", i.ra, i.bf, D_UI(i))>>
      [] i.op = "lwz" -> <<IF i.ra = 0 THEN Load32Abs(GPR32(i.rt), D_SI(i))
                                       ELSE Load32RegOffset(GPR32(i.rt), i.ra, D_SI(i)),
                           ClearHigh(i.rt)>>
      [] i.op \in {"ld", "ldu", "lwa"} -> <<Load64RegOffset(GPR64(i.rt), i.ra, D_SI(i))>>
      [] i.op = "rlwinm" -> <<BuildRotate21(i)>>
      [] i.op \in {"rldicl", "rldicr", "rldic", "rldimi"} -> BuildRotate30(i)
      [] i.op = "ori" -> <<OrImmediate(i, D_UI(i))>>
      [] i.op = "oris" -> <<OrImmediate(i, D_UI(i) * Half)>>
      [] i.op \in {"stb", "stw", "std", "stdu", "stwu"} -> BuildIntermediateStore(i)
      [] i.op = "subfic" -> <<RegImm("PPC_SUBFIC", i.ra, i.rt, D_SI(i))>>
      [] i.op \in {"bclr", "bcctr", "crxor", "isync"} -> BuildIntermediateTable19(i, at)
      [] i.op = "xoris" -> <<RegImm("XOR_IMM", i.rt, i.ra, D_UI(i) * Half)>>
      [] OTHER -> BuildIntermediateSpecial(i)
=============================================================================
