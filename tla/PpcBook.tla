------------------------------ MODULE PpcBook -------------------------------
(***************************************************************************)
(* What the architecture says of the instructions PpcOps translates: one   *)
(* operator, from the context before an instruction to the one after it.   *)
(* It is the reference the interpreter is compared with and shares none of *)
(* its intermediates.  Bits are numbered from the left, as the books do.   *)
(***************************************************************************)
EXTENDS PpcInterp

BitsFromLeft(bits) == {2 * N - 1 - b : b \in bits}

(* Ones from bit mb to bit me, around the end of the register if mb > me.   *)
BookMask(mb, me) ==
    Num(BitsFromLeft(IF mb <= me THEN mb .. me
                                 ELSE (0 .. 2 * N - 1) \ (me + 1 .. mb - 1)))

(* A word is rotated with a copy of itself beside it.                       *)
Rotl32(word, n) == Rotl(word * W + word, n)

GuestByte(c, a) == c.mem[HostByte(a)]
GuestWord(c, ea) ==
    FourBytes(GuestByte(c, ea), GuestByte(c, ea + 1), GuestByte(c, ea + 2), GuestByte(c, ea + 3))
GuestDouble(c, ea) == GuestWord(c, ea) * W + GuestWord(c, ea + 4)

GuestStore(c, ea, bytes, value) ==
    [c EXCEPT !.mem = [a \in DOMAIN @ |->
        LET k == HostByte(a) - ea
        IN  IF k \in 0 .. bytes - 1
              THEN Byte(value, bytes - 1 - k)
              ELSE @[a]]]

Base(i, c) == IF i.ra = 0 THEN 0 ELSE c.gpr[i.ra]
EA(i, c) == Low(Base(i, c) + (IF i.op = "lwbrx" THEN c.gpr[i.rb] ELSE D_SI(i)))

Put(c, r, value) == [c EXCEPT !.gpr[r] = value]
CrBit(c, b) == And(c.gpr[GPR_CR], 2 ^ (N - 1 - b)) # 0

(* A comparison copies the summary overflow of XER.                         *)
PutOrder(c, f, a, b) ==
    Put(c, GPR_CR, ClearCr(c.gpr[GPR_CR], f) + Order(f, a, b)
                     + (IF And(c.gpr[GPR_XER], XerSo) # 0 THEN So(f) ELSE 0))

BookCompare(i, c) ==
    LET a == c.gpr[i.ra]
        b == IF i.op \in {"cmp", "cmpl"} THEN c.gpr[i.rb]
             ELSE IF i.op = "cmpi" THEN D_SI(i) ELSE D_UI(i)
        bits == IF i.l THEN 2 * N ELSE N
        Value(x) == IF i.op \in {"cmp", "cmpi"} THEN Signed(x % 2 ^ bits, bits) ELSE x % 2 ^ bits
    IN  PutOrder(c, i.bf, Value(a), Value(b))

BookRotate(i, c) ==
    LET s == c.gpr[i.rt]
        keep(mask, value) == And(value, mask)
    IN  CASE i.op = "rlwinm" -> And(Rotl32(Low(s), i.sh), BookMask(i.mb + N, i.me + N))
          [] i.op = "rldicl" -> And(Rotl(s, i.sh), BookMask(i.mb, 2 * N - 1))
          [] i.op = "rldicr" -> And(Rotl(s, i.sh), BookMask(0, i.mb))
          [] i.op = "rldimi" ->
                LET m == BookMask(i.mb, 2 * N - 1 - i.sh)
                IN  Or(And(Rotl(s, i.sh), m), Andc(c.gpr[i.ra], m))

(* The special registers that are kept among the registers.                 *)
BookSpr ==
    [s \in {SPR_XER, SPR_LR, SPR_CTR, SPR_SPRG0, SPR_SPRG1, SPR_SPRG2, SPR_SPRG3} |->
        CASE s = SPR_XER -> GPR_XER
          [] s = SPR_LR -> GPR_LR
          [] s = SPR_CTR -> GPR_CTR
          [] s = SPR_SPRG0 -> GPR_SPRG0
          [] s = SPR_SPRG1 -> GPR_SPRG1
          [] s = SPR_SPRG2 -> GPR_SPRG2
          [] s = SPR_SPRG3 -> GPR_SPRG3]

BookMfspr(i, c) ==
    Put(c, i.rt, IF i.spr \in DOMAIN BookSpr THEN c.gpr[BookSpr[i.spr]] ELSE c.sys[i.spr])
BookMtspr(i, c) ==
    IF i.spr \in DOMAIN BookSpr THEN Put(c, BookSpr[i.spr], c.gpr[i.rt])
                                ELSE [c EXCEPT !.sys[i.spr] = c.gpr[i.rt]]
-----------------------------------------------------------------------------
(* Branches: BO says whether CTR is decremented and tested, and which value *)
(* of the condition is wanted.                                              *)
BoBit(i, k) == (i.bo \div 2 ^ (4 - k)) % 2 = 1
CtrAfter(i, c) == IF BoBit(i, 2) THEN c.gpr[GPR_CTR] ELSE Wrap(c.gpr[GPR_CTR] - 1)
CtrTested(i, c) == IF Is64Bit(c) THEN CtrAfter(i, c) ELSE Low(CtrAfter(i, c))
CtrOk(i, c) == BoBit(i, 2) \/ (CtrTested(i, c) # 0) # BoBit(i, 3)
CondOk(i, c) == BoBit(i, 0) \/ CrBit(c, i.bi) = BoBit(i, 1)

BookTarget(i, c) ==
    CASE i.op \in {"b", "bc"} -> IF i.aa THEN D_SI(i) ELSE Wrap(c.pc + D_SI(i))
      [] i.op = "bclr" -> (c.gpr[GPR_LR] \div 4) * 4
      [] i.op = "bcctr" -> (c.gpr[GPR_CTR] \div 4) * 4

BookBranch(i, c) ==
    LET taken == i.op = "b" \/ (CtrOk(i, c) /\ CondOk(i, c))
        counted == IF i.op = "b" THEN c ELSE Put(c, GPR_CTR, CtrAfter(i, c))
        linked == IF i.lk THEN Put(counted, GPR_LR, c.pc + 4) ELSE counted
    IN  IF taken THEN SetPC(linked, BookTarget(i, c)) ELSE [linked EXCEPT !.pc = c.pc + 4]
-----------------------------------------------------------------------------
BookPlain(i, c) ==
    LET s == c.gpr[i.rt]
        a == c.gpr[i.ra]
        b == c.gpr[i.rb]
        ea == EA(i, c)
    IN  CASE i.op = "addi" -> Put(c, i.rt, Wrap(Base(i, c) + D_SI(i)))
          [] i.op = "addis" -> Put(c, i.rt, Wrap(Base(i, c) + D_SI(i) * Half))
          [] i.op = "add" -> Put(c, i.rt, Wrap(a + b))
          [] i.op = "subf" -> Put(c, i.rt, Wrap(b - a))
          [] i.op = "subfic" ->
                [Put(c, i.rt, Wrap(D_SI(i) - a)) EXCEPT !.gpr[GPR_XER] = SetCa(@, a <= D_SI(i))]
          [] i.op = "or" -> Put(c, i.ra, Or(s, b))
          [] i.op = "andc" -> Put(c, i.ra, Andc(s, b))
          [] i.op = "ori" -> Put(c, i.ra, Or(s, D_UI(i)))
          [] i.op = "oris" -> Put(c, i.ra, Or(s, D_UI(i) * Half))
          [] i.op = "xoris" -> Put(c, i.ra, Xor(s, D_UI(i) * Half))
          [] i.op = "slw" ->
                Put(c, i.ra, IF b % (2 * N) >= N THEN 0 ELSE Low(Low(s) * 2 ^ (b % (2 * N))))
          [] i.op = "srawi" ->
                LET word == Signed(Low(s), N)
                IN  [Put(c, i.ra, Wrap(word \div 2 ^ i.sh)) EXCEPT
                        !.gpr[GPR_XER] = SetCa(@, word < 0 /\ word % 2 ^ i.sh # 0)]
          [] i.op \in {"rlwinm", "rldicl", "rldicr", "rldimi"} -> Put(c, i.ra, BookRotate(i, c))
          [] i.op \in {"cmp", "cmpi", "cmpl", "cmpli"} -> BookCompare(i, c)
          [] i.op = "crxor" -> Put(c, GPR_CR, Andc(c.gpr[GPR_CR], 2 ^ (N - 1 - i.bt)))
          [] i.op = "mfcr" -> Put(c, i.rt, Low(c.gpr[GPR_CR]))
          [] i.op = "mtcrf" -> Put(c, GPR_CR, SetLow(c.gpr[GPR_CR], Low(s)))
          [] i.op = "mfmsr" -> Put(c, i.rt, c.sys[SPR_MSR])
          [] i.op = "mfspr" -> BookMfspr(i, c)
          [] i.op = "mtspr" -> BookMtspr(i, c)
          [] i.op = "lwz" -> Put(c, i.rt, GuestWord(c, ea))
          [] i.op = "lwa" -> Put(c, i.rt, Wrap(Signed(GuestWord(c, ea), N)))
          [] i.op = "lwbrx" -> Put(c, i.rt, ByteSwap(GuestWord(c, ea)))
          [] i.op = "ld" -> Put(c, i.rt, GuestDouble(c, ea))
          [] i.op = "ldu" -> Put(Put(c, i.ra, Wrap(a + D_SI(i))), i.rt, GuestDouble(c, ea))
          [] i.op = "stb" -> GuestStore(c, ea, 1, s)
          [] i.op = "stw" -> GuestStore(c, ea, 4, s)
          [] i.op = "std" -> GuestStore(c, ea, 8, s)
          [] i.op = "stwu" -> Put(GuestStore(c, ea, 4, s), i.ra, Wrap(a + D_SI(i)))
          [] i.op = "stdu" -> Put(GuestStore(c, ea, 8, s), i.ra, Wrap(a + D_SI(i)))
          [] OTHER -> c

Book(i, c) ==
    IF i.op \in {"b", "bc", "bclr", "bcctr"} THEN BookBranch(i, c)
                                             ELSE [BookPlain(i, c) EXCEPT !.pc = c.pc + 4]
-----------------------------------------------------------------------------
(* Where the code is known to differ from the architecture, and for which   *)
(* operands.  Each line is a disagreement the README lists.                 *)
IsWord(x) == Signed(Low(x), N) = Signed(x, 2 * N)
WordAccesses == {"lwz", "lwbrx", "ld", "stw", "stwu", "std"}

Diverges(i, c) ==
    LET a == c.gpr[i.ra]
        s == c.gpr[i.rt]
    IN  \/ i.op \in {"ldu", "lwa", "stdu"}                    \* taken for ld and std
        \/ i.op = "ld" /\ i.ra = 0 /\ a # 0                   \* adds r0 instead of 0
        \/ i.op \in WordAccesses /\ EA(i, c) % 4 # 0          \* mixes the bytes of two words
        \/ i.op = "slw" /\ c.gpr[i.rb] % (2 * N) >= N         \* shifts modulo the word size
        \/ i.op \in {"slw", "rlwinm"} /\ High(a) # 0          \* keeps the old high word
        \/ i.op = "cmp" /\ i.l /\ ~(IsWord(a) /\ IsWord(c.gpr[i.rb]))  \* compares low words
        \/ i.op \in {"cmp", "cmpi", "cmpl", "cmpli"} /\ And(c.gpr[GPR_XER], XerSo) # 0
        \/ i.op = "srawi" /\ Low(s) < W \div 2 /\ Low(s) % 2 ^ i.sh # 0  \* carries if positive
        \/ i.op = "subfic" /\ a # D_SI(i)                     \* has the carry wrong, unless
              /\ ~(D \div 2 <= a /\ a <= D_SI(i))             \*   both are negative
        \/ i.op = "rldimi" /\ (i.rt = i.ra \/ i.sh + i.mb >= 2 * N)  \* clears its source first
        \/ i.op = "bc" /\ i.bo = 25 /\ ~Is64Bit(c)            \* tests all of CTR
        \/ i.op = "bclr" /\ c.gpr[GPR_LR] % 4 # 0             \* keeps the low bits of LR
        \/ i.op = "bcctr" /\ c.gpr[GPR_CTR] % 4 # 0
        \/ i.op = "mfspr" /\ i.spr \in {SPR_SPRG0, SPR_SPRG3} \* reads another register
        \/ i.op = "mtspr" /\ i.spr = SPR_HRMOR                \* keeps the address bits only
-----------------------------------------------------------------------------
Executing == instr # NoInstruction
Completed == running /\ Executing /\ intermediates = <<>>

(* Everything but the translator's scratch register.                        *)
Visible(c) == [c EXCEPT !.gpr[GPR_TEMP] = 0]

(* Registers and memory hold values of their widths.                        *)
TypeOK ==
    /\ ctx \in CpuContexts
    /\ Len(intermediates) <= 4
    /\ running \in BOOLEAN
    /\ retired \in 0 .. MaxInstr

(* A completed instruction, however many intermediates it took, leaves the  *)
(* registers, the memory and the pc as the architecture says, except where  *)
(* Diverges lists that the code does not.                                   *)
MeetsBook ==
    Completed /\ ~Diverges(instr, start) => Visible(ctx) = Visible(Book(instr, start))

(* While an intermediate may still fail or fault, nothing the guest can see *)
(* has changed: the handlers step pc back by 4 and the instruction can be   *)
(* executed again (PpcCpu::Execute).                                        *)
Accesses(x) == x.op \in MemoryOps \ {"LD_IMM"}
Restartable ==
    (Executing /\ intermediates # <<>>
        /\ (Fails(Head(intermediates)) \/ Accesses(Head(intermediates)))) =>
        Visible(ctx) = Visible([start EXCEPT !.pc = IF running THEN @ + 4 ELSE @])

(* A special register moved from and then back to a register has the value  *)
(* that was moved there: `mtspr` and `mfspr` of one number name one         *)
(* register (PowerPCIntermediateBuilder, cases SPECIAL_XO_MTSPR and MFSPR). *)
SprReadsBack ==
    (/\ Completed
     /\ instr.op = "mfspr"
     /\ previous.op = "mtspr"
     /\ previous.spr = instr.spr) => ctx.gpr[instr.rt] = start.gpr[previous.rt]
=============================================================================
