------------------------------- MODULE Sh4aOps -------------------------------
(***************************************************************************)
(* The instructions of the emulated SH-4A, as Sh4aCpu::Execute             *)
(* (vmm/Sh4aCpu.cpp) carries them out on the registers it sees, and the    *)
(* address space its loads and stores meet.  Sh4aArch and Sh4aCpu share    *)
(* these; they differ in how the pc moves and where registers live.        *)
(*                                                                         *)
(* A byte has B values instead of 256, a word four bytes.  Of the sixteen  *)
(* registers two banked ones and an unbanked one are kept.  An instruction *)
(* is a record: op, registers n and m, displacement or immediate d, and    *)
(* the control register c of lds and sts.                                  *)
(***************************************************************************)
EXTENDS Integers, Sequences, FiniteSets

CONSTANTS
    B,          \* values of a byte (256 in the code)
    MemBytes    \* bytes of RAM behind the start of physical memory

ASSUME BAssumption == B \in {8, 16, 32, 64, 128, 256}
ASSUME MemAssumption == MemBytes \in 0 .. 64

Half == B * B
W == B * B * B * B
Words == 0 .. W - 1

Banked == {0, 1}                \* gpr[0 .. 7]
Unbanked == {8}                 \* gpr[8 .. 15]
Regs == Banked \union Unbanked
CtlRegs == {"mach", "macl", "pr", "fpul", "fpscr", "gbr", "vbr", "ssr", "spc", "dbr"}

Signed(x) == IF x >= W \div 2 THEN x - W ELSE x
SignExtend(x, values) == IF x >= values \div 2 THEN (x - values) % W ELSE x
Bit(condition) == IF condition THEN 1 ELSE 0

(* The bitwise and of words of 1, 2, 4, 8, 16 and 32 bits: of their halves. *)
And1(x, y) == x * y
And2(x, y) == 2 * And1(x \div 2, y \div 2) + And1(x % 2, y % 2)
And4(x, y) == 4 * And2(x \div 4, y \div 4) + And2(x % 4, y % 4)
And8(x, y) == 16 * And4(x \div 16, y \div 16) + And4(x % 16, y % 16)
And16(x, y) == 256 * And8(x \div 256, y \div 256) + And8(x % 256, y % 256)
And(x, y) == 65536 * And16(x \div 65536, y \div 65536) + And16(x % 65536, y % 65536)
Or(x, y) == x + y - And(x, y)
Xor(x, y) == x + y - 2 * And(x, y)

(* Bits of SR.  Reserved stands for all bits outside of SR_ALL.             *)
T(sr) == sr % 2
RB(sr) == (sr \div (W \div 8)) % 2
MD(sr) == (sr \div (W \div 4)) % 2
Reserved(sr) == sr >= W \div 2 \/ (sr \div 4) % 2 = 1
WithT(sr, t) == sr - T(sr) + t

DoubleSize(fpscr) == (fpscr \div Half) % 2 = 1     \* FPSCR_SZ_BIT
-----------------------------------------------------------------------------
(* Register-to-register operations: the new value of a register and of T,   *)
(* from x = gpr[n], y = gpr[m].                                             *)
Result(value, t) == [value |-> value % W, t |-> t]

Alu2(i, x, y, t) ==
    CASE i.op = "tst" -> Result(x, Bit(And(x, y) = 0))
      [] i.op = "and" -> Result(And(x, y), t)
      [] i.op = "xor" -> Result(Xor(x, y), t)
      [] i.op = "or" -> Result(Or(x, y), t)

Alu3(i, x, y, t) ==
    CASE i.op = "cmp/eq" -> Result(x, Bit(x = y))
      [] i.op = "cmp/ge" -> Result(x, Bit(Signed(x) >= Signed(y)))
      [] i.op = "cmp/hi" -> Result(x, Bit(x > y))
      [] i.op = "sub" -> Result(x - y, t)
      [] i.op = "add" -> Result(x + y, t)

WordBits == CHOOSE n \in 12 .. 32 : 2 ^ n = W

Alu4(i, x, y, t) ==
    CASE i.op = "dt" -> Result(x - 1, Bit(x = 1))
      [] i.op = "shlr" -> Result(x \div 2, x % 2)
      [] i.op = "shar" -> Result((x \div 2) + (W \div 2) * Bit(x >= W \div 2), x % 2)
      [] i.op = "rotr" -> Result((x \div 2) + (W \div 2) * (x % 2), x % 2)
      [] i.op = "shlr2" -> Result(x \div 4, t)

ShiftLeft(i, x, y, t) ==
    CASE i.op = "shll2" -> Result(4 * x, t)
      [] i.op = "shll8" -> Result(B * x, t)
      [] i.op = "shll16" -> Result(Half * x, t)
      [] i.op \in {"shad", "shld"} -> Result(x * 2 ^ (y % WordBits), t)

Negc(y, t) ==
    LET temp == Signed((0 - y) % W)
        rn == (temp - t) % W
    IN  Result(rn, Bit(0 < temp \/ temp < Signed(rn)))

Alu6(i, x, y, t) ==
    CASE i.op = "mov" -> Result(y, t)
      [] i.op = "not" -> Result(W - 1 - y, t)
      [] i.op = "swap.b" -> Result((y - (y % Half)) + (y % B) * B + ((y % Half) \div B), t)
      [] i.op = "swap.w" -> Result((y % Half) * Half + (y \div Half), t)
      [] i.op = "negc" -> Negc(y, t)
      [] i.op = "neg" -> Result(0 - y, t)
      [] i.op = "extu.b" -> Result(y % B, t)

(* Those with an immediate; the last three work on R0.                      *)
AluImmediate(i, x, t, pc) ==
    CASE i.op = "addi" -> Result(x + i.d, t)
      [] i.op = "movi" -> Result(i.d, t)
      [] i.op = "mova" -> Result(pc + 4 + 4 * i.d, t)
      [] i.op = "tsti" -> Result(x, Bit(And(x, i.d) = 0))
      [] i.op = "xori" -> Result(Xor(x, i.d), t)
      [] i.op = "ori" -> Result(Or(x, i.d), t)

Ops2 == {"tst", "and", "xor", "or"}
Ops3 == {"cmp/eq", "cmp/ge", "cmp/hi", "sub", "add"}
Ops4 == {"dt", "shlr", "shar", "rotr", "shlr2"}
OpsShiftLeft == {"shll2", "shll8", "shll16", "shad", "shld"}
Ops6 == {"mov", "not", "swap.b", "swap.w", "negc", "neg", "extu.b"}
OpsImmediate == {"addi", "movi", "mova", "tsti", "xori", "ori"}
AluOps == Ops2 \union Ops3 \union Ops4 \union OpsShiftLeft \union Ops6 \union OpsImmediate

Alu(i, r, t, pc) ==
    CASE i.op \in Ops2 -> Alu2(i, r[i.n], r[i.m], t)
      [] i.op \in Ops3 -> Alu3(i, r[i.n], r[i.m], t)
      [] i.op \in Ops4 -> Alu4(i, r[i.n], r[i.m], t)
      [] i.op \in OpsShiftLeft -> ShiftLeft(i, r[i.n], r[i.m], t)
      [] i.op \in Ops6 -> Alu6(i, r[i.n], r[i.m], t)
      [] i.op \in OpsImmediate -> AluImmediate(i, r[i.n], t, pc)

(* Shifting a negative number with shad is not implemented and stops.       *)
AluStops(i, r) == i.op = "shad" /\ r[i.n] >= W \div 2
-----------------------------------------------------------------------------
(* Loads: the address, its size, and by how much register inc moves up.     *)
LoadOps == {"mov.l @rm", "mov.l @rm+", "mov.w @rm+", "mov.l @(disp,rm)", "mov.w @(disp,rm)",
            "mov.l @(r0,rm)", "mov.l @(disp,pc)", "mov.w @(disp,pc)"}

LoadAddr(i, r, pc) ==
    CASE i.op \in {"mov.l @rm", "mov.l @rm+", "mov.w @rm+"} -> r[i.m]
      [] i.op = "mov.l @(disp,rm)" -> (r[i.m] + 4 * i.d) % W
      [] i.op = "mov.w @(disp,rm)" -> (r[i.m] + 2 * i.d) % W
      [] i.op = "mov.l @(r0,rm)" -> (r[0] + r[i.m]) % W
      [] i.op = "mov.l @(disp,pc)" -> LET a == (pc + 4 * i.d + 4) % W IN a - (a % 4)
      [] i.op = "mov.w @(disp,pc)" -> (pc + 2 * i.d + 4) % W

LoadSize(i) == IF i.op \in {"mov.w @rm+", "mov.w @(disp,rm)", "mov.w @(disp,pc)"} THEN 2 ELSE 4

LoadValue(i, x) == IF LoadSize(i) = 2 THEN SignExtend(x, Half) ELSE x

(* The increment comes after the write, also when both are one register.    *)
Loaded(i, r, x) ==
    LET written == [r EXCEPT ![IF i.op = "mov.w @(disp,rm)" THEN 0 ELSE i.n] = LoadValue(i, x)]
    IN  IF i.op \in {"mov.l @rm+", "mov.w @rm+"}
          THEN [written EXCEPT ![i.m] = (@ + LoadSize(i)) % W]
          ELSE written

(* Stores: a predecrement is computed in 64 bits, so that one from below 4  *)
(* leaves the low 4 GiB (a negative address here).                          *)
StoreOps == {"mov.b @rn", "mov.w @rn", "mov.l @rn", "mov.w @-rn", "mov.l @-rn",
             "mov.l @(disp,rn)", "mov.w @(disp,rn)", "mov.l @(r0,rn)",
             "sts.l @-rn", "fmov.s @rn", "fmov.s @-rn"}

Predecrement == {"mov.w @-rn", "mov.l @-rn", "sts.l @-rn", "fmov.s @-rn"}

StoreSize(i) ==
    CASE i.op = "mov.b @rn" -> 1
      [] i.op \in {"mov.w @rn", "mov.w @-rn", "mov.w @(disp,rn)"} -> 2
      [] OTHER -> 4

StoreAddr(i, r) ==
    CASE i.op \in Predecrement -> r[i.n] - StoreSize(i)
      [] i.op = "mov.l @(disp,rn)" -> (r[i.n] + 4 * i.d) % W
      [] i.op = "mov.w @(disp,rn)" -> (r[i.n] + 2 * i.d) % W
      [] i.op = "mov.l @(r0,rn)" -> (r[0] + r[i.n]) % W
      [] OTHER -> r[i.n]

StoreValue(i, r, ctl, fpr) ==
    CASE i.op = "sts.l @-rn" -> ctl[i.c]
      [] i.op \in {"fmov.s @rn", "fmov.s @-rn"} -> fpr[i.m]
      [] i.op = "mov.w @(disp,rn)" -> r[0]
      [] OTHER -> r[i.m]

Stored(i, r) ==
    IF i.op \in Predecrement THEN [r EXCEPT ![i.n] = (@ - StoreSize(i)) % W] ELSE r
-----------------------------------------------------------------------------
(* The address space.  P1 and P2 (the nibbles 8 to B) show physical memory, *)
(* the nibbles E and F fault and are emulated, the rest and the upper half  *)
(* of the 64-bit space fault and quit.                                      *)
Nibble(a) == a \div (W \div 16)
IsPhysical(a) == a \in Words /\ Nibble(a) \in 8 .. 11
IsP4(a) == a >= 0 /\ Nibble(a) >= 14
Phys(a) == a % (W \div 8)
IsRam(a, size) == IsPhysical(a) /\ Phys(a) + size <= MemBytes

Bytes(mem, a, size) ==
    LET byte(k) == IF k < size THEN mem[Phys(a) + k] ELSE 0
    IN  byte(0) + B * byte(1) + Half * (byte(2) + B * byte(3))

Byte(x, k) == (x \div <<1, B, Half, Half * B>>[k + 1]) % B

WithBytes(mem, a, size, x) ==
    [k \in DOMAIN mem |->
        IF k \in Phys(a) .. Phys(a) + size - 1 THEN Byte(x, k - Phys(a)) ELSE mem[k]]

(* The registers of the control area; the bus controller's only print.      *)
ControlBase == 15 * (W \div 16)
EXPEVT == ControlBase + 36
QACR0 == ControlBase + 56
QACR1 == ControlBase + 60
RFCR == ControlBase + 168
Printing ==                    \* per access size
    [n \in {1, 2, 4} |->
        CASE n = 1 -> {ControlBase + 208}
          [] n = 2 -> {ControlBase + k : k \in {132, 156, 164, 168}}
          [] n = 4 -> {ControlBase + k : k \in {16, 28, 128, 136, 140, 148}}]

IsQueue(a) == a \in Words /\ Nibble(a) = 14
QueueIndex(a) == (a \div 4) % 16

(* MmuContext::Read16 and Read32: the value, or none where they quit.       *)
P4Read16(a) == {x \in {Half - 1} : a = RFCR}

P4Read32(a, sq, ccn) ==
    IF IsQueue(a) THEN {sq[QueueIndex(a)]} ELSE {x \in {ccn.expevt} : a = EXPEVT}

P4Read(a, size, sq, ccn) ==
    CASE size = 2 -> P4Read16(a)
      [] size = 4 -> P4Read32(a, sq, ccn)
      [] OTHER -> {}

(* MmuContext::Write8, Write16 and Write32.                                 *)
P4Writable(a, size) ==
    a \in Printing[size] \/ (size = 4 /\ (IsQueue(a) \/ a \in {QACR0, QACR1}))

P4Queue(a, size, x, sq) ==
    IF size = 4 /\ IsQueue(a) THEN [sq EXCEPT ![QueueIndex(a)] = x] ELSE sq

P4Control(a, size, x, ccn) ==
    LET masked == ((x \div 4) % 8) * 4
    IN  CASE size = 4 /\ a = QACR0 -> [ccn EXCEPT !.qacr0 = masked]
          [] size = 4 /\ a = QACR1 -> [ccn EXCEPT !.qacr1 = masked]
          [] OTHER -> ccn

(* What an access may do short of ending the machine.  A store to physical  *)
(* memory that is no RAM leaves for the host, which may accept and drop it. *)
Readable(a, size, mem, sq, ccn) ==
    CASE IsRam(a, size) -> {Bytes(mem, a, size)}
      [] IsP4(a) -> P4Read(a, size, sq, ccn)
      [] OTHER -> {}

Accepted(a, size) == IsPhysical(a) \/ (IsP4(a) /\ P4Writable(a, size))
-----------------------------------------------------------------------------
DelayedOps == {"braf", "bra", "rts", "jsr", "jmp", "bf/s"}
BranchOps == DelayedOps \union {"bt", "bf"}

(* bra keeps only eight bits of its displacement, and no sign.              *)
Target(i, r, pr, pc) ==
    CASE i.op = "braf" -> (r[i.n] + pc + 4) % W
      [] i.op = "rts" -> pr
      [] i.op \in {"jsr", "jmp"} -> r[i.n]
      [] i.op = "bra" -> (pc + 4 + 2 * (i.d % B)) % W
      [] i.op \in {"bt", "bf", "bf/s"} -> (pc + 4 + 2 * i.d) % W

Taken(i, t) ==
    CASE i.op = "bt" -> t = 1
      [] i.op \in {"bf", "bf/s"} -> t = 0
      [] OTHER -> TRUE
-----------------------------------------------------------------------------
(* What the decoded fields of an instruction can hold; op names one of the  *)
(* operations above or in the modules that extend this one.                 *)
Instructions ==
    {i \in [op : STRING, n : Regs, m : Regs, d : Int, c : CtlRegs \union {"sr"}] :
        /\ i.op \in {"lds", "sts", "sts.l @-rn"} => i.c \in CtlRegs
        /\ i.op \in {"fmov.s @rn", "fmov.s @-rn"} => i.m \in 0 .. 1}
=============================================================================
