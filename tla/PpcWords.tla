------------------------------ MODULE PpcWords ------------------------------
(***************************************************************************)
(* Values, addresses and guest instructions shared by PpcArch, which says  *)
(* what the emulated PowerPC promises, and PpcCpu, the interpreter.        *)
(*                                                                         *)
(* A word has W values instead of 2^32, so a 64-bit register is a number   *)
(* below W * W with a low and a high word.  An address counts words.  The  *)
(* low W addresses are the 4 GiB that data accesses can reach.             *)
(***************************************************************************)
EXTENDS Integers, Sequences, FiniteSets

CONSTANT W     \* values of a word (2^32 in the code)

ASSUME WAssumption == W \in Nat /\ W > 6

Words == 0 .. W - 1
Values == 0 .. W * W - 1

Low(x) == x % W
High(x) == x \div W
Plus(x, y) == (x + y) % (W * W)
Minus(x, y) == (x - y) % (W * W)

(* The exception vectors, 0x300 and 0x400, and the rfid that ends the       *)
(* guest's handlers.                                                        *)
DsiVector == 3
IsiVector == 4
HandlerRfid == 5

(* Registers of the context that instructions name, in its own numbering.   *)
GPR_LR == 32
GPR_CTR == 33
GPR_CR == 38       \* only CR0.EQ is kept: 0 or 1
GPR_TEMP == 40     \* scratch of the intermediate code, not architectural
Gprs == 0 .. 2
ArchRegs == Gprs \union {GPR_LR, GPR_CTR, GPR_CR}

NoReservation == -1

(* Instructions; the operands an operation does not have are left out.      *)
Addi(rt, ra, si)  == [op |-> "addi", rt |-> rt, ra |-> ra, d |-> si]
Lwz(rt, ra, d)    == [op |-> "lwz", rt |-> rt, ra |-> ra, d |-> d]
Ld(rt, ra, d)     == [op |-> "ld", rt |-> rt, ra |-> ra, d |-> d]
Stw(rs, ra, d)    == [op |-> "stw", rt |-> rs, ra |-> ra, d |-> d]
Stwu(rs, ra, d)   == [op |-> "stwu", rt |-> rs, ra |-> ra, d |-> d]
Std(rs, ra, d)    == [op |-> "std", rt |-> rs, ra |-> ra, d |-> d]
Lwarx(rt, ra, rb) == [op |-> "lwarx", rt |-> rt, ra |-> ra, rb |-> rb]
Stwcx(rs, ra, rb) == [op |-> "stwcx", rt |-> rs, ra |-> ra, rb |-> rb]
Branch(offset, lk) == [op |-> "b", d |-> offset, lk |-> lk]
Beq(offset, lk)   == [op |-> "beq", d |-> offset, lk |-> lk]
Bdnz(offset, lk)  == [op |-> "bdnz", d |-> offset, lk |-> lk]
Bctrl             == [op |-> "bctrl"]
Blr               == [op |-> "blr"]
Rfid              == [op |-> "rfid"]
Unknown           == [op |-> "unknown"]

Instructions ==
    [op : {"addi", "lwz", "ld", "stw", "stwu", "std"}, rt : Gprs, ra : Gprs, d : Values]
    \union [op : {"lwarx", "stwcx"}, rt : Gprs, ra : Gprs, rb : Gprs]
    \union [op : {"b", "beq", "bdnz"}, d : Values, lk : BOOLEAN]
    \union [op : {"bctrl", "blr", "rfid", "unknown"}]

(* Pages of the relocated space, one word each: a data page or a code page. *)
DataPage(a) == <<"data", a>>
CodePage(a) == <<"code", a>>

(* MSR: Sf is 64-bit mode, relocated is IR and DR.                          *)
Msr == [sf : BOOLEAN, relocated : BOOLEAN]
RealMode(m) == [m EXCEPT !.relocated = FALSE]

(* What PpcCpu::SetPC stores: 32-bit mode drops the high word.              *)
TruncatePC(pc, msr) == IF msr.sf THEN pc ELSE Low(pc)
=============================================================================
