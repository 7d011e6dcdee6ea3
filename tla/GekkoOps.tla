------------------------------ MODULE GekkoOps ------------------------------
(***************************************************************************)
(* Instructions and memory of the Gekko, shared by GekkoArch, which says   *)
(* what an instruction does, and GekkoCpu, the interpreter.                *)
(*                                                                         *)
(* A word has W values instead of 2^32 and a half word Half instead of     *)
(* 2^16.  Addresses count bytes.                                           *)
(***************************************************************************)
EXTENDS Integers, Sequences

CONSTANTS
    Half,          \* values of a half word
    Or(_, _),      \* the bitwise or of two words
    Bases,         \* where the windows onto MEM1 begin
    MemWords,      \* size of MEM1
    Instructions

W == Half * Half
Words == 0 .. W - 1
Halves == 0 .. Half - 1

Gprs == 0 .. 2
GPR_LR == 32       \* lr follows gpr[31] in the context
Regs == Gprs \union {GPR_LR}

(* Fields of an instruction: rt is also rs, imm the half word as encoded,   *)
(* li the displacement with its sign, spr the number of a register.         *)
InstructionType ==
    [op : {"addi", "addis", "b", "cmpli", "ori", "oris", "mfspr", "unknown"}, rt : Gprs,
     ra : Gprs, imm : Halves, li : Int, lk : BOOLEAN, aa : BOOLEAN, spr : {"lr", "other"}]

ASSUME HalfAssumption == Half \in Nat /\ Half > 1
ASSUME OrAssumption == \A x, y \in Words : Or(x, y) \in Words
ASSUME BasesAssumption == Bases \subseteq Words
ASSUME MemWordsAssumption == MemWords \in Nat
ASSUME InstructionsAssumption == Instructions \subseteq InstructionType

(* PowerPC32Mmu::Init maps two windows onto the same memory.  An access     *)
(* outside of them faults, and one behind MEM1 finds no memory in the       *)
(* virtual machine; either ends the machine.                                *)
InWindow(addr, base) == (addr - base) \div 4 \in 0 .. MemWords - 1
Readable(addr) == \E base \in Bases : InWindow(addr, base)
WordOf(addr) == (addr - (CHOOSE base \in Bases : InWindow(addr, base))) \div 4

NextPc(pc) == (pc + 4) % W
BranchTarget(i, at) == i.li + (IF i.aa THEN 0 ELSE at)
=============================================================================
