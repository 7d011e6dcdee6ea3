------------------------------ MODULE GekkoCpu ------------------------------
(***************************************************************************)
(* GekkoCpu::Execute: an instruction is decoded (PowerPCDecoder) and       *)
(* translated (GekkoTranslator) into common operations, which              *)
(* CommonOpInterpreter executes one by one after the pc has advanced.      *)
(***************************************************************************)
EXTENDS GekkoOps

CONSTANTS Programs, Entries      \* contents of MEM1, and where they begin

ASSUME ProgramsAssumption == Programs \subseteq [0 .. MemWords - 1 -> Instructions]
ASSUME EntriesAssumption == Entries \subseteq Words

VARIABLES
    code,          \* MEM1
    gpr,           \* context.gpr and context.lr, which the code reaches as gpr[32]
    pc,            \* context.pc
    ops,           \* operations of the instruction not executed yet
    phase,         \* "fetch", "execute", "returned", or "gone": the machine ended
    report,        \* the pc of the failure report, or NoReport
    at, before     \* history: pc and gpr when the instruction was fetched

vars == <<code, gpr, pc, ops, phase, report, at, before>>

NoReport == -1

TypeOK ==
    /\ code \in [0 .. MemWords - 1 -> Instructions]
    /\ gpr \in [Regs -> Words] /\ before \in [Regs -> Words]
    /\ pc \in Words /\ at \in Words
    /\ phase \in {"fetch", "execute", "returned", "gone"}
    /\ report \in Words \union {NoReport}
    /\ ops = <<>> <=> phase # "execute"
-----------------------------------------------------------------------------
(* CommonOp::Build...                                                       *)
LoadImm(reg, imm) == [type |-> "LOAD_REG", target |-> reg, source |-> [type |-> "IMM_U32", value |-> imm]]
LoadGpr(reg, from) == [type |-> "LOAD_REG", target |-> reg, source |-> [type |-> "GPR_32", value |-> from]]
BranchOp(target) == [type |-> "BRANCH", target |-> target]
OrImm(reg, from, imm) == [type |-> "OR", target |-> reg, from |-> from, imm |-> imm]

(* Mutant: the return address is that of the branch.                        *)
Link_Bug(pcAt) == LoadImm(GPR_LR, pcAt)

Link(pcAt) == LoadImm(GPR_LR, NextPc(pcAt))

(* PowerPCDecoder: the handler an instruction is given to.                  *)
DecodeSpecial(i) == IF i.spr = "lr" THEN "OnMflr" ELSE "OnUnknownInstruction"

DecodeInstruction(i) ==
    CASE i.op = "addi" -> IF i.ra # 0 THEN "OnAddi" ELSE "OnLi"
      [] i.op = "addis" -> IF i.ra # 0 THEN "OnAddis" ELSE "OnLis"
      [] i.op = "b" -> "OnBranch"
      [] i.op = "cmpli" -> "OnCmpli"
      [] i.op = "ori" -> "OnOri"
      [] i.op = "oris" -> "OnOris"
      [] i.op = "mfspr" -> DecodeSpecial(i)
      [] i.op = "unknown" -> "OnUnknownInstruction"

(* Mutant: LR is read as a system register.                                 *)
OnMflr_Bug(i) == <<[LoadGpr(i.rt, GPR_LR) EXCEPT !.source.type = "SYSREG"]>>

OnMflr(i) == <<LoadGpr(i.rt, GPR_LR)>>
OnLis(i) == <<LoadImm(i.rt, i.imm * Half)>>
OnOri(i) == <<OrImm(i.ra, i.rt, i.imm)>>
OnOris(i) == <<OrImm(i.ra, i.rt, i.imm * Half)>>
OnBranch(i, pcAt) ==
    IF i.lk THEN <<Link(pcAt), BranchOp(BranchTarget(i, pcAt))>>
            ELSE <<BranchOp(BranchTarget(i, pcAt))>>

(* GekkoTranslator::BuildOps; no operation says that the instruction is not *)
(* implemented.                                                             *)
BuildOps(i, pcAt) ==
    LET handler == DecodeInstruction(i) IN
    CASE handler = "OnBranch" -> OnBranch(i, pcAt)
      [] handler = "OnLis" -> OnLis(i)
      [] handler = "OnOri" -> OnOri(i)
      [] handler = "OnOris" -> OnOris(i)
      [] handler = "OnMflr" -> OnMflr(i)
      [] OTHER -> <<>>

(* CommonOpInterpreter::ExecuteOp.                                          *)
Known(op) ==
    \/ op.type \in {"BRANCH", "OR"}
    \/ op.type = "LOAD_REG" /\ op.source.type \in {"IMM_U32", "GPR_32"}

Source(regs, op) ==
    CASE op.type = "OR" -> Or(regs[op.from], op.imm)
      [] op.type = "LOAD_REG" /\ op.source.type = "IMM_U32" -> op.source.value
      [] op.type = "LOAD_REG" /\ op.source.type # "IMM_U32" -> regs[op.source.value]

(* Mutant: the pc keeps what does not fit into 32 bits.                     *)
SetPc_Bug(newPc) == newPc

(* GekkoCpu::SetPc.                                                         *)
SetPc(newPc) == newPc % W

PcAfter(op, from) == IF op.type = "BRANCH" THEN SetPc(op.target) ELSE from
GprAfter(op, regs) ==
    IF op.type = "BRANCH" THEN regs ELSE [regs EXCEPT ![op.target] = Source(regs, op)]

(* DumpPosition reads sixteen words, the first four before the aligned pc.  *)
DumpStart(pcNow) == pcNow - (pcNow % 16) - 16
DumpReadable(pcNow) == \A k \in 0 .. 15 : Readable(DumpStart(pcNow) + 4 * k)
-----------------------------------------------------------------------------
Init ==
    /\ code \in Programs
    /\ gpr = [r \in Regs |-> 0] /\ before = gpr
    /\ pc \in Entries /\ at = pc
    /\ ops = <<>> /\ phase = "fetch" /\ report = NoReport

(* Mutant: the report comes after the pc has advanced.                      *)
ReportAt_Bug(pcNow) == NextPc(pcNow)

(* DumpState shows the pc.                                                  *)
ReportAt(pcNow) == pcNow

FetchFault ==
    /\ phase = "fetch" /\ ~Readable(pc)
    /\ phase' = "gone"
    /\ UNCHANGED <<code, gpr, pc, ops, report, at, before>>

(* The loop advances the pc even when there is nothing to execute.          *)
FetchFails ==
    /\ phase = "fetch" /\ Readable(pc)
    /\ BuildOps(code[WordOf(pc)], pc) = <<>>
    /\ report' = ReportAt(pc)
    /\ IF DumpReadable(pc)
         THEN phase' = "returned" /\ pc' = NextPc(pc)
         ELSE phase' = "gone" /\ UNCHANGED pc
    /\ UNCHANGED <<code, gpr, ops, at, before>>

Fetch ==
    /\ phase = "fetch" /\ Readable(pc)
    /\ ops' = BuildOps(code[WordOf(pc)], pc)
    /\ ops' # <<>>
    /\ at' = pc /\ before' = gpr
    /\ pc' = NextPc(pc)
    /\ phase' = "execute"
    /\ UNCHANGED <<code, gpr, report>>

(* A turn of the loop over the operations.  When one fails, its report is   *)
(* about the pc four bytes back.                                            *)
ExecuteOp ==
    /\ phase = "execute"
    /\ LET op == Head(ops)
           back == (pc - 4) % W
       IN  IF Known(op)
             THEN /\ gpr' = GprAfter(op, gpr)
                  /\ pc' = PcAfter(op, pc)
                  /\ ops' = Tail(ops)
                  /\ phase' = IF Tail(ops) = <<>> THEN "fetch" ELSE "execute"
                  /\ UNCHANGED report
             ELSE /\ pc' = back /\ report' = back
                  /\ phase' = IF DumpReadable(back) THEN "returned" ELSE "gone"
                  /\ ops' = <<>>
                  /\ UNCHANGED gpr
    /\ UNCHANGED <<code, at, before>>

Next == FetchFault \/ FetchFails \/ Fetch \/ ExecuteOp
Spec == Init /\ [][Next]_vars
-----------------------------------------------------------------------------
(* Every operation the translator emits is one the interpreter executes,    *)
(* so an instruction never fails half-way, with one operation done and the  *)
(* next one not.                                                            *)
NeverFailsHalfway == phase = "execute" => \A k \in DOMAIN ops : Known(ops[k])

(* Between fetch and last operation the processor is still in front of the  *)
(* instruction; when Execute has returned, the pc is one instruction past.  *)
archReg == IF phase = "execute" THEN before ELSE gpr
archPc == CASE phase = "execute" -> at
            [] phase = "returned" -> (pc - 4) % W
            [] OTHER -> pc
archState == CASE phase = "returned" -> "stopped"
               [] phase = "gone" -> "gone"
               [] OTHER -> "running"

Arch == INSTANCE GekkoArch WITH reg <- archReg, pc <- archPc, state <- archState

(* Instructions are indivisible, branch from and link to their own address, *)
(* and the one that stops the machine leaves the registers as it found      *)
(* them.                                                                    *)
InstructionsAreWhole == Arch!Spec

(* The position in a failure report is that of an instruction the           *)
(* translator has no operations for, although the pc moves before, during   *)
(* and after an instruction.                                                *)
ReportNamesCulprit ==
    report # NoReport =>
        Readable(report) /\ BuildOps(code[WordOf(report)], report) = <<>>
=============================================================================
