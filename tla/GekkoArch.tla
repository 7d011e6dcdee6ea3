------------------------------ MODULE GekkoArch -----------------------------
(***************************************************************************)
(* The processor the Gekko interpreter promises to be, as far as it goes:  *)
(* an instruction is one step that changes a register and the pc and       *)
(* nothing else, and one it does not implement stops the machine with the  *)
(* pc on it.                                                               *)
(***************************************************************************)
EXTENDS GekkoOps

VARIABLES
    code,          \* the instruction at each word of MEM1
    reg,           \* general registers and LR
    pc,
    state          \* "running", "stopped", or "gone": the machine ended

Set(r, value) == reg' = [reg EXCEPT ![r] = value]

Lis(i) == i.op = "addis" /\ i.ra = 0 /\ Set(i.rt, i.imm * Half) /\ pc' = NextPc(pc)
Ori(i) == i.op = "ori" /\ Set(i.ra, Or(reg[i.rt], i.imm)) /\ pc' = NextPc(pc)
Oris(i) == i.op = "oris" /\ Set(i.ra, Or(reg[i.rt], i.imm * Half)) /\ pc' = NextPc(pc)
Mflr(i) == i.op = "mfspr" /\ i.spr = "lr" /\ Set(i.rt, reg[GPR_LR]) /\ pc' = NextPc(pc)
Branch(i) ==
    /\ i.op = "b"
    /\ pc' = BranchTarget(i, pc) % W
    /\ IF i.lk THEN Set(GPR_LR, NextPc(pc)) ELSE UNCHANGED reg

Implemented(i) ==
    \/ i.op \in {"b", "ori", "oris"}
    \/ i.op = "addis" /\ i.ra = 0
    \/ i.op = "mfspr" /\ i.spr = "lr"

Init ==
    /\ code \in [0 .. MemWords - 1 -> Instructions]
    /\ reg \in [Regs -> Words]
    /\ pc \in Words
    /\ state = "running"

Execute ==
    /\ state = "running" /\ Readable(pc)
    /\ LET i == code[WordOf(pc)] IN Lis(i) \/ Ori(i) \/ Oris(i) \/ Mflr(i) \/ Branch(i)
    /\ UNCHANGED <<code, state>>

(* The report of the stop reads around the instruction, which may end the   *)
(* machine before the report is complete.                                   *)
Stop ==
    /\ state = "running" /\ Readable(pc)
    /\ ~Implemented(code[WordOf(pc)])
    /\ state' \in {"stopped", "gone"}
    /\ UNCHANGED <<code, reg, pc>>

Lost ==
    /\ state = "running" /\ ~Readable(pc)
    /\ state' = "gone"
    /\ UNCHANGED <<code, reg, pc>>

Next == Execute \/ Stop \/ Lost
Spec == Init /\ [][Next]_<<code, reg, pc, state>>
=============================================================================
