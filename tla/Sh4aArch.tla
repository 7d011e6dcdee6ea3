------------------------------ MODULE Sh4aArch ------------------------------
(***************************************************************************)
(* What the emulated SH-4A promises: the emulator executes the program or  *)
(* gives up, and while it executes                                         *)
(*   - a delayed branch takes effect after exactly one more instruction:   *)
(*     the processor has the address of the next instruction, npc, beside  *)
(*     the pc, and a delayed branch only sets what follows npc;            *)
(*   - there are two banks of low registers and SR.RB says which one       *)
(*     instructions name; changing SR moves no register.                   *)
(* A branch in a delay slot is illegal and nothing is promised of it.      *)
(***************************************************************************)
EXTENDS Sh4aOps

VARIABLES
    code,          \* the program: a sequence of instructions
    bank, high,    \* [0 .. 1 -> [Banked -> Words]], [Unbanked -> Words]
    sr, ctl, fpr, xpr,
    mem, sq, ccn,
    pc, npc, inSlot,
    status

state == <<bank, high, sr, ctl, fpr, xpr, mem, sq, ccn>>
archVars == <<code, state, pc, npc, inSlot, status>>

CodePhys == W \div 16
InCode(a) ==
    IsPhysical(a) /\ Phys(a) \in {CodePhys + 2 * k : k \in 0 .. Len(code) - 1}
CodeAt(a) == code[((Phys(a) - CodePhys) \div 2) + 1]

Reg == [r \in Regs |-> IF r \in Banked THEN bank[RB(sr)][r] ELSE high[r]]
SetReg(r) ==
    /\ bank' = [bank EXCEPT ![RB(sr)] = [k \in Banked |-> r[k]]]
    /\ high' = [k \in Unbanked |-> r[k]]

ArchInit ==
    /\ bank \in [0 .. 1 -> [Banked -> Words]]
    /\ high \in [Unbanked -> Words]
    /\ sr \in Words
    /\ npc = pc + 2
    /\ inSlot = FALSE
    /\ status = "running"

After(target) == npc' = target /\ pc' = npc
Sequential == After((npc + 2) % W) /\ inSlot' = FALSE
-----------------------------------------------------------------------------
Compute(i) ==
    /\ i.op \in AluOps
    /\ LET result == Alu(i, Reg, T(sr), pc)
       IN  SetReg([Reg EXCEPT ![i.n] = result.value]) /\ sr' = WithT(sr, result.t)
    /\ UNCHANGED <<ctl, fpr, xpr, mem, sq, ccn>>

Load(i) ==
    /\ i.op \in LoadOps
    /\ \E x \in Readable(LoadAddr(i, Reg, pc), LoadSize(i), mem, sq, ccn) :
          SetReg(Loaded(i, Reg, x))
    /\ UNCHANGED <<sr, ctl, fpr, xpr, mem, sq, ccn>>

Store(i) ==
    /\ i.op \in StoreOps
    /\ LET a == StoreAddr(i, Reg)
           x == StoreValue(i, Reg, ctl, fpr)
       IN /\ mem' = IF IsRam(a, StoreSize(i)) THEN WithBytes(mem, a, StoreSize(i), x) ELSE mem
          /\ sq' = P4Queue(a, StoreSize(i), x, sq)
          /\ ccn' = P4Control(a, StoreSize(i), x, ccn)
    /\ SetReg(Stored(i, Reg))
    /\ UNCHANGED <<sr, ctl, fpr, xpr>>

(* Moves from, to and through control registers.                            *)
LoadControl(i) ==
    /\ i.op = "lds.l @rm+"
    /\ \E x \in Readable(Reg[i.n], 4, mem, sq, ccn) :
          IF i.c = "sr" THEN sr' = x /\ UNCHANGED ctl
                        ELSE ctl' = [ctl EXCEPT ![i.c] = x] /\ UNCHANGED sr
    /\ SetReg([Reg EXCEPT ![i.n] = (@ + 4) % W])
    /\ UNCHANGED <<fpr, xpr, mem, sq, ccn>>

MoveControl(i) ==
    /\ \/ /\ i.op = "stc sr"
          /\ SetReg([Reg EXCEPT ![i.n] = sr]) /\ UNCHANGED <<sr, ctl>>
       \/ /\ i.op = "sts"
          /\ SetReg([Reg EXCEPT ![i.n] = ctl[i.c]]) /\ UNCHANGED <<sr, ctl>>
       \/ /\ i.op = "lds"
          /\ ctl' = [ctl EXCEPT ![i.c] = Reg[i.n]] /\ UNCHANGED <<sr, bank, high>>
       \/ /\ i.op = "ldc sr"
          /\ sr' = Reg[i.n] /\ UNCHANGED <<bank, high, ctl>>
       \/ /\ i.op = "mulu.w"
          /\ ctl' = [ctl EXCEPT !["macl"] = ((Reg[i.n] % Half) * (Reg[i.m] % Half)) % W]
          /\ UNCHANGED <<sr, bank, high>>
    /\ UNCHANGED <<fpr, xpr, mem, sq, ccn>>

FloatMove(i) ==
    /\ \/ /\ i.op = "fmov @rm+,drn"
          /\ IsRam(Reg[i.m], 8)
          /\ fpr' = [k \in 0 .. 1 |-> Bytes(mem, Reg[i.m] + 4 * k, 4)]
          /\ SetReg([Reg EXCEPT ![i.m] = (@ + 8) % W])
          /\ UNCHANGED xpr
       \/ /\ i.op = "frchg"
          /\ fpr' = xpr /\ xpr' = fpr
          /\ UNCHANGED <<bank, high>>
    /\ UNCHANGED <<sr, ctl, mem, sq, ccn>>

Idle(i) == i.op \in {"nop", "pref"} /\ UNCHANGED state

Branch(i) ==
    /\ i.op \in BranchOps
    /\ LET target == Target(i, Reg, ctl["pr"], pc)
       IN  CASE ~Taken(i, T(sr)) -> Sequential
             [] Taken(i, T(sr)) /\ i.op \in DelayedOps -> After(target) /\ inSlot' = TRUE
             [] OTHER -> pc' = target /\ npc' = (target + 2) % W /\ inSlot' = FALSE
    /\ ctl' = IF i.op = "jsr" THEN [ctl EXCEPT !["pr"] = (pc + 4) % W] ELSE ctl
    /\ UNCHANGED <<bank, high, sr, fpr, xpr, mem, sq, ccn>>

IllegalSlot(i) == inSlot /\ i.op \in BranchOps

Execute ==
    /\ status = "running"
    /\ InCode(pc)
    /\ LET i == CodeAt(pc)
       IN \/ IllegalSlot(i)
          \/ /\ \/ Compute(i) \/ Load(i) \/ Store(i)
                \/ LoadControl(i) \/ MoveControl(i) \/ FloatMove(i) \/ Idle(i)
             /\ Sequential
             /\ UNCHANGED <<code, status>>
          \/ Branch(i) /\ UNCHANGED <<code, status>>

GiveUp ==
    /\ status = "running"
    /\ status' \in {"stopped", "quit"}
    /\ UNCHANGED <<code, state, pc, npc, inSlot>>

ArchNext == Execute \/ GiveUp

ArchSpec == ArchInit /\ [][ArchNext]_archVars
=============================================================================
