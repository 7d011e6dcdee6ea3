------------------------------- MODULE Sh4aCpu -------------------------------
(***************************************************************************)
(* Sh4aCpu::Execute (vmm/Sh4aCpu.cpp): the SH-4A interpreter loop with its *)
(* delay-slot state machine, SetSR with its register banks, and the page-  *)
(* fault handler that emulates accesses to the P4 area.                    *)
(*                                                                         *)
(* A step is one turn of the loop.  A load or store that faults is carried *)
(* out by EmulateSingle, if the compiler has made one of the five x86      *)
(* instructions of it that EmulateSingle knows, and the turn goes on;      *)
(* otherwise the kernel calls hyper_quit in the middle of the turn.        *)
(***************************************************************************)
EXTENDS Sh4aOps

CONSTANTS
    Programs,     \* programs the guest may run: sequences of instructions
    InitRegs,     \* what the general registers may hold at the start
    MaxInstr      \* instructions a behaviour may execute (bound of the model)

ASSUME ProgramsAssumption == Programs \subseteq Seq(Instructions)
ASSUME InitRegsAssumption == InitRegs \subseteq [Regs -> Words]
ASSUME MaxInstrAssumption == MaxInstr \in Nat

VARIABLES
    code,
    gpr, gpr_bank,            \* the registers of the bank SR.RB selects; of the other
    sr, ctl, fpr, xpr,        \* ctl holds mach, macl, pr, fpul, fpscr, gbr, ...
    mem, sq, ccn,             \* RAM, store queues, expevt and qacr0, qacr1
    pc, delayState, delayTarget,
    status,                   \* "running", Execute "stopped", the VMM "quit"
    executed                  \* instructions executed, capped by MaxInstr

vars == <<code, gpr, gpr_bank, sr, ctl, fpr, xpr, mem, sq, ccn,
          pc, delayState, delayTarget, status, executed>>

CodePhys == W \div 16
InCode(a) ==
    IsPhysical(a) /\ Phys(a) \in {CodePhys + 2 * k : k \in 0 .. Len(code) - 1}
Opcode == code[((Phys(pc) - CodePhys) \div 2) + 1]

(* The BIOS starts at the uncached view of the code, with bank 1 selected.  *)
Init ==
    /\ code \in Programs
    /\ gpr \in InitRegs
    /\ gpr_bank = [r \in Banked |-> r + 1]
    /\ sr = W \div 4 + W \div 8
    /\ ctl = [c \in CtlRegs |-> CASE c = "pr" -> W \div 2 + CodePhys + 4
                                  [] c = "fpscr" -> Half
                                  [] c = "vbr" -> 0
                                  [] OTHER -> 5]
    /\ fpr = [k \in 0 .. 1 |-> 0]
    /\ xpr = [k \in 0 .. 1 |-> k + 2]
    /\ mem = [k \in 0 .. MemBytes - 1 |-> (5 * k + 6) % B]
    /\ sq = [k \in 0 .. 15 |-> 0]
    /\ ccn = [expevt |-> 32, qacr0 |-> 0, qacr1 |-> 0]
    /\ pc = 10 * (W \div 16) + CodePhys
    /\ delayState = "NO_DELAY"
    /\ delayTarget = 0
    /\ status = "running"
    /\ executed = 0

Fetch(ops) ==
    /\ status = "running"
    /\ InCode(pc)
    /\ executed < MaxInstr
    /\ Opcode.op \in ops
    /\ executed' = executed + 1
    /\ UNCHANGED code
-----------------------------------------------------------------------------
(* The end of a turn: delayed branches reach the pc two turns later.        *)
EndTurn_Bug(at, delay, target) ==     \* a pending target is applied at once
    /\ delayTarget' = target
    /\ \/ delay = "NO_DELAY" /\ pc' = (at + 2) % W /\ delayState' = "NO_DELAY"
       \/ delay # "NO_DELAY" /\ pc' = target /\ delayState' = "NO_DELAY"
    /\ UNCHANGED status

EndTurn(at, delay, target) ==
    /\ delayTarget' = target
    /\ \/ delay = "NO_DELAY" /\ pc' = (at + 2) % W /\ delayState' = "NO_DELAY"
       \/ delay = "ENTERING_DELAY" /\ pc' = (at + 2) % W /\ delayState' = "EXITING_DELAY"
       \/ delay = "EXITING_DELAY" /\ pc' = target /\ delayState' = "NO_DELAY"
    /\ UNCHANGED status

GoOn == EndTurn(pc, delayState, delayTarget)

ValidSR_Bug(x) == ~Reserved(x)       \* user mode is let in

(* SetSR on registers r: the banks change places when RB does.  An invalid  *)
(* value quits before anything is changed.                                  *)
ValidSR(x) == ~Reserved(x) /\ MD(x) = 1

SetSR(x, r) ==
    /\ sr' = x
    /\ IF RB(x) = RB(sr)
         THEN gpr' = r /\ UNCHANGED gpr_bank
         ELSE /\ gpr' = [k \in Regs |-> IF k \in Banked THEN gpr_bank[k] ELSE r[k]]
              /\ gpr_bank' = [k \in Banked |-> r[k]]
-----------------------------------------------------------------------------
ExecuteAlu ==
    /\ Fetch(AluOps)
    /\ ~AluStops(Opcode, gpr)
    /\ LET result == Alu(Opcode, gpr, T(sr), pc)
       IN /\ gpr' = [gpr EXCEPT ![Opcode.n] = result.value]
          /\ sr' = WithT(sr, result.t)
    /\ GoOn
    /\ UNCHANGED <<gpr_bank, ctl, fpr, xpr, mem, sq, ccn>>

ExecuteLoad ==
    /\ Fetch(LoadOps)
    /\ \E x \in Readable(LoadAddr(Opcode, gpr, pc), LoadSize(Opcode), mem, sq, ccn) :
          gpr' = Loaded(Opcode, gpr, x)
    /\ GoOn
    /\ UNCHANGED <<gpr_bank, sr, ctl, fpr, xpr, mem, sq, ccn>>

ExecuteStore ==
    /\ Fetch(StoreOps)
    /\ LET a == StoreAddr(Opcode, gpr)
           size == StoreSize(Opcode)
           x == StoreValue(Opcode, gpr, ctl, fpr)
       IN /\ Accepted(a, size)
          /\ mem' = IF IsRam(a, size) THEN WithBytes(mem, a, size, x) ELSE mem
          /\ sq' = P4Queue(a, size, x, sq)
          /\ ccn' = P4Control(a, size, x, ccn)
    /\ gpr' = Stored(Opcode, gpr)
    /\ GoOn
    /\ UNCHANGED <<gpr_bank, sr, ctl, fpr, xpr>>

(* lds.l: the address register is incremented after SetSR.  The one that    *)
(* names MACL loads MACH.                                                   *)
LdsDestination(c) == IF c = "macl" THEN "mach" ELSE c

LoadControl ==
    /\ Fetch({"lds.l @rm+"})
    /\ Opcode.c # "sr"
    /\ \E x \in Readable(gpr[Opcode.n], 4, mem, sq, ccn) :
          ctl' = [ctl EXCEPT ![LdsDestination(Opcode.c)] = x]
    /\ gpr' = [gpr EXCEPT ![Opcode.n] = (@ + 4) % W]
    /\ GoOn
    /\ UNCHANGED <<gpr_bank, sr, fpr, xpr, mem, sq, ccn>>

LoadSR ==
    /\ Fetch({"lds.l @rm+"})
    /\ Opcode.c = "sr"
    /\ \E x \in {y \in Readable(gpr[Opcode.n], 4, mem, sq, ccn) : ValidSR(y)} :
          /\ sr' = x
          /\ LET switch == RB(x) # RB(sr)
                 low == IF switch THEN gpr_bank ELSE [k \in Banked |-> gpr[k]]
                 set == [k \in Regs |-> IF k \in Banked THEN low[k] ELSE gpr[k]]
             IN /\ gpr' = [set EXCEPT ![Opcode.n] = (@ + 4) % W]
                /\ gpr_bank' = IF switch THEN [k \in Banked |-> gpr[k]] ELSE gpr_bank
    /\ GoOn
    /\ UNCHANGED <<ctl, fpr, xpr, mem, sq, ccn>>

MoveSR ==
    /\ Fetch({"ldc sr"})
    /\ ValidSR(gpr[Opcode.n])
    /\ SetSR(gpr[Opcode.n], gpr)
    /\ GoOn
    /\ UNCHANGED <<ctl, fpr, xpr, mem, sq, ccn>>

MoveControl ==
    /\ Fetch({"stc sr", "sts", "lds", "mulu.w"})
    /\ gpr' = CASE Opcode.op = "stc sr" -> [gpr EXCEPT ![Opcode.n] = sr]
                [] Opcode.op = "sts" -> [gpr EXCEPT ![Opcode.n] = ctl[Opcode.c]]
                [] OTHER -> gpr
    /\ ctl' = CASE Opcode.op = "lds" -> [ctl EXCEPT ![Opcode.c] = gpr[Opcode.n]]
                [] Opcode.op = "mulu.w" ->
                      [ctl EXCEPT !["macl"] = ((gpr[Opcode.n] % Half) * (gpr[Opcode.m] % Half)) % W]
                [] OTHER -> ctl
    /\ GoOn
    /\ UNCHANGED <<gpr_bank, sr, fpr, xpr, mem, sq, ccn>>

(* An eight-byte access is none EmulateSingle knows.                        *)
FloatLoad ==
    /\ Fetch({"fmov @rm+,drn"})
    /\ DoubleSize(ctl["fpscr"])
    /\ IsRam(gpr[Opcode.m], 8)
    /\ fpr' = [k \in 0 .. 1 |-> Bytes(mem, gpr[Opcode.m] + 4 * k, 4)]
    /\ gpr' = [gpr EXCEPT ![Opcode.m] = (@ + 8) % W]
    /\ GoOn
    /\ UNCHANGED <<gpr_bank, sr, ctl, xpr, mem, sq, ccn>>

(* frchg exchanges the float banks, whatever FPSCR says.                    *)
FloatSwap ==
    /\ Fetch({"frchg"})
    /\ fpr' = xpr
    /\ xpr' = fpr
    /\ GoOn
    /\ UNCHANGED <<gpr, gpr_bank, sr, ctl, mem, sq, ccn>>

PrefStops == gpr[Opcode.n] > ControlBase

Idle ==
    /\ Fetch({"nop", "pref"})
    /\ Opcode.op = "pref" => ~PrefStops
    /\ GoOn
    /\ UNCHANGED <<gpr, gpr_bank, sr, ctl, fpr, xpr, mem, sq, ccn>>
-----------------------------------------------------------------------------
(* A delayed branch starts the delay, also when it is in one already; bt    *)
(* and bf move the pc before the turn ends.                                 *)
ReturnAddress == (pc + 4) % W

ExecuteBranch ==
    /\ Fetch(BranchOps)
    /\ LET target == Target(Opcode, gpr, ctl["pr"], pc)
       IN CASE ~Taken(Opcode, T(sr)) -> GoOn
            [] Taken(Opcode, T(sr)) /\ Opcode.op \in DelayedOps ->
                  EndTurn(pc, "ENTERING_DELAY", target)
            [] OTHER -> EndTurn((target - 2) % W, delayState, delayTarget)
    /\ ctl' = IF Opcode.op = "jsr" THEN [ctl EXCEPT !["pr"] = ReturnAddress] ELSE ctl
    /\ UNCHANGED <<gpr, gpr_bank, sr, fpr, xpr, mem, sq, ccn>>
-----------------------------------------------------------------------------
(* Execute leaves its loop without ending the turn.                         *)
Stop ==
    /\ Fetch(AluOps \union {"pref", "fmov @rm+,drn", "unknown"})
    /\ CASE Opcode.op \in AluOps -> AluStops(Opcode, gpr)
         [] Opcode.op = "pref" -> PrefStops
         [] Opcode.op = "fmov @rm+,drn" -> ~DoubleSize(ctl["fpscr"])
         [] OTHER -> TRUE
    /\ status' = "stopped"
    /\ UNCHANGED <<gpr, gpr_bank, sr, ctl, fpr, xpr, mem, sq, ccn, pc, delayState, delayTarget>>

(* hyper_quit, or an exception on the host, in the middle of a turn: for an *)
(* access that is not to RAM, or a value SetSR refuses.                     *)
Refused ==
    CASE Opcode.op \in LoadOps -> ~IsRam(LoadAddr(Opcode, gpr, pc), LoadSize(Opcode))
      [] Opcode.op \in StoreOps -> ~IsRam(StoreAddr(Opcode, gpr), StoreSize(Opcode))
      [] Opcode.op = "fmov @rm+,drn" -> DoubleSize(ctl["fpscr"]) /\ ~IsRam(gpr[Opcode.m], 8)
      [] Opcode.op = "ldc sr" -> ~ValidSR(gpr[Opcode.n])
      [] Opcode.op = "lds.l @rm+" ->
            \/ ~IsRam(gpr[Opcode.n], 4)
            \/ /\ Opcode.c = "sr" /\ IsRam(gpr[Opcode.n], 4)
               /\ ~ValidSR(Bytes(mem, gpr[Opcode.n], 4))

Quit ==
    /\ Fetch(LoadOps \union StoreOps \union {"fmov @rm+,drn", "ldc sr", "lds.l @rm+"})
    /\ Refused
    /\ status' = "quit"
    /\ UNCHANGED <<gpr, gpr_bank, sr, ctl, fpr, xpr, mem, sq, ccn, pc, delayState, delayTarget>>

Next ==
    \/ ExecuteAlu
    \/ ExecuteLoad \/ ExecuteStore
    \/ LoadControl \/ LoadSR \/ MoveSR \/ MoveControl
    \/ FloatLoad \/ FloatSwap \/ Idle
    \/ ExecuteBranch
    \/ Stop \/ Quit

Spec == Init /\ [][Next]_vars
-----------------------------------------------------------------------------
(* Registers, memory and control registers are in range; the processor      *)
(* never leaves privileged mode, which the emulator does not implement, and *)
(* no turn ends with a branch that has yet to enter its delay.              *)
TypeOK ==
    /\ gpr \in [Regs -> Words]
    /\ gpr_bank \in [Banked -> Words]
    /\ sr \in Words /\ MD(sr) = 1 /\ ~Reserved(sr)
    /\ ctl \in [CtlRegs -> Words]
    /\ fpr \in [0 .. 1 -> Words] /\ xpr \in [0 .. 1 -> Words]
    /\ mem \in [0 .. MemBytes - 1 -> 0 .. B - 1]
    /\ sq \in [0 .. 15 -> Words]
    /\ ccn \in [expevt : Words, qacr0 : Words, qacr1 : Words]
    /\ pc \in Words /\ delayTarget \in Words
    /\ delayState \in {"NO_DELAY", "EXITING_DELAY"}
    /\ status \in {"running", "stopped", "quit"}
    /\ executed \in 0 .. MaxInstr

(* The processor of Sh4aArch: both banks by their number, and where the     *)
(* next turn continues.                                                     *)
archBank == [b \in 0 .. 1 |-> IF b = RB(sr) THEN [k \in Banked |-> gpr[k]] ELSE gpr_bank]
archHigh == [k \in Unbanked |-> gpr[k]]
archInSlot == delayState = "EXITING_DELAY"
archNpc == IF archInSlot THEN delayTarget ELSE (pc + 2) % W

Arch == INSTANCE Sh4aArch WITH
    bank <- archBank, high <- archHigh, npc <- archNpc, inSlot <- archInSlot

(* Every execution of the loop is one of Sh4aArch: delayed branches take    *)
(* effect after exactly one instruction, calls return behind their slot,    *)
(* and each register keeps its value in its own bank through every way the  *)
(* program can change SR.                                                   *)
SlotsAndBanksAreKept == Arch!ArchSpec

(* What the comments of the three cases say.  lds.l writes the register it  *)
(* names:                                                                   *)
LdsLoadsItsRegister ==
    [][ \A c \in CtlRegs :
            (LoadControl /\ Opcode.c = c /\ IsRam(gpr[Opcode.n], 4))
                => ctl'[c] = Bytes(mem, gpr[Opcode.n], 4) ]_vars

(* ... "lds.l @Rm+, SR" increments the register that held the address, in   *)
(* the bank it is in:                                                       *)
LdsIncrementsItsRegister ==
    [][ LoadSR => LET n == Opcode.n
                      after == IF n \in Banked /\ RB(sr') # RB(sr) THEN gpr_bank'[n] ELSE gpr'[n]
                  IN  after = (gpr[n] + 4) % W ]_vars

(* ... a pref of a store queue stops ("Start looking at store queues")      *)
(* rather than dropping what the program has put into the queue.            *)
PrefOfQueueStops ==
    [][ Idle => ~(Opcode.op = "pref" /\ IsQueue(gpr[Opcode.n])) ]_vars
=============================================================================
