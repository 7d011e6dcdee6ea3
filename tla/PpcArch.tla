------------------------------ MODULE PpcArch -------------------------------
(***************************************************************************)
(* What the emulated PowerPC promises to the guest: instructions execute   *)
(* one at a time and entirely, and an access that misses its page gives a  *)
(* precise ISI or DSI, after which the instruction can be restarted.       *)
(*                                                                         *)
(* A step is a whole instruction, a whole interrupt, or a step of the      *)
(* guest's fault handler.  Three traces of an interrupted instruction are  *)
(* allowed, and no other: stwcx. may have cleared CR0, lwarx may hold its  *)
(* reservation, std may have stored its first word.                        *)
(***************************************************************************)
EXTENDS PpcWords

VARIABLES
    code,          \* the program: [0 .. n -> instruction]
    mapped,        \* pages the guest has mapped
    reg,           \* [ArchRegs -> Values]
    mem,           \* [Words -> Words]
    reservation,   \* address reserved by lwarx
    pc, msr, srr0, srr1, dar,
    stopped        \* the interpreter gave up: an instruction it cannot execute

archVars == <<code, mapped, reg, mem, reservation, pc, msr, srr0, srr1, dar, stopped>>

CodeAt(a) == IF a = HandlerRfid THEN Rfid ELSE code[a]
InCode(a) == a = HandlerRfid \/ a \in DOMAIN code

Present(page) == ~msr.relocated \/ page \in mapped

ArchInit ==
    /\ mapped = {}
    /\ reg \in [ArchRegs -> Values]
    /\ mem \in [Words -> Words]
    /\ reservation \in {NoReservation} \union Values
    /\ msr.relocated = FALSE
    /\ pc = HandlerRfid
    /\ srr0 = 0
    /\ srr1 = [sf |-> msr.sf, relocated |-> TRUE]
    /\ dar \in Values
    /\ stopped = FALSE
-----------------------------------------------------------------------------
(* The emulator's ld has no form without a base: it adds r0 (PpcBook lists  *)
(* where the values are not the architecture's).                            *)
Base(ra) == IF ra = 0 THEN 0 ELSE reg[ra]
EffectiveAddress(i) ==
    CASE i.op \in {"lwarx", "stwcx"} -> Plus(Base(i.ra), reg[i.rb])
      [] i.op = "ld" -> Plus(reg[i.ra], i.d)
      [] OTHER -> Plus(Base(i.ra), i.d)

(* Unknown to the emulator, or a stwu with no base to update.               *)
Malformed(i) == i.op = "unknown" \/ (i.op = "stwu" /\ i.ra = 0)

Accesses(i) ==
    CASE i.op \in {"lwz", "stw", "lwarx"} -> {Low(EffectiveAddress(i))}
      [] i.op = "stwu" /\ i.ra # 0 -> {Low(EffectiveAddress(i))}
      [] i.op \in {"ld", "std"} -> {Low(EffectiveAddress(i)), Low(EffectiveAddress(i)) + 1}
      [] i.op = "stwcx" -> {a \in {Low(EffectiveAddress(i))} : reservation = EffectiveAddress(i)}
      [] OTHER -> {}

(* The effective address W lies beyond the 4 GiB and is never mapped.       *)
Missing(i) == {a \in Accesses(i) : a = W \/ ~Present(DataPage(a))}

Link(on) == IF on THEN [reg EXCEPT ![GPR_LR] = pc + 1] ELSE reg
Jump(target) == pc' = TruncatePC(target, msr)
Taken(i, condition) == IF condition THEN Jump(Plus(pc, i.d)) ELSE pc' = pc + 1

(* The instructions, each in one step.                                      *)
Load(i) ==
    LET a == Low(EffectiveAddress(i))
    IN  /\ i.op \in {"lwz", "ld", "lwarx"}
        /\ reg' = [reg EXCEPT ![i.rt] = IF i.op = "ld" THEN mem[a] * W + mem[a + 1] ELSE mem[a]]
        /\ reservation' = IF i.op = "lwarx" THEN EffectiveAddress(i) ELSE reservation
        /\ pc' = pc + 1
        /\ UNCHANGED mem

Store(i) ==
    LET a == Low(EffectiveAddress(i))
    IN  /\ i.op \in {"stw", "stwu", "std"}
        /\ ~Malformed(i)
        /\ mem' = IF i.op = "std"
                    THEN [mem EXCEPT ![a] = High(reg[i.rt]), ![a + 1] = Low(reg[i.rt])]
                    ELSE [mem EXCEPT ![a] = Low(reg[i.rt])]
        /\ reg' = IF i.op = "stwu" THEN [reg EXCEPT ![i.ra] = Plus(@, i.d)] ELSE reg
        /\ pc' = pc + 1
        /\ UNCHANGED reservation

StoreConditional(i) ==
    /\ i.op = "stwcx"
    /\ \/ /\ Accesses(i) = {}
          /\ reg' = [reg EXCEPT ![GPR_CR] = 0]
          /\ UNCHANGED <<mem, reservation>>
       \/ \E a \in Accesses(i) :
             /\ mem' = [mem EXCEPT ![a] = Low(reg[i.rt])]
             /\ reg' = [reg EXCEPT ![GPR_CR] = 1]
             /\ reservation' = NoReservation
    /\ pc' = pc + 1

Branches(i) ==
    /\ \/ i.op = "b" /\ Jump(Plus(pc, i.d)) /\ reg' = Link(i.lk)
       \/ i.op = "beq" /\ Taken(i, reg[GPR_CR] = 1) /\ reg' = Link(i.lk)
       \/ /\ i.op = "bdnz"
          /\ Taken(i, Minus(reg[GPR_CTR], 1) # 0)
          /\ reg' = [Link(i.lk) EXCEPT ![GPR_CTR] = Minus(@, 1)]
       \/ i.op = "bctrl" /\ Jump(reg[GPR_CTR]) /\ reg' = Link(TRUE)
       \/ i.op = "blr" /\ Jump(reg[GPR_LR]) /\ UNCHANGED reg
    /\ UNCHANGED <<mem, reservation>>

AddImmediate(i) ==
    /\ i.op = "addi"
    /\ reg' = [reg EXCEPT ![i.rt] = Plus(Base(i.ra), i.d)]
    /\ pc' = pc + 1
    /\ UNCHANGED <<mem, reservation>>

ReturnFromInterrupt(i) ==
    /\ i.op = "rfid"
    /\ msr' = srr1
    /\ pc' = TruncatePC(srr0, srr1)
    /\ UNCHANGED <<reg, mem, reservation, stopped>>

GiveUp(i) ==
    /\ Malformed(i)
    /\ stopped' = TRUE
    /\ UNCHANGED <<reg, mem, reservation, pc, msr>>

Execute ==
    /\ ~stopped
    /\ InCode(pc)
    /\ Present(CodePage(pc))
    /\ Missing(CodeAt(pc)) = {}
    /\ LET i == CodeAt(pc)
       IN \/ /\ Load(i) \/ Store(i) \/ StoreConditional(i) \/ Branches(i) \/ AddImmediate(i)
             /\ UNCHANGED <<msr, stopped>>
          \/ ReturnFromInterrupt(i)
          \/ GiveUp(i)
    /\ UNCHANGED <<code, mapped, srr0, srr1, dar>>
-----------------------------------------------------------------------------
Interrupt(vector) ==
    /\ srr0' = pc
    /\ srr1' = msr
    /\ msr' = RealMode(msr)
    /\ pc' = vector
    /\ UNCHANGED <<code, mapped, stopped>>

Isi ==
    /\ ~stopped
    /\ InCode(pc)
    /\ ~Present(CodePage(pc))
    /\ Interrupt(IsiVector)
    /\ UNCHANGED <<reg, mem, reservation, dar>>

Dsi ==
    /\ ~stopped
    /\ InCode(pc)
    /\ Present(CodePage(pc))
    /\ LET i == CodeAt(pc)
       IN /\ \E a \in Missing(i) : dar' = IF msr.sf THEN a ELSE Low(a)
          /\ \/ UNCHANGED reg
             \/ i.op = "stwcx" /\ reg' = [reg EXCEPT ![GPR_CR] = 0]
          /\ \/ UNCHANGED reservation
             \/ i.op = "lwarx" /\ reservation' = EffectiveAddress(i)
          /\ \/ UNCHANGED mem
             \/ \E a \in Accesses(i) \ Missing(i) :
                   i.op = "std" /\ mem' = [mem EXCEPT ![a] = High(reg[i.rt])]
    /\ Interrupt(DsiVector)

(* The guest's handlers map the page that missed, named by DAR or SRR0.     *)
Handle ==
    /\ ~stopped
    /\ pc \in {DsiVector, IsiVector}
    /\ mapped' = mapped \union {IF pc = DsiVector THEN DataPage(dar) ELSE CodePage(srr0)}
    /\ pc' = HandlerRfid
    /\ UNCHANGED <<code, reg, mem, reservation, msr, srr0, srr1, dar, stopped>>

ArchNext == Execute \/ Isi \/ Dsi \/ Handle

ArchSpec == ArchInit /\ [][ArchNext]_archVars
=============================================================================
