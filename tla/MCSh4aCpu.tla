----------------------------- MODULE MCSh4aCpu -----------------------------
(***************************************************************************)
(* Programs and registers for Sh4aCpu with bytes of 8 values: a word has   *)
(* 4096, P1 and P2 begin at 2048 and 2560 and show the RAM, with the code  *)
(* 256 above each; store queues are at 3584, the control area at 3840.     *)
(***************************************************************************)
EXTENDS Sh4aCpu

Ins(op, n, m, d) == [op |-> op, n |-> n, m |-> m, d |-> d, c |-> "pr"]
Ctl(op, n, c) == [op |-> op, n |-> n, m |-> n, d |-> 0, c |-> c]

(* Every way to move the pc and SR, and what makes the difference visible.  *)
ControlFlow ==
    {Ins("bra", 0, 0, 1), Ins("braf", 1, 0, 0), Ins("rts", 0, 0, 0), Ins("jsr", 8, 0, 0),
     Ins("jmp", 0, 0, 0), Ins("bt", 0, 0, -2), Ins("bf", 0, 0, 0), Ins("bf/s", 0, 0, -1)}
Switching ==
    {Ins("stc sr", 1, 0, 0), Ins("ldc sr", 0, 0, 0), Ins("ldc sr", 8, 0, 0),
     Ctl("lds.l @rm+", 8, "sr")}
Plain ==
    {Ins("mov", 0, 8, 0), Ins("dt", 1, 0, 0), Ins("cmp/eq", 1, 1, 0), Ins("mov.l @-rn", 8, 1, 0),
     Ins("mov.l @rm+", 1, 8, 0), Ctl("sts", 0, "pr")}

(* The rest of the instructions, on two registers and on one.               *)
Operands == {<<8, 0>>, <<1, 1>>}
Others ==
    {Ins(op, o[1], o[2], d) :
        op \in (AluOps \ {"tsti", "xori", "ori"}) \union LoadOps
               \union (StoreOps \ {"sts.l @-rn"}) \union {"fmov @rm+,drn"},
        o \in Operands, d \in {0, 1}}
    \union {Ins(op, 0, 0, d) : op \in {"tsti", "xori", "ori", "frchg", "nop", "unknown"}, d \in {0, 1}}
    \union {Ins(op, n, 8, 0) : op \in {"mulu.w", "pref"}, n \in {0, 1}}
    \union {Ctl("sts.l @-rn", n, c) : n \in {1, 8}, c \in {"mach", "macl", "pr"}}
    \union {Ctl("lds.l @rm+", n, c) :
              n \in {1, 8}, c \in {"mach", "pr", "fpul", "fpscr", "gbr", "vbr", "ssr", "spc"}}
    \union {Ctl("sts", 0, "macl"), Ctl("lds", 8, "fpscr"), Ctl("lds", 8, "dbr")}

Small == ControlFlow \union Switching \union Plain

MCPrograms ==
    {<<i, j, k>> : i \in Small, j \in Small, k \in Small}
    \union {<<i, j>> : i \in Others, j \in Switching \union Plain}

Registers(r0, r1, r8) == [r \in Regs |-> CASE r = 0 -> r0 [] r = 1 -> r1 [] r = 8 -> r8]

MCInitRegs ==
    {Registers(1024, 2050, 2308),      \* an SR with the other bank, RAM, code
     Registers(2820, 3, 2049),         \* code, a small number, an SR in RAM
     Registers(3584, 3896, 2053)}      \* a store queue, QACR0, RAM

(* The three instructions that do not do what their comments say.           *)
LdsPrograms ==
    {<<Ctl("lds.l @rm+", n, c), i>> : n \in {1, 8}, c \in {"mach", "macl", "pr"}, i \in Small}
LdsSRPrograms == {<<i, Ctl("lds.l @rm+", n, "sr")>> : n \in {0, 1, 8}, i \in Small}
PrefPrograms == {<<i, Ins("pref", n, 0, 0)>> : n \in {0, 1, 8}, i \in Small}
=============================================================================
