---------------------------- MODULE MCPpcInterp ----------------------------
(* Instructions and contexts for the runs of PpcInterp: words of 8 bits,    *)
(* registers of 16, bytes of 2.                                             *)
EXTENDS PpcBook

Ins0 == [op |-> "none", rt |-> 1, ra |-> 2, rb |-> 3, imm |-> 0, sh |-> 0, mb |-> 0, me |-> 0,
         bo |-> 20, bi |-> 0, lk |-> FALSE, aa |-> FALSE, bf |-> 0, l |-> FALSE, spr |-> SPR_LR,
         fxm |-> 3, rc |-> FALSE, bt |-> 6, ba |-> 6, bb |-> 6]
I(op) == [Ins0 EXCEPT !.op = op]

Immediates == {0, 1, 4, 7, 8, 15}

Arithmetic ==
    {[I(op) EXCEPT !.rt = r[1], !.ra = r[2], !.rb = r[3], !.rc = rc] :
        op \in {"add", "subf", "or", "andc", "slw", "lwbrx"}, rc \in BOOLEAN,
        r \in {<<1, 2, 3>>, <<1, 1, 2>>, <<2, 1, 1>>, <<1, 0, 2>>}}
    \union {[I(op) EXCEPT !.rt = r[1], !.ra = r[2], !.imm = v] :
        op \in {"addi", "addis", "subfic", "ori", "oris", "xoris"}, v \in Immediates,
        r \in {<<1, 2>>, <<2, 1>>, <<1, 0>>, <<2, 2>>, <<0, 0>>}}

Comparisons ==
    {[I(op) EXCEPT !.ra = 1, !.rb = r, !.bf = f, !.l = l, !.imm = v] :
        op \in {"cmp", "cmpl", "cmpi", "cmpli"}, r \in {1, 2}, f \in {0, 1}, l \in BOOLEAN, v \in Immediates}

Rotates ==
    {[I("rlwinm") EXCEPT !.sh = sh, !.mb = mb, !.me = me] : sh, mb, me \in 0 .. N - 1}
    \union {[I(op) EXCEPT !.sh = sh, !.mb = mb, !.rt = r[1], !.ra = r[2]] :
        op \in {"rldicl", "rldicr", "rldimi"}, sh, mb \in 0 .. 2 * N - 1, r \in {<<1, 2>>, <<1, 1>>}}
    \union {[I("srawi") EXCEPT !.sh = sh, !.rc = rc] : sh \in 0 .. N - 1, rc \in BOOLEAN}

Memory ==
    {[I(op) EXCEPT !.rt = r[1], !.ra = r[2], !.imm = v] :
        op \in {"lwz", "ld", "ldu", "lwa", "stb", "stw", "std", "stdu", "stwu"},
        v \in {0, 4, 12}, r \in {<<1, 2>>, <<2, 2>>, <<1, 0>>}}
    \union {[I(op) EXCEPT !.imm = 1] : op \in {"lwz", "stb", "stw", "stwu"}}

Moves ==
    {I(op) : op \in {"mfcr", "mfocrf", "mfmsr", "isync", "sync", "eieio", "slbia", "slbmte", "tlbiel", "crxor"}}
    \union {[I("mtcrf") EXCEPT !.fxm = m] : m \in {1, 3}}
    \union {[I(op) EXCEPT !.spr = s] : op \in {"mfspr", "mtspr"},
              s \in {SPR_LR, SPR_CTR, SPR_XER, SPR_SPRG0, SPR_SPRG1, SPR_SPRG2, SPR_SPRG3,
                     SPR_DAR, SPR_SRR0, SPR_SRR1, SPR_LPCR, SPR_HRMOR, SPR_PIR}}
    \union {[I("crxor") EXCEPT !.bt = 5]}

Branches ==
    {[I("b") EXCEPT !.imm = v, !.aa = aa, !.lk = lk] : v \in {4, 12}, aa, lk \in BOOLEAN}
    \union {[I("bc") EXCEPT !.imm = v, !.bo = bo, !.bi = bi, !.aa = aa, !.lk = lk] :
        v \in {4, 12}, bo \in {4, 6, 7, 12, 15, 20, 25, 8}, bi \in {0, 2, 6}, aa, lk \in BOOLEAN}
    \union {[I(op) EXCEPT !.bo = bo, !.bi = bi, !.lk = lk] :
        op \in {"bclr", "bcctr"}, bo \in {12, 20}, bi \in {0, 6}, lk \in BOOLEAN}

MCInstructions == Arithmetic \union Comparisons \union Rotates \union Memory \union Moves \union Branches

Context(r0, r1, r2, r3, lr, ctr, cr, xer, msr) ==
    [gpr |-> [r \in Regs |->
        CASE r = 0 -> r0 [] r = 1 -> r1 [] r = 2 -> r2 [] r = 3 -> r3 [] r = GPR_LR -> lr
          [] r = GPR_CTR -> ctr [] r = GPR_CR -> cr [] r = GPR_XER -> xer
          [] r = GPR_TEMP -> 0 [] OTHER -> 256 * r + r],
     sys |-> [s \in SysRegs |-> IF s = SPR_MSR THEN msr ELSE s],
     pc |-> 320,
     mem |-> [a \in 0 .. MemSize - 1 |-> ((a * a + a) \div 2 + a \div 8) % 4]]

Data == {0, 1, 4, 127, 128, 255, 256, 384, 32767, 32768, 65408, 65535}
MCContexts ==
    {Context(0, x, y, 8, 640, 2, 165, 0, 32768) : x \in Data, y \in {0, 8, 255, 33000}}
    \union {Context(5, x, 0, 8, 640, ctr, cr, xer, 32768) :
        x \in {4660}, ctr \in {0, 257}, cr \in {0, 255}, xer \in {0, 224}}
    \union {Context(5, 4660, 0, 8, lr, ctr, cr, 32, 0) :
        lr \in {642, 33408}, ctr \in {1, 33024, 257}, cr \in {2, 168}}

(* mtspr and mfspr of every pair of numbers.                                *)
SprInstructions ==
    {[I(op) EXCEPT !.spr = s, !.rt = r] : op \in {"mfspr", "mtspr"}, r \in {1, 3},
        s \in {SPR_LR, SPR_CTR, SPR_XER, SPR_SPRG0, SPR_SPRG1, SPR_SPRG2, SPR_SPRG3}}
SprContexts == {Context(0, 7, 9, 11, 640, 2, 165, 0, 32768)}
=============================================================================
