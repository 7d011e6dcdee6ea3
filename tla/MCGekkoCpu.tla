----------------------------- MODULE MCGekkoCpu -----------------------------
(* Programs for GekkoCpu: half words of 5 bits, two windows, 24 words of    *)
(* MEM1, and three instructions at its beginning, its middle or its end.    *)
EXTENDS GekkoCpu, FiniteSets, FiniteSetsExt

Bit(x, b) == (x \div 2 ^ b) % 2
MCOr(x, y) == MapThenSumSet(LAMBDA b : 2 ^ b, {b \in 0 .. 9 : Bit(x, b) = 1 \/ Bit(y, b) = 1})

Ins0 == [op |-> "unknown", rt |-> 1, ra |-> 2, imm |-> 0, li |-> 0, lk |-> FALSE, aa |-> FALSE,
         spr |-> "lr"]
I(op) == [Ins0 EXCEPT !.op = op]

(* Branches: to the next but one, in place, before MEM1, to a word of the   *)
(* other window, and absolute ones that reach it by a negative address.     *)
Branches == {[I("b") EXCEPT !.li = li, !.lk = lk] : li \in {8, 0, -44, 256}, lk \in BOOLEAN}
            \union {[I("b") EXCEPT !.li = li, !.lk = lk, !.aa = TRUE] :
                      li \in {560, -220}, lk \in BOOLEAN}

MCInstructions ==
    Branches \union {Ins0, I("addi"), I("addis"), I("cmpli"), I("mfspr"),
    [I("addis") EXCEPT !.ra = 0, !.imm = 17], [I("ori") EXCEPT !.imm = 20],
    [I("ori") EXCEPT !.rt = 2, !.ra = 2, !.imm = 3], [I("oris") EXCEPT !.imm = 30],
    [I("mfspr") EXCEPT !.spr = "other"], [I("mfspr") EXCEPT !.rt = 2]}

(* The same three instructions at words 0, 9 and 21.                        *)
MCEntries == {512, 548, 596, 768 + 36}
Program(i1, i2, i3) ==
    [a \in 0 .. 23 |->
        CASE a \in {0, 9, 21} -> i1 [] a \in {1, 10, 22} -> i2 [] a \in {2, 11, 23} -> i3
          [] OTHER -> Ins0]
MCPrograms == {Program(i1, i2, i3) : i1, i2, i3 \in MCInstructions}
=============================================================================
