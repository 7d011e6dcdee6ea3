------------------------------ MODULE MCPpcCpu ------------------------------
(* Constants for the runs of PpcCpu: every pair of these instructions, in   *)
(* order, with loops, linked branches and accesses with and without a base. *)
EXTENDS PpcCpu

MCInstructions ==
    { Addi(1, 0, 2), Addi(2, 1, 6), Lwz(1, 2, 1), Lwz(2, 0, 3), Ld(2, 1, 0), Ld(1, 0, 1),
      Stw(2, 1, 0), Stw(1, 0, 4), Stwu(1, 2, 1), Stwu(1, 0, 3), Std(2, 1, 1), Std(1, 0, 5),
      Lwarx(1, 0, 2), Lwarx(1, 2, 1), Stwcx(1, 0, 2), Stwcx(1, 2, 1),
      Branch(0, TRUE), Branch(W * W - 1, FALSE), Beq(W * W - 1, TRUE),
      Bdnz(W * W - 1, FALSE), Bctrl, Blr, Unknown }

MCPrograms == [1 .. 2 -> MCInstructions]

MCInitGprs == {[r \in Gprs |-> r + 3], [r \in Gprs |-> W * 2 + 6 - r]}
=============================================================================
