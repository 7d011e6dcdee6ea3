---------------------------- MODULE MCHostMachine ----------------------------
(* Memories of one to five words for HostMachine.                           *)
EXTENDS HostMachine

MCOrder == <<"CrossVmm", "VmmMemory", "NativeMemory">>

MCBytes == [a \in Memories |-> CASE a = "WRAM" -> 20 [] a \in {"XRAM", "MEM1"} -> 12
                                 [] a = "DRAM" -> 8 [] OTHER -> 4]
MCBase == [a \in Memories |-> CASE a = "SRAM" -> 32 [] a = "NAND" -> 40
                                [] a = "DRAM" -> 96 [] a = "VRAM" -> 128
                                [] a = "MEM2" -> 32 [] OTHER -> 0]
MCReg == [r \in Registers |-> CASE r = "pciConfig" -> 48 [] r = "uartTx" -> 64
                                [] r = "uartStatus" -> 68 [] r = "uartConfig" -> 72
                                [] r = "g1Half" -> 8 [] r = "g1Word" -> 12]

Seg(offset, window, at, filesz) ==
    [load |-> TRUE, offset |-> offset, paddr |-> <<window, at>>, filesz |-> filesz]
Note == [Seg(0, 0, 0, 8) EXCEPT !.load = FALSE]
File(size, segs) == [is |-> "whole", size |-> size, segs |-> segs, entry |-> 7]
No(is) == [is |-> is, size |-> 0, segs |-> <<>>, entry |-> 0]

(* A kernel of one word and a half after the context, and one that is cut   *)
(* off or missing or reaches past the work RAM.                             *)
Kernel(size, segs) == [File(size, segs) EXCEPT !.entry = 12]
MCKernelElfs ==
    {Kernel(24, <<Note, Seg(16, 0, 12, 7)>>), Kernel(22, <<Seg(16, 0, 12, 7)>>),
     Kernel(24, <<Seg(16, 0, 16, 8)>>), No("missing")}

(* Executables of two segments, each placed by the window and the offset:   *)
(* at the beginning, at the end and past the end of memories, in holes and  *)
(* mirrors, unaligned, and in windows that do not exist.                    *)
Placed(windows, offsets) ==
    {File(32, <<Seg(16, w, at, n), Seg(24, w, at + 8, 4), Note>>) :
        w \in windows, at \in offsets, n \in {5, 8}}
MCGuestElfs == [p \in Platforms |->
    {No("missing"), No("cut"), No("noPath"), File(18, <<Seg(16, 4, 96, 4)>>)} \union
    CASE p = "XENON" -> Placed({0, 1, 2, 4}, {0, 2, 8, 32})
                        \union {File(32, <<Seg(16, 2, 64, 4), Seg(24, 2, 72, 4)>>)}
      [] p = "DC" -> Placed({3, 4, 5}, {0, 12, 88, 96, 98, 104, 128})
                     \union {File(32, <<Seg(20, 5, 100, 4), Seg(16, 4, 12, 4)>>)}
      [] p = "WII" -> Placed({3, 4, 5}, {0, 4, 6, 32})
                      \union {File(32, <<Seg(20, 5, 4, 7)>>)}
      [] p = "PS3" -> {}]

Wram == {<<0, 0>>, <<0, 8>>, <<0, 16>>}
MCGuestAddrs == [p \in Platforms |-> Wram \union
    CASE p = "XENON" -> ({1} \X {0, 8, 12, 32, 40, 48}) \union ({2} \X {0, 4, 64, 68, 72})
      [] p = "DC" -> {1} \X {0, 4, 8, 12, 96, 100, 104, 108, 124, 128, 132}
      [] p = "WII" -> {1} \X {0, 8, 12, 32, 36}
      [] p = "PS3" -> {}]
=============================================================================
