----------------------------- MODULE HostMemory -----------------------------
(***************************************************************************)
(* The memories the host keeps for a guest and the ways into them: the     *)
(* region interface of CrossVmmPhysicalMemory, through which MMIO exits    *)
(* and the GDT go, and the physical interface of each console, through     *)
(* which the ELF loader goes.                                              *)
(*                                                                         *)
(* An address is a pair: region and 32-bit offset for the VMM, window and  *)
(* offset for a loader (view of a Xenon address; 512 MiB window of a Wii   *)
(* or Dreamcast address).  A 32-bit word is <<kind, number, swapped>>.     *)
(***************************************************************************)
EXTENDS Integers, Sequences

CONSTANTS
    Bytes, Base,     \* size and regionOffset of each memory
    AreaBytes,       \* of the eight areas of a Dreamcast address (64 MiB)
    Reg              \* offsets of the device registers

Platforms == {"XENON", "PS3", "DC", "WII"}

Memories == {"WRAM", "XRAM", "SRAM", "NAND", "BROM", "BIOS", "DRAM", "VRAM", "MEM1", "MEM2"}

Registers == {"pciConfig", "uartTx", "uartStatus", "uartConfig", "g1Half", "g1Word"}

ASSUME SizesAssumption ==
    /\ Bytes \in [Memories -> Nat \ {0}] /\ \A a \in Memories : Bytes[a] % 4 = 0
    /\ Base \in [Memories -> Nat] /\ \A a \in Memories : Base[a] % 4 = 0
    /\ Base["WRAM"] = 0 /\ Base["XRAM"] = 0 /\ Base["BROM"] = 0 /\ Base["MEM1"] = 0
    /\ AreaBytes \in Nat \ {0}
    /\ Reg \in [Registers -> Nat]

(* The DRAM of a Dreamcast fills area 3 by repetition; its other memories   *)
(* and the register of half words lie elsewhere.                            *)
ASSUME DramAssumption ==
    /\ Base["DRAM"] = 3 * AreaBytes
    /\ Bytes["DRAM"] <= AreaBytes /\ Base["DRAM"] % Bytes["DRAM"] = 0
    /\ Base["BIOS"] + Bytes["BIOS"] <= 3 * AreaBytes
    /\ Base["VRAM"] >= 4 * AreaBytes
    /\ Reg["g1Half"] < 3 * AreaBytes

(* The registers that a loader may write lie beside the memories.           *)
ASSUME RegAssumption ==
    /\ Base["BIOS"] + Bytes["BIOS"] <= Reg["g1Word"] /\ Reg["g1Word"] < 3 * AreaBytes
    /\ Bytes["BROM"] <= Reg["uartTx"] /\ Bytes["BROM"] <= Reg["uartConfig"]

(* The entries a memory subsystem adds, in order.                           *)
Native(p) ==
    CASE p = "XENON" -> <<"XRAM", "SRAM", "NAND", "BROM">>
      [] p = "DC" -> <<"BIOS", "DRAM", "VRAM">>
      [] p = "WII" -> <<"MEM1", "MEM2">>
      [] p = "PS3" -> <<>>

Region(a) == CASE a = "WRAM" -> 0 [] a = "BROM" -> 2 [] OTHER -> 1

ReadOnly(a) == a \in {"NAND", "BROM", "BIOS"}

(* Mutant: the entry one word short.                                        *)
Entry_Bug(a) ==
    [alloc |-> a, region |-> Region(a), offset |-> Base[a], size |-> Bytes[a] - 4,
     readOnly |-> ReadOnly(a)]

Entry(a) ==
    [alloc |-> a, region |-> Region(a), offset |-> Base[a], size |-> Bytes[a],
     readOnly |-> ReadOnly(a)]
-----------------------------------------------------------------------------
Junk == <<"junk", 0, FALSE>>
FileWord(file, at, swapped) == <<file, at, swapped>>

(* What a fresh memory holds: sys::AllocatePageMem clears nothing, the NAND *)
(* is erased and the ROMs are read from files, 1bl.bin as big endian.       *)
Contents(a) ==
    [i \in 0 .. Bytes[a] \div 4 - 1 |->
        CASE a = "NAND" -> <<"erased", 0, FALSE>>
          [] a = "BROM" -> FileWord("1bl.bin", 4 * i, TRUE)
          [] a = "BIOS" -> FileWord("bios.bin", 4 * i, FALSE)
          [] OTHER -> Junk]

Null == [i \in {} |-> Junk]

(* What becomes of an access: it is made, an exception or an assertion ends *)
(* the program, or it goes through a pointer nobody assigned or past a      *)
(* memory.                                                                  *)
Made(m) == [end |-> "none", mem |-> m]
Throws(m) == [end |-> "failed", mem |-> m]
Aborts(m) == [end |-> "aborted", mem |-> m]
Wild(m) == [end |-> "wild", mem |-> m]

Put(m, a, at, v) ==
    IF at \div 4 \in DOMAIN m[a] THEN Made([m EXCEPT ![a][at \div 4] = v]) ELSE Wild(m)
Get(m, a, at) == IF at \div 4 \in DOMAIN m[a] THEN Made(m) ELSE Wild(m)
-----------------------------------------------------------------------------
(* XenonPhysicalMemory.                                                     *)
XenonWriteRam32(m, at, v) == IF at < Bytes["XRAM"] THEN Put(m, "XRAM", at, v) ELSE Throws(m)

XenonWriteSoc32(m, at, v) ==
    IF at \in {Reg["uartConfig"], Reg["uartTx"]} THEN Made(m) ELSE Throws(m)

XenonWriteRegion32(m, region, at, v) ==
    CASE region = 1 -> XenonWriteRam32(m, at, v)
      [] region = 2 -> XenonWriteSoc32(m, at, v)
      [] OTHER -> Aborts(m)

XenonReadRegion32(m, region, at) ==
    CASE region = 1 /\ at < Bytes["XRAM"] -> Get(m, "XRAM", at)
      [] region = 1 /\ at = Reg["pciConfig"] -> Made(m)
      [] region = 2 /\ at < Bytes["BROM"] -> Get(m, "BROM", at)
      [] region = 2 /\ at = Reg["uartStatus"] -> Made(m)
      [] OTHER -> Throws(m)

(* Mutant: the mask is a bit short.                                         *)
DcWritePhys32_Bug(m, at, v) ==
    CASE at >= 8 * AreaBytes -> Aborts(m)
      [] at < 8 * AreaBytes /\ at \div AreaBytes = 3 ->
            Put(m, "DRAM", at % (Bytes["DRAM"] \div 2), v)
      [] OTHER -> IF at = Reg["g1Word"] THEN Made(m) ELSE Throws(m)

(* DcPhysicalMemory: area 3 repeats the DRAM, area 0 has one register of    *)
(* each size, and nothing can be read.                                      *)
DcWritePhys32(m, at, v) ==
    CASE at >= 8 * AreaBytes -> Aborts(m)
      [] at < 8 * AreaBytes /\ at \div AreaBytes = 3 -> Put(m, "DRAM", at % Bytes["DRAM"], v)
      [] OTHER -> IF at = Reg["g1Word"] THEN Made(m) ELSE Throws(m)

DcWritePhys16(m, at) ==
    CASE at >= 8 * AreaBytes -> Aborts(m)
      [] at = Reg["g1Half"] -> Made(m)
      [] OTHER -> Throws(m)

(* WiiPhysicalMemory: the first word is outside the bounds of MEM1.         *)
WiiWritePhys32(m, at, v) ==
    IF at > Base["MEM1"] /\ at < Base["MEM1"] + Bytes["MEM1"] THEN Put(m, "MEM1", at, v)
                                                              ELSE Throws(m)

(* NativePhysicalMemory's regions: the Wii and the PS3 drop every write.    *)
WriteRegion16(p, m, region, at) ==
    CASE p = "XENON" -> IF region \in {1, 2} THEN Throws(m) ELSE Aborts(m)
      [] p = "DC" -> IF region = 1 THEN DcWritePhys16(m, at) ELSE Aborts(m)
      [] OTHER -> Made(m)

WriteRegion32(p, m, region, at, v) ==
    CASE p = "XENON" -> XenonWriteRegion32(m, region, at, v)
      [] p = "DC" -> IF region = 1 THEN DcWritePhys32(m, at, v) ELSE Aborts(m)
      [] OTHER -> Made(m)

ReadRegion32(p, m, region, at) ==
    CASE p = "XENON" -> XenonReadRegion32(m, region, at)
      [] p = "DC" -> IF region = 1 THEN Throws(m) ELSE Aborts(m)
      [] p = "WII" -> Throws(m)
      [] OTHER -> Made(m)
-----------------------------------------------------------------------------
(* CrossVmmPhysicalMemory.  Its pointer for 16-bit writes, ram16, is never  *)
(* assigned.                                                                *)
WritePhys8(m, addr, v) ==
    IF addr[1] = 0 /\ addr[2] < Bytes["WRAM"] THEN Put(m, "WRAM", addr[2], v) ELSE Throws(m)

WritePhys16(p, m, addr) ==
    IF addr[1] # 0 THEN WriteRegion16(p, m, addr[1], addr[2])
    ELSE IF addr[2] < Bytes["WRAM"] THEN Wild(m) ELSE Throws(m)

WritePhys32(p, m, addr, v) ==
    IF addr[1] # 0 THEN WriteRegion32(p, m, addr[1], addr[2], v)
    ELSE IF addr[2] < Bytes["WRAM"] THEN Put(m, "WRAM", addr[2], v) ELSE Throws(m)

ReadPhys32(p, m, addr) ==
    IF addr[1] # 0 THEN ReadRegion32(p, m, addr[1], addr[2])
    ELSE IF addr[2] < Bytes["WRAM"] THEN Get(m, "WRAM", addr[2]) ELSE Throws(m)

(* The memory an executable is loaded into: XenonPhysicalMemory takes views *)
(* 0 to 3 of an aligned address, DcMachineMemory and WiiDefaultVirtualMem   *)
(* the two windows at 0x80000000 and 0xA0000000 (4 and 5 of 512 MiB).       *)
LoaderWrite32(p, m, addr, v) ==
    CASE p = "XENON" ->
            IF addr[1] > 3 \/ addr[2] % 4 # 0 THEN Aborts(m)
            ELSE IF addr[1] = 2 THEN XenonWriteSoc32(m, addr[2], v)
                                ELSE XenonWriteRam32(m, addr[2], v)
      [] p = "DC" -> IF addr[1] \in {4, 5} THEN DcWritePhys32(m, addr[2], v) ELSE Aborts(m)
      [] p = "WII" -> IF addr[1] \in {4, 5} THEN WiiWritePhys32(m, addr[2], v) ELSE Throws(m)
      [] OTHER -> Throws(m)
-----------------------------------------------------------------------------
(* The consoles' own view: which word of which memory is at an address.     *)
Nowhere == <<"nowhere", 0>>

InMemory(a, addr) ==
    /\ addr[1] = Region(a)
    /\ Base[a] <= addr[2]
    /\ addr[2] < Base[a] + (IF a = "DRAM" THEN AreaBytes ELSE Bytes[a])

Place(p, addr) ==
    LET Of(a) == a = "WRAM" \/ \E i \in DOMAIN Native(p) : Native(p)[i] = a
    IN  IF \E a \in Memories : Of(a) /\ InMemory(a, addr)
          THEN LET a == CHOOSE a \in Memories : Of(a) /\ InMemory(a, addr)
               IN  <<a, ((addr[2] - Base[a]) % Bytes[a]) \div 4>>
          ELSE Nowhere
=============================================================================
