------------------------- MODULE HostMachine_proofs -------------------------
(***************************************************************************)
(* Proofs about HostMachine, for every order of registration, every size   *)
(* of the memories and every file: types, that the host never leaves its   *)
(* memories, that the slots cover them, that the guest sees one memory     *)
(* whichever way its stores take, and that it starts with all of its files *)
(* in place.                                                               *)
(***************************************************************************)
EXTENDS HostMachine, TLAPS

WordsOf(a) == 0 .. Bytes[a] \div 4 - 1

Shape(m) ==
    /\ m = [a \in Memories |-> m[a]]
    /\ \A a \in Memories : m[a] = Null \/ DOMAIN m[a] = WordsOf(a)

SameShape(m, n) == Shape(n) /\ \A a \in Memories : DOMAIN n[a] = DOMAIN m[a]

Ready(p, m) == Shape(m) /\ \A a \in NativeSet(p) \union {"WRAM"} : DOMAIN m[a] = WordsOf(a)

Harmless(m, o) == o.end \in {"none", "failed", "aborted"} /\ SameShape(m, o.mem)

(* A word address below a memory's size is that of one of its words.        *)
LEMMA InBounds ==
    ASSUME NEW a \in Memories, NEW at \in Nat, at < Bytes[a]
    PROVE  at \div 4 \in WordsOf(a)
<1>1. Bytes[a] \in Nat /\ Bytes[a] % 4 = 0
  BY SizesAssumption
<1>2. QED
  BY <1>1, SMTT(30) DEF WordsOf

(* Writing a word changes no memory's size.                                 *)
LEMMA PutShape ==
    ASSUME NEW m, Shape(m), NEW a \in Memories, NEW at, NEW v
    PROVE  SameShape(m, Put(m, a, at, v).mem) /\ Put(m, a, at, v).end \in {"none", "wild"}
<1>1. CASE at \div 4 \in DOMAIN m[a]
  <2> DEFINE n == [m EXCEPT ![a][at \div 4] = v]
  <2>1. Put(m, a, at, v) = [end |-> "none", mem |-> n]
    BY <1>1 DEF Put, Made
  <2>2. m[a] # Null
    BY <1>1 DEF Null
  <2>3. n = [b \in Memories |-> n[b]] /\ \A b \in Memories : DOMAIN n[b] = DOMAIN m[b]
    BY DEF Shape
  <2>4. \A b \in Memories : b # a => n[b] = m[b]
    BY DEF Shape
  <2>5. SameShape(m, n)
    BY <2>2, <2>3, <2>4 DEF SameShape, Shape
  <2>6. QED
    BY <2>1, <2>5
<1>2. CASE at \div 4 \notin DOMAIN m[a]
  BY <1>2 DEF Put, Wild, SameShape
<1>3. QED
  BY <1>1, <1>2

(* A write into a memory that is there is harmless.                         *)
LEMMA PutInside ==
    ASSUME NEW m, Shape(m), NEW a \in Memories, DOMAIN m[a] = WordsOf(a),
           NEW at \in Nat, at < Bytes[a], NEW v
    PROVE  Harmless(m, Put(m, a, at, v))
<1>1. Put(m, a, at, v).end = "none"
  BY InBounds DEF Put, Made
<1>2. QED
  BY <1>1, PutShape DEF Harmless

LEMMA GetInside ==
    ASSUME NEW m, Shape(m), NEW a \in Memories, DOMAIN m[a] = WordsOf(a),
           NEW at \in Nat, at < Bytes[a]
    PROVE  Harmless(m, Get(m, a, at))
  BY InBounds DEF Get, Made, Harmless, SameShape

LEMMA EndsHarmless ==
    ASSUME NEW m, Shape(m)
    PROVE  Harmless(m, Made(m)) /\ Harmless(m, Throws(m)) /\ Harmless(m, Aborts(m))
  BY DEF Harmless, SameShape, Made, Throws, Aborts

LEMMA NativeSets ==
    /\ NativeSet("XENON") = {"XRAM", "SRAM", "NAND", "BROM"}
    /\ NativeSet("DC") = {"BIOS", "DRAM", "VRAM"}
    /\ NativeSet("WII") = {"MEM1", "MEM2"}
    /\ NativeSet("PS3") = {}
<1>1. DOMAIN Native("XENON") = 1 .. 4 /\ DOMAIN Native("DC") = 1 .. 3
      /\ DOMAIN Native("WII") = 1 .. 2 /\ DOMAIN Native("PS3") = {}
  BY DEF Native
<1>2. QED
  BY <1>1 DEF NativeSet, Native

-----------------------------------------------------------------------------
(* The consoles' physical memories.                                         *)
LEMMA XenonHarmless ==
    ASSUME NEW m, Ready("XENON", m), NEW at \in Nat, NEW v, NEW region
    PROVE  /\ Harmless(m, XenonWriteRam32(m, at, v))
           /\ Harmless(m, XenonWriteSoc32(m, at, v))
           /\ Harmless(m, XenonWriteRegion32(m, region, at, v))
           /\ Harmless(m, XenonReadRegion32(m, region, at))
<1>1. Shape(m) /\ DOMAIN m["XRAM"] = WordsOf("XRAM") /\ DOMAIN m["BROM"] = WordsOf("BROM")
      /\ "XRAM" \in Memories /\ "BROM" \in Memories
  BY NativeSets DEF Ready, Memories
<1>2. Harmless(m, XenonWriteRam32(m, at, v))
  BY <1>1, PutInside, EndsHarmless DEF XenonWriteRam32
<1>3. Harmless(m, XenonWriteSoc32(m, at, v))
  BY <1>1, EndsHarmless DEF XenonWriteSoc32
<1>4. Harmless(m, XenonWriteRegion32(m, region, at, v))
  BY <1>1, <1>2, <1>3, EndsHarmless DEF XenonWriteRegion32
<1>5. Harmless(m, XenonReadRegion32(m, region, at))
  BY <1>1, GetInside, EndsHarmless DEF XenonReadRegion32
<1>6. QED
  BY <1>2, <1>3, <1>4, <1>5

LEMMA DcHarmless ==
    ASSUME NEW m, Ready("DC", m), NEW at \in Nat, NEW v
    PROVE  Harmless(m, DcWritePhys32(m, at, v)) /\ Harmless(m, DcWritePhys16(m, at))
<1>1. Shape(m) /\ DOMAIN m["DRAM"] = WordsOf("DRAM") /\ "DRAM" \in Memories
  BY NativeSets DEF Ready, Memories
<1>2. at % Bytes["DRAM"] \in Nat /\ at % Bytes["DRAM"] < Bytes["DRAM"]
  BY <1>1, SizesAssumption
<1>3. Harmless(m, Put(m, "DRAM", at % Bytes["DRAM"], v))
  BY <1>1, <1>2, PutInside
<1>4. AreaBytes \in Nat
  BY SizesAssumption
<1>5. Harmless(m, DcWritePhys32(m, at, v))
  <2>1. CASE at >= 8 * AreaBytes
    BY <2>1, <1>1, <1>4, EndsHarmless DEF DcWritePhys32
  <2>2. CASE ~(at >= 8 * AreaBytes) /\ at < 8 * AreaBytes /\ at \div AreaBytes = 3
    <3>1. DcWritePhys32(m, at, v) = Put(m, "DRAM", at % Bytes["DRAM"], v)
      BY <2>2 DEF DcWritePhys32
    <3>2. QED
      BY <3>1, <1>3
  <2>3. CASE ~(at >= 8 * AreaBytes) /\ ~(at < 8 * AreaBytes /\ at \div AreaBytes = 3)
    <3>1. DcWritePhys32(m, at, v) = IF at = Reg["g1Word"] THEN Made(m) ELSE Throws(m)
      BY <2>3 DEF DcWritePhys32
    <3>2. QED
      BY <3>1, <1>1, EndsHarmless
  <2>4. QED
    BY <2>1, <2>2, <2>3
<1>6. Harmless(m, DcWritePhys16(m, at))
  BY <1>1, EndsHarmless DEF DcWritePhys16
<1>7. QED
  BY <1>5, <1>6

LEMMA WiiHarmless ==
    ASSUME NEW m, Ready("WII", m), NEW at \in Nat, NEW v
    PROVE  Harmless(m, WiiWritePhys32(m, at, v))
<1>1. Shape(m) /\ DOMAIN m["MEM1"] = WordsOf("MEM1") /\ "MEM1" \in Memories
  BY NativeSets DEF Ready, Memories
<1>2. Base["MEM1"] = 0 /\ Bytes["MEM1"] \in Nat
  BY <1>1, SizesAssumption
<1>3. QED
  BY <1>1, <1>2, PutInside, EndsHarmless DEF WiiWritePhys32

(* The ways in: an access finds its memory or ends the program.  16-bit     *)
(* accesses are those outside the work RAM.                                 *)
LEMMA RoutesHarmless ==
    ASSUME NEW p \in Platforms, NEW m, Ready(p, m), NEW addr \in Nat \X Nat, NEW v
    PROVE  /\ Harmless(m, WritePhys8(m, addr, v))
           /\ Harmless(m, WritePhys32(p, m, addr, v))
           /\ Harmless(m, ReadPhys32(p, m, addr))
           /\ Harmless(m, LoaderWrite32(p, m, addr, v))
           /\ addr[1] # 0 => Harmless(m, WritePhys16(p, m, addr))
<1>1. Shape(m) /\ DOMAIN m["WRAM"] = WordsOf("WRAM") /\ "WRAM" \in Memories
      /\ addr[1] \in Nat /\ addr[2] \in Nat
  BY DEF Ready, Memories
<1>2. p \in {"XENON", "PS3", "DC", "WII"}
  BY DEF Platforms
<1>3. Harmless(m, WritePhys8(m, addr, v))
  BY <1>1, PutInside, EndsHarmless DEF WritePhys8
<1>4. Harmless(m, WriteRegion32(p, m, addr[1], addr[2], v))
  BY <1>1, <1>2, XenonHarmless, DcHarmless, EndsHarmless DEF WriteRegion32
<1>5. Harmless(m, WriteRegion16(p, m, addr[1], addr[2]))
  BY <1>1, <1>2, DcHarmless, EndsHarmless DEF WriteRegion16
<1>6. Harmless(m, ReadRegion32(p, m, addr[1], addr[2]))
  BY <1>1, <1>2, XenonHarmless, EndsHarmless DEF ReadRegion32
<1>7. Harmless(m, WritePhys32(p, m, addr, v))
  BY <1>1, <1>4, PutInside, EndsHarmless DEF WritePhys32
<1>8. Harmless(m, ReadPhys32(p, m, addr))
  BY <1>1, <1>6, GetInside, EndsHarmless DEF ReadPhys32
<1>9. addr[1] # 0 => Harmless(m, WritePhys16(p, m, addr))
  BY <1>5 DEF WritePhys16
<1>10. Harmless(m, LoaderWrite32(p, m, addr, v))
  BY <1>1, <1>2, XenonHarmless, DcHarmless, WiiHarmless, EndsHarmless DEF LoaderWrite32
<1>11. QED
  BY <1>3, <1>7, <1>8, <1>9, <1>10

(* Memories that are there stay there.                                      *)
LEMMA ReadyStays ==
    ASSUME NEW p \in Platforms, NEW m, NEW n, Ready(p, m), SameShape(m, n)
    PROVE  Ready(p, n)
<1>1. NativeSet(p) \subseteq Memories /\ "WRAM" \in Memories
  BY NativeSets DEF Platforms, Memories
<1>2. QED
  BY <1>1 DEF Ready, SameShape
-----------------------------------------------------------------------------
(* The inductive invariant: what each subsystem's phases have done once     *)
(* they are past, where the loader is, and what an MMIO exit is about.      *)
NativeEntries(p) == [i \in DOMAIN Native(p) |-> Entry(Native(p)[i])]
AllEntries(p) == <<Entry("WRAM")>> \o NativeEntries(p)

Past(sub, ph) ==
    phase > ph \/ (phase = ph /\ \E k \in 1 .. 3 : Order[k] = sub /\ k < turn)

Typed ==
    /\ platform \in Platforms /\ kernel \in KernelElfs /\ exe \in GuestElfs[platform]
    /\ status \in {"init", "load", "run", "exited", "failed", "aborted"}
    /\ phase \in 0 .. 3 /\ turn \in 1 .. 3
    /\ job.file \in {"none", "crossvmm.bin", "exe"} /\ job.seg \in Nat \ {0} /\ job.i \in Nat
    /\ job = [file |-> job.file, seg |-> job.seg, i |-> job.i]
    /\ stores \in 0 .. MaxStores

Phased ==
    /\ status = "init" => phase < 3
    /\ status \in {"load", "run"} => phase = 3
    /\ phase = 3 => turn = 1
    /\ job.file = "crossvmm.bin" => phase = 1 /\ Order[turn] = "CrossVmm"
    /\ job.file = "exe" => phase = 3

Memory ==
    /\ Shape(mem)
    /\ Past("VmmMemory", 0) => DOMAIN mem["WRAM"] = WordsOf("WRAM")
    /\ Past("NativeMemory", 0) => \A a \in NativeSet(platform) : DOMAIN mem[a] = WordsOf(a)

Entered ==
    /\ ~Past("VmmMemory", 0) => vmmEntries = <<>>
    /\ Past("VmmMemory", 0) /\ ~Past("VmmMemory", 1) => vmmEntries = <<Entry("WRAM")>>
    /\ Past("VmmMemory", 1) => vmmEntries = AllEntries(platform)
    /\ Past("NativeMemory", 0) => nativeEntries = NativeEntries(platform)

Mapped ==
    Past("CrossVmm", 2) => /\ slots = SetupMemory(AllEntries(platform))
                           /\ KvmAccepts(AllEntries(platform))

Exits ==
    /\ exit.kind \in {"none", "mmio", "io", "other"}
    /\ exit.kind # "none" => phase = 3
    /\ exit.kind = "mmio" => exit.addr \in GuestAddrs[platform] /\ Covering(exit.addr) = {}

HostInv == Typed /\ Phased /\ Memory /\ Entered /\ Mapped /\ Exits

LEMMA OrderFacts ==
    /\ \A s \in Subsystems : \E k \in 1 .. 3 : Order[k] = s
    /\ \A j, k \in 1 .. 3 : Order[j] = Order[k] => j = k
    /\ \A k \in 1 .. 3 : Order[k] \in {"CrossVmm", "VmmMemory", "NativeMemory"}
  BY OrderAssumption DEF Subsystems

(* Once a phase is over every subsystem is past it.                         *)
LEMMA PhaseOver ==
    ASSUME HostInv, phase > 0
    PROVE  Ready(platform, mem)
<1>1. Past("VmmMemory", 0) /\ Past("NativeMemory", 0)
  BY DEF Past
<1>2. QED
  BY <1>1 DEF HostInv, Memory, Ready

LEMMA InitHolds == Init => HostInv
<1> SUFFICES ASSUME Init PROVE HostInv
  OBVIOUS
<1>1. Typed
  BY MaxStoresAssumption DEF Init, Typed, NoJob
<1>2. Phased
  BY DEF Init, Phased, NoJob
<1>3. ~Past("VmmMemory", 0) /\ ~Past("VmmMemory", 1) /\ ~Past("NativeMemory", 0)
      /\ ~Past("CrossVmm", 2)
  BY DEF Init, Past
<1>4. Shape(mem)
  BY DEF Init, Shape
<1>5. QED
  BY <1>1, <1>2, <1>3, <1>4 DEF Init, HostInv, Memory, Entered, Mapped, Exits, NoExit
-----------------------------------------------------------------------------
(* Advance puts exactly the subsystem whose turn it is past its phase.      *)
LEMMA AdvancePast ==
    ASSUME Typed, Phased, NEW sub \in Subsystems, NEW ph \in 0 .. 2, status = "init", phase = ph,
           Order[turn] = sub, Advance
    PROVE  /\ ~Past(sub, ph)
           /\ \A s \in Subsystems, q \in 0 .. 2 :
                 Past(s, q)' <=> (Past(s, q) \/ (s = sub /\ q = ph))
           /\ phase' \in 0 .. 3 /\ turn' \in 1 .. 3 /\ phase' >= phase
           /\ status' \in {"init", "load"} /\ (status' = "init" <=> phase' < 3)
           /\ phase' = 3 => turn' = 1
<1>1. phase \in 0 .. 2 /\ turn \in 1 .. 3
  BY DEF Typed
<1>2. ~Past(sub, ph)
  BY <1>1, OrderFacts DEF Past
<1>3. CASE turn < 3
  <2>1. turn' = turn + 1 /\ phase' = phase /\ status' = "init"
    BY <1>1, <1>3 DEF Advance
  <2>2. ASSUME NEW s \in Subsystems, NEW q \in 0 .. 2
        PROVE  Past(s, q)' <=> (Past(s, q) \/ (s = sub /\ q = ph))
    BY <1>1, <1>3, <2>1, OrderFacts DEF Past
  <2>3. QED
    BY <1>1, <1>2, <1>3, <2>1, <2>2
<1>4. CASE turn = 3
  <2>1. turn' = 1 /\ phase' = phase + 1 /\ status' \in {"init", "load"}
        /\ (status' = "init" <=> phase' < 3)
    BY <1>1, <1>4 DEF Advance
  <2>2. ASSUME NEW s \in Subsystems, NEW q \in 0 .. 2
        PROVE  Past(s, q)' <=> (Past(s, q) \/ (s = sub /\ q = ph))
    <3>1. PICK k \in 1 .. 3 : Order[k] = s
      BY OrderFacts
    <3>2. Past(s, q)' <=> phase + 1 > q
      BY <2>1, <1>1 DEF Past
    <3>3. Past(s, q) <=> phase > q \/ (phase = q /\ k < 3)
      BY <3>1, <1>1, <1>4, OrderFacts DEF Past
    <3>4. k = 3 <=> s = sub
      BY <3>1, <1>4, OrderFacts
    <3>5. QED
      BY <3>1, <3>2, <3>3, <3>4, <1>1
  <2>3. QED
    BY <1>1, <1>2, <2>1, <2>2
<1>5. QED
  BY <1>1, <1>3, <1>4

(* A step that stays in its phase and only writes words keeps the parts     *)
(* about memories, entries and slots.                                       *)
LEMMA QuietStep ==
    ASSUME HostInv, SameShape(mem, mem'),
           UNCHANGED <<files, phase, turn, vmmEntries, nativeEntries, slots>>
    PROVE  Memory' /\ Entered' /\ Mapped'
<1>1. \A s \in Subsystems, q \in 0 .. 2 : Past(s, q)' <=> Past(s, q)
  BY DEF Past
<1>2. \A s \in {"CrossVmm", "VmmMemory", "NativeMemory"} : s \in Subsystems
  BY DEF Subsystems
<1>3. platform' = platform /\ platform \in Platforms
  BY DEF HostInv, Typed, files
<1>4. NativeSet(platform) \subseteq Memories /\ "WRAM" \in Memories
  BY <1>3, NativeSets DEF Platforms, Memories
<1>5. Memory'
  BY <1>1, <1>2, <1>3, <1>4 DEF HostInv, Memory, SameShape
<1>6. Entered' /\ Mapped'
  BY <1>1, <1>2, <1>3 DEF HostInv, Entered, Mapped
<1>7. QED
  BY <1>5, <1>6

LEMMA SameItself == ASSUME NEW m, Shape(m) PROVE SameShape(m, m)
  BY DEF SameShape

LEMMA FailStep == HostInv /\ Fail => HostInv'
<1> SUFFICES ASSUME HostInv, Fail PROVE HostInv'
  OBVIOUS
<1>1. SameShape(mem, mem')
  BY SameItself DEF Fail, HostInv, Memory
<1>2. Memory' /\ Entered' /\ Mapped'
  BY <1>1, QuietStep DEF Fail
<1>3. Typed' /\ Phased'
  BY DEF HostInv, Typed, Phased, Fail, files
<1>4. Exits'
  BY DEF HostInv, Exits, Fail, files, Covering, InSlot
<1>5. QED
  BY <1>2, <1>3, <1>4 DEF HostInv

(* What Advance gives at a subsystem's turn, without a file being loaded    *)
(* or an exit pending.                                                      *)
LEMMA AdvanceStep ==
    ASSUME HostInv, NEW sub \in Subsystems, NEW ph \in 0 .. 2, Turn(sub, ph), Advance,
           UNCHANGED <<files, job, exit, stores>>
    PROVE  Typed' /\ Phased' /\ Exits'
<1>1. phase = ph /\ Order[turn] = sub /\ job = NoJob /\ status = "init"
  BY DEF Turn
<1>2. /\ phase' \in 0 .. 3 /\ turn' \in 1 .. 3
      /\ status' \in {"init", "load"} /\ (status' = "init" <=> phase' < 3)
      /\ phase' = 3 => turn' = 1
  BY <1>1, AdvancePast DEF HostInv
<1>3. Typed'
  BY <1>2 DEF HostInv, Typed, files
<1>4. Phased'
  BY <1>1, <1>2 DEF Phased, NoJob
<1>5. exit.kind = "none"
  BY <1>1 DEF HostInv, Exits, Phased
<1>6. Exits'
  BY <1>5 DEF HostInv, Exits
<1>7. QED
  BY <1>3, <1>4, <1>6

LEMMA AllocatedShape ==
    ASSUME NEW as \in SUBSET Memories, Shape(mem)
    PROVE  /\ Shape(Allocated(as))
           /\ \A a \in as : DOMAIN Allocated(as)[a] = WordsOf(a)
           /\ \A a \in Memories \ as : Allocated(as)[a] = mem[a]
  BY DEF Allocated, Shape, Contents, WordsOf

LEMMA AllocateVmmStep == HostInv /\ AllocateVmm => HostInv'
<1> SUFFICES ASSUME HostInv, AllocateVmm PROVE HostInv'
  OBVIOUS
<1>1. CASE Fail
  BY <1>1, FailStep
<1>2. CASE ~Fail
  <2>1. /\ mem' = [mem EXCEPT !["WRAM"] = Contents("WRAM")]
        /\ vmmEntries' = Append(vmmEntries, Entry("WRAM"))
        /\ Advance /\ Turn("VmmMemory", 0)
        /\ UNCHANGED <<files, nativeEntries, slots, regs, job, exit, stores, bus>>
    BY <1>2 DEF AllocateVmm
  <2>2. "VmmMemory" \in Subsystems /\ "NativeMemory" \in Subsystems /\ "CrossVmm" \in Subsystems
    BY DEF Subsystems
  <2>3. phase = 0 /\ Order[turn] = "VmmMemory" /\ status = "init"
    BY <2>1 DEF Turn
  <2>4. Typed' /\ Phased' /\ Exits'
    BY <2>1, <2>2, AdvanceStep
  <2>5. /\ ~Past("VmmMemory", 0)
        /\ \A s \in Subsystems, q \in 0 .. 2 :
              Past(s, q)' <=> (Past(s, q) \/ (s = "VmmMemory" /\ q = 0))
    BY <2>1, <2>2, <2>3, AdvancePast DEF HostInv
  <2>6. "WRAM" \in Memories /\ DOMAIN Contents("WRAM") = WordsOf("WRAM")
    BY DEF Memories, Contents, WordsOf
  <2>7. Shape(mem') /\ DOMAIN mem'["WRAM"] = WordsOf("WRAM")
        /\ \A a \in Memories : a # "WRAM" => mem'[a] = mem[a]
    BY <2>1, <2>6 DEF HostInv, Memory, Shape
  <2>8. platform \in Platforms /\ platform' = platform
    BY <2>1 DEF HostInv, Typed, files
  <2>9. NativeSet(platform) \subseteq Memories \ {"WRAM"}
    BY <2>8, NativeSets DEF Platforms, Memories
  <2>10. Memory'
    BY <2>2, <2>5, <2>7, <2>8, <2>9 DEF HostInv, Memory
  <2>11. ~Past("VmmMemory", 1)
    BY <2>3 DEF Past
  <2>12. vmmEntries' = <<Entry("WRAM")>>
    BY <2>1, <2>5 DEF HostInv, Entered
  <2>13. Entered' /\ Mapped'
    BY <2>1, <2>2, <2>5, <2>8, <2>11, <2>12 DEF HostInv, Entered, Mapped
  <2>14. QED
    BY <2>4, <2>10, <2>13 DEF HostInv
<1>3. QED
  BY <1>1, <1>2

LEMMA AllocateNativeStep == HostInv /\ AllocateNative => HostInv'
<1> SUFFICES ASSUME HostInv, AllocateNative PROVE HostInv'
  OBVIOUS
<1>1. CASE Fail
  BY <1>1, FailStep
<1>2. CASE ~Fail
  <2>1. /\ mem' = Allocated(NativeSet(platform))
        /\ nativeEntries' = NativeEntries(platform)
        /\ Advance /\ Turn("NativeMemory", 0)
        /\ UNCHANGED <<files, vmmEntries, slots, regs, job, exit, stores, bus>>
    BY <1>2 DEF AllocateNative, NativeEntries
  <2>2. "VmmMemory" \in Subsystems /\ "NativeMemory" \in Subsystems /\ "CrossVmm" \in Subsystems
    BY DEF Subsystems
  <2>3. phase = 0 /\ Order[turn] = "NativeMemory" /\ status = "init"
    BY <2>1 DEF Turn
  <2>4. Typed' /\ Phased' /\ Exits'
    BY <2>1, <2>2, AdvanceStep
  <2>5. \A s \in Subsystems, q \in 0 .. 2 :
              Past(s, q)' <=> (Past(s, q) \/ (s = "NativeMemory" /\ q = 0))
    BY <2>1, <2>2, <2>3, AdvancePast DEF HostInv
  <2>6. platform \in Platforms /\ platform' = platform
    BY <2>1 DEF HostInv, Typed, files
  <2>7. NativeSet(platform) \subseteq Memories \ {"WRAM"} /\ "WRAM" \in Memories
    BY <2>6, NativeSets DEF Platforms, Memories
  <2>8. Shape(mem') /\ mem'["WRAM"] = mem["WRAM"]
        /\ \A a \in NativeSet(platform) : DOMAIN mem'[a] = WordsOf(a)
    BY <2>1, <2>7, AllocatedShape DEF HostInv, Memory
  <2>9. Memory'
    BY <2>2, <2>5, <2>6, <2>8 DEF HostInv, Memory
  <2>10. Entered' /\ Mapped'
    BY <2>1, <2>2, <2>5, <2>6 DEF HostInv, Entered, Mapped
  <2>11. QED
    BY <2>4, <2>9, <2>10 DEF HostInv
<1>3. QED
  BY <1>1, <1>2

LEMMA CopyEntriesStep == HostInv /\ CopyEntries => HostInv'
<1> SUFFICES ASSUME HostInv, CopyEntries PROVE HostInv'
  OBVIOUS
<1>1. "VmmMemory" \in Subsystems /\ "NativeMemory" \in Subsystems /\ "CrossVmm" \in Subsystems
  BY DEF Subsystems
<1>2. phase = 1 /\ Order[turn] = "VmmMemory" /\ status = "init" /\ Turn("VmmMemory", 1) /\ Advance
  BY DEF CopyEntries, Turn
<1>3. Typed' /\ Phased' /\ Exits'
  BY <1>1, <1>2, AdvanceStep DEF CopyEntries
<1>4. /\ ~Past("VmmMemory", 1)
      /\ \A s \in Subsystems, q \in 0 .. 2 :
            Past(s, q)' <=> (Past(s, q) \/ (s = "VmmMemory" /\ q = 1))
  BY <1>1, <1>2, AdvancePast DEF HostInv
<1>5. Past("VmmMemory", 0) /\ Past("NativeMemory", 0) /\ platform' = platform
  BY <1>2 DEF Past, CopyEntries, files
<1>6. vmmEntries' = AllEntries(platform)
  BY <1>4, <1>5 DEF HostInv, Entered, CopyEntries, AllEntries
<1>7. Memory' /\ Entered' /\ Mapped'
  BY <1>1, <1>4, <1>5, <1>6 DEF HostInv, Memory, Entered, Mapped, CopyEntries
<1>8. QED
  BY <1>3, <1>7 DEF HostInv

LEMMA SkipPhaseStep == HostInv /\ SkipPhase => HostInv'
<1> SUFFICES ASSUME HostInv, SkipPhase PROVE HostInv'
  OBVIOUS
<1>1. "VmmMemory" \in Subsystems /\ "NativeMemory" \in Subsystems /\ "CrossVmm" \in Subsystems
  BY DEF Subsystems
<1>2. PICK sub \in Subsystems, ph \in 0 .. 2 :
          Turn(sub, ph) /\ <<sub, ph>> \in {<<"CrossVmm", 0>>, <<"VmmMemory", 2>>,
                                            <<"NativeMemory", 1>>, <<"NativeMemory", 2>>}
  BY <1>1 DEF SkipPhase
<1>3. phase = ph /\ Order[turn] = sub /\ status = "init"
  BY <1>2 DEF Turn
<1>4. Typed' /\ Phased' /\ Exits'
  BY <1>2, AdvanceStep DEF SkipPhase
<1>5. \A s \in Subsystems, q \in 0 .. 2 : Past(s, q)' <=> (Past(s, q) \/ (s = sub /\ q = ph))
  BY <1>2, <1>3, AdvancePast DEF HostInv, SkipPhase
<1>6. /\ Past("VmmMemory", 0)' <=> Past("VmmMemory", 0)
      /\ Past("VmmMemory", 1)' <=> Past("VmmMemory", 1)
      /\ Past("NativeMemory", 0)' <=> Past("NativeMemory", 0)
      /\ Past("CrossVmm", 2)' <=> Past("CrossVmm", 2)
  BY <1>1, <1>2, <1>5
<1>7. Memory' /\ Entered' /\ Mapped'
  BY <1>6 DEF HostInv, Memory, Entered, Mapped, SkipPhase, files
<1>8. QED
  BY <1>4, <1>7 DEF HostInv

LEMMA LoadKernelStep == HostInv /\ LoadKernel => HostInv'
<1> SUFFICES ASSUME HostInv, LoadKernel PROVE HostInv'
  OBVIOUS
<1>1. phase = 1 /\ Order[turn] = "CrossVmm" /\ status = "init" /\ job = NoJob
  BY DEF LoadKernel, Turn
<1>2. UNCHANGED <<files, phase, turn, mem, vmmEntries, nativeEntries, slots, exit, stores>>
  BY DEF LoadKernel
<1>3. SameShape(mem, mem')
  BY <1>2, SameItself DEF HostInv, Memory
<1>4. Memory' /\ Entered' /\ Mapped'
  BY <1>2, <1>3, QuietStep
<1>5. \/ job' = [file |-> "crossvmm.bin", seg |-> 1, i |-> 0] /\ status' = status
      \/ job' = job /\ status' = "failed"
  BY DEF LoadKernel, StartJob, NoJob
<1>6. Typed' /\ Phased'
  BY <1>1, <1>2, <1>5 DEF HostInv, Typed, Phased, files, NoJob
<1>7. Exits'
  BY <1>2 DEF HostInv, Exits, files, Covering, InSlot
<1>8. QED
  BY <1>4, <1>6, <1>7 DEF HostInv

(* The GDT goes into memory that is there, so KVM's slots are taken from    *)
(* all entries.                                                             *)
LEMMA InitKvmStep == HostInv /\ InitKvm => HostInv'
<1> SUFFICES ASSUME HostInv, InitKvm PROVE HostInv'
  OBVIOUS
<1> DEFINE gdt == WritePhys8(mem, <<0, GdtAt>>, <<"gdt", 0, FALSE>>)
<1>1. phase = 2 /\ Order[turn] = "CrossVmm" /\ status = "init" /\ Turn("CrossVmm", 2)
      /\ job = NoJob /\ platform \in Platforms
  BY DEF InitKvm, Turn, HostInv, Typed
<1>2. Ready(platform, mem)
  BY <1>1, PhaseOver
<1>3. GdtAt \in Nat
  BY WramAssumption, SizesAssumption DEF Memories
<1>4. Harmless(mem, gdt)
  BY <1>1, <1>2, <1>3, RoutesHarmless
<1>5. CASE /\ gdt.end = "none" /\ KvmAccepts(vmmEntries)
           /\ mem' = gdt.mem
           /\ slots' = SetupMemory(vmmEntries)
           /\ Advance
           /\ UNCHANGED <<files, vmmEntries, nativeEntries, job, exit, stores, bus>>
  <2>1. "VmmMemory" \in Subsystems /\ "NativeMemory" \in Subsystems /\ "CrossVmm" \in Subsystems
    BY DEF Subsystems
  <2>2. Typed' /\ Phased' /\ Exits'
    BY <1>1, <1>5, <2>1, AdvanceStep
  <2>3. \A s \in Subsystems, q \in 0 .. 2 :
            Past(s, q)' <=> (Past(s, q) \/ (s = "CrossVmm" /\ q = 2))
    BY <1>1, <1>5, <2>1, AdvancePast DEF HostInv
  <2>4. Past("VmmMemory", 0) /\ Past("VmmMemory", 1) /\ Past("NativeMemory", 0)
        /\ platform' = platform
    BY <1>1, <1>5 DEF Past, files
  <2>5. vmmEntries = AllEntries(platform)
    BY <2>4 DEF HostInv, Entered
  <2>6. Memory'
    BY <1>1, <1>2, <1>4, <1>5, <2>4, ReadyStays DEF Harmless, SameShape, Memory, Ready
  <2>7. Entered' /\ Mapped'
    BY <1>5, <2>1, <2>3, <2>4, <2>5 DEF HostInv, Entered, Mapped
  <2>8. QED
    BY <2>2, <2>6, <2>7 DEF HostInv
<1>6. CASE /\ status' \in {"failed", gdt.end} \ {"none"}
           /\ UNCHANGED <<files, phase, turn, mem, vmmEntries, nativeEntries, slots, regs,
                          job, exit, stores, bus>>
  <2>1. status' \in {"failed", "aborted"}
    BY <1>4, <1>6 DEF Harmless
  <2>2. SameShape(mem, mem')
    BY <1>6, SameItself DEF HostInv, Memory
  <2>3. Memory' /\ Entered' /\ Mapped'
    BY <1>6, <2>2, QuietStep
  <2>4. Typed' /\ Phased'
    BY <1>6, <2>1 DEF HostInv, Typed, Phased, files
  <2>5. Exits'
    BY <1>6 DEF HostInv, Exits, files, Covering, InSlot
  <2>6. QED
    BY <2>3, <2>4, <2>5 DEF HostInv
<1>7. QED
  BY <1>5, <1>6 DEF InitKvm

LEMMA KernelLoadedStep == HostInv /\ KernelLoaded => HostInv'
<1> SUFFICES ASSUME HostInv, KernelLoaded PROVE HostInv'
  OBVIOUS
<1>1. phase = 1 /\ Order[turn] = "CrossVmm" /\ status = "init" /\ Advance /\ job' = NoJob
      /\ UNCHANGED <<files, mem, vmmEntries, nativeEntries, slots, exit, stores>>
  BY DEF KernelLoaded, Copied, HostInv, Phased
<1>2. "VmmMemory" \in Subsystems /\ "NativeMemory" \in Subsystems /\ "CrossVmm" \in Subsystems
  BY DEF Subsystems
<1>3. /\ \A s \in Subsystems, q \in 0 .. 2 :
            Past(s, q)' <=> (Past(s, q) \/ (s = "CrossVmm" /\ q = 1))
      /\ phase' \in 0 .. 3 /\ turn' \in 1 .. 3
      /\ status' \in {"init", "load"} /\ (status' = "init" <=> phase' < 3)
      /\ phase' = 3 => turn' = 1
  BY <1>1, <1>2, AdvancePast DEF HostInv
<1>4. Typed' /\ Phased'
  BY <1>1, <1>3 DEF HostInv, Typed, Phased, NoJob, files
<1>5. Memory' /\ Entered' /\ Mapped'
  BY <1>1, <1>2, <1>3 DEF HostInv, Memory, Entered, Mapped, files
<1>6. exit.kind = "none"
  BY <1>1 DEF HostInv, Exits
<1>7. Exits'
  BY <1>1, <1>6 DEF HostInv, Exits
<1>8. QED
  BY <1>4, <1>5, <1>7 DEF HostInv
-----------------------------------------------------------------------------
LEMMA SegmentType ==
    ASSUME HostInv, Copying
    PROVE  Segment.paddr \in Nat \X Nat /\ Segment.offset \in Nat /\ Segment.filesz \in Nat
<1>1. kernel \in Elfs /\ exe \in Elfs
  BY ElfsAssumption DEF HostInv, Typed
<1>2. Elf.segs \in Seq(Segments) /\ job.seg \in 1 .. Len(Elf.segs)
  BY <1>1 DEF Elf, Elfs, Copying, HostInv, Typed
<1>3. Segment \in Segments
  BY <1>2 DEF Segment
<1>4. QED
  BY <1>3 DEF Segments

(* The loader's word goes where RoutesHarmless says: by the time anything   *)
(* is copied, every memory is there.                                        *)
LEMMA CopyWordStep == HostInv /\ CopyWord => HostInv'
<1> SUFFICES ASSUME HostInv, CopyWord PROVE HostInv'
  OBVIOUS
<1> DEFINE at == Segment.offset + job.i
           v == FileWord(job.file, at, job.file = "exe" /\ Swapped(platform))
           addr == <<Segment.paddr[1], Segment.paddr[2] + job.i>>
           o == WriteWord(addr, v)
<1>1. Segment.paddr \in Nat \X Nat /\ job.i \in Nat /\ platform \in Platforms
  BY SegmentType DEF CopyWord, HostInv, Typed
<1>2. addr \in Nat \X Nat
  BY <1>1
<1>3. phase > 0
  BY DEF CopyWord, Copying, HostInv, Typed, Phased
<1>4. Ready(platform, mem)
  BY <1>3, PhaseOver
<1>5. Harmless(mem, o)
  BY <1>1, <1>2, <1>4, RoutesHarmless DEF WriteWord
<1>6. UNCHANGED <<files, phase, turn, vmmEntries, nativeEntries, slots, exit, stores>>
  BY DEF CopyWord
<1>7. \/ mem' = o.mem /\ job' = [job EXCEPT !.i = @ + 4] /\ status' = status
      \/ mem' = mem /\ job' = job /\ status' \in {"failed", "aborted"}
  BY <1>5 DEF CopyWord, Harmless
<1>8. SameShape(mem, mem')
  BY <1>5, <1>7, SameItself DEF Harmless, HostInv, Memory
<1>9. Memory' /\ Entered' /\ Mapped'
  BY <1>6, <1>8, QuietStep
<1>10. Typed' /\ Phased'
  BY <1>6, <1>7 DEF HostInv, Typed, Phased, files
<1>11. Exits'
  BY <1>6 DEF HostInv, Exits, files, Covering, InSlot
<1>12. QED
  BY <1>9, <1>10, <1>11 DEF HostInv

LEMMA NextSegmentStep == HostInv /\ NextSegment => HostInv'
<1> SUFFICES ASSUME HostInv, NextSegment PROVE HostInv'
  OBVIOUS
<1>1. UNCHANGED <<files, status, phase, turn, mem, vmmEntries, nativeEntries, slots, exit, stores>>
      /\ job' = [job EXCEPT !.seg = @ + 1, !.i = 0]
  BY DEF NextSegment
<1>2. SameShape(mem, mem')
  BY <1>1, SameItself DEF HostInv, Memory
<1>3. Memory' /\ Entered' /\ Mapped'
  BY <1>1, <1>2, QuietStep
<1>4. job = [file |-> job.file, seg |-> job.seg, i |-> job.i]
  BY DEF HostInv, Typed
<1>5. job.seg \in Nat
  BY DEF HostInv, Typed
<1>6. job' = [file |-> job.file, seg |-> job.seg + 1, i |-> 0]
  BY <1>1, <1>4
<1>7. job.seg + 1 \in Nat \ {0}
  BY <1>5
<1>8. job'.file = job.file /\ job'.seg = job.seg + 1 /\ job'.i = 0
      /\ job' = [file |-> job'.file, seg |-> job'.seg, i |-> job'.i]
  BY <1>6
<1>9. Typed'
  BY <1>1, <1>7, <1>8 DEF HostInv, Typed, files
<1>10. Phased'
  BY <1>1, <1>8 DEF HostInv, Phased
<1>11. Exits'
  BY <1>1 DEF HostInv, Exits, files, Covering, InSlot
<1>12. QED
  BY <1>3, <1>9, <1>10, <1>11 DEF HostInv

(* The context goes into the work RAM.                                      *)
LEMMA PutContextHarmless ==
    ASSUME HostInv, phase = 3, NEW pc
    PROVE  Harmless(mem, PutContext(pc))
<1>1. Ready(platform, mem)
  BY PhaseOver
<1>2. ContextAt \in Nat /\ ContextAt < Bytes["WRAM"] /\ "WRAM" \in Memories
  BY WramAssumption, SizesAssumption DEF Memories
<1>3. QED
  BY <1>1, <1>2, PutInside DEF Ready, PutContext

LEMMA StartRunStep ==
    ASSUME HostInv, phase = 3, NEW pc, StartRun(pc),
           UNCHANGED <<files, phase, turn, vmmEntries, nativeEntries, slots, regs, exit, stores>>
    PROVE  HostInv'
<1>1. Harmless(mem, PutContext(pc))
  BY PutContextHarmless
<1>0. /\ platform' = platform /\ kernel' = kernel /\ exe' = exe /\ stores' = stores
      /\ phase' = phase /\ turn' = turn /\ slots' = slots /\ exit' = exit
  BY DEF files
<1>2. status' \in {"run", "failed", "aborted"} /\ job' = NoJob /\ SameShape(mem, mem')
  BY <1>1 DEF StartRun, Harmless
<1>3. Memory' /\ Entered' /\ Mapped'
  BY <1>2, QuietStep
<1>4. Typed' /\ Phased'
  BY <1>0, <1>2 DEF HostInv, Typed, Phased, NoJob
<1>5. Exits'
  BY <1>0 DEF HostInv, Exits, Covering, InSlot
<1>6. QED
  BY <1>3, <1>4, <1>5 DEF HostInv

LEMMA ExeLoadedStep == HostInv /\ ExeLoaded => HostInv'
<1> SUFFICES ASSUME HostInv, ExeLoaded PROVE HostInv'
  OBVIOUS
<1>1. phase = 3
  BY DEF ExeLoaded, Copied, HostInv, Phased
<1>2. QED
  BY <1>1, StartRunStep DEF ExeLoaded

LEMMA LoadExeStep == HostInv /\ LoadExe => HostInv'
<1> SUFFICES ASSUME HostInv, LoadExe PROVE HostInv'
  OBVIOUS
<1>1. phase = 3 /\ status = "load" /\ job = NoJob
  BY DEF LoadExe, HostInv, Phased
<1>2. UNCHANGED <<files, phase, turn, vmmEntries, nativeEntries, slots, regs, exit, stores>>
  BY DEF LoadExe
<1>3. CASE exe.is = "noPath" /\ platform = "DC"
  BY <1>1, <1>2, <1>3, StartRunStep DEF LoadExe
<1>4. CASE ~(exe.is = "noPath" /\ platform = "DC")
  <2> DEFINE o == PutContext(NoEntry)
  <2>1. Harmless(mem, o)
    BY <1>1, PutContextHarmless
  <2>2. /\ mem' = o.mem
        /\ IF o.end = "none" THEN StartJob("exe", exe) ELSE status' = o.end /\ job' = job
    BY <1>4 DEF LoadExe
  <2>3. \/ job' = [file |-> "exe", seg |-> 1, i |-> 0] /\ status' = status
        \/ job' = job /\ status' \in {"failed", "aborted"}
    BY <2>1, <2>2 DEF StartJob, NoJob, Harmless
  <2>4. Memory' /\ Entered' /\ Mapped'
    BY <1>2, <2>1, <2>2, QuietStep DEF Harmless
  <2>5. Typed' /\ Phased'
    BY <1>1, <1>2, <2>3 DEF HostInv, Typed, Phased, files, NoJob
  <2>6. Exits'
    BY <1>2 DEF HostInv, Exits, files, Covering, InSlot
  <2>7. QED
    BY <2>4, <2>5, <2>6 DEF HostInv
<1>5. QED
  BY <1>3, <1>4
-----------------------------------------------------------------------------
(* A running guest has all its slots, and the slot of the work RAM covers   *)
(* every address of region 0 the guest has.                                 *)
LEMMA SlotsWhenRunning ==
    ASSUME HostInv, status = "run"
    PROVE  /\ slots = SetupMemory(AllEntries(platform))
           /\ KvmAccepts(AllEntries(platform))
           /\ Ready(platform, mem)
<1>1. phase = 3 /\ Past("CrossVmm", 2)
  BY DEF HostInv, Phased, Past
<1>2. QED
  BY <1>1, PhaseOver DEF HostInv, Mapped

LEMMA EntryList ==
    ASSUME NEW p \in Platforms
    PROVE  /\ DOMAIN AllEntries(p) = 1 .. Len(Native(p)) + 1 /\ Len(Native(p)) \in Nat
           /\ DOMAIN Native(p) = 1 .. Len(Native(p))
           /\ AllEntries(p)[1] = Entry("WRAM")
           /\ \A i \in 1 .. Len(Native(p)) : AllEntries(p)[i + 1] = Entry(Native(p)[i])
<1>1. Native(p) \in Seq(Memories)
  <2>1. <<"XRAM", "SRAM", "NAND", "BROM">> \in Seq(Memories)
    BY DEF Memories
  <2>2. <<"BIOS", "DRAM", "VRAM">> \in Seq(Memories)
    BY DEF Memories
  <2>3. <<"MEM1", "MEM2">> \in Seq(Memories) /\ <<>> \in Seq(Memories)
    BY DEF Memories
  <2>4. CASE p = "XENON"
    BY <2>1, <2>4 DEF Native
  <2>5. CASE p = "DC"
    BY <2>2, <2>5 DEF Native
  <2>6. CASE p \in {"WII", "PS3"}
    BY <2>3, <2>6 DEF Native
  <2>7. QED
    BY <2>4, <2>5, <2>6 DEF Platforms
<1>2. DOMAIN Native(p) = 1 .. Len(Native(p)) /\ Len(Native(p)) \in Nat
  BY <1>1
<1>3. NativeEntries(p) \in Seq({Entry(a) : a \in Memories})
  BY <1>1, <1>2 DEF NativeEntries
<1>4. Len(NativeEntries(p)) = Len(Native(p))
  BY <1>2, <1>3 DEF NativeEntries
<1>5. <<Entry("WRAM")>> \in Seq({Entry(a) : a \in Memories}) /\ Len(<<Entry("WRAM")>>) = 1
  BY DEF Memories
<1>6. QED
  BY <1>2, <1>3, <1>4, <1>5 DEF AllEntries, NativeEntries

LEMMA SlotFields ==
    ASSUME NEW a
    PROVE  /\ Slot(Entry(a)).alloc = a
           /\ Slot(Entry(a)).region = Region(a)
           /\ Slot(Entry(a)).offset = Base[a]
           /\ Slot(Entry(a)).size = Bytes[a]
<1> DEFINE e == Entry(a)
<1>1. e.alloc = a /\ e.region = Region(a) /\ e.offset = Base[a] /\ e.size = Bytes[a]
  BY DEF Entry
<1>2. Slot(e) = [alloc |-> e.alloc, region |-> e.region, offset |-> e.offset, size |-> e.size]
  BY DEF Slot
<1> HIDE DEF e
<1>3. Slot(e).alloc = e.alloc /\ Slot(e).region = e.region /\ Slot(e).offset = e.offset
      /\ Slot(e).size = e.size
  BY <1>2
<1>4. QED
  BY <1>1, <1>3 DEF e

LEMMA NativeMember ==
    ASSUME NEW p, NEW k \in DOMAIN Native(p)
    PROVE  Native(p)[k] \in NativeSet(p)
BY DEF NativeSet

LEMMA WramCovered ==
    ASSUME HostInv, status = "run", NEW addr \in GuestAddrs[platform], Covering(addr) = {}
    PROVE  addr \in Nat \X Nat /\ addr[1] # 0
<1>1. platform \in Platforms /\ slots = SetupMemory(AllEntries(platform))
  BY SlotsWhenRunning DEF HostInv, Typed
<1>2. 1 \in DOMAIN AllEntries(platform) /\ AllEntries(platform)[1] = Entry("WRAM")
  BY <1>1, EntryList
<1>3. 1 \in DOMAIN slots /\ slots[1] = Slot(Entry("WRAM"))
  BY <1>1, <1>2 DEF SetupMemory
<1>4. addr \in (0 .. 2) \X Nat /\ (addr[1] = 0 => addr[2] < Bytes["WRAM"])
  BY <1>1, GuestAddrsAssumption
<1>5. Base["WRAM"] = 0
  BY SizesAssumption
<1>6. ASSUME addr[1] = 0
      PROVE  InSlot(slots[1], addr)
  <2>1. slots[1].region = 0 /\ slots[1].offset = 0 /\ slots[1].size = Bytes["WRAM"]
    BY <1>3, <1>5, SlotFields DEF Region
  <2>2. addr[2] \in Nat /\ addr[2] < Bytes["WRAM"] /\ Bytes["WRAM"] \in Nat
    BY <1>4, <1>6, SizesAssumption DEF Memories
  <2>3. slots[1].offset <= addr[2] /\ addr[2] < slots[1].offset + slots[1].size
    BY <2>1, <2>2
  <2>4. addr[1] = slots[1].region
    BY <2>1, <1>6
  <2>5. QED
    BY <2>3, <2>4 DEF InSlot
<1>7. QED
  BY <1>3, <1>4, <1>6 DEF Covering
-----------------------------------------------------------------------------
(* The run loop and the guest.                                              *)
LEMMA AnswerMmioStep == HostInv /\ AnswerMmio => HostInv'
<1> SUFFICES ASSUME HostInv, AnswerMmio PROVE HostInv'
  OBVIOUS
<1>1. status = "run" /\ exit.kind = "mmio" /\ platform \in Platforms
      /\ UNCHANGED <<files, phase, turn, vmmEntries, nativeEntries, slots, job, stores>>
  BY DEF AnswerMmio, HostInv, Typed
<1>2. exit.addr \in GuestAddrs[platform] /\ Covering(exit.addr) = {}
  BY <1>1 DEF HostInv, Exits
<1>3. exit.addr \in Nat \X Nat /\ exit.addr[1] # 0 /\ Ready(platform, mem)
  BY <1>1, <1>2, WramCovered, SlotsWhenRunning
<1>4. Harmless(mem, Answer(exit))
  BY <1>1, <1>3, RoutesHarmless, EndsHarmless DEF Answer, Ready
<1>5. /\ SameShape(mem, mem')
      /\ status' \in {"run", "failed", "aborted"}
      /\ exit' \in {exit, NoExit}
  BY <1>1, <1>4 DEF AnswerMmio, Harmless
<1>6. Memory' /\ Entered' /\ Mapped'
  BY <1>1, <1>5, QuietStep
<1>7. Typed' /\ Phased'
  BY <1>1, <1>5 DEF HostInv, Typed, Phased, files
<1>8. Exits'
  BY <1>1, <1>5 DEF HostInv, Exits, files, Covering, InSlot, NoExit
<1>9. QED
  BY <1>6, <1>7, <1>8 DEF HostInv

LEMMA ProcessHypercallStep == HostInv /\ ProcessHypercall => HostInv'
<1> SUFFICES ASSUME HostInv, ProcessHypercall PROVE HostInv'
  OBVIOUS
<1>1. /\ status = "run" /\ status' \in {"run", "exited", "failed"} /\ exit' \in {exit, NoExit}
      /\ UNCHANGED <<files, phase, turn, mem, vmmEntries, nativeEntries, slots, job, stores>>
  BY DEF ProcessHypercall
<1>2. SameShape(mem, mem')
  BY <1>1, SameItself DEF HostInv, Memory
<1>3. Memory' /\ Entered' /\ Mapped'
  BY <1>1, <1>2, QuietStep
<1>4. Typed' /\ Phased'
  BY <1>1 DEF HostInv, Typed, Phased, files
<1>5. Exits'
  BY <1>1 DEF HostInv, Exits, files, Covering, InSlot, NoExit
<1>6. QED
  BY <1>3, <1>4, <1>5 DEF HostInv

(* A store writes a word of the memory behind a slot, or is an exit.        *)
LEMMA GuestStoreStep ==
    ASSUME HostInv, NEW addr \in GuestAddrs[platform], NEW len \in Lengths, GuestStore(addr, len)
    PROVE  HostInv'
<1>1. /\ status = "run" /\ status' = status /\ stores' \in 0 .. MaxStores /\ phase = 3
      /\ platform \in Platforms
      /\ UNCHANGED <<files, phase, turn, vmmEntries, nativeEntries, slots, job>>
  BY MaxStoresAssumption DEF GuestStore, Running, HostInv, Typed, Phased
<1>2. CASE Covering(addr) # {}
  <2> DEFINE i == CHOOSE i \in Covering(addr) : TRUE
             s == slots[i]
             v == <<"guest", stores', FALSE>>
  <2>1. mem' = Put(mem, s.alloc, addr[2] - s.offset, v).mem /\ exit' = exit
    BY <1>2 DEF GuestStore
  <2>2. i \in DOMAIN slots
    BY <1>2 DEF Covering
  <2>3. slots = SetupMemory(AllEntries(platform)) /\ Shape(mem)
    BY <1>1, SlotsWhenRunning DEF Ready
  <2>4. s.alloc \in Memories
    <3>1. i \in 1 .. Len(Native(platform)) + 1 /\ s = Slot(AllEntries(platform)[i])
      BY <1>1, <2>2, <2>3, EntryList DEF SetupMemory
    <3>2. CASE i = 1
      <4>1. s = Slot(Entry("WRAM"))
        BY <1>1, <3>1, <3>2, EntryList
      <4>2. QED
        BY <4>1, SlotFields DEF Memories
    <3>3. CASE i # 1
      <4>1. i - 1 \in 1 .. Len(Native(platform)) /\ i = (i - 1) + 1
        BY <1>1, <3>1, <3>3, EntryList
      <4>2. s = Slot(Entry(Native(platform)[i - 1])) /\ i - 1 \in DOMAIN Native(platform)
        BY <1>1, <3>1, <4>1, EntryList
      <4>3. s.alloc \in NativeSet(platform)
        BY <4>2, SlotFields, NativeMember
      <4>4. QED
        BY <1>1, <4>3, NativeSets DEF Platforms, Memories
    <3>4. QED
      BY <3>2, <3>3
  <2>5. SameShape(mem, mem')
    BY <2>1, <2>3, <2>4, PutShape
  <2>6. Memory' /\ Entered' /\ Mapped'
    BY <1>1, <2>5, QuietStep
  <2>7. Typed' /\ Phased'
    BY <1>1 DEF HostInv, Typed, Phased, files
  <2>8. Exits'
    BY <1>1, <2>1 DEF HostInv, Exits, files, Covering, InSlot
  <2>9. QED
    BY <2>6, <2>7, <2>8 DEF HostInv
<1>3. CASE Covering(addr) = {}
  <2>1. mem' = mem /\ exit' = Mmio(TRUE, len, addr, <<"guest", stores', FALSE>>)
    BY <1>3 DEF GuestStore
  <2>2. SameShape(mem, mem')
    BY <2>1, SameItself DEF HostInv, Memory
  <2>3. Memory' /\ Entered' /\ Mapped'
    BY <1>1, <2>2, QuietStep
  <2>4. Typed' /\ Phased'
    BY <1>1 DEF HostInv, Typed, Phased, files
  <2>5. Exits'
    BY <1>1, <1>3, <2>1 DEF Exits, files, Covering, InSlot, Mmio
  <2>6. QED
    BY <2>3, <2>4, <2>5 DEF HostInv
<1>4. QED
  BY <1>2, <1>3

(* The guest's other steps only set the exit.                               *)
LEMMA GuestExitStep ==
    ASSUME HostInv, Running,
           UNCHANGED <<files, status, phase, turn, mem, vmmEntries, nativeEntries, slots, regs, job,
                       stores, bus>>,
           exit'.kind \in {"mmio", "io", "other"},
           exit'.kind = "mmio" => exit'.addr \in GuestAddrs[platform] /\ Covering(exit'.addr) = {}
    PROVE  HostInv'
<1>1. SameShape(mem, mem') /\ phase = 3 /\ platform' = platform
      /\ UNCHANGED <<files, phase, turn, vmmEntries, nativeEntries, slots>>
  BY SameItself DEF HostInv, Memory, Phased, Running, files
<1>2. Memory' /\ Entered' /\ Mapped'
  BY <1>1, QuietStep
<1>3. Typed' /\ Phased'
  BY DEF HostInv, Typed, Phased, files
<1>4. Exits'
  BY <1>1 DEF Exits, Covering, InSlot
<1>5. QED
  BY <1>2, <1>3, <1>4 DEF HostInv

LEMMA StepHolds == HostInv /\ [Next]_vars => HostInv'
<1> SUFFICES ASSUME HostInv, [Next]_vars PROVE HostInv'
  OBVIOUS
<1>1. CASE HostInit
  BY <1>1, AllocateVmmStep, AllocateNativeStep, CopyEntriesStep, LoadKernelStep, InitKvmStep,
     SkipPhaseStep, KernelLoadedStep DEF HostInit
<1>2. CASE HostLoad
  BY <1>2, LoadExeStep, ExeLoadedStep, CopyWordStep, NextSegmentStep, FailStep DEF HostLoad, LoadPs3
<1>3. CASE HostRun
  BY <1>3, ProcessHypercallStep, AnswerMmioStep, FailStep DEF HostRun, OtherExit
<1>4. CASE Guest
  <2>1. ASSUME NEW addr \in GuestAddrs[platform], NEW len \in Lengths, GuestStore(addr, len)
        PROVE  HostInv'
    BY <2>1, GuestStoreStep
  <2>2. ASSUME NEW addr \in GuestAddrs[platform], NEW len \in Lengths, GuestLoad(addr, len)
        PROVE  HostInv'
    <3>1. exit'.kind = "mmio" /\ exit'.addr = addr /\ Covering(addr) = {}
      BY <2>2 DEF GuestLoad, Mmio
    <3>2. QED
      BY <2>2, <3>1, GuestExitStep DEF GuestLoad
  <2>3. ASSUME NEW rdi \in 0 .. 2, GuestHypercall(rdi)
        PROVE  HostInv'
    <3>1. exit'.kind = "io"
      BY <2>3 DEF GuestHypercall
    <3>2. QED
      BY <2>3, <3>1, GuestExitStep DEF GuestHypercall
  <2>4. CASE GuestStops
    <3>1. exit'.kind = "other"
      BY <2>4 DEF GuestStops
    <3>2. QED
      BY <2>4, <3>1, GuestExitStep DEF GuestStops
  <2>5. CASE KvmRunFails
    BY <2>5, FailStep DEF KvmRunFails
  <2>6. QED
    BY <1>4, <2>1, <2>2, <2>3, <2>4, <2>5 DEF Guest
<1>5. CASE UNCHANGED vars
  <2>1. SameShape(mem, mem')
    BY <1>5, SameItself DEF HostInv, Memory, vars
  <2>2. UNCHANGED <<files, phase, turn, vmmEntries, nativeEntries, slots>>
    BY <1>5 DEF vars, files
  <2>3. Memory' /\ Entered' /\ Mapped'
    BY <2>1, <2>2, QuietStep
  <2>4. Typed' /\ Phased'
    BY <1>5 DEF HostInv, Typed, Phased, vars
  <2>5. Exits'
    BY <1>5 DEF HostInv, Exits, vars, Covering, InSlot
  <2>6. QED
    BY <2>3, <2>4, <2>5 DEF HostInv
<1>6. QED
  BY <1>1, <1>2, <1>3, <1>4, <1>5 DEF Next, Host

LEMMA Invariance == Spec => []HostInv
  BY InitHolds, StepHolds, PTL DEF Spec
-----------------------------------------------------------------------------
(* The host's state has its types; a memory is whole or not allocated.      *)
THEOREM TypeCorrect == Spec => []TypeOK
<1>1. HostInv => TypeOK
  BY DEF HostInv, Typed, Memory, Shape, Exits, TypeOK, WordsOf, Ended
<1>2. QED
  BY <1>1, Invariance, PTL

(* No access of the host program leaves its memories, whatever the files,   *)
(* the sizes and the order in which the subsystems registered.              *)
THEOREM AccessesStayInside == Spec => []StaysInside
<1>1. HostInv => StaysInside
  BY DEF HostInv, Typed, StaysInside
<1>2. QED
  BY <1>1, Invariance, PTL

(* The slots of a running guest are those of all memories of its console.   *)
LEMMA SlotsCover == HostInv => SlotsCoverMemory
<1>1. ASSUME HostInv, status = "run"
      PROVE  SlotsCoverMemory
  <2> DEFINE N == Native(platform)
  <2>1. platform \in Platforms /\ slots = SetupMemory(AllEntries(platform))
        /\ KvmAccepts(AllEntries(platform)) /\ Ready(platform, mem)
    BY <1>1, SlotsWhenRunning DEF HostInv, Typed
  <2>2. /\ DOMAIN slots = 1 .. Len(N) + 1 /\ Len(N) \in Nat /\ DOMAIN N = 1 .. Len(N)
        /\ DOMAIN AllEntries(platform) = DOMAIN slots
        /\ \A i \in DOMAIN slots : slots[i] = Slot(AllEntries(platform)[i])
        /\ slots[1] = Slot(Entry("WRAM"))
        /\ \A i \in 1 .. Len(N) : slots[i + 1] = Slot(Entry(N[i]))
    <3>1. /\ DOMAIN AllEntries(platform) = 1 .. Len(N) + 1 /\ Len(N) \in Nat
          /\ DOMAIN N = 1 .. Len(N)
          /\ AllEntries(platform)[1] = Entry("WRAM")
          /\ \A i \in 1 .. Len(N) : AllEntries(platform)[i + 1] = Entry(N[i])
      BY <2>1, EntryList
    <3>2. DOMAIN slots = DOMAIN AllEntries(platform)
          /\ \A i \in DOMAIN slots : slots[i] = Slot(AllEntries(platform)[i])
      BY <2>1 DEF SetupMemory
    <3>3. 1 \in DOMAIN slots /\ \A i \in 1 .. Len(N) : i + 1 \in DOMAIN slots
      BY <3>1, <3>2
    <3>4. QED
      BY <3>1, <3>2, <3>3
  <2>3. \A i \in 1 .. Len(N) : slots[i + 1].alloc = N[i] /\ N[i] \in NativeSet(platform)
    BY <2>2, SlotFields DEF NativeSet
  <2>4. slots[1].alloc = "WRAM"
    BY <2>2, SlotFields
  <2>5. "WRAM" \notin NativeSet(platform)
    BY <2>1, NativeSets DEF Platforms
  <2>6. \A i, j \in 1 .. Len(N) : N[i] = N[j] => i = j
    <3>1. CASE platform = "XENON"
      BY <3>1 DEF Native
    <3>2. CASE platform = "DC"
      BY <3>2 DEF Native
    <3>3. CASE platform = "WII"
      BY <3>3 DEF Native
    <3>4. CASE platform = "PS3"
      BY <3>4 DEF Native
    <3>5. QED
      BY <2>1, <3>1, <3>2, <3>3, <3>4 DEF Platforms
  <2>7. \A i, j \in DOMAIN slots : slots[i].alloc = slots[j].alloc => i = j
    <3>1. \A i \in DOMAIN slots : i # 1 => i - 1 \in 1 .. Len(N) /\ i = (i - 1) + 1
      BY <2>2
    <3>2. \A i \in DOMAIN slots : i # 1 => slots[i].alloc = N[i - 1]
                                         /\ N[i - 1] \in NativeSet(platform)
      BY <3>1, <2>3
    <3>3. QED
      BY <3>1, <3>2, <2>4, <2>5, <2>6
  <2>8. ASSUME NEW a \in NativeSet(platform) \union {"WRAM"}
        PROVE  \E i \in DOMAIN slots : slots[i] = Slot(Entry(a))
    <3>1. CASE a = "WRAM"
      BY <3>1, <2>2
    <3>2. CASE a \in NativeSet(platform)
      <4>1. PICK i \in 1 .. Len(N) : N[i] = a
        BY <3>2, <2>2 DEF NativeSet
      <4>2. i + 1 \in DOMAIN slots /\ slots[i + 1] = Slot(Entry(a))
        BY <4>1, <2>2
      <4>3. QED
        BY <4>2
    <3>3. QED
      BY <3>1, <3>2
  <2>9. \A a \in NativeSet(platform) \union {"WRAM"} :
            \E i \in DOMAIN slots : /\ slots[i] = Slot(Entry(a))
                                    /\ \A j \in DOMAIN slots \ {i} : slots[j].alloc # a
    BY <2>7, <2>8, SlotFields
  <2>10. ASSUME NEW i \in DOMAIN slots
         PROVE  DOMAIN mem[slots[i].alloc] = 0 .. slots[i].size \div 4 - 1
    <3>1. PICK a \in NativeSet(platform) \union {"WRAM"} : slots[i] = Slot(Entry(a))
      <4>1. CASE i = 1
        BY <4>1, <2>2
      <4>2. CASE i # 1
        <5>1. i - 1 \in 1 .. Len(N) /\ i = (i - 1) + 1
          BY <2>2, <4>2
        <5>2. slots[i] = Slot(Entry(N[i - 1])) /\ N[i - 1] \in NativeSet(platform)
          BY <5>1, <2>2, <2>3
        <5>3. QED
          BY <5>2
      <4>3. QED
        BY <4>1, <4>2
    <3>2. slots[i].alloc = a /\ slots[i].size = Bytes[a]
      BY <3>1, SlotFields
    <3>3. QED
      BY <3>2, <2>1 DEF Ready, WordsOf
  <2>11. \A i, j \in DOMAIN slots : i # j => ~Overlap(slots[i], slots[j])
    BY <2>1, <2>2 DEF KvmAccepts, Overlap, Slot
  <2>12. QED
    BY <2>9, <2>10, <2>11 DEF SlotsCoverMemory
<1>2. QED
  BY <1>1 DEF SlotsCoverMemory

(* Whatever the order of the subsystems, a guest that runs has one slot for *)
(* every memory, over all of it (CrossVmm::Init).                           *)
THEOREM GuestHasItsMemory == Spec => []SlotsCoverMemory
  BY SlotsCover, Invariance, PTL
-----------------------------------------------------------------------------
(***************************************************************************)
(* One memory: whichever way a store of the guest takes, through a slot or *)
(* through the run loop, it ends where the console's map says.             *)
(***************************************************************************)
Own(p) == NativeSet(p) \union {"WRAM"}

(* What a store does to memories that follow the console's map.             *)
Stored(p, m, addr, v) ==
    LET place == Place(p, addr)
    IN  IF place = Nowhere THEN m ELSE [m EXCEPT ![place[1]][place[2]] = v]

Storing == exit.kind = "mmio" /\ exit.write = TRUE

(* No exit before the guest runs; then the memories are those the guest     *)
(* should see, up to the store that waits in an exit for its answer.        *)
Shown ==
    /\ status \in {"init", "load"} => exit = NoExit
    /\ exit.kind = "mmio" =>
          \E w \in BOOLEAN, len \in Lengths : \E addr, v : exit = Mmio(w, len, addr, v)
    /\ status = "run" => bus = IF Storing THEN Stored(platform, mem, exit.addr, exit.value) ELSE mem

BusInv == HostInv /\ Shown
-----------------------------------------------------------------------------
(* Arithmetic of areas and mirrors.                                         *)
LEMMA AreaThree ==
    ASSUME NEW at \in Nat, NEW n \in Nat \ {0}
    PROVE  at \div n = 3 <=> 3 * n <= at /\ at < 4 * n
<1>1. at = n * (at \div n) + (at % n) /\ at % n \in 0 .. n - 1 /\ at \div n \in Nat
  OBVIOUS
<1> DEFINE q == at \div n
<1>2. CASE q = 3
  BY <1>1, <1>2
<1>3. CASE q <= 2
  <2>1. n * q <= n * 2
    BY <1>1, <1>3, SMTT(30)
  <2>2. QED
    BY <1>1, <1>3, <2>1
<1>4. CASE q >= 4
  <2>1. n * q >= n * 4
    BY <1>1, <1>4, SMTT(30)
  <2>2. QED
    BY <1>1, <1>4, <2>1
<1>5. QED
  BY <1>1, <1>2, <1>3, <1>4

LEMMA SmallMod ==
    ASSUME NEW k \in Nat, NEW n \in Nat \ {0}, k < n
    PROVE  k % n = k
  OBVIOUS

LEMMA Remainder ==
    ASSUME NEW n \in Nat \ {0}, NEW q \in Nat, NEW r \in 0 .. n - 1
    PROVE  (n * q + r) % n = r
<1> DEFINE x == n * q + r
<1>1. n * q \in Nat
  BY SMTT(30)
<1>2. x \in Nat
  BY <1>1
<1> HIDE DEF x
<1>3. x = n * (x \div n) + (x % n) /\ x % n \in 0 .. n - 1 /\ x \div n \in Nat
  BY <1>2
<1>4. ASSUME NEW j \in Nat, NEW k \in Nat, j < k
      PROVE  n * j + n <= n * k
  <2>1. k - j \in Nat /\ k - j >= 1 /\ k = j + (k - j)
    BY <1>4
  <2>2. \A d \in Nat : d >= 1 => n * (j + d) = n * j + n * d /\ n * d >= n
    BY SMTT(30)
  <2>3. QED
    BY <2>1, <2>2
<1>5. x \div n = q
  <2>1. CASE x \div n < q
    BY <2>1, <1>1, <1>3, <1>4 DEF x
  <2>2. CASE q < x \div n
    BY <2>2, <1>1, <1>3, <1>4 DEF x
  <2>3. QED
    BY <2>1, <2>2, <1>3
<1>6. QED
  BY <1>1, <1>3, <1>5 DEF x

LEMMA MirrorMod ==
    ASSUME NEW at \in Nat, NEW base \in Nat, NEW n \in Nat \ {0}, base <= at, base % n = 0
    PROVE  (at - base) % n = at % n
<1> DEFINE q == (at - base) \div n
           r == (at - base) % n
           b == base \div n
<1>1. base = n * b /\ b \in Nat
  OBVIOUS
<1>2. at - base = n * q + r /\ r \in 0 .. n - 1 /\ q \in Nat
  OBVIOUS
<1> HIDE DEF q, r, b
<1>3. n * (q + b) = n * q + n * b /\ q + b \in Nat
  BY <1>1, <1>2, SMTT(30)
<1>4. at = n * (q + b) + r
  <2>1. n * q \in Nat /\ n * b \in Nat
    BY <1>1, <1>2, SMTT(30)
  <2>2. QED
    BY <1>1, <1>2, <1>3, <2>1
<1>5. at % n = r
  BY <1>2, <1>3, <1>4, Remainder
<1>6. QED
  BY <1>5 DEF r
-----------------------------------------------------------------------------
(* The map: a word of memory is at one place, and what no slot covers is    *)
(* nowhere or in a mirror of the DRAM.                                      *)
LEMMA OwnMemories ==
    ASSUME NEW p \in Platforms, NEW a \in Own(p)
    PROVE  /\ a \in Memories /\ Base[a] \in Nat /\ Bytes[a] \in Nat \ {0}
           /\ a = "DRAM" => p = "DC"
           /\ p = "DC" => a \in {"WRAM", "BIOS", "DRAM", "VRAM"}
<1>1. a \in Memories /\ (a = "DRAM" => p = "DC")
      /\ (p = "DC" => a \in {"WRAM", "BIOS", "DRAM", "VRAM"})
  BY NativeSets DEF Own, Platforms, Memories
<1>2. QED
  BY <1>1, SizesAssumption

LEMMA SlotOf ==
    ASSUME HostInv, status = "run", NEW a \in Own(platform)
    PROVE  \E i \in DOMAIN slots : /\ slots[i].alloc = a /\ slots[i].region = Region(a)
                                  /\ slots[i].offset = Base[a] /\ slots[i].size = Bytes[a]
<1>1. PICK i \in DOMAIN slots : slots[i] = Slot(Entry(a))
  BY SlotsCover DEF SlotsCoverMemory, Own
<1>2. QED
  BY <1>1, SlotFields

LEMMA SlotIs ==
    ASSUME HostInv, status = "run", NEW i \in DOMAIN slots
    PROVE  /\ slots[i].alloc \in Own(platform)
           /\ slots[i].region = Region(slots[i].alloc)
           /\ slots[i].offset = Base[slots[i].alloc]
           /\ slots[i].size = Bytes[slots[i].alloc]
<1> DEFINE N == Native(platform)
<1>1. platform \in Platforms /\ slots = SetupMemory(AllEntries(platform))
  BY SlotsWhenRunning DEF HostInv, Typed
<1>2. i \in 1 .. Len(N) + 1 /\ Len(N) \in Nat /\ slots[i] = Slot(AllEntries(platform)[i])
  BY <1>1, EntryList DEF SetupMemory
<1>3. PICK a \in Own(platform) : AllEntries(platform)[i] = Entry(a)
  <2>1. CASE i = 1
    BY <1>1, <2>1, EntryList DEF Own
  <2>2. CASE i # 1
    <3>1. i - 1 \in 1 .. Len(N) /\ i = (i - 1) + 1
      BY <1>2, <2>2
    <3>2. AllEntries(platform)[i] = Entry(N[i - 1]) /\ i - 1 \in DOMAIN N
      BY <1>1, <3>1, EntryList
    <3>3. N[i - 1] \in Own(platform)
      BY <3>2, NativeMember DEF Own
    <3>4. QED
      BY <3>2, <3>3
  <2>3. QED
    BY <2>1, <2>2
<1>4. QED
  BY <1>2, <1>3, SlotFields

LEMMA Covered ==
    ASSUME HostInv, status = "run", NEW addr, NEW a \in Own(platform), InMemory(a, addr),
           a # "DRAM" \/ addr[2] < Base[a] + Bytes[a]
    PROVE  Covering(addr) # {}
<1>1. PICK i \in DOMAIN slots : /\ slots[i].region = Region(a)
                                /\ slots[i].offset = Base[a] /\ slots[i].size = Bytes[a]
  BY SlotOf
<1>2. addr[1] = Region(a) /\ Base[a] <= addr[2] /\ addr[2] < Base[a] + Bytes[a]
  BY DEF InMemory
<1>3. InSlot(slots[i], addr)
  BY <1>1, <1>2 DEF InSlot
<1>4. QED
  BY <1>3 DEF Covering

LEMMA EntryOf ==
    ASSUME NEW p \in Platforms, NEW a \in Own(p)
    PROVE  \E i \in DOMAIN AllEntries(p) : AllEntries(p)[i] = Entry(a)
<1>1. CASE a = "WRAM"
  BY <1>1, EntryList
<1>2. CASE a \in NativeSet(p)
  <2>1. PICK i \in DOMAIN Native(p) : Native(p)[i] = a
    BY <1>2 DEF NativeSet
  <2>2. i \in 1 .. Len(Native(p)) /\ Len(Native(p)) \in Nat
    BY <2>1, EntryList
  <2>3. i + 1 \in DOMAIN AllEntries(p) /\ AllEntries(p)[i + 1] = Entry(a)
    BY <2>1, <2>2, EntryList
  <2>4. QED
    BY <2>3
<1>3. QED
  BY <1>1, <1>2 DEF Own

LEMMA OnePlace ==
    ASSUME NEW p \in Platforms, KvmAccepts(AllEntries(p)), NEW addr \in Nat \X Nat,
           NEW a \in Own(p), NEW b \in Own(p), InMemory(a, addr), InMemory(b, addr)
    PROVE  a = b
<1>1. addr[1] \in Nat /\ addr[2] \in Nat
  OBVIOUS
<1>2. ASSUME NEW x \in Own(p), NEW y \in Own(p), x # y, x # "DRAM", y # "DRAM",
             InMemory(x, addr), InMemory(y, addr)
      PROVE  FALSE
  <2> DEFINE E == AllEntries(p)
  <2>1. PICK i \in DOMAIN E : E[i] = Entry(x)
    BY EntryOf
  <2>2. PICK j \in DOMAIN E : E[j] = Entry(y)
    BY EntryOf
  <2> HIDE DEF E
  <2>3. E[i].alloc = x /\ E[i].region = Region(x) /\ E[i].offset = Base[x] /\ E[i].size = Bytes[x]
    BY <2>1 DEF Entry
  <2>4. E[j].alloc = y /\ E[j].region = Region(y) /\ E[j].offset = Base[y] /\ E[j].size = Bytes[y]
    BY <2>2 DEF Entry
  <2>5. i # j
    BY <1>2, <2>3, <2>4
  <2>6. ~Overlap(E[i], E[j])
    BY <2>5 DEF KvmAccepts, E
  <2>7. Base[x] \in Nat /\ Bytes[x] \in Nat /\ Base[y] \in Nat /\ Bytes[y] \in Nat
    BY OwnMemories
  <2>8. Base[x] < Base[y] + Bytes[y] /\ Base[y] < Base[x] + Bytes[x] /\ Region(x) = Region(y)
    BY <1>1, <1>2, <2>7 DEF InMemory
  <2>9. QED
    BY <2>3, <2>4, <2>6, <2>8 DEF Overlap
<1>3. ASSUME NEW y \in Own(p), y # "DRAM", p = "DC", InMemory("DRAM", addr), InMemory(y, addr)
      PROVE  FALSE
  <2>1. y \in {"WRAM", "BIOS", "VRAM"}
    BY <1>3, OwnMemories
  <2>2. AreaBytes \in Nat /\ Base["DRAM"] = 3 * AreaBytes
        /\ Base["BIOS"] + Bytes["BIOS"] <= 3 * AreaBytes /\ Base["VRAM"] >= 4 * AreaBytes
        /\ Base[y] \in Nat /\ Bytes[y] \in Nat
    BY <1>3, SizesAssumption, DramAssumption, OwnMemories
  <2>3. addr[1] = 1 /\ 3 * AreaBytes <= addr[2] /\ addr[2] < 4 * AreaBytes
    BY <1>1, <1>3, <2>2 DEF InMemory, Region
  <2>4. addr[1] = Region(y) /\ Base[y] <= addr[2] /\ addr[2] < Base[y] + Bytes[y]
    BY <1>3 DEF InMemory
  <2>5. y # "WRAM"
    BY <2>3, <2>4 DEF Region
  <2>6. QED
    BY <1>1, <2>1, <2>2, <2>3, <2>4, <2>5
<1>4. QED
  BY <1>2, <1>3, OwnMemories

LEMMA PlaceIs ==
    ASSUME NEW p \in Platforms, KvmAccepts(AllEntries(p)), NEW addr \in Nat \X Nat,
           NEW a \in Own(p), InMemory(a, addr)
    PROVE  /\ Place(p, addr) = <<a, ((addr[2] - Base[a]) % Bytes[a]) \div 4>>
           /\ Place(p, addr) # Nowhere
<1> DEFINE Here(b) == /\ b = "WRAM" \/ \E i \in DOMAIN Native(p) : Native(p)[i] = b
                      /\ InMemory(b, addr)
           c == CHOOSE b \in Memories : Here(b)
<1>1. \A b : Here(b) <=> b \in Own(p) /\ InMemory(b, addr)
  BY DEF Own, NativeSet
<1>2. a \in Memories /\ Here(a)
  BY <1>1, OwnMemories
<1>3. c \in Memories /\ Here(c)
  <2> HIDE DEF Here
  <2>1. QED
    BY <1>2
<1>4. c = a
  <2>1. c \in Own(p) /\ InMemory(c, addr)
    BY <1>1, <1>3
  <2>2. QED
    BY <2>1, OnePlace
<1>5. Place(p, addr) = <<c, ((addr[2] - Base[c]) % Bytes[c]) \div 4>>
  <2>1. Place(p, addr) = IF \E b \in Memories : Here(b)
                           THEN <<c, ((addr[2] - Base[c]) % Bytes[c]) \div 4>>
                           ELSE Nowhere
    BY DEF Place
  <2> HIDE DEF Here, c
  <2>2. QED
    BY <1>2, <2>1
<1>6. a # "nowhere"
  BY <1>2 DEF Memories
<1> HIDE DEF Here, c
<1>7. QED
  BY <1>4, <1>5, <1>6 DEF Nowhere

LEMMA PlaceOf ==
    ASSUME HostInv, status = "run", NEW addr \in GuestAddrs[platform],
           NEW a \in Own(platform), InMemory(a, addr)
    PROVE  /\ Place(platform, addr) = <<a, ((addr[2] - Base[a]) % Bytes[a]) \div 4>>
           /\ Place(platform, addr) # Nowhere
<1>1. platform \in Platforms /\ KvmAccepts(AllEntries(platform))
  BY SlotsWhenRunning DEF HostInv, Typed
<1>2. addr \in Nat \X Nat
  BY <1>1, GuestAddrsAssumption
<1>3. QED
  BY <1>1, <1>2, PlaceIs

LEMMA PlaceNone ==
    ASSUME NEW p, NEW addr, \A a \in Own(p) : ~InMemory(a, addr)
    PROVE  Place(p, addr) = Nowhere
<1>1. ~ \E a \in Memories :
          /\ a = "WRAM" \/ \E i \in DOMAIN Native(p) : Native(p)[i] = a
          /\ InMemory(a, addr)
  BY DEF Own, NativeSet
<1>2. QED
  BY <1>1 DEF Place

Mirror(addr) == platform = "DC" /\ addr[1] = 1 /\ addr[2] \div AreaBytes = 3

LEMMA Uncovered ==
    ASSUME HostInv, status = "run", NEW addr \in GuestAddrs[platform], Covering(addr) = {}
    PROVE  /\ Mirror(addr) =>
                 /\ Place(platform, addr) = <<"DRAM", (addr[2] % Bytes["DRAM"]) \div 4>>
                 /\ Place(platform, addr) # Nowhere
           /\ ~Mirror(addr) => Place(platform, addr) = Nowhere
<1>1. platform \in Platforms /\ addr[2] \in Nat
  BY WramCovered DEF HostInv, Typed
<1>2. /\ AreaBytes \in Nat \ {0} /\ Base["DRAM"] = 3 * AreaBytes /\ Bytes["DRAM"] \in Nat \ {0}
      /\ Base["DRAM"] \in Nat /\ Base["DRAM"] % Bytes["DRAM"] = 0
  BY SizesAssumption, DramAssumption DEF Memories
<1>3. ASSUME platform = "DC"
      PROVE  "DRAM" \in Own(platform) /\ (InMemory("DRAM", addr) <=> Mirror(addr))
  <2>1. "DRAM" \in Own(platform)
    BY <1>3, NativeSets DEF Own
  <2>2. addr[2] \div AreaBytes = 3 <=> 3 * AreaBytes <= addr[2] /\ addr[2] < 4 * AreaBytes
    BY <1>1, <1>2, AreaThree
  <2>3. InMemory("DRAM", addr) <=>
            addr[1] = 1 /\ 3 * AreaBytes <= addr[2] /\ addr[2] < 4 * AreaBytes
    BY <1>1, <1>2 DEF InMemory, Region
  <2>4. QED
    BY <1>3, <2>1, <2>2, <2>3 DEF Mirror
<1>4. CASE Mirror(addr)
  <2>1. "DRAM" \in Own(platform) /\ InMemory("DRAM", addr)
    BY <1>3, <1>4 DEF Mirror
  <2>2. Base["DRAM"] <= addr[2]
    BY <2>1 DEF InMemory
  <2>3. (addr[2] - Base["DRAM"]) % Bytes["DRAM"] = addr[2] % Bytes["DRAM"]
    BY <1>1, <1>2, <2>2, MirrorMod
  <2>4. QED
    BY <1>4, <2>1, <2>3, PlaceOf
<1>5. CASE ~Mirror(addr)
  <2>1. ASSUME NEW a \in Own(platform), InMemory(a, addr)
        PROVE  FALSE
    <3>1. a = "DRAM"
      BY <2>1, Covered
    <3>2. platform = "DC"
      BY <1>1, <3>1, OwnMemories
    <3>3. QED
      BY <1>3, <1>5, <2>1, <3>1, <3>2
  <2>2. QED
    BY <1>5, <2>1, PlaceNone
<1>6. QED
  BY <1>4, <1>5

(* What the run loop does with a store that it answers.                     *)
LEMMA StoreAnswered ==
    ASSUME HostInv, status = "run", NEW addr \in GuestAddrs[platform], Covering(addr) = {}, NEW v
    PROVE  /\ WritePhys32(platform, mem, addr, v).end = "none" =>
                 WritePhys32(platform, mem, addr, v).mem = Stored(platform, mem, addr, v)
           /\ WritePhys16(platform, mem, addr).end = "none" =>
                 WritePhys16(platform, mem, addr).mem = Stored(platform, mem, addr, v)
<1> DEFINE at == addr[2]
           o32 == WriteRegion32(platform, mem, addr[1], at, v)
           o16 == WriteRegion16(platform, mem, addr[1], at)
<1>1. platform \in Platforms /\ at \in Nat /\ addr[1] \in Nat /\ addr[1] # 0 /\ Ready(platform, mem)
  BY WramCovered, SlotsWhenRunning DEF HostInv, Typed
<1>2. WritePhys32(platform, mem, addr, v) = o32 /\ WritePhys16(platform, mem, addr) = o16
  BY <1>1 DEF WritePhys32, WritePhys16
<1>3. ~Mirror(addr) => Stored(platform, mem, addr, v) = mem
  BY Uncovered DEF Stored
<1>4. CASE platform = "XENON"
  <2>1. addr[1] = 1 => ~(at < Bytes["XRAM"])
    <3>1. "XRAM" \in Own(platform) /\ Base["XRAM"] = 0
      BY <1>4, NativeSets, SizesAssumption DEF Own
    <3>2. addr[1] = 1 /\ at < Bytes["XRAM"] => InMemory("XRAM", addr)
      BY <1>1, <3>1, SizesAssumption DEF InMemory, Region, Memories
    <3>3. QED
      BY <3>1, <3>2, Covered
  <2>2. o32.end = "none" => o32.mem = mem
    BY <1>4, <2>1 DEF WriteRegion32, XenonWriteRegion32, XenonWriteRam32, XenonWriteSoc32, Made,
       Throws, Aborts
  <2>3. o16.end # "none"
    BY <1>4 DEF WriteRegion16, Throws, Aborts
  <2>4. QED
    BY <1>2, <1>3, <1>4, <2>2, <2>3 DEF Mirror
<1>5. CASE platform = "DC" /\ Mirror(addr)
  <2>1. addr[1] = 1 /\ at \div AreaBytes = 3 /\ AreaBytes \in Nat \ {0}
    BY <1>5, SizesAssumption DEF Mirror
  <2>2. 3 * AreaBytes <= at /\ at < 4 * AreaBytes
    BY <1>1, <2>1, AreaThree
  <2>3. at < 8 * AreaBytes /\ ~(at >= 8 * AreaBytes)
    BY <1>1, <2>1, <2>2
  <2>4. o32 = Put(mem, "DRAM", at % Bytes["DRAM"], v)
    BY <1>5, <2>1, <2>3 DEF WriteRegion32, DcWritePhys32
  <2>5. o32.end = "none" =>
            o32.mem = [mem EXCEPT !["DRAM"][(at % Bytes["DRAM"]) \div 4] = v]
    BY <2>4 DEF Put, Made, Wild
  <2>6. Stored(platform, mem, addr, v) = [mem EXCEPT !["DRAM"][(at % Bytes["DRAM"]) \div 4] = v]
    <3> DEFINE place == Place(platform, addr)
    <3>1. place # Nowhere /\ place = <<"DRAM", (at % Bytes["DRAM"]) \div 4>>
      BY <1>5, Uncovered
    <3>2. place[1] = "DRAM" /\ place[2] = (at % Bytes["DRAM"]) \div 4
      BY <3>1
    <3>3. Stored(platform, mem, addr, v) = [mem EXCEPT ![place[1]][place[2]] = v]
      BY <3>1 DEF Stored
    <3> HIDE DEF place
    <3>4. QED
      BY <3>2, <3>3
  <2>7. o16.end # "none"
    <3>1. Reg["g1Half"] \in Nat /\ at # Reg["g1Half"]
      BY <1>1, <2>1, <2>2, SizesAssumption, DramAssumption DEF Registers
    <3>2. o16 = Throws(mem)
      BY <1>5, <2>1, <2>3, <3>1 DEF WriteRegion16, DcWritePhys16
    <3>3. QED
      BY <3>2 DEF Throws
  <2>8. QED
    BY <1>2, <2>5, <2>6, <2>7
<1>6. CASE platform = "DC" /\ ~Mirror(addr)
  <2>1. o32.end = "none" => o32.mem = mem
    <3>1. CASE addr[1] = 1
      <4>1. ~(at \div AreaBytes = 3)
        BY <1>6, <3>1 DEF Mirror
      <4>2. o32 \in {Made(mem), Throws(mem), Aborts(mem)}
        BY <1>6, <3>1, <4>1 DEF WriteRegion32, DcWritePhys32
      <4>3. QED
        BY <4>2 DEF Made, Throws, Aborts
    <3>2. CASE addr[1] # 1
      BY <1>6, <3>2 DEF WriteRegion32, Aborts
    <3>3. QED
      BY <3>1, <3>2
  <2>2. o16.end = "none" => o16.mem = mem
    BY <1>6 DEF WriteRegion16, DcWritePhys16, Made, Throws, Aborts
  <2>3. QED
    BY <1>2, <1>3, <1>6, <2>1, <2>2
<1>7. CASE platform \in {"WII", "PS3"}
  <2>1. o32 = Made(mem) /\ o16 = Made(mem) /\ ~Mirror(addr)
    BY <1>7 DEF WriteRegion32, WriteRegion16, Mirror
  <2>2. QED
    BY <1>2, <1>3, <2>1 DEF Made
<1>8. QED
  BY <1>1, <1>4, <1>5, <1>6, <1>7 DEF Platforms

LEMMA LoadAnswered ==
    ASSUME NEW addr
    PROVE  ReadPhys32(platform, mem, addr).mem = mem
  BY DEF ReadPhys32, ReadRegion32, XenonReadRegion32, Get, Made, Throws, Aborts, Wild
-----------------------------------------------------------------------------
(* No way into memory ends with a running guest.                            *)
LEMMA Ends ==
    ASSUME NEW p \in Platforms, NEW m, NEW addr, NEW a, NEW at, NEW v
    PROVE  /\ Put(m, a, at, v).end # "run" /\ WritePhys8(m, addr, v).end # "run"
           /\ WritePhys32(p, m, addr, v).end # "run" /\ LoaderWrite32(p, m, addr, v).end # "run"
<1>1. \A b, i : Put(m, b, i, v).end # "run"
  BY DEF Put, Made, Wild
<1>2. WritePhys8(m, addr, v).end # "run"
  BY <1>1 DEF WritePhys8, Throws
<1>3. \A i : XenonWriteRam32(m, i, v).end # "run" /\ XenonWriteSoc32(m, i, v).end # "run"
  BY <1>1 DEF XenonWriteRam32, XenonWriteSoc32, Made, Throws
<1>4. \A i : DcWritePhys32(m, i, v).end # "run"
  <2> SUFFICES ASSUME NEW i PROVE DcWritePhys32(m, i, v).end # "run"
    OBVIOUS
  <2>1. DcWritePhys32(m, i, v) \in
          {Aborts(m), Put(m, "DRAM", i % Bytes["DRAM"], v), Made(m), Throws(m)}
    BY DEF DcWritePhys32
  <2>2. QED
    BY <1>1, <2>1 DEF Made, Throws, Aborts
<1>5. \A i : WiiWritePhys32(m, i, v).end # "run"
  BY <1>1 DEF WiiWritePhys32, Throws
<1>6. \A r, i : WriteRegion32(p, m, r, i, v).end # "run"
  BY <1>3, <1>4 DEF WriteRegion32, XenonWriteRegion32, Made, Aborts, Platforms
<1>7. WritePhys32(p, m, addr, v).end # "run"
  BY <1>1, <1>6 DEF WritePhys32, Throws
<1>8. LoaderWrite32(p, m, addr, v).end # "run"
  BY <1>3, <1>4, <1>5 DEF LoaderWrite32, Throws, Aborts, Platforms
<1>9. QED
  BY <1>1, <1>2, <1>7, <1>8

(* Before the guest runs, and when the program ends, nothing is shown.      *)
LEMMA NotRunning ==
    ASSUME Shown, exit' = exit, status' # "run",
           status' \in {"init", "load"} => status \in {"init", "load"}
    PROVE  Shown'
  BY DEF Shown

LEMMA FailShown == Shown /\ Fail => Shown'
  BY NotRunning DEF Fail

LEMMA InitShown == BusInv /\ HostInit => Shown'
<1> SUFFICES ASSUME BusInv, HostInit PROVE Shown'
  OBVIOUS
<1>1. Shown /\ platform \in Platforms
  BY DEF BusInv, HostInv, Typed
<1>2. ASSUME Advance, status = "init", exit' = exit PROVE Shown'
  BY <1>1, <1>2, NotRunning DEF Advance
<1>3. CASE AllocateVmm
  BY <1>1, <1>2, <1>3, FailShown DEF AllocateVmm, Turn
<1>4. CASE AllocateNative
  BY <1>1, <1>2, <1>4, FailShown DEF AllocateNative, Turn
<1>5. CASE CopyEntries
  BY <1>2, <1>5 DEF CopyEntries, Turn
<1>6. CASE LoadKernel
  BY <1>1, <1>6, NotRunning DEF LoadKernel, Turn, StartJob
<1>7. CASE InitKvm
  <2>1. WritePhys8(mem, <<0, GdtAt>>, <<"gdt", 0, FALSE>>).end # "run"
    BY <1>1, Ends
  <2>2. CASE Advance /\ exit' = exit
    BY <1>2, <1>7, <2>2 DEF InitKvm, Turn
  <2>3. CASE ~(Advance /\ exit' = exit)
    <3>1. exit' = exit /\ status = "init"
          /\ status' \in {"failed", WritePhys8(mem, <<0, GdtAt>>, <<"gdt", 0, FALSE>>).end}
      BY <1>7, <2>3 DEF InitKvm, Turn
    <3>2. QED
      BY <1>1, <2>1, <3>1, NotRunning
  <2>4. QED
    BY <2>2, <2>3
<1>8. CASE SkipPhase
  BY <1>2, <1>8 DEF SkipPhase, Turn
<1>9. CASE KernelLoaded
  <2>1. Advance /\ exit' = exit /\ status \in {"init", "load"}
    BY <1>9 DEF KernelLoaded, Copied
  <2>2. status' \in {"init", "load"}
    BY <2>1 DEF Advance
  <2>3. QED
    BY <1>1, <2>1, <2>2, NotRunning
<1>10. QED
  BY <1>3, <1>4, <1>5, <1>6, <1>7, <1>8, <1>9 DEF HostInit

LEMMA StartShown ==
    ASSUME BusInv, NEW pc, StartRun(pc), exit' = exit, status \in {"init", "load"}
    PROVE  Shown'
<1>1. exit = NoExit /\ PutContext(pc).end # "run" /\ bus' = mem'
  BY Ends DEF BusInv, Shown, HostInv, Typed, StartRun, PutContext
<1>2. exit'.kind = "none" /\ exit' = NoExit
  BY <1>1 DEF NoExit
<1>3. QED
  BY <1>1, <1>2 DEF Shown, Storing

LEMMA LoadShown == BusInv /\ HostLoad => Shown'
<1> SUFFICES ASSUME BusInv, HostLoad PROVE Shown'
  OBVIOUS
<1>1. Shown /\ platform \in Platforms
  BY DEF BusInv, HostInv, Typed
<1>2. CASE LoadExe
  <2>1. status = "load" /\ exit' = exit
    BY <1>2 DEF LoadExe
  <2>2. CASE exe.is = "noPath" /\ platform = "DC"
    BY <1>2, <2>1, <2>2, StartShown DEF LoadExe
  <2>3. CASE ~(exe.is = "noPath" /\ platform = "DC")
    <3>1. PutContext(NoEntry).end # "run"
      BY <1>1, Ends DEF PutContext
    <3>2. status' # "run"
      BY <1>2, <2>1, <2>3, <3>1 DEF LoadExe, StartJob
    <3>3. QED
      BY <1>1, <2>1, <3>2, NotRunning
  <2>4. QED
    BY <2>2, <2>3
<1>3. CASE LoadPs3
  BY <1>1, <1>3, FailShown DEF LoadPs3
<1>4. CASE ExeLoaded
  BY <1>4, StartShown DEF ExeLoaded, Copied
<1>5. CASE CopyWord
  <2>1. status \in {"init", "load"} /\ exit' = exit
    BY <1>5 DEF CopyWord, Copying
  <2>2. \A addr, v : WriteWord(addr, v).end # "run"
    BY <1>1, Ends DEF WriteWord
  <2>3. status' # "run"
    BY <1>5, <2>1, <2>2 DEF CopyWord
  <2>4. QED
    BY <1>1, <2>1, <2>3, NotRunning
<1>6. CASE NextSegment
  BY <1>1, <1>6, NotRunning DEF NextSegment, Copying
<1>7. QED
  BY <1>2, <1>3, <1>4, <1>5, <1>6 DEF HostLoad
-----------------------------------------------------------------------------
(* The run loop answers a store by making it.                               *)
LEMMA AnswerShown == BusInv /\ AnswerMmio => Shown'
<1> SUFFICES ASSUME BusInv, AnswerMmio PROVE Shown'
  OBVIOUS
<1> DEFINE o == Answer(exit)
<1>1. /\ Shown /\ HostInv /\ status = "run" /\ exit.kind = "mmio" /\ platform' = platform
      /\ bus' = bus /\ mem' = o.mem
      /\ status' = (IF o.end = "none" THEN status ELSE o.end)
      /\ exit' = (IF o.end = "none" THEN NoExit ELSE exit)
  BY DEF AnswerMmio, BusInv, files
<1>2. exit.addr \in GuestAddrs[platform] /\ Covering(exit.addr) = {} /\ platform \in Platforms
  BY <1>1 DEF HostInv, Exits, Typed
<1>3. PICK w \in BOOLEAN, len \in Lengths : \E addr, v : exit = Mmio(w, len, addr, v)
  BY <1>1 DEF Shown
<1> PICK addr, v : exit = Mmio(w, len, addr, v)
  BY <1>3
<1>4. exit.write = w /\ exit.len = len /\ exit.addr = addr /\ exit.value = v
  BY DEF Mmio
<1>5. CASE o.end = "none"
  <2>1. o.mem = bus
    <3>1. CASE w
      <4>1. bus = Stored(platform, mem, addr, v)
        BY <1>1, <1>4, <3>1 DEF Shown, Storing
      <4>2. \/ len = 2 /\ o = WritePhys16(platform, mem, addr)
            \/ len = 4 /\ o = WritePhys32(platform, mem, addr, v)
            \/ o = Throws(mem)
        BY <1>4, <3>1 DEF Answer
      <4>3. o # Throws(mem)
        BY <1>5 DEF Throws
      <4> HIDE DEF o
      <4>4. QED
        BY <1>1, <1>2, <1>4, <1>5, <4>1, <4>2, <4>3, StoreAnswered
    <3>2. CASE ~w
      <4>1. bus = mem
        BY <1>1, <1>4, <3>2 DEF Shown, Storing
      <4>2. o \in {ReadPhys32(platform, mem, addr), Throws(mem)}
        BY <1>4, <3>2 DEF Answer
      <4> HIDE DEF o
      <4>3. QED
        BY <4>1, <4>2, LoadAnswered DEF Throws
    <3>3. QED
      BY <3>1, <3>2
  <2> HIDE DEF o
  <2>2. exit' = NoExit /\ mem' = bus' /\ status' = "run"
    BY <1>1, <1>5, <2>1
  <2>3. exit'.kind = "none"
    BY <2>2 DEF NoExit
  <2>4. QED
    BY <2>2, <2>3 DEF Shown, Storing
<1>6. CASE o.end # "none"
  <2>1. exit.addr \in Nat \X Nat /\ exit.addr[1] # 0 /\ Ready(platform, mem)
    BY <1>1, <1>2, WramCovered, SlotsWhenRunning
  <2>2. Harmless(mem, o)
    BY <1>2, <2>1, RoutesHarmless, EndsHarmless DEF Answer, Ready
  <2> HIDE DEF o
  <2>3. status' \in {"failed", "aborted"} /\ exit' = exit
    BY <1>1, <1>6, <2>2 DEF Harmless
  <2>4. QED
    BY <1>1, <2>3, NotRunning
<1>7. QED
  BY <1>5, <1>6

LEMMA CallShown == BusInv /\ ProcessHypercall => Shown'
<1> SUFFICES ASSUME BusInv, ProcessHypercall PROVE Shown'
  OBVIOUS
<1>1. Shown /\ status = "run" /\ exit.kind = "io" /\ mem' = mem /\ bus' = bus
  BY DEF BusInv, ProcessHypercall
<1>2. bus = mem
  BY <1>1 DEF Shown, Storing
<1>3. CASE status' = "failed" /\ exit' = exit
  BY <1>1, <1>3, NotRunning
<1>4. CASE exit' = NoExit /\ status' \in {"exited", "run"}
  <2>1. exit'.kind = "none"
    BY <1>4 DEF NoExit
  <2>2. QED
    BY <1>1, <1>2, <1>4, <2>1 DEF Shown, Storing
<1>5. QED
  BY <1>1, <1>3, <1>4 DEF ProcessHypercall

(* A store through a slot is made at once, any other waits in the exit.     *)
LEMMA StoreShown ==
    ASSUME BusInv, NEW addr \in GuestAddrs[platform], NEW len \in Lengths, GuestStore(addr, len)
    PROVE  Shown'
<1> DEFINE v == <<"guest", stores', FALSE>>
           place == Place(platform, addr)
<1>1. /\ HostInv /\ Shown /\ status = "run" /\ status' = "run" /\ exit = NoExit
      /\ platform' = platform /\ platform \in Platforms
  BY DEF GuestStore, Running, BusInv, HostInv, Typed, files
<1>2. mem = bus /\ exit.kind = "none"
  BY <1>1 DEF Shown, Storing, NoExit
<1>3. bus' = IF place = Nowhere THEN bus ELSE [bus EXCEPT ![place[1]][place[2]] = v]
  BY DEF GuestStore
<1>4. bus' = Stored(platform, mem, addr, v)
  BY <1>2, <1>3 DEF Stored
<1>5. CASE Covering(addr) = {}
  <2>1. mem' = mem /\ exit' = Mmio(TRUE, len, addr, v)
    BY <1>5 DEF GuestStore
  <2>2. exit'.kind = "mmio" /\ exit'.write = TRUE /\ exit'.addr = addr /\ exit'.value = v
    BY <2>1 DEF Mmio
  <2> HIDE DEF v
  <2>3. Storing'
    BY <2>2 DEF Storing
  <2>4. QED
    BY <1>1, <1>4, <2>1, <2>2, <2>3 DEF Shown
<1>6. CASE Covering(addr) # {}
  <2> DEFINE i == CHOOSE i \in Covering(addr) : TRUE
             s == slots[i]
             a == s.alloc
  <2>1. mem' = Put(mem, a, addr[2] - s.offset, v).mem /\ exit' = exit
    BY <1>6 DEF GuestStore
  <2>2. i \in Covering(addr)
    BY <1>6
  <2> HIDE DEF i
  <2>3. i \in DOMAIN slots /\ InSlot(s, addr)
    BY <2>2 DEF Covering
  <2>4. a \in Own(platform) /\ s.region = Region(a) /\ s.offset = Base[a] /\ s.size = Bytes[a]
    BY <1>1, <2>3, SlotIs
  <2> HIDE DEF a, s
  <2>5. /\ a \in Memories /\ Base[a] \in Nat /\ Bytes[a] \in Nat \ {0} /\ addr[2] \in Nat
        /\ Bytes["DRAM"] <= AreaBytes /\ AreaBytes \in Nat
    BY <1>1, <2>4, OwnMemories, GuestAddrsAssumption, SizesAssumption, DramAssumption
  <2>6. addr[1] = Region(a) /\ Base[a] <= addr[2] /\ addr[2] < Base[a] + Bytes[a]
    BY <2>3, <2>4 DEF InSlot
  <2> DEFINE at == addr[2] - Base[a]
  <2>7. InMemory(a, addr)
    BY <2>5, <2>6 DEF InMemory
  <2>8. at \in Nat /\ at < Bytes[a] /\ at % Bytes[a] = at
    BY <2>5, <2>6, SmallMod
  <2>9. place # Nowhere /\ place = <<a, at \div 4>>
    BY <1>1, <2>4, <2>7, <2>8, PlaceOf
  <2>10. place[1] = a /\ place[2] = at \div 4
    BY <2>9
  <2>11. at \div 4 \in DOMAIN mem[a]
    <3>1. DOMAIN mem[a] = WordsOf(a)
      BY <1>1, <2>4, SlotsWhenRunning DEF Ready, Own
    <3>2. QED
      BY <2>5, <2>8, <3>1, InBounds
  <2> HIDE DEF at, place, v
  <2>12. mem' = [mem EXCEPT ![a][at \div 4] = v]
    BY <2>1, <2>4, <2>11 DEF Put, Made, at
  <2>13. mem' = bus'
    BY <1>2, <1>3, <2>9, <2>10, <2>12
  <2>14. QED
    BY <1>1, <1>2, <2>1, <2>13 DEF Shown, Storing
<1>7. QED
  BY <1>5, <1>6

(* The guest's other exits store nothing.                                   *)
LEMMA ExitShown ==
    ASSUME Shown, Running, UNCHANGED <<status, mem, bus>>,
           exit'.kind \in {"mmio", "io", "other"},
           exit'.kind = "mmio" =>
               \E len \in Lengths : \E addr, v : exit' = Mmio(FALSE, len, addr, v)
    PROVE  Shown'
<1>1. mem = bus /\ status' = "run"
  BY DEF Shown, Running, Storing, NoExit
<1>2. ~Storing'
  BY DEF Storing, Mmio
<1>3. exit'.kind = "mmio" =>
          \E w \in BOOLEAN, len \in Lengths : \E addr, v : exit' = Mmio(w, len, addr, v)
  OBVIOUS
<1>4. QED
  BY <1>1, <1>2, <1>3 DEF Shown

LEMMA GuestShown == BusInv /\ Guest => Shown'
<1> SUFFICES ASSUME BusInv, Guest PROVE Shown'
  OBVIOUS
<1>1. Shown
  BY DEF BusInv
<1>2. ASSUME NEW addr \in GuestAddrs[platform], NEW len \in Lengths, GuestStore(addr, len)
      PROVE  Shown'
  BY <1>2, StoreShown
<1>3. ASSUME NEW addr \in GuestAddrs[platform], NEW len \in Lengths, GuestLoad(addr, len)
      PROVE  Shown'
  <2>1. exit' = Mmio(FALSE, len, addr, Junk) /\ exit'.kind = "mmio"
    BY <1>3 DEF GuestLoad, Mmio
  <2>2. QED
    BY <1>1, <1>3, <2>1, ExitShown DEF GuestLoad
<1>4. ASSUME NEW rdi \in 0 .. 2, GuestHypercall(rdi)
      PROVE  Shown'
  <2>1. exit'.kind = "io"
    BY <1>4 DEF GuestHypercall
  <2>2. QED
    BY <1>1, <1>4, <2>1, ExitShown DEF GuestHypercall
<1>5. CASE GuestStops
  <2>1. exit'.kind = "other"
    BY <1>5 DEF GuestStops
  <2>2. QED
    BY <1>1, <1>5, <2>1, ExitShown DEF GuestStops
<1>6. CASE KvmRunFails
  BY <1>1, <1>6, FailShown DEF KvmRunFails
<1>7. QED
  BY <1>2, <1>3, <1>4, <1>5, <1>6 DEF Guest
-----------------------------------------------------------------------------
LEMMA BusInvariance == Spec => []BusInv
<1>1. Init => BusInv
  <2>1. Init => Shown
    BY DEF Init, Shown, NoExit
  <2>2. QED
    BY <2>1, InitHolds DEF BusInv
<1>2. BusInv /\ [Next]_vars => BusInv'
  <2> SUFFICES ASSUME BusInv, [Next]_vars PROVE BusInv'
    OBVIOUS
  <2>1. HostInv'
    BY StepHolds DEF BusInv
  <2>2. ASSUME HostRun PROVE Shown'
    <3>1. Shown
      BY DEF BusInv
    <3>2. QED
      BY <2>2, <3>1, AnswerShown, CallShown, FailShown DEF HostRun, OtherExit
  <2>3. ASSUME UNCHANGED vars PROVE Shown'
    <3>1. Shown /\ exit' = exit /\ status' = status /\ bus' = bus /\ mem' = mem
          /\ platform' = platform
      BY <2>3 DEF BusInv, vars
    <3>2. \A addr, v : Stored(platform, mem, addr, v)' = Stored(platform, mem, addr, v)
      BY <3>1 DEF Stored
    <3>3. QED
      BY <3>1, <3>2 DEF Shown, Storing
  <2>4. Shown'
    BY <2>2, <2>3, InitShown, LoadShown, GuestShown DEF Next, Host
  <2>5. QED
    BY <2>1, <2>4 DEF BusInv
<1>3. QED
  BY <1>1, <1>2, PTL DEF Spec

(* A guest that goes on finds every store it has made at its place on the   *)
(* console's map and nothing else changed, for every size and layout of     *)
(* the memories (KvmContext::Run, DcPhysicalMemory::WritePhys32).           *)
THEOREM GuestSeesOneMemory == Spec => []OneMemory
<1>1. BusInv => OneMemory
  BY DEF BusInv, Shown, OneMemory, Running, Storing, NoExit
<1>2. QED
  BY <1>1, BusInvariance, PTL

-----------------------------------------------------------------------------
(***************************************************************************)
(* Files in place: what has been copied so far, and the GDT and context    *)
(* once they are written, is where it belongs; the rest is as allocated.   *)
(***************************************************************************)
Brought(file, elf, k, i) ==
    <<Home(file, elf.segs[k], i),
      FileWord(file, elf.segs[k].offset + i, file = "exe" /\ Swapped(platform))>>

GdtWord == <<<<"WRAM", GdtAt \div 4>>, <<"gdt", 0, FALSE>>>>
ContextWord ==
    <<<<"WRAM", ContextAt \div 4>>,
      Context(platform, IF exe.is = "noPath" THEN BiosEntry ELSE exe.entry)>>

(* The loader is past word i of segment k.                                  *)
Done(file, k, i) == job.file = file /\ (k < job.seg \/ (k = job.seg /\ i < job.i))

(* The words that have been written.                                        *)
Due(x) ==
    \/ \E k \in DOMAIN kernel.segs : \E i \in Steps(kernel.segs[k]) :
          /\ Past("CrossVmm", 1) \/ Done("crossvmm.bin", k, i)
          /\ x = Brought("crossvmm.bin", kernel, k, i)
    \/ \E k \in DOMAIN exe.segs : \E i \in Steps(exe.segs[k]) :
          /\ status = "run" \/ Done("exe", k, i)
          /\ x = Brought("exe", exe, k, i)
    \/ Past("CrossVmm", 2) /\ x = GdtWord
    \/ status = "run" /\ x = ContextWord

InPlace(m, x) == x[1] # Nowhere => m[x[1][1]][x[1][2]] = x[2]

There(a) == IF a = "WRAM" THEN Past("VmmMemory", 0) ELSE Past("NativeMemory", 0)

Filled ==
    /\ \A x \in Loaded : Due(x) => InPlace(mem, x)
    /\ \A a \in Own(platform) : There(a) => \A i \in WordsOf(a) :
          (\E x \in Loaded : x[1] = <<a, i>>) \/ mem[a][i] = Contents(a)[i]

(* The entries KVM will accept, and the files that ElfIntact is about.      *)
Sane == KvmAccepts(AllEntries(platform)) /\ WellFormed

FileInv ==
    /\ job.i % 4 = 0
    /\ job.file = "exe" => exe.is = "whole"
    /\ Past("CrossVmm", 2) => regs = SetupRegisters
    /\ status = "run" /\ Storing => stores > 0
    /\ Sane /\ (status \in {"init", "load"} \/ (status = "run" /\ stores = 0)) => Filled
-----------------------------------------------------------------------------
(* A loader's word is stored where the console's map says.                  *)
LEMMA StoredAt ==
    ASSUME NEW p, NEW m, NEW addr, NEW v, NEW a, NEW k,
           Place(p, addr) = <<a, k>>, Place(p, addr) # Nowhere
    PROVE  Stored(p, m, addr, v) = [m EXCEPT ![a][k] = v]
<1> DEFINE place == Place(p, addr)
<1>1. place[1] = a /\ place[2] = k /\ place # Nowhere
  OBVIOUS
<1>2. Stored(p, m, addr, v) = [m EXCEPT ![place[1]][place[2]] = v]
  BY DEF Stored
<1> HIDE DEF place
<1>3. QED
  BY <1>1, <1>2

LEMMA ToRam ==
    ASSUME NEW p \in Platforms, KvmAccepts(AllEntries(p)), NEW m, NEW at \in Nat, NEW v,
           NEW a \in Own(p), a # "DRAM", Base[a] = 0, at < Bytes[a], Put(m, a, at, v).end = "none"
    PROVE  Put(m, a, at, v).mem = Stored(p, m, <<Region(a), at>>, v)
<1> DEFINE addr == <<Region(a), at>>
           n == [m EXCEPT ![a][at \div 4] = v]
<1>1. addr \in Nat \X Nat /\ addr[1] = Region(a) /\ addr[2] = at
  BY DEF Region
<1>2. Bytes[a] \in Nat \ {0}
  BY OwnMemories
<1>3. InMemory(a, addr)
  BY <1>1, <1>2 DEF InMemory
<1>4. (addr[2] - Base[a]) % Bytes[a] = at
  <2>1. addr[2] - Base[a] = at
    BY <1>1
  <2>2. QED
    BY <1>2, <2>1, SmallMod
<1>5. Place(p, addr) = <<a, at \div 4>> /\ Place(p, addr) # Nowhere
  BY <1>1, <1>3, <1>4, PlaceIs
<1>6. Put(m, a, at, v).mem = n
  BY DEF Put, Made, Wild
<1>7. Stored(p, m, addr, v) = n
  BY <1>5, StoredAt
<1>8. QED
  BY <1>6, <1>7

LEMMA KernelLands ==
    ASSUME NEW p \in Platforms, KvmAccepts(AllEntries(p)), NEW m, NEW at \in Nat, NEW v,
           WritePhys32(p, m, <<0, at>>, v).end = "none"
    PROVE  WritePhys32(p, m, <<0, at>>, v).mem = Stored(p, m, <<0, at>>, v)
<1>1. WritePhys32(p, m, <<0, at>>, v) =
          IF at < Bytes["WRAM"] THEN Put(m, "WRAM", at, v) ELSE Throws(m)
  BY DEF WritePhys32
<1>2. at < Bytes["WRAM"] /\ WritePhys32(p, m, <<0, at>>, v) = Put(m, "WRAM", at, v)
  BY <1>1 DEF Throws
<1>3. "WRAM" \in Own(p) /\ Base["WRAM"] = 0 /\ Region("WRAM") = 0
  BY SizesAssumption DEF Own, Region
<1>4. QED
  BY <1>2, <1>3, ToRam

(* A register's address is nobody's.                                        *)
LEMMA RegistersApart ==
    /\ \A r \in {"uartTx", "uartConfig"} : Place("XENON", <<2, Reg[r]>>) = Nowhere
    /\ Place("DC", <<1, Reg["g1Word"]>>) = Nowhere
<1>1. "XENON" \in Platforms /\ "DC" \in Platforms
      /\ Reg["uartTx"] \in Nat /\ Reg["uartConfig"] \in Nat /\ Reg["g1Word"] \in Nat
      /\ Bytes["BROM"] \in Nat /\ Base["BROM"] = 0
      /\ AreaBytes \in Nat
  BY SizesAssumption DEF Platforms, Registers, Memories
<1>2. ASSUME NEW r \in {"uartTx", "uartConfig"}, NEW a \in Own("XENON")
      PROVE  ~InMemory(a, <<2, Reg[r]>>)
  <2>1. Reg[r] >= Bytes["BROM"] /\ Reg[r] \in Nat
    BY <1>1, RegAssumption
  <2>2. a = "BROM" => ~(Reg[r] < Base[a] + Bytes[a])
    BY <1>1, <2>1
  <2>3. a # "BROM" => Region(a) # 2
    BY DEF Region
  <2>4. QED
    BY <2>2, <2>3 DEF InMemory
<1>3. ASSUME NEW a \in Own("DC")
      PROVE  ~InMemory(a, <<1, Reg["g1Word"]>>)
  <2>1. a \in {"WRAM", "BIOS", "DRAM", "VRAM"} /\ Base[a] \in Nat /\ Bytes[a] \in Nat
    BY <1>1, OwnMemories
  <2>2. CASE a = "WRAM"
    BY <2>2 DEF InMemory, Region
  <2>3. CASE a = "BIOS"
    BY <1>1, <2>1, <2>3, RegAssumption DEF InMemory
  <2>4. CASE a \in {"DRAM", "VRAM"}
    BY <1>1, <2>1, <2>4, RegAssumption, DramAssumption DEF InMemory
  <2>5. QED
    BY <2>1, <2>2, <2>3, <2>4
<1>4. QED
  BY <1>2, <1>3, PlaceNone

LEMMA XenonLands ==
    ASSUME KvmAccepts(AllEntries("XENON")), NEW m, NEW w \in Nat, NEW at \in Nat, NEW v,
           LoaderWrite32("XENON", m, <<w, at>>, v).end = "none"
    PROVE  LoaderWrite32("XENON", m, <<w, at>>, v).mem =
               Stored("XENON", m, <<IF w = 2 THEN 2 ELSE 1, at>>, v)
<1> DEFINE o == LoaderWrite32("XENON", m, <<w, at>>, v)
<1>1. o = IF w > 3 \/ at % 4 # 0 THEN Aborts(m)
          ELSE IF w = 2 THEN XenonWriteSoc32(m, at, v) ELSE XenonWriteRam32(m, at, v)
  BY DEF LoaderWrite32
<1>2. o = IF w = 2 THEN XenonWriteSoc32(m, at, v) ELSE XenonWriteRam32(m, at, v)
  BY <1>1 DEF Aborts
<1>3. CASE w = 2
  <2>1. o = Made(m) /\ at \in {Reg["uartConfig"], Reg["uartTx"]}
    BY <1>2, <1>3 DEF XenonWriteSoc32, Throws
  <2>2. Place("XENON", <<2, at>>) = Nowhere
    BY <2>1, RegistersApart
  <2>3. QED
    BY <1>3, <2>1, <2>2 DEF Stored, Made
<1>4. CASE w # 2
  <2>1. o = Put(m, "XRAM", at, v) /\ at < Bytes["XRAM"]
    BY <1>2, <1>4 DEF XenonWriteRam32, Throws
  <2>2. "XRAM" \in Own("XENON") /\ Base["XRAM"] = 0 /\ Region("XRAM") = 1 /\ "XENON" \in Platforms
    BY NativeSets, SizesAssumption DEF Own, Region, Platforms
  <2>3. QED
    BY <1>4, <2>1, <2>2, ToRam
<1>5. QED
  BY <1>3, <1>4

LEMMA DcLands ==
    ASSUME KvmAccepts(AllEntries("DC")), NEW m, NEW at \in Nat, NEW v,
           DcWritePhys32(m, at, v).end = "none"
    PROVE  DcWritePhys32(m, at, v).mem = Stored("DC", m, <<1, at>>, v)
<1> DEFINE o == DcWritePhys32(m, at, v)
           addr == <<1, at>>
<1>1. /\ AreaBytes \in Nat \ {0} /\ Base["DRAM"] = 3 * AreaBytes /\ Bytes["DRAM"] \in Nat \ {0}
      /\ Base["DRAM"] \in Nat /\ Base["DRAM"] % Bytes["DRAM"] = 0 /\ "DC" \in Platforms
      /\ "DRAM" \in Own("DC") /\ addr \in Nat \X Nat /\ addr[1] = 1 /\ addr[2] = at
  BY SizesAssumption, DramAssumption, NativeSets DEF Memories, Own, Platforms
<1>2. CASE at \div AreaBytes = 3
  <2>1. 3 * AreaBytes <= at /\ at < 4 * AreaBytes
    BY <1>1, <1>2, AreaThree
  <2>2. ~(at >= 8 * AreaBytes) /\ at < 8 * AreaBytes
    BY <1>1, <2>1
  <2>3. o = Put(m, "DRAM", at % Bytes["DRAM"], v)
    BY <1>2, <2>2 DEF DcWritePhys32
  <2>4. InMemory("DRAM", addr)
    BY <1>1, <2>1 DEF InMemory, Region
  <2>5. (addr[2] - Base["DRAM"]) % Bytes["DRAM"] = at % Bytes["DRAM"]
    <3>1. Base["DRAM"] <= at
      BY <1>1, <2>1
    <3>2. (at - Base["DRAM"]) % Bytes["DRAM"] = at % Bytes["DRAM"]
      BY <1>1, <3>1, MirrorMod
    <3>3. QED
      BY <3>2
  <2>6. Place("DC", addr) = <<"DRAM", (at % Bytes["DRAM"]) \div 4>> /\ Place("DC", addr) # Nowhere
    BY <1>1, <2>4, <2>5, PlaceIs
  <2> DEFINE b == at % Bytes["DRAM"]
  <2> HIDE DEF b
  <2>7. o.mem = [m EXCEPT !["DRAM"][b \div 4] = v]
    BY <2>3 DEF Put, Made, Wild, b
  <2>8. Place("DC", addr) = <<"DRAM", b \div 4>>
    BY <2>6 DEF b
  <2>9. QED
    BY <2>6, <2>7, <2>8, StoredAt
<1>3. CASE at \div AreaBytes # 3
  <2>1. o \in {Aborts(m), Made(m), Throws(m)} /\ (o = Made(m) => at = Reg["g1Word"])
    BY <1>3 DEF DcWritePhys32, Aborts, Made, Throws
  <2>2. o = Made(m) /\ at = Reg["g1Word"]
    BY <2>1 DEF Aborts, Throws
  <2>3. Place("DC", addr) = Nowhere
    BY <2>2, RegistersApart
  <2>4. QED
    BY <2>2, <2>3 DEF Stored, Made
<1>4. QED
  BY <1>2, <1>3

LEMMA ExeLands ==
    ASSUME NEW p \in Platforms, KvmAccepts(AllEntries(p)), NEW m, NEW w \in Nat, NEW at \in Nat,
           NEW v, LoaderWrite32(p, m, <<w, at>>, v).end = "none"
    PROVE  LoaderWrite32(p, m, <<w, at>>, v).mem =
               Stored(p, m, <<IF p = "XENON" /\ w = 2 THEN 2 ELSE 1, at>>, v)
<1> DEFINE o == LoaderWrite32(p, m, <<w, at>>, v)
<1>1. CASE p = "XENON"
  BY <1>1, XenonLands
<1>2. CASE p = "DC"
  <2>1. o = IF w \in {4, 5} THEN DcWritePhys32(m, at, v) ELSE Aborts(m)
    BY <1>2 DEF LoaderWrite32
  <2>2. o = DcWritePhys32(m, at, v)
    BY <2>1 DEF Aborts
  <2>3. QED
    BY <1>2, <2>2, DcLands
<1>3. CASE p = "WII"
  <2>1. o = IF w \in {4, 5} THEN WiiWritePhys32(m, at, v) ELSE Throws(m)
    BY <1>3 DEF LoaderWrite32
  <2>2. o = WiiWritePhys32(m, at, v)
    BY <2>1 DEF Throws
  <2>3. "MEM1" \in Own("WII") /\ Base["MEM1"] = 0 /\ Region("MEM1") = 1 /\ Bytes["MEM1"] \in Nat
    BY NativeSets, SizesAssumption DEF Own, Region, Memories
  <2>4. at < Bytes["MEM1"] /\ o = Put(m, "MEM1", at, v)
    BY <2>2, <2>3 DEF WiiWritePhys32, Throws
  <2>5. QED
    BY <1>3, <2>3, <2>4, ToRam
<1>4. CASE p = "PS3"
  BY <1>4 DEF LoaderWrite32, Throws
<1>5. QED
  BY <1>1, <1>2, <1>3, <1>4 DEF Platforms

-----------------------------------------------------------------------------
(* A place on the map is a word of one of the console's memories.           *)
LEMMA PlaceInside ==
    ASSUME NEW p \in Platforms, KvmAccepts(AllEntries(p)), NEW addr \in Nat \X Nat,
           Place(p, addr) # Nowhere
    PROVE  \E a \in Own(p) : \E k \in WordsOf(a) : Place(p, addr) = <<a, k>>
<1>1. PICK a \in Own(p) : InMemory(a, addr)
  BY PlaceNone
<1> DEFINE at == (addr[2] - Base[a]) % Bytes[a]
<1>2. a \in Memories /\ Base[a] \in Nat /\ Bytes[a] \in Nat \ {0} /\ addr[2] \in Nat
  BY OwnMemories
<1>3. Base[a] <= addr[2]
  BY <1>1 DEF InMemory
<1>4. at \in Nat /\ at < Bytes[a]
  BY <1>2, <1>3
<1>5. Place(p, addr) = <<a, at \div 4>>
  BY <1>1, PlaceIs
<1> HIDE DEF at
<1>6. at \div 4 \in WordsOf(a)
  BY <1>2, <1>4, InBounds
<1>7. QED
  BY <1>5, <1>6

LEMMA SegmentsTyped ==
    ASSUME HostInv
    PROVE  /\ kernel.segs \in Seq(Segments) /\ exe.segs \in Seq(Segments)
           /\ \A k \in DOMAIN kernel.segs : kernel.segs[k] \in Segments
           /\ \A k \in DOMAIN exe.segs : exe.segs[k] \in Segments
           /\ exe.is # "whole" => DOMAIN exe.segs = {}
<1>1. platform \in Platforms /\ kernel \in KernelElfs /\ exe \in GuestElfs[platform]
  BY DEF HostInv, Typed
<1>2. kernel \in Elfs /\ exe \in Elfs
  BY <1>1, ElfsAssumption
<1>3. kernel.segs \in Seq(Segments) /\ exe.segs \in Seq(Segments)
  BY <1>2 DEF Elfs
<1>4. exe.is # "whole" => DOMAIN exe.segs = {}
  BY <1>1, ElfsAssumption
<1>5. QED
  BY <1>3, <1>4

LEMMA HomeInside ==
    ASSUME NEW p \in Platforms, p = platform, KvmAccepts(AllEntries(p)), NEW file,
           NEW s \in Segments, NEW i \in Nat, Home(file, s, i) # Nowhere
    PROVE  \E a \in Own(p) : \E k \in WordsOf(a) : Home(file, s, i) = <<a, k>>
<1>1. s.paddr \in Nat \X Nat
  BY DEF Segments
<1>2. RegionOf(file, s) \in Nat
  BY <1>1 DEF RegionOf
<1>3. <<RegionOf(file, s), s.paddr[2] + i>> \in Nat \X Nat
  BY <1>1, <1>2
<1>4. QED
  BY <1>3, PlaceInside DEF Home

LEMMA BroughtIs ==
    ASSUME NEW file, NEW elf, NEW k, NEW i
    PROVE  /\ Brought(file, elf, k, i)[1] = Home(file, elf.segs[k], i)
           /\ Brought(file, elf, k, i)[2] =
                 FileWord(file, elf.segs[k].offset + i, file = "exe" /\ Swapped(platform))
  BY DEF Brought

LEMMA LoadedWords ==
    ASSUME HostInv
    PROVE  \A x : x \in Loaded <=>
              \/ \E k \in DOMAIN kernel.segs : \E i \in Steps(kernel.segs[k]) :
                    x = Brought("crossvmm.bin", kernel, k, i)
              \/ \E k \in DOMAIN exe.segs : \E i \in Steps(exe.segs[k]) :
                    x = Brought("exe", exe, k, i)
              \/ x = GdtWord
              \/ x = ContextWord
<1>1. \A x : x \in Image("crossvmm.bin", kernel) <=>
          \E k \in DOMAIN kernel.segs : \E i \in Steps(kernel.segs[k]) :
              x = Brought("crossvmm.bin", kernel, k, i)
  BY DEF Image, Brought
<1>2. \A x : x \in Image("exe", exe) <=>
          \E k \in DOMAIN exe.segs : \E i \in Steps(exe.segs[k]) : x = Brought("exe", exe, k, i)
  BY DEF Image, Brought
<1>3. \A x : x \in Fixed <=> x = GdtWord \/ x = ContextWord
  BY DEF Fixed, GdtWord, ContextWord
<1>4. QED
  BY <1>1, <1>2, <1>3 DEF Loaded

LEMMA FixedPlaces ==
    /\ GdtWord[1] = <<"WRAM", GdtAt \div 4>> /\ GdtWord[2] = <<"gdt", 0, FALSE>>
    /\ ContextWord[1] = <<"WRAM", ContextAt \div 4>>
    /\ ContextWord[2] = Context(platform, IF exe.is = "noPath" THEN BiosEntry ELSE exe.entry)
    /\ GdtAt \div 4 \in WordsOf("WRAM") /\ ContextAt \div 4 \in WordsOf("WRAM")
    /\ \A p : "WRAM" \in Own(p)
<1>1. "WRAM" \in Memories
  BY DEF Memories
<1>2. GdtAt \in Nat /\ GdtAt < Bytes["WRAM"] /\ ContextAt \in Nat /\ ContextAt < Bytes["WRAM"]
  BY <1>1, WramAssumption, SizesAssumption
<1>3. GdtAt \div 4 \in WordsOf("WRAM") /\ ContextAt \div 4 \in WordsOf("WRAM")
  BY <1>1, <1>2, InBounds
<1>4. QED
  BY <1>3 DEF GdtWord, ContextWord, Own

(* Every word to be loaded that has a place has it in a memory.             *)
LEMMA LoadedInside ==
    ASSUME HostInv, Sane, NEW x \in Loaded, x[1] # Nowhere
    PROVE  \E a \in Own(platform) : \E k \in WordsOf(a) : x[1] = <<a, k>>
<1>1. platform \in Platforms /\ KvmAccepts(AllEntries(platform))
  BY DEF HostInv, Typed, Sane
<1>2. \A s : \A i \in Steps(s) : s \in Segments => i \in Nat
  BY DEF Steps, Segments
<1>3. ASSUME NEW k \in DOMAIN kernel.segs, NEW i \in Steps(kernel.segs[k]),
             x = Brought("crossvmm.bin", kernel, k, i)
      PROVE  \E a \in Own(platform) : \E j \in WordsOf(a) : x[1] = <<a, j>>
  BY <1>1, <1>2, <1>3, SegmentsTyped, HomeInside, BroughtIs
<1>4. ASSUME NEW k \in DOMAIN exe.segs, NEW i \in Steps(exe.segs[k]),
             x = Brought("exe", exe, k, i)
      PROVE  \E a \in Own(platform) : \E j \in WordsOf(a) : x[1] = <<a, j>>
  BY <1>1, <1>2, <1>4, SegmentsTyped, HomeInside, BroughtIs
<1>5. CASE x = GdtWord \/ x = ContextWord
  BY <1>5, FixedPlaces
<1>6. QED
  BY <1>3, <1>4, <1>5, LoadedWords
-----------------------------------------------------------------------------
LEMMA SameFiles ==
    ASSUME UNCHANGED files
    PROVE  /\ platform' = platform /\ kernel' = kernel /\ exe' = exe
           /\ Loaded' = Loaded /\ (Sane' <=> Sane)
           /\ GdtWord' = GdtWord /\ ContextWord' = ContextWord
           /\ \A file, elf, k, i : Brought(file, elf, k, i)' = Brought(file, elf, k, i)
<1>1. platform' = platform /\ kernel' = kernel /\ exe' = exe
  BY DEF files
<1>2. \A file, s, i : Home(file, s, i)' = Home(file, s, i)
  BY <1>1 DEF Home, RegionOf
<1>3. \A file, elf, k, i : Brought(file, elf, k, i)' = Brought(file, elf, k, i)
  BY <1>1, <1>2 DEF Brought
<1>4. \A file, elf : Image(file, elf)' = Image(file, elf)
  BY <1>1, <1>2 DEF Image
<1>5. Fixed' = Fixed /\ GdtWord' = GdtWord /\ ContextWord' = ContextWord
  BY <1>1 DEF Fixed, GdtWord, ContextWord, Context
<1>6. Loaded' = Loaded
  BY <1>1, <1>4, <1>5 DEF Loaded
<1>7. WellFormed' <=> WellFormed
  BY <1>1, <1>4, <1>6 DEF WellFormed
<1>8. QED
  BY <1>1, <1>3, <1>5, <1>6, <1>7 DEF Sane

(* Nothing is written and nothing more is due.                              *)
LEMMA QuietFilled ==
    ASSUME Filled, UNCHANGED <<files, mem>>,
           \A x \in Loaded : Due(x)' => Due(x) \/ x[1] = Nowhere,
           \A a : There(a)' => There(a)
    PROVE  Filled'
<1>1. Loaded' = Loaded /\ platform' = platform /\ mem' = mem
  BY SameFiles
<1>2. \A x \in Loaded : Due(x)' => InPlace(mem, x)'
  BY <1>1 DEF Filled, InPlace
<1>3. ASSUME NEW a \in Own(platform), There(a)', NEW i \in WordsOf(a)
      PROVE  (\E x \in Loaded : x[1] = <<a, i>>) \/ mem'[a][i] = Contents(a)[i]
  BY <1>1, <1>3 DEF Filled
<1>4. QED
  BY <1>1, <1>2, <1>3 DEF Filled

(* One word is written, at a place that some word to be loaded has, and     *)
(* only that place's word becomes due.                                      *)
Writes(a, k, v) ==
    /\ mem' = [mem EXCEPT ![a][k] = v]
    /\ \E x \in Loaded : x[1] = <<a, k>>
    /\ \A x \in Loaded : x[1] # <<a, k>> => (Due(x)' => Due(x) \/ x[1] = Nowhere)
    /\ \A x \in Loaded : x[1] = <<a, k>> => (Due(x)' => x[2] = v)

LEMMA WriteFilled ==
    ASSUME HostInv, Sane, Filled, phase > 0, UNCHANGED files,
           NEW a \in Own(platform), NEW k \in WordsOf(a), NEW v, Writes(a, k, v)
    PROVE  Filled'
<1>0. /\ mem' = [mem EXCEPT ![a][k] = v]
      /\ \E x \in Loaded : x[1] = <<a, k>>
      /\ \A x \in Loaded : x[1] # <<a, k>> => (Due(x)' => Due(x) \/ x[1] = Nowhere)
      /\ \A x \in Loaded : x[1] = <<a, k>> => (Due(x)' => x[2] = v)
  BY DEF Writes
<1>1. Loaded' = Loaded /\ platform' = platform
  BY SameFiles
<1>2. Ready(platform, mem)
  BY PhaseOver
<1>3. platform \in Platforms
  BY DEF HostInv, Typed
<1>4. \A b \in Own(platform) : b \in Memories /\ DOMAIN mem[b] = WordsOf(b)
  BY <1>2, <1>3, OwnMemories DEF Ready, Own
<1>5. mem = [b \in Memories |-> mem[b]]
  BY <1>2 DEF Ready, Shape
<1>6. mem'[a][k] = v
  BY <1>0, <1>4, <1>5
<1>7. \A b \in Own(platform) : \A j \in WordsOf(b) : <<b, j>> # <<a, k>> => mem'[b][j] = mem[b][j]
  BY <1>0, <1>4, <1>5
<1>8. ASSUME NEW x \in Loaded, Due(x)', x[1] # Nowhere
      PROVE  mem'[x[1][1]][x[1][2]] = x[2]
  <2>0. PICK b \in Own(platform) : \E j \in WordsOf(b) : x[1] = <<b, j>>
    BY <1>8, LoadedInside
  <2>1. PICK j \in WordsOf(b) : x[1] = <<b, j>>
    BY <2>0
  <2>2. x[1][1] = b /\ x[1][2] = j
    BY <2>1
  <2>3. CASE x[1] = <<a, k>>
    <3>1. x[2] = v /\ b = a /\ j = k
      BY <1>0, <1>8, <2>1, <2>3
    <3>2. QED
      BY <1>6, <2>2, <3>1
  <2>4. CASE x[1] # <<a, k>>
    <3>1. Due(x)
      BY <1>0, <1>8, <2>4
    <3>2. mem[b][j] = x[2]
      BY <1>8, <2>2, <3>1 DEF Filled, InPlace
    <3>3. mem'[b][j] = mem[b][j]
      BY <1>7, <2>1, <2>4
    <3>4. QED
      BY <2>2, <3>2, <3>3
  <2>5. QED
    BY <2>3, <2>4
<1>9. \A x \in Loaded : Due(x)' => InPlace(mem, x)'
  BY <1>8 DEF InPlace
<1>10. \A b : There(b)
  BY DEF There, Past
<1>11. ASSUME NEW b \in Own(platform), NEW j \in WordsOf(b)
       PROVE  (\E x \in Loaded : x[1] = <<b, j>>) \/ mem'[b][j] = Contents(b)[j]
  BY <1>0, <1>7, <1>10 DEF Filled
<1>12. QED
  BY <1>1, <1>9, <1>11 DEF Filled

-----------------------------------------------------------------------------
PlaceInv == BusInv /\ FileInv

(* A program that has ended or failed promises nothing.                     *)
LEMMA FailFiles == FileInv /\ Fail => FileInv'
<1> SUFFICES ASSUME FileInv, Fail PROVE FileInv'
  OBVIOUS
<1>1. status' = "failed" /\ job' = job /\ exe' = exe /\ phase' = phase /\ turn' = turn
      /\ regs' = regs
  BY DEF Fail, files
<1>2. Past("CrossVmm", 2)' <=> Past("CrossVmm", 2)
  BY <1>1 DEF Past
<1>3. QED
  BY <1>1, <1>2 DEF FileInv

LEMMA EndFiles ==
    ASSUME FileInv, UNCHANGED <<files, phase, turn, regs, job>>,
           status' \notin {"init", "load", "run"}
    PROVE  FileInv'
<1>1. job' = job /\ exe' = exe /\ phase' = phase /\ turn' = turn /\ regs' = regs
  BY DEF files
<1>2. Past("CrossVmm", 2)' <=> Past("CrossVmm", 2)
  BY <1>1 DEF Past
<1>3. QED
  BY <1>1, <1>2 DEF FileInv

LEMMA DueSame ==
    ASSUME UNCHANGED <<files, job>>, status = "run" <=> status' = "run",
           Past("CrossVmm", 1)' <=> Past("CrossVmm", 1),
           Past("CrossVmm", 2)' <=> Past("CrossVmm", 2)
    PROVE  \A x : Due(x)' <=> Due(x)
<1> SUFFICES ASSUME NEW x PROVE Due(x)' <=> Due(x)
  OBVIOUS
<1>1. kernel' = kernel /\ exe' = exe /\ job' = job /\ GdtWord' = GdtWord
      /\ ContextWord' = ContextWord
      /\ \A file, elf, k, i : Brought(file, elf, k, i)' = Brought(file, elf, k, i)
  BY SameFiles
<1>2. QED
  BY <1>1 DEF Due, Done, Steps

(* A subsystem's turn that loads no file and starts no VM.                  *)
LEMMA AdvanceFiles ==
    ASSUME PlaceInv, NEW sub \in Subsystems, NEW ph \in 0 .. 2, Turn(sub, ph), Advance,
           sub # "CrossVmm" \/ ph = 0, UNCHANGED <<files, regs, job, stores>>,
           Sane => Filled'
    PROVE  FileInv'
<1>1. phase = ph /\ Order[turn] = sub /\ status = "init" /\ job' = job /\ regs' = regs
      /\ exe' = exe /\ (Sane' <=> Sane) /\ "CrossVmm" \in Subsystems
  BY SameFiles DEF Turn, files, Subsystems
<1>2. status' \in {"init", "load"} /\ (Past("CrossVmm", 2)' <=> Past("CrossVmm", 2))
  BY <1>1, AdvancePast DEF PlaceInv, BusInv, HostInv
<1>3. QED
  BY <1>1, <1>2 DEF PlaceInv, FileInv

LEMMA AdvanceQuiet ==
    ASSUME PlaceInv, NEW sub \in Subsystems, NEW ph \in 0 .. 2, Turn(sub, ph), Advance,
           <<sub, ph>> \notin {<<"CrossVmm", 1>>, <<"CrossVmm", 2>>, <<"VmmMemory", 0>>,
                               <<"NativeMemory", 0>>},
           UNCHANGED <<files, mem, regs, job, stores>>
    PROVE  FileInv'
<1>1. phase = ph /\ Order[turn] = sub /\ status = "init"
      /\ "CrossVmm" \in Subsystems /\ "VmmMemory" \in Subsystems /\ "NativeMemory" \in Subsystems
  BY DEF Turn, Subsystems
<1>2. /\ status' \in {"init", "load"}
      /\ \A s \in Subsystems, q \in 0 .. 2 :
            Past(s, q)' <=> (Past(s, q) \/ (s = sub /\ q = ph))
  BY <1>1, AdvancePast DEF PlaceInv, BusInv, HostInv
<1>3. /\ Past("CrossVmm", 1)' <=> Past("CrossVmm", 1)
      /\ Past("CrossVmm", 2)' <=> Past("CrossVmm", 2)
      /\ Past("VmmMemory", 0)' <=> Past("VmmMemory", 0)
      /\ Past("NativeMemory", 0)' <=> Past("NativeMemory", 0)
  BY <1>1, <1>2
<1>4. \A x : Due(x)' <=> Due(x)
  BY <1>1, <1>2, <1>3, DueSame
<1>5. \A a : There(a)' <=> There(a)
  BY <1>3 DEF There
<1>6. Sane => Filled'
  BY <1>1, <1>4, <1>5, QuietFilled DEF PlaceInv, FileInv
<1>7. sub # "CrossVmm" \/ ph = 0
  OBVIOUS
<1>8. QED
  BY <1>6, <1>7, AdvanceFiles

(* Memory that is allocated holds what a fresh memory holds.                *)
LEMMA AllocateVmmFiles == PlaceInv /\ AllocateVmm => FileInv'
<1> SUFFICES ASSUME PlaceInv, AllocateVmm PROVE FileInv'
  OBVIOUS
<1>1. CASE Fail
  BY <1>1, FailFiles DEF PlaceInv
<1>2. CASE ~Fail
  <2>1. /\ mem' = [mem EXCEPT !["WRAM"] = Contents("WRAM")]
        /\ Advance /\ Turn("VmmMemory", 0) /\ UNCHANGED <<files, regs, job, stores>>
    BY <1>2 DEF AllocateVmm
  <2>2. phase = 0 /\ Order[turn] = "VmmMemory" /\ status = "init" /\ job = NoJob
        /\ "CrossVmm" \in Subsystems /\ "VmmMemory" \in Subsystems /\ "NativeMemory" \in Subsystems
    BY <2>1 DEF Turn, Subsystems
  <2>3. /\ status' \in {"init", "load"}
        /\ \A s \in Subsystems, q \in 0 .. 2 :
              Past(s, q)' <=> (Past(s, q) \/ (s = "VmmMemory" /\ q = 0))
    BY <2>1, <2>2, AdvancePast DEF PlaceInv, BusInv, HostInv
  <2>4. ~Past("CrossVmm", 1)' /\ ~Past("CrossVmm", 2)'
        /\ (Past("NativeMemory", 0)' <=> Past("NativeMemory", 0))
    BY <2>2, <2>3 DEF Past
  <2>5. job'.file = "none" /\ status' # "run"
    BY <2>1, <2>2, <2>3 DEF NoJob
  <2>6. \A x : ~Due(x)'
    BY <2>4, <2>5 DEF Due, Done
  <2>7. Loaded' = Loaded /\ platform' = platform
    BY <2>1, SameFiles
  <2>8. "WRAM" \in Memories /\ mem = [a \in Memories |-> mem[a]]
        /\ \A a \in Own(platform) : a \in Memories
    BY OwnMemories DEF Memories, PlaceInv, BusInv, HostInv, Memory, Shape, Typed
  <2>9. mem'["WRAM"] = Contents("WRAM") /\ \A a \in Own(platform) : a # "WRAM" => mem'[a] = mem[a]
    BY <2>1, <2>8
  <2>10. ASSUME Sane, NEW a \in Own(platform), There(a)', NEW i \in WordsOf(a)
         PROVE  (\E x \in Loaded : x[1] = <<a, i>>) \/ mem'[a][i] = Contents(a)[i]
    <3>1. CASE a = "WRAM"
      BY <2>9, <3>1
    <3>2. CASE a # "WRAM"
      <4>1. There(a) /\ mem'[a] = mem[a]
        BY <2>4, <2>9, <2>10, <3>2 DEF There
      <4>2. Filled
        BY <2>2, <2>10 DEF PlaceInv, FileInv
      <4>3. QED
        BY <4>1, <4>2 DEF Filled
    <3>3. QED
      BY <3>1, <3>2
  <2>11. Sane => Filled'
    BY <2>6, <2>7, <2>10 DEF Filled
  <2>12. QED
    BY <2>1, <2>2, <2>11, AdvanceFiles
<1>3. QED
  BY <1>1, <1>2

LEMMA AllocateNativeFiles == PlaceInv /\ AllocateNative => FileInv'
<1> SUFFICES ASSUME PlaceInv, AllocateNative PROVE FileInv'
  OBVIOUS
<1>1. CASE Fail
  BY <1>1, FailFiles DEF PlaceInv
<1>2. CASE ~Fail
  <2>1. /\ mem' = Allocated(NativeSet(platform))
        /\ Advance /\ Turn("NativeMemory", 0) /\ UNCHANGED <<files, regs, job, stores>>
    BY <1>2 DEF AllocateNative
  <2>2. phase = 0 /\ Order[turn] = "NativeMemory" /\ status = "init" /\ job = NoJob
        /\ "CrossVmm" \in Subsystems /\ "VmmMemory" \in Subsystems /\ "NativeMemory" \in Subsystems
    BY <2>1 DEF Turn, Subsystems
  <2>3. /\ status' \in {"init", "load"}
        /\ \A s \in Subsystems, q \in 0 .. 2 :
              Past(s, q)' <=> (Past(s, q) \/ (s = "NativeMemory" /\ q = 0))
    BY <2>1, <2>2, AdvancePast DEF PlaceInv, BusInv, HostInv
  <2>4. ~Past("CrossVmm", 1)' /\ ~Past("CrossVmm", 2)'
        /\ (Past("VmmMemory", 0)' <=> Past("VmmMemory", 0))
    BY <2>2, <2>3 DEF Past
  <2>5. job'.file = "none" /\ status' # "run"
    BY <2>1, <2>2, <2>3 DEF NoJob
  <2>6. \A x : ~Due(x)'
    BY <2>4, <2>5 DEF Due, Done
  <2>7. Loaded' = Loaded /\ platform' = platform /\ platform \in Platforms
    BY <2>1, SameFiles DEF PlaceInv, BusInv, HostInv, Typed
  <2>8. "WRAM" \notin NativeSet(platform) /\ "WRAM" \in Memories
        /\ NativeSet(platform) \subseteq Memories
    BY <2>7, NativeSets DEF Platforms, Memories
  <2>9. mem'["WRAM"] = mem["WRAM"]
        /\ \A a \in NativeSet(platform) : mem'[a] = Contents(a)
    BY <2>1, <2>8 DEF Allocated
  <2>10. ASSUME Sane, NEW a \in Own(platform), There(a)', NEW i \in WordsOf(a)
         PROVE  (\E x \in Loaded : x[1] = <<a, i>>) \/ mem'[a][i] = Contents(a)[i]
    <3>1. CASE a = "WRAM"
      <4>1. There(a) /\ mem'[a] = mem[a]
        BY <2>4, <2>9, <2>10, <3>1 DEF There
      <4>2. Filled
        BY <2>2, <2>10 DEF PlaceInv, FileInv
      <4>3. QED
        BY <4>1, <4>2 DEF Filled
    <3>2. CASE a # "WRAM"
      BY <2>9, <3>2 DEF Own
    <3>3. QED
      BY <3>1, <3>2
  <2>11. Sane => Filled'
    BY <2>6, <2>7, <2>10 DEF Filled
  <2>12. QED
    BY <2>1, <2>2, <2>11, AdvanceFiles
<1>3. QED
  BY <1>1, <1>2

LEMMA LoadKernelFiles == PlaceInv /\ LoadKernel => FileInv'
<1> SUFFICES ASSUME PlaceInv, LoadKernel PROVE FileInv'
  OBVIOUS
<1>1. status = "init" /\ job = NoJob /\ UNCHANGED <<files, phase, turn, mem, regs, stores>>
      /\ StartJob("crossvmm.bin", kernel)
  BY DEF LoadKernel, Turn
<1>2. CASE status' = "failed" /\ job' = job
  BY <1>1, <1>2, EndFiles DEF PlaceInv
<1>3. CASE job' = [NoJob EXCEPT !.file = "crossvmm.bin"] /\ status' = status
  <2>1. job'.file = "crossvmm.bin" /\ job'.seg = 1 /\ job'.i = 0
    BY <1>3 DEF NoJob
  <2>2. /\ kernel' = kernel /\ exe' = exe /\ (Sane' <=> Sane)
        /\ GdtWord' = GdtWord /\ ContextWord' = ContextWord
        /\ \A file, elf, k, i : Brought(file, elf, k, i)' = Brought(file, elf, k, i)
    BY <1>1, SameFiles
  <2>3. \A s \in Subsystems, q \in 0 .. 2 : Past(s, q)' <=> Past(s, q)
    BY <1>1 DEF Past
  <2>4. "CrossVmm" \in Subsystems /\ "VmmMemory" \in Subsystems /\ "NativeMemory" \in Subsystems
    BY DEF Subsystems
  <2>5. \A a : There(a)' <=> There(a)
    BY <2>3, <2>4 DEF There
  <2>6. \A k \in DOMAIN kernel.segs : \A i \in Steps(kernel.segs[k]) :
            ~Done("crossvmm.bin", k, i)'
    <3>1. \A k \in DOMAIN kernel.segs : k \in Nat /\ k >= 1
      BY SegmentsTyped DEF PlaceInv, BusInv
    <3>2. \A k : \A i \in Steps(kernel.segs[k]) : i \in Int /\ i >= 0
      BY DEF Steps
    <3>3. QED
      BY <2>1, <3>1, <3>2 DEF Done
  <2>7. \A k, i : ~Done("exe", k, i)'
    BY <2>1 DEF Done
  <2>8. \A x : Due(x)' => Due(x)
    BY <1>1, <1>3, <2>2, <2>3, <2>4, <2>6, <2>7 DEF Due, Steps
  <2>9. Sane => Filled'
    BY <1>1, <2>5, <2>8, QuietFilled DEF PlaceInv, FileInv
  <2>10. Past("CrossVmm", 2)' => regs' = SetupRegisters
    BY <1>1, <2>3, <2>4 DEF PlaceInv, FileInv
  <2>11. QED
    BY <1>1, <1>3, <2>1, <2>2, <2>9, <2>10 DEF FileInv
<1>4. QED
  BY <1>1, <1>2, <1>3 DEF StartJob

LEMMA KernelLoadedFiles == PlaceInv /\ KernelLoaded => FileInv'
<1> SUFFICES ASSUME PlaceInv, KernelLoaded PROVE FileInv'
  OBVIOUS
<1>1. /\ phase = 1 /\ Order[turn] = "CrossVmm" /\ status = "init" /\ Advance /\ job' = NoJob
      /\ job.file = "crossvmm.bin" /\ job.seg > Len(kernel.segs)
      /\ UNCHANGED <<files, mem, regs, stores>>
  BY DEF KernelLoaded, Copied, Elf, PlaceInv, BusInv, HostInv, Phased
<1>2. "VmmMemory" \in Subsystems /\ "NativeMemory" \in Subsystems /\ "CrossVmm" \in Subsystems
  BY DEF Subsystems
<1>3. /\ status' \in {"init", "load"}
      /\ \A s \in Subsystems, q \in 0 .. 2 :
            Past(s, q)' <=> (Past(s, q) \/ (s = "CrossVmm" /\ q = 1))
  BY <1>1, <1>2, AdvancePast DEF PlaceInv, BusInv, HostInv
<1>4. /\ kernel' = kernel /\ exe' = exe /\ (Sane' <=> Sane)
      /\ GdtWord' = GdtWord /\ ContextWord' = ContextWord
      /\ \A file, elf, k, i : Brought(file, elf, k, i)' = Brought(file, elf, k, i)
  BY <1>1, SameFiles
<1>5. \A a : There(a)' <=> There(a)
  BY <1>2, <1>3 DEF There
<1>6. \A k \in DOMAIN kernel.segs : \A i : Done("crossvmm.bin", k, i)
  <2>1. \A k \in DOMAIN kernel.segs : k \in Nat /\ k <= Len(kernel.segs)
        /\ Len(kernel.segs) \in Nat /\ job.seg \in Nat
    BY SegmentsTyped DEF PlaceInv, BusInv, HostInv, Typed
  <2>2. QED
    BY <1>1, <2>1 DEF Done
<1>7. job'.file = "none" /\ job'.i = 0
  BY <1>1 DEF NoJob
<1>8. \A k, i : ~Done("exe", k, i)' /\ ~Done("crossvmm.bin", k, i)'
  BY <1>7 DEF Done
<1>9. Past("CrossVmm", 2)' <=> Past("CrossVmm", 2)
  BY <1>2, <1>3
<1>10. \A x : Due(x)' => Due(x)
  BY <1>1, <1>3, <1>4, <1>6, <1>8, <1>9 DEF Due, Steps
<1>11. Sane => Filled'
  BY <1>1, <1>5, <1>10, QuietFilled DEF PlaceInv, FileInv
<1>12. Past("CrossVmm", 2)' => regs' = SetupRegisters
  BY <1>1, <1>9 DEF PlaceInv, FileInv
<1>13. QED
  BY <1>3, <1>4, <1>7, <1>11, <1>12 DEF FileInv

(* The GDT overwrites no word of the kernel: no two words are at one place. *)
LEMMA InitKvmFiles == PlaceInv /\ InitKvm => FileInv'
<1> SUFFICES ASSUME PlaceInv, InitKvm PROVE FileInv'
  OBVIOUS
<1> DEFINE v == <<"gdt", 0, FALSE>>
           gdt == WritePhys8(mem, <<0, GdtAt>>, v)
           k == GdtAt \div 4
<1>1. phase = 2 /\ Order[turn] = "CrossVmm" /\ status = "init" /\ job = NoJob
      /\ platform \in Platforms /\ HostInv
  BY DEF InitKvm, Turn, PlaceInv, BusInv, HostInv, Typed
<1>2. CASE /\ gdt.end = "none" /\ KvmAccepts(vmmEntries) /\ mem' = gdt.mem
           /\ regs' = SetupRegisters /\ Advance /\ UNCHANGED <<files, job, exit, stores, bus>>
  <2>1. "VmmMemory" \in Subsystems /\ "NativeMemory" \in Subsystems /\ "CrossVmm" \in Subsystems
    BY DEF Subsystems
  <2>2. /\ status' \in {"init", "load"}
        /\ \A s \in Subsystems, q \in 0 .. 2 :
              Past(s, q)' <=> (Past(s, q) \/ (s = "CrossVmm" /\ q = 2))
    BY <1>1, <1>2, <2>1, AdvancePast DEF PlaceInv, BusInv, HostInv
  <2>3. /\ kernel' = kernel /\ exe' = exe /\ (Sane' <=> Sane) /\ Loaded' = Loaded
        /\ GdtWord' = GdtWord /\ ContextWord' = ContextWord
        /\ \A file, elf, j, i : Brought(file, elf, j, i)' = Brought(file, elf, j, i)
    BY <1>2, SameFiles
  <2>4. GdtWord[1] = <<"WRAM", k>> /\ GdtWord[2] = v /\ k \in WordsOf("WRAM")
        /\ "WRAM" \in Own(platform)
    BY FixedPlaces
  <2>5. mem' = [mem EXCEPT !["WRAM"][k] = v]
    <3>1. <<0, GdtAt>>[2] = GdtAt
      OBVIOUS
    <3>2. gdt \in {Put(mem, "WRAM", GdtAt, v), Throws(mem)}
      BY DEF WritePhys8
    <3>3. gdt = Put(mem, "WRAM", GdtAt, v)
      BY <1>2, <3>2 DEF Throws
    <3> DEFINE n == [mem EXCEPT !["WRAM"][k] = v]
    <3>4. Put(mem, "WRAM", GdtAt, v) \in {Made(n), Wild(mem)}
      BY DEF Put
    <3> HIDE DEF n
    <3>5. gdt = Made(n)
      BY <1>2, <3>3, <3>4 DEF Wild
    <3>6. mem' = n
      BY <1>2, <3>5 DEF Made
    <3>7. QED
      BY <3>6 DEF n
  <2> HIDE DEF v, k, gdt
  <2>6. GdtWord \in Loaded
    BY <1>1, LoadedWords
  <2>7. \A x : Due(x)' => Due(x) \/ x = GdtWord
    BY <1>1, <1>2, <2>1, <2>2, <2>3 DEF Due, Done, Steps
  <2>8. ASSUME Sane, NEW x \in Loaded, x[1] = <<"WRAM", k>>
        PROVE  x[2] = v
    <3>1. x[1] = GdtWord[1] /\ x[1] # Nowhere
      BY <2>4, <2>8 DEF Nowhere
    <3>2. x = GdtWord
      BY <2>6, <2>8, <3>1 DEF Sane, WellFormed
    <3>3. QED
      BY <2>4, <3>2
  <2>9. ASSUME Sane PROVE Filled'
    <3>1. Filled
      BY <1>1, <2>9 DEF PlaceInv, FileInv
    <3>2. \E x \in Loaded : x[1] = <<"WRAM", k>>
      BY <2>4, <2>6
    <3>3. \A x \in Loaded : x[1] # <<"WRAM", k>> => (Due(x)' => Due(x) \/ x[1] = Nowhere)
      BY <2>4, <2>7
    <3>4. \A x \in Loaded : x[1] = <<"WRAM", k>> => (Due(x)' => x[2] = v)
      BY <2>8, <2>9
    <3>5. UNCHANGED files /\ phase > 0
      BY <1>1, <1>2
    <3>6. Writes("WRAM", k, v)
      BY <2>5, <3>2, <3>3, <3>4 DEF Writes
    <3>7. QED
      BY <1>1, <2>4, <2>9, <3>1, <3>5, <3>6, WriteFilled
  <2>10. QED
    BY <1>1, <1>2, <2>2, <2>3, <2>9 DEF PlaceInv, FileInv
<1>3. CASE /\ status' \in {"failed", gdt.end} \ {"none"}
           /\ UNCHANGED <<files, phase, turn, mem, vmmEntries, nativeEntries, slots, regs,
                          job, exit, stores, bus>>
  <2>1. Ready(platform, mem) /\ GdtAt \in Nat
    BY <1>1, PhaseOver, WramAssumption, SizesAssumption DEF Memories
  <2>2. gdt.end \in {"none", "failed", "aborted"}
    BY <1>1, <2>1, RoutesHarmless DEF Harmless
  <2> HIDE DEF gdt
  <2>3. status' \notin {"init", "load", "run"}
    BY <1>3, <2>2
  <2>4. QED
    BY <1>3, <2>3, EndFiles DEF PlaceInv
<1>4. QED
  BY <1>2, <1>3 DEF InitKvm

-----------------------------------------------------------------------------
(* The loader's steps.                                                      *)
LEMMA NextWord ==
    ASSUME NEW i \in Nat, NEW j \in Nat, i % 4 = 0, j % 4 = 0, i < j + 4
    PROVE  i <= j
<1>1. PICK m \in Nat, n \in Nat : i = 4 * m /\ j = 4 * n
  <2>1. i = 4 * (i \div 4) /\ j = 4 * (j \div 4) /\ i \div 4 \in Nat /\ j \div 4 \in Nat
    OBVIOUS
  <2>2. QED
    BY <2>1
<1>2. QED
  BY <1>1

LEMMA CopyWordFiles == PlaceInv /\ CopyWord => FileInv'
<1> SUFFICES ASSUME PlaceInv, CopyWord PROVE FileInv'
  OBVIOUS
<1> DEFINE v == FileWord(job.file, Segment.offset + job.i, job.file = "exe" /\ Swapped(platform))
           to == <<Segment.paddr[1], Segment.paddr[2] + job.i>>
           o == WriteWord(to, v)
           x == Brought(job.file, Elf, job.seg, job.i)
           home == <<RegionOf(job.file, Segment), Segment.paddr[2] + job.i>>
<1>1. /\ HostInv /\ status \in {"init", "load"} /\ phase > 0 /\ platform \in Platforms
      /\ job.file \in {"crossvmm.bin", "exe"} /\ job.i \in Nat /\ job.i % 4 = 0
      /\ job = [file |-> job.file, seg |-> job.seg, i |-> job.i]
  BY DEF CopyWord, Copying, PlaceInv, BusInv, HostInv, Typed, Phased, FileInv
<1>2. Segment.paddr \in Nat \X Nat /\ Segment.offset \in Nat /\ Segment.filesz \in Nat
  BY <1>1, SegmentType DEF CopyWord
<1>3. Harmless(mem, o)
  <2>1. Ready(platform, mem)
    BY <1>1, PhaseOver
  <2>2. to \in Nat \X Nat
    BY <1>1, <1>2
  <2>3. QED
    BY <1>1, <2>1, <2>2, RoutesHarmless DEF WriteWord
<1>4. \/ o.end = "none" /\ mem' = o.mem /\ job' = [job EXCEPT !.i = @ + 4] /\ status' = status
      \/ job' = job /\ status' \in {"failed", "aborted"}
  BY <1>3 DEF CopyWord, Harmless
<1>5. UNCHANGED <<files, phase, turn, regs, exit, stores>>
  BY DEF CopyWord
<1>6. CASE job' = job /\ status' \in {"failed", "aborted"}
  BY <1>5, <1>6, EndFiles DEF PlaceInv
<1>7. CASE o.end = "none" /\ mem' = o.mem /\ job' = [job EXCEPT !.i = @ + 4] /\ status' = status
  <2>1. job'.file = job.file /\ job'.seg = job.seg /\ job'.i = job.i + 4
    BY <1>1, <1>7
  <2>2. /\ platform' = platform /\ kernel' = kernel /\ exe' = exe /\ (Sane' <=> Sane)
        /\ GdtWord' = GdtWord /\ ContextWord' = ContextWord /\ Loaded' = Loaded
        /\ \A file, elf, k, i : Brought(file, elf, k, i)' = Brought(file, elf, k, i)
    BY <1>5, SameFiles
  <2>3. \A s \in Subsystems, q \in 0 .. 2 : Past(s, q)' <=> Past(s, q)
    BY <1>5 DEF Past
  <2>4. "CrossVmm" \in Subsystems /\ "VmmMemory" \in Subsystems /\ "NativeMemory" \in Subsystems
    BY DEF Subsystems
  <2>5. \A a : There(a)' <=> There(a)
    BY <2>3, <2>4 DEF There
  <2>6. job.seg \in DOMAIN Elf.segs /\ job.i \in Steps(Segment)
    <3>1. job.seg \in Nat /\ job.seg >= 1 /\ job.seg <= Len(Elf.segs)
      BY <1>1 DEF CopyWord, Copying, HostInv, Typed
    <3>2. Elf.segs \in Seq(Segments)
      BY <1>1, SegmentsTyped DEF Elf
    <3>3. Segment.load /\ job.i < Segment.filesz
      BY DEF CopyWord, MoreWords
    <3>4. job.i \in 0 .. Segment.filesz - 1
      BY <1>1, <1>2, <3>3
    <3>5. QED
      BY <1>1, <3>1, <3>2, <3>3, <3>4 DEF Steps
  <2>7. x \in Loaded
    <3>1. CASE job.file = "crossvmm.bin"
      BY <1>1, <2>6, <3>1, LoadedWords DEF Elf, Segment
    <3>2. CASE job.file = "exe"
      BY <1>1, <2>6, <3>2, LoadedWords DEF Elf, Segment
    <3>3. QED
      BY <1>1, <3>1, <3>2
  <2>8. x[1] = Place(platform, home) /\ x[2] = v
    BY BroughtIs DEF Home, Segment
  <2>9. ASSUME NEW f, NEW k, NEW s, NEW i \in Steps(s), Done(f, k, i)'
        PROVE  Done(f, k, i) \/ (f = job.file /\ k = job.seg /\ i = job.i)
    <3>1. i \in Nat /\ i % 4 = 0
      BY <2>9 DEF Steps
    <3>2. f = job.file /\ (k < job.seg \/ (k = job.seg /\ i < job.i + 4))
      BY <2>1, <2>9 DEF Done
    <3>3. i < job.i + 4 => i <= job.i
      BY <1>1, <3>1, NextWord
    <3>4. i <= job.i => i < job.i \/ i = job.i
      BY <1>1, <3>1
    <3>5. QED
      BY <3>2, <3>3, <3>4 DEF Done
  <2>10. \A f, k, s : \A i \in Steps(s) :
            Done(f, k, i)' => Done(f, k, i) \/ (f = job.file /\ k = job.seg /\ i = job.i)
    BY <2>9
  <2>11. ASSUME NEW y, Due(y)' PROVE Due(y) \/ y = x
    <3>1. CASE Past("CrossVmm", 2) /\ y = GdtWord
      BY <3>1 DEF Due
    <3>2. ASSUME NEW k \in DOMAIN kernel.segs, NEW i \in Steps(kernel.segs[k]),
                 Past("CrossVmm", 1) \/ Done("crossvmm.bin", k, i)',
                 y = Brought("crossvmm.bin", kernel, k, i)
          PROVE  Due(y) \/ y = x
      <4>1. CASE Past("CrossVmm", 1) \/ Done("crossvmm.bin", k, i)
        BY <3>2, <4>1 DEF Due
      <4>2. CASE job.file = "crossvmm.bin" /\ k = job.seg /\ i = job.i
        BY <3>2, <4>2 DEF Elf
      <4>3. QED
        BY <2>10, <3>2, <4>1, <4>2
    <3>3. ASSUME NEW k \in DOMAIN exe.segs, NEW i \in Steps(exe.segs[k]), Done("exe", k, i)',
                 y = Brought("exe", exe, k, i)
          PROVE  Due(y) \/ y = x
      <4>1. CASE Done("exe", k, i)
        BY <3>3, <4>1 DEF Due
      <4>2. CASE job.file = "exe" /\ k = job.seg /\ i = job.i
        BY <3>3, <4>2 DEF Elf
      <4>3. QED
        BY <2>10, <3>3, <4>1, <4>2
    <3>4. \/ Past("CrossVmm", 2) /\ y = GdtWord
          \/ \E k \in DOMAIN kernel.segs : \E i \in Steps(kernel.segs[k]) :
                /\ Past("CrossVmm", 1) \/ Done("crossvmm.bin", k, i)'
                /\ y = Brought("crossvmm.bin", kernel, k, i)
          \/ \E k \in DOMAIN exe.segs : \E i \in Steps(exe.segs[k]) :
                /\ Done("exe", k, i)'
                /\ y = Brought("exe", exe, k, i)
      BY <1>1, <1>7, <2>2, <2>3, <2>4, <2>11 DEF Due, Steps
    <3>5. QED
      BY <3>1, <3>2, <3>3, <3>4
  <2>12. ASSUME Sane PROVE Filled'
    <3>1. KvmAccepts(AllEntries(platform)) /\ Filled
      BY <1>1, <2>12 DEF Sane, PlaceInv, FileInv
    <3>2. o.mem = Stored(platform, mem, home, v)
      <4> HIDE DEF v
      <4>1. Segment.paddr[1] \in Nat /\ Segment.paddr[2] + job.i \in Nat
        BY <1>1, <1>2
      <4>2. CASE job.file = "crossvmm.bin"
        <5>1. Segment.paddr[1] = 0
          <6>1. Segment.load
            BY DEF CopyWord, MoreWords
          <6>2. QED
            BY <2>6, <2>12, <4>2, <6>1 DEF Sane, WellFormed, Segment, Elf
        <5>2. o = WritePhys32(platform, mem, <<0, Segment.paddr[2] + job.i>>, v)
          BY <4>2, <5>1 DEF WriteWord
        <5>3. home = <<0, Segment.paddr[2] + job.i>>
          BY <4>2, <5>1 DEF RegionOf
        <5>4. QED
          BY <1>1, <1>7, <3>1, <4>1, <5>2, <5>3, KernelLands
      <4>3. CASE job.file = "exe"
        <5>1. o = LoaderWrite32(platform, mem, to, v)
          BY <4>3 DEF WriteWord
        <5>2. home = <<IF platform = "XENON" /\ Segment.paddr[1] = 2 THEN 2 ELSE 1,
                       Segment.paddr[2] + job.i>>
          BY <4>3 DEF RegionOf
        <5>3. QED
          BY <1>1, <1>7, <3>1, <4>1, <5>1, <5>2, ExeLands
      <4>4. QED
        BY <1>1, <4>2, <4>3
    <3> HIDE DEF x, v, home, o
    <3>3. CASE x[1] = Nowhere
      <4>1. mem' = mem
        BY <1>7, <2>8, <3>2, <3>3 DEF Stored
      <4>2. \A y \in Loaded : Due(y)' => Due(y) \/ y[1] = Nowhere
        BY <2>11, <3>3
      <4>3. QED
        BY <1>5, <2>5, <3>1, <4>1, <4>2, QuietFilled
    <3>4. CASE x[1] # Nowhere
      <4>1. PICK a \in Own(platform) : \E k \in WordsOf(a) : x[1] = <<a, k>>
        BY <1>1, <2>7, <2>12, <3>4, LoadedInside
      <4>2. PICK k \in WordsOf(a) : x[1] = <<a, k>>
        BY <4>1
      <4>3. mem' = [mem EXCEPT ![a][k] = v]
        <5>1. Place(platform, home) = <<a, k>> /\ Place(platform, home) # Nowhere
          BY <2>8, <3>4, <4>2
        <5>2. Stored(platform, mem, home, v) = [mem EXCEPT ![a][k] = v]
          BY <5>1, StoredAt
        <5>3. QED
          BY <1>7, <3>2, <5>2
      <4>4. \A y \in Loaded : y[1] # <<a, k>> => (Due(y)' => Due(y) \/ y[1] = Nowhere)
        BY <2>11, <4>2
      <4>5. \A y \in Loaded : y[1] = <<a, k>> => (Due(y)' => y[2] = v)
        BY <2>7, <2>8, <2>12, <3>4, <4>2 DEF Sane, WellFormed
      <4>6. UNCHANGED files
        BY <1>5
      <4>7. \E y \in Loaded : y[1] = <<a, k>>
        BY <2>7, <4>2
      <4>8. Writes(a, k, v)
        BY <4>3, <4>4, <4>5, <4>7 DEF Writes
      <4>9. QED
        BY <1>1, <2>12, <3>1, <4>6, <4>8, WriteFilled
    <3>5. QED
      BY <3>3, <3>4
  <2>13. job'.i % 4 = 0
    BY <1>1, <2>1
  <2>14. Past("CrossVmm", 2)' => regs' = SetupRegisters
    BY <1>5, <2>3, <2>4 DEF PlaceInv, FileInv
  <2>15. QED
    BY <1>1, <1>7, <2>1, <2>2, <2>12, <2>13, <2>14 DEF PlaceInv, FileInv
<1>8. QED
  BY <1>4, <1>6, <1>7

LEMMA NextSegmentFiles == PlaceInv /\ NextSegment => FileInv'
<1> SUFFICES ASSUME PlaceInv, NextSegment PROVE FileInv'
  OBVIOUS
<1>1. /\ HostInv /\ status \in {"init", "load"} /\ job.seg \in Nat /\ job.i \in Nat
      /\ job.file \in {"crossvmm.bin", "exe"}
      /\ job = [file |-> job.file, seg |-> job.seg, i |-> job.i] /\ ~MoreWords
  BY DEF NextSegment, Copying, PlaceInv, BusInv, HostInv, Typed
<1>2. UNCHANGED <<files, status, phase, turn, mem, regs, stores>>
  BY DEF NextSegment
<1>3. job' = [file |-> job.file, seg |-> job.seg + 1, i |-> 0]
  BY <1>1 DEF NextSegment
<1>4. job'.file = job.file /\ job'.seg = job.seg + 1 /\ job'.i = 0
  BY <1>3
<1>5. /\ kernel' = kernel /\ exe' = exe /\ (Sane' <=> Sane)
      /\ GdtWord' = GdtWord /\ ContextWord' = ContextWord
      /\ \A file, elf, k, i : Brought(file, elf, k, i)' = Brought(file, elf, k, i)
  BY <1>2, SameFiles
<1>6. \A s \in Subsystems, q \in 0 .. 2 : Past(s, q)' <=> Past(s, q)
  BY <1>2 DEF Past
<1>7. "CrossVmm" \in Subsystems /\ "VmmMemory" \in Subsystems /\ "NativeMemory" \in Subsystems
  BY DEF Subsystems
<1>8. \A a : There(a)' <=> There(a)
  BY <1>6, <1>7 DEF There
<1>9. \A i \in Steps(Segment) : i < job.i
  <2>1. ASSUME NEW i \in Steps(Segment) PROVE i < job.i
    <3>1. Segment.load /\ i \in 0 .. Segment.filesz - 1
      BY <2>1 DEF Steps
    <3>2. Segment.filesz \in Nat
      BY <1>1, SegmentType DEF NextSegment
    <3>3. ~(job.i < Segment.filesz)
      BY <1>1, <3>1 DEF MoreWords
    <3>4. QED
      BY <1>1, <3>1, <3>2, <3>3
  <2>2. QED
    BY <2>1
<1>10. ASSUME NEW f, NEW k \in Nat, NEW i, i \in Steps(Elf.segs[k]), Done(f, k, i)'
       PROVE  Done(f, k, i)
  <2>1. f = job.file /\ (k < job.seg + 1 \/ (k = job.seg + 1 /\ i < 0))
    BY <1>4, <1>10 DEF Done
  <2>2. i \in Int /\ i >= 0
    BY <1>10 DEF Steps
  <2>3. k < job.seg \/ k = job.seg
    BY <1>1, <2>1, <2>2
  <2>4. CASE k = job.seg
    <3>1. i < job.i
      BY <1>9, <1>10, <2>4 DEF Segment
    <3>2. QED
      BY <2>1, <2>4, <3>1 DEF Done
  <2>5. QED
    BY <2>1, <2>3, <2>4 DEF Done
<1>11. \A f, k, i : Done(f, k, i)' => f = job.file
  BY <1>4 DEF Done
<1>12. DOMAIN kernel.segs \subseteq Nat /\ DOMAIN exe.segs \subseteq Nat
  BY <1>1, SegmentsTyped
<1>13. \A k \in DOMAIN kernel.segs : \A i \in Steps(kernel.segs[k]) :
           Done("crossvmm.bin", k, i)' => Done("crossvmm.bin", k, i)
  BY <1>10, <1>11, <1>12 DEF Elf
<1>14. \A k \in DOMAIN exe.segs : \A i \in Steps(exe.segs[k]) :
           Done("exe", k, i)' => Done("exe", k, i)
  BY <1>1, <1>10, <1>11, <1>12 DEF Elf
<1>15. \A x : Due(x)' => Due(x)
  BY <1>1, <1>2, <1>5, <1>6, <1>7, <1>13, <1>14 DEF Due, Steps
<1>16. Sane => Filled'
  BY <1>1, <1>2, <1>8, <1>15, QuietFilled DEF PlaceInv, FileInv
<1>17. Past("CrossVmm", 2)' => regs' = SetupRegisters
  BY <1>2, <1>6, <1>7 DEF PlaceInv, FileInv
<1>18. QED
  BY <1>1, <1>2, <1>4, <1>5, <1>16, <1>17 DEF PlaceInv, FileInv
-----------------------------------------------------------------------------
(* The context: a word of its own, due when the guest runs.                 *)
LEMMA ContextAlone ==
    ASSUME HostInv, Sane, NEW x \in Loaded, x[1] = ContextWord[1]
    PROVE  x = ContextWord /\ (status # "run" => ~Due(x))
<1>1. ContextWord \in Loaded /\ ContextWord[1] # Nowhere
  BY LoadedWords, FixedPlaces DEF Nowhere
<1>2. x = ContextWord
  BY <1>1 DEF Sane, WellFormed
<1>3. x[2][1] = platform /\ platform \in Platforms
  BY <1>2, FixedPlaces DEF Context, HostInv, Typed
<1>4. \A file, elf, k, i : Brought(file, elf, k, i)[2][1] = file
  BY BroughtIs DEF FileWord
<1>5. GdtWord[2][1] = "gdt"
  BY FixedPlaces
<1>6. Due(x) => status = "run"
  BY <1>3, <1>4, <1>5 DEF Due, Platforms
<1>7. QED
  BY <1>2, <1>6

LEMMA ContextWritten ==
    ASSUME HostInv, phase = 3, NEW pc, PutContext(pc).end = "none"
    PROVE  /\ PutContext(pc).mem =
                  [mem EXCEPT !["WRAM"][ContextAt \div 4] = Context(platform, pc)]
  BY DEF PutContext, Put, Made, Wild

LEMMA StartRunFiles ==
    ASSUME PlaceInv, NEW pc, StartRun(pc), status \in {"init", "load"}, phase = 3,
           pc = IF exe.is = "noPath" THEN BiosEntry ELSE exe.entry,
           \A k \in DOMAIN exe.segs : \A i \in Steps(exe.segs[k]) : Done("exe", k, i),
           UNCHANGED <<files, phase, turn, regs, exit, stores>>
    PROVE  FileInv'
<1> DEFINE o == PutContext(pc)
           k == ContextAt \div 4
           v == Context(platform, pc)
<1>1. HostInv /\ Shown
  BY DEF PlaceInv, BusInv
<1>2. Harmless(mem, o)
  BY <1>1, PutContextHarmless
<1>3. job' = NoJob /\ job'.file = "none" /\ job'.i = 0 /\ exit'.kind = "none"
  BY <1>1 DEF StartRun, NoJob, Shown, NoExit
<1>4. \A s \in Subsystems, q \in 0 .. 2 : Past(s, q)' <=> Past(s, q)
  BY DEF Past
<1>5. "CrossVmm" \in Subsystems /\ "VmmMemory" \in Subsystems /\ "NativeMemory" \in Subsystems
  BY DEF Subsystems
<1>6. /\ kernel' = kernel /\ exe' = exe /\ (Sane' <=> Sane)
      /\ GdtWord' = GdtWord /\ ContextWord' = ContextWord
      /\ \A file, elf, j, i : Brought(file, elf, j, i)' = Brought(file, elf, j, i)
  BY SameFiles
<1>7. \A x : Due(x)' => Due(x) \/ x = ContextWord
  <2>1. \A f, j, i : f # "none" => ~Done(f, j, i)'
    BY <1>3 DEF Done
  <2>2. QED
    BY <1>4, <1>5, <1>6, <2>1 DEF Due, Steps
<1>8. ASSUME Sane, status' = "run" PROVE Filled'
  <2>1. o.end = "none" /\ mem' = o.mem
    BY <1>2, <1>8 DEF StartRun, Harmless
  <2>2. mem' = [mem EXCEPT !["WRAM"][k] = v]
    BY <1>1, <2>1, ContextWritten
  <2>3. ContextWord[1] = <<"WRAM", k>> /\ ContextWord[2] = v /\ k \in WordsOf("WRAM")
        /\ "WRAM" \in Own(platform) /\ ContextWord \in Loaded
    BY <1>1, FixedPlaces, LoadedWords
  <2> HIDE DEF o, k, v
  <2>4. \A x \in Loaded : x[1] # <<"WRAM", k>> => (Due(x)' => Due(x) \/ x[1] = Nowhere)
    BY <1>7, <2>3
  <2>5. \A x \in Loaded : x[1] = <<"WRAM", k>> => (Due(x)' => x[2] = v)
    BY <1>1, <1>8, <2>3, ContextAlone
  <2>6. Filled /\ phase > 0 /\ UNCHANGED files
    BY <1>8 DEF PlaceInv, FileInv
  <2>7. \E x \in Loaded : x[1] = <<"WRAM", k>>
    BY <2>3
  <2>8. Writes("WRAM", k, v)
    BY <2>2, <2>4, <2>5, <2>7 DEF Writes
  <2>9. QED
    BY <1>1, <1>8, <2>3, <2>6, <2>8, WriteFilled
<1>9. status' \in {"run", "failed", "aborted"}
  BY <1>2 DEF StartRun, Harmless
<1>10. Past("CrossVmm", 2)' => regs' = SetupRegisters
  BY <1>4, <1>5 DEF PlaceInv, FileInv
<1>11. ~Storing'
  BY <1>3 DEF Storing
<1>12. QED
  BY <1>3, <1>6, <1>8, <1>9, <1>10, <1>11 DEF FileInv

LEMMA ExeLoadedFiles == PlaceInv /\ ExeLoaded => FileInv'
<1> SUFFICES ASSUME PlaceInv, ExeLoaded PROVE FileInv'
  OBVIOUS
<1>1. /\ HostInv /\ status \in {"init", "load"} /\ job.file = "exe" /\ phase = 3
      /\ job.seg > Len(exe.segs) /\ exe.is = "whole"
  BY DEF ExeLoaded, Copied, Elf, PlaceInv, BusInv, HostInv, Phased, FileInv
<1>2. \A k \in DOMAIN exe.segs : \A i \in Steps(exe.segs[k]) : Done("exe", k, i)
  <2>1. \A k \in DOMAIN exe.segs : k \in Nat /\ k <= Len(exe.segs)
        /\ Len(exe.segs) \in Nat /\ job.seg \in Nat
    BY <1>1, SegmentsTyped DEF HostInv, Typed
  <2>2. QED
    BY <1>1, <2>1 DEF Done
<1>3. StartRun(exe.entry) /\ UNCHANGED <<files, phase, turn, regs, exit, stores>>
  BY DEF ExeLoaded
<1>4. exe.entry = IF exe.is = "noPath" THEN BiosEntry ELSE exe.entry
  BY <1>1
<1>5. QED
  BY <1>1, <1>2, <1>3, <1>4, StartRunFiles

LEMMA LoadExeFiles == PlaceInv /\ LoadExe => FileInv'
<1> SUFFICES ASSUME PlaceInv, LoadExe PROVE FileInv'
  OBVIOUS
<1>1. /\ HostInv /\ status = "load" /\ job = NoJob /\ phase = 3
      /\ UNCHANGED <<files, phase, turn, regs, exit, stores>>
  BY DEF LoadExe, PlaceInv, BusInv, HostInv, Phased
<1>2. CASE exe.is = "noPath" /\ platform = "DC"
  <2>1. StartRun(BiosEntry)
    BY <1>2 DEF LoadExe
  <2>2. DOMAIN exe.segs = {}
    BY <1>1, <1>2, SegmentsTyped
  <2>3. \A k \in DOMAIN exe.segs : \A i \in Steps(exe.segs[k]) : Done("exe", k, i)
    BY <2>2
  <2>4. BiosEntry = IF exe.is = "noPath" THEN BiosEntry ELSE exe.entry
    BY <1>2
  <2>5. QED
    BY <1>1, <2>1, <2>3, <2>4, StartRunFiles
<1>3. CASE ~(exe.is = "noPath" /\ platform = "DC")
  <2> DEFINE o == PutContext(NoEntry)
             k == ContextAt \div 4
             v == Context(platform, NoEntry)
  <2>1. Harmless(mem, o)
    BY <1>1, PutContextHarmless
  <2>2. mem' = o.mem /\ IF o.end = "none" THEN StartJob("exe", exe)
                                           ELSE status' = o.end /\ UNCHANGED job
    BY <1>3 DEF LoadExe
  <2>3. CASE job' = job /\ status' \in {"failed", "aborted"}
    BY <1>1, <2>3, EndFiles DEF PlaceInv
  <2>4. CASE /\ o.end = "none" /\ exe.is = "whole" /\ status' = status
             /\ job' = [NoJob EXCEPT !.file = "exe"]
    <3>1. job'.file = "exe" /\ job'.seg = 1 /\ job'.i = 0
      BY <2>4 DEF NoJob
    <3>2. /\ kernel' = kernel /\ exe' = exe /\ (Sane' <=> Sane)
          /\ GdtWord' = GdtWord /\ ContextWord' = ContextWord
          /\ \A file, elf, j, i : Brought(file, elf, j, i)' = Brought(file, elf, j, i)
      BY <1>1, SameFiles
    <3>3. \A s \in Subsystems, q \in 0 .. 2 : Past(s, q)' <=> Past(s, q)
      BY <1>1 DEF Past
    <3>4. "CrossVmm" \in Subsystems
      BY DEF Subsystems
    <3>5. \A j \in DOMAIN exe.segs : \A i \in Steps(exe.segs[j]) : ~Done("exe", j, i)'
      <4>1. \A j \in DOMAIN exe.segs : j \in Nat /\ j >= 1
        BY <1>1, SegmentsTyped
      <4>2. \A j : \A i \in Steps(exe.segs[j]) : i \in Int /\ i >= 0
        BY DEF Steps
      <4>3. QED
        BY <3>1, <4>1, <4>2 DEF Done
    <3>6. \A j, i : ~Done("crossvmm.bin", j, i)'
      BY <3>1 DEF Done
    <3>7. \A x : Due(x)' => Due(x)
      BY <1>1, <2>4, <3>2, <3>3, <3>4, <3>5, <3>6 DEF Due, Steps
    <3>8. ASSUME Sane PROVE Filled'
      <4>1. mem' = [mem EXCEPT !["WRAM"][k] = v]
        BY <1>1, <2>2, <2>4, ContextWritten
      <4>2. ContextWord[1] = <<"WRAM", k>> /\ k \in WordsOf("WRAM")
            /\ "WRAM" \in Own(platform) /\ ContextWord \in Loaded
        BY <1>1, FixedPlaces, LoadedWords
      <4> HIDE DEF o, k, v
      <4>3. \A x \in Loaded : x[1] # <<"WRAM", k>> => (Due(x)' => Due(x) \/ x[1] = Nowhere)
        BY <3>7
      <4>4. \A x \in Loaded : x[1] = <<"WRAM", k>> => (Due(x)' => x[2] = v)
        BY <1>1, <3>7, <3>8, <4>2, ContextAlone
      <4>5. Filled /\ phase > 0 /\ UNCHANGED files
        BY <1>1, <3>8 DEF PlaceInv, FileInv
      <4>6. Writes("WRAM", k, v)
        BY <4>1, <4>2, <4>3, <4>4 DEF Writes
      <4>7. QED
        BY <1>1, <3>8, <4>2, <4>5, <4>6, WriteFilled
    <3>9. Past("CrossVmm", 2)' => regs' = SetupRegisters
      BY <1>1, <3>3, <3>4 DEF PlaceInv, FileInv
    <3>10. QED
      BY <1>1, <2>4, <3>1, <3>2, <3>8, <3>9 DEF FileInv
  <2>5. QED
    BY <2>1, <2>2, <2>3, <2>4 DEF Harmless, StartJob
<1>4. QED
  BY <1>2, <1>3

-----------------------------------------------------------------------------
(* The run loop and the guest: before its first store the guest changes     *)
(* nothing.                                                                 *)
LEMMA RunFiles ==
    ASSUME PlaceInv, status = "run", UNCHANGED <<files, phase, turn, regs, job, stores>>,
           status' \notin {"init", "load"}, stores = 0 => mem' = mem,
           status' = "run" /\ Storing' => stores > 0
    PROVE  FileInv'
<1>1. job' = job /\ regs' = regs /\ exe' = exe /\ (Sane' <=> Sane)
  BY SameFiles DEF files
<1>2. \A s \in Subsystems, q \in 0 .. 2 : Past(s, q)' <=> Past(s, q)
  BY DEF Past
<1>3. "CrossVmm" \in Subsystems /\ "VmmMemory" \in Subsystems /\ "NativeMemory" \in Subsystems
  BY DEF Subsystems
<1>4. \A a : There(a)' <=> There(a)
  BY <1>2, <1>3 DEF There
<1>5. ASSUME Sane, status' = "run", stores = 0
      PROVE  Filled'
  <2>1. \A x : Due(x)' <=> Due(x)
    BY <1>2, <1>3, <1>5, DueSame
  <2>2. Filled
    BY <1>5 DEF PlaceInv, FileInv
  <2>3. QED
    BY <1>4, <1>5, <2>1, <2>2, QuietFilled
<1>6. QED
  BY <1>1, <1>2, <1>3, <1>5 DEF PlaceInv, FileInv

LEMMA AnswerFiles == PlaceInv /\ AnswerMmio => FileInv'
<1> SUFFICES ASSUME PlaceInv, AnswerMmio PROVE FileInv'
  OBVIOUS
<1> DEFINE o == Answer(exit)
<1>1. /\ Shown /\ HostInv /\ status = "run" /\ exit.kind = "mmio" /\ mem' = o.mem
      /\ status' = (IF o.end = "none" THEN status ELSE o.end)
      /\ exit' = (IF o.end = "none" THEN NoExit ELSE exit)
      /\ UNCHANGED <<files, phase, turn, regs, job, stores>>
  BY DEF AnswerMmio, PlaceInv, BusInv
<1>2. exit.addr \in GuestAddrs[platform] /\ Covering(exit.addr) = {} /\ platform \in Platforms
  BY <1>1 DEF HostInv, Exits, Typed
<1>3. stores = 0 => mem' = mem
  <2>1. ASSUME stores = 0 PROVE o.mem = mem
    <3>1. ~Storing
      BY <1>1, <2>1 DEF PlaceInv, FileInv
    <3>2. \E w \in BOOLEAN, len \in Lengths : \E addr, v : exit = Mmio(w, len, addr, v)
      BY <1>1 DEF Shown
    <3>3. exit.write = FALSE
      BY <1>1, <3>1, <3>2 DEF Storing, Mmio
    <3>4. o \in {ReadPhys32(platform, mem, exit.addr), Throws(mem)}
      BY <3>3 DEF Answer
    <3> HIDE DEF o
    <3>5. QED
      BY <3>4, LoadAnswered DEF Throws
  <2>2. QED
    BY <1>1, <2>1
<1>4. o.end \in {"none", "failed", "aborted"}
  <2>1. exit.addr \in Nat \X Nat /\ exit.addr[1] # 0 /\ Ready(platform, mem)
    BY <1>1, <1>2, WramCovered, SlotsWhenRunning
  <2>2. Harmless(mem, o)
    BY <1>2, <2>1, RoutesHarmless, EndsHarmless DEF Answer, Ready
  <2>3. QED
    BY <2>2 DEF Harmless
<1> HIDE DEF o
<1>5. status' \notin {"init", "load"}
  BY <1>1, <1>4
<1>6. status' = "run" /\ Storing' => stores > 0
  <2>1. o.end = "none" => ~Storing'
    BY <1>1 DEF Storing, NoExit
  <2>2. QED
    BY <1>1, <1>4, <2>1
<1>7. QED
  BY <1>1, <1>3, <1>5, <1>6, RunFiles

LEMMA HostRunFiles == PlaceInv /\ HostRun => FileInv'
<1>1. ASSUME PlaceInv, ProcessHypercall PROVE FileInv'
  <2>1. /\ status = "run" /\ exit.kind = "io" /\ mem' = mem /\ status' \notin {"init", "load"}
        /\ exit' \in {NoExit, exit} /\ UNCHANGED <<files, phase, turn, regs, job, stores>>
    BY <1>1 DEF ProcessHypercall
  <2>2. ~Storing'
    BY <2>1 DEF Storing, NoExit
  <2>3. QED
    BY <1>1, <2>1, <2>2, RunFiles
<1>2. ASSUME PlaceInv, OtherExit PROVE FileInv'
  BY <1>2, FailFiles DEF PlaceInv, OtherExit
<1>3. QED
  BY <1>1, <1>2, AnswerFiles DEF HostRun

LEMMA GuestFiles == PlaceInv /\ Guest => FileInv'
<1> SUFFICES ASSUME PlaceInv, Guest PROVE FileInv'
  OBVIOUS
<1>1. ASSUME NEW addr \in GuestAddrs[platform], NEW len \in Lengths, GuestStore(addr, len)
      PROVE  FileInv'
  <2>1. /\ stores' = stores + 1 /\ stores \in 0 .. MaxStores /\ status' = status /\ status = "run"
        /\ UNCHANGED <<files, phase, turn, regs, job>>
    BY <1>1 DEF GuestStore, Running, PlaceInv, BusInv, HostInv, Typed
  <2>2. stores' > 0 /\ stores' # 0
    BY <2>1, MaxStoresAssumption
  <2>3. Past("CrossVmm", 2)' <=> Past("CrossVmm", 2)
    BY <2>1 DEF Past
  <2>4. job' = job /\ exe' = exe /\ regs' = regs
    BY <2>1 DEF files
  <2>5. QED
    BY <2>1, <2>2, <2>3, <2>4 DEF PlaceInv, FileInv
<1>2. ASSUME UNCHANGED <<files, status, phase, turn, mem, regs, job, stores>>, Running, ~Storing'
      PROVE  FileInv'
  <2>1. status = "run" /\ status' = "run"
    BY <1>2 DEF Running
  <2>2. QED
    BY <1>2, <2>1, RunFiles
<1>3. ASSUME NEW addr \in GuestAddrs[platform], NEW len \in Lengths, GuestLoad(addr, len)
      PROVE  FileInv'
  <2>1. exit'.write = FALSE
    BY <1>3 DEF GuestLoad, Mmio
  <2>2. ~Storing'
    BY <2>1 DEF Storing
  <2>3. QED
    BY <1>2, <1>3, <2>2 DEF GuestLoad
<1>4. ASSUME NEW rdi \in 0 .. 2, GuestHypercall(rdi) PROVE FileInv'
  <2>1. exit'.kind = "io"
    BY <1>4 DEF GuestHypercall
  <2>2. ~Storing'
    BY <2>1 DEF Storing
  <2>3. QED
    BY <1>2, <1>4, <2>2 DEF GuestHypercall
<1>5. CASE GuestStops
  <2>1. exit'.kind = "other"
    BY <1>5 DEF GuestStops
  <2>2. ~Storing'
    BY <2>1 DEF Storing
  <2>3. QED
    BY <1>2, <1>5, <2>2 DEF GuestStops
<1>6. CASE KvmRunFails
  BY <1>6, FailFiles DEF PlaceInv, KvmRunFails
<1>7. QED
  BY <1>1, <1>3, <1>4, <1>5, <1>6 DEF Guest
-----------------------------------------------------------------------------
LEMMA InitFiles == Init => FileInv
<1> SUFFICES ASSUME Init PROVE FileInv
  OBVIOUS
<1>1. job.file = "none" /\ job.i = 0 /\ status = "init"
  BY DEF Init, NoJob
<1>2. ~Past("CrossVmm", 1) /\ ~Past("CrossVmm", 2) /\ ~Past("VmmMemory", 0)
      /\ ~Past("NativeMemory", 0)
  BY DEF Init, Past
<1>3. \A x : ~Due(x)
  BY <1>1, <1>2 DEF Due, Done
<1>4. Filled
  BY <1>2, <1>3 DEF Filled, There
<1>5. QED
  BY <1>1, <1>2, <1>4 DEF FileInv

LEMMA SkipFiles == PlaceInv /\ (CopyEntries \/ SkipPhase) => FileInv'
<1> SUFFICES ASSUME PlaceInv, CopyEntries \/ SkipPhase PROVE FileInv'
  OBVIOUS
<1>1. "CrossVmm" \in Subsystems /\ "VmmMemory" \in Subsystems /\ "NativeMemory" \in Subsystems
  BY DEF Subsystems
<1>2. PICK sub \in Subsystems, ph \in 0 .. 2 :
          Turn(sub, ph) /\ <<sub, ph>> \in {<<"CrossVmm", 0>>, <<"VmmMemory", 1>>,
              <<"VmmMemory", 2>>, <<"NativeMemory", 1>>, <<"NativeMemory", 2>>}
  BY <1>1 DEF CopyEntries, SkipPhase
<1>3. Advance /\ UNCHANGED <<files, mem, regs, job, stores>>
  BY DEF CopyEntries, SkipPhase
<1>4. QED
  BY <1>2, <1>3, AdvanceQuiet

LEMMA StutterFiles == PlaceInv /\ UNCHANGED vars => FileInv'
<1> SUFFICES ASSUME PlaceInv, UNCHANGED vars PROVE FileInv'
  OBVIOUS
<1>1. UNCHANGED <<files, status, phase, turn, mem, regs, job, exit, stores>>
  BY DEF vars, files
<1>2. /\ exe' = exe /\ (Sane' <=> Sane)
  BY <1>1, SameFiles
<1>3. \A s, q : Past(s, q)' <=> Past(s, q)
  BY <1>1 DEF Past
<1>4. \A a : There(a)' <=> There(a)
  BY <1>3 DEF There
<1>5. \A x : Due(x)' <=> Due(x)
  BY <1>1, <1>3, DueSame
<1>6. Filled => Filled'
  BY <1>1, <1>4, <1>5, QuietFilled
<1>7. QED
  BY <1>1, <1>2, <1>3, <1>6 DEF PlaceInv, FileInv, Storing

LEMMA FileStep == PlaceInv /\ [Next]_vars => FileInv'
<1> SUFFICES ASSUME PlaceInv, [Next]_vars PROVE FileInv'
  OBVIOUS
<1>1. CASE HostInit
  BY <1>1, AllocateVmmFiles, AllocateNativeFiles, SkipFiles, LoadKernelFiles, InitKvmFiles,
     KernelLoadedFiles DEF HostInit
<1>2. CASE HostLoad
  <2>1. CASE LoadPs3
    BY <2>1, FailFiles DEF PlaceInv, LoadPs3
  <2>2. QED
    BY <1>2, <2>1, LoadExeFiles, ExeLoadedFiles, CopyWordFiles, NextSegmentFiles DEF HostLoad
<1>3. QED
  BY <1>1, <1>2, HostRunFiles, GuestFiles, StutterFiles DEF Next, Host

(* A running guest has all the words of both files: nothing is still to be  *)
(* copied, and KVM has accepted the entries.                                *)
LEMMA FilesIntact == PlaceInv => ElfIntact
<1> SUFFICES ASSUME PlaceInv, status = "run", stores = 0, WellFormed
             PROVE  /\ \A a \in Own(platform) : \A i \in DOMAIN mem[a] :
                          IF \E x \in Loaded : x[1] = <<a, i>>
                            THEN <<<<a, i>>, mem[a][i]>> \in Loaded
                            ELSE mem[a][i] = Contents(a)[i]
                    /\ mem["WRAM"][regs.rip \div 4][1] = "crossvmm.bin"
                    /\ mem["WRAM"][regs.gdt \div 4][1] = "gdt"
  BY DEF ElfIntact, Own
<1>1. HostInv /\ platform \in Platforms /\ phase = 3
  BY DEF PlaceInv, BusInv, HostInv, Typed, Phased
<1>2. KvmAccepts(AllEntries(platform)) /\ Ready(platform, mem)
  BY <1>1, SlotsWhenRunning
<1>3. Sane /\ Filled
  BY <1>2 DEF Sane, PlaceInv, FileInv
<1>4. Past("CrossVmm", 1) /\ Past("CrossVmm", 2) /\ \A a : There(a)
  BY <1>1 DEF Past, There
<1>5. regs = SetupRegisters
  BY <1>4 DEF PlaceInv, FileInv
<1>6. \A x \in Loaded : Due(x)
  BY <1>1, <1>4, LoadedWords DEF Due
<1>7. \A x \in Loaded : x[1] # Nowhere => mem[x[1][1]][x[1][2]] = x[2]
  BY <1>3, <1>6 DEF Filled, InPlace
<1>8. \A x \in Loaded : x = <<x[1], x[2]>>
  <2>1. \A file, elf, k, i :
            Brought(file, elf, k, i) = <<Brought(file, elf, k, i)[1], Brought(file, elf, k, i)[2]>>
    BY DEF Brought
  <2>2. GdtWord = <<GdtWord[1], GdtWord[2]>> /\ ContextWord = <<ContextWord[1], ContextWord[2]>>
    BY DEF GdtWord, ContextWord
  <2>3. QED
    BY <1>1, <2>1, <2>2, LoadedWords
<1>9. ASSUME NEW a \in Own(platform), NEW i, NEW x \in Loaded, x[1] = <<a, i>>
      PROVE  mem[a][i] = x[2]
  <2>1. a # "nowhere"
    BY <1>1, OwnMemories DEF Memories
  <2>2. x[1] # Nowhere /\ x[1][1] = a /\ x[1][2] = i
    BY <1>9, <2>1 DEF Nowhere
  <2>3. QED
    BY <1>7, <2>2
<1>10. ASSUME NEW a \in Own(platform), NEW i \in DOMAIN mem[a]
       PROVE  IF \E x \in Loaded : x[1] = <<a, i>> THEN <<<<a, i>>, mem[a][i]>> \in Loaded
                                                   ELSE mem[a][i] = Contents(a)[i]
  <2>1. i \in WordsOf(a)
    BY <1>2, <1>10 DEF Ready, Own
  <2>2. ASSUME NEW x \in Loaded, x[1] = <<a, i>> PROVE <<<<a, i>>, mem[a][i]>> \in Loaded
    BY <1>8, <1>9, <2>2
  <2>3. (~ \E x \in Loaded : x[1] = <<a, i>>) => mem[a][i] = Contents(a)[i]
    BY <1>3, <1>4, <2>1 DEF Filled
  <2>4. QED
    BY <2>2, <2>3
<1>11. mem["WRAM"][regs.rip \div 4][1] = "crossvmm.bin"
  <2>1. PICK x \in Image("crossvmm.bin", kernel) : x[1] = <<"WRAM", EntryAt \div 4>>
    BY DEF WellFormed
  <2>2. x[2][1] = "crossvmm.bin" /\ x \in Loaded
    BY <2>1 DEF Image, FileWord, Loaded
  <2>3. mem["WRAM"][EntryAt \div 4] = x[2]
    BY <1>9, <2>1, <2>2, FixedPlaces
  <2>4. regs.rip = EntryAt
    BY <1>5 DEF SetupRegisters
  <2>5. QED
    BY <2>2, <2>3, <2>4
<1>12. mem["WRAM"][regs.gdt \div 4][1] = "gdt"
  <2>1. GdtWord \in Loaded /\ GdtWord[1] = <<"WRAM", GdtAt \div 4>> /\ GdtWord[2][1] = "gdt"
    BY <1>1, LoadedWords, FixedPlaces
  <2> DEFINE k == GdtAt \div 4
  <2>5. "WRAM" \in Own(platform) /\ GdtWord[1] = <<"WRAM", k>>
    BY <2>1, FixedPlaces
  <2> HIDE DEF k
  <2>6. mem["WRAM"][k] = GdtWord[2]
    BY <1>9, <2>1, <2>5
  <2>2. mem["WRAM"][GdtAt \div 4] = GdtWord[2]
    BY <2>6 DEF k
  <2>3. regs.gdt = GdtAt
    BY <1>5 DEF SetupRegisters
  <2>4. QED
    BY <2>1, <2>2, <2>3
<1>13. QED
  BY <1>10, <1>11, <1>12

(* Whatever the files and the memories, a guest starts with every word of   *)
(* both files, the GDT and its context in place and all other words as they *)
(* were allocated (ElfLoader::Load, KvmContext::Init, MachineContext::Load).*)
THEOREM GuestStartsIntact == Spec => []ElfIntact
<1>1. Init => PlaceInv
  <2>1. Init => Shown
    BY DEF Init, Shown, NoExit
  <2>2. QED
    BY <2>1, InitHolds, InitFiles DEF PlaceInv, BusInv
<1>2. Spec => []BusInv
  BY BusInvariance
<1>3. BusInv /\ BusInv' /\ FileInv /\ [Next]_vars => FileInv'
  BY FileStep DEF PlaceInv
<1>4. BusInv /\ FileInv => ElfIntact
  BY FilesIntact DEF PlaceInv
<1>5. Init => FileInv
  BY InitFiles
<1>6. QED
  BY <1>2, <1>3, <1>4, <1>5, PTL DEF Spec
=============================================================================
