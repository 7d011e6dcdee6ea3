------------------------------- MODULE VmmBoot -------------------------------
(***************************************************************************)
(* The boot of the guest-side VMM kernel: kmain (vmm/Main.cpp) runs        *)
(* MemoryManager::Init, InterruptManager::Init, the real-memory component  *)
(* of the emulated machine and the Init of its CPU, and then enters the    *)
(* CPU's Execute loop.  All of it allocates page-table pages from one heap *)
(* of 4 KiB pages and wires them into the x86 page tables.                 *)
(*                                                                         *)
(* Addresses are abstracted to what the page tables tell apart:            *)
(*   - a heap page is its index in contiguousHeap, nullptr is Nullptr;     *)
(*   - canonical virtual addresses are signed numbers of GiB (the VMM's    *)
(*     0xFFFFFFFF80000000 is -2);                                          *)
(*   - guest-physical memory is counted in quarters of a GiB, the largest  *)
(*     unit in which every PML2 of the code is filled uniformly.           *)
(***************************************************************************)
EXTENDS Integers, FiniteSets

CONSTANTS
    HeapSizes,     \* values numContiguousPages may have (it depends on __bss_end)
    InfoPerPage,   \* HeapPageInfo entries that fit one page (4096 in the code)
    NumPml1s       \* NUM_IR32_PML1S and NUM_PML1S (1024 in the code)

ASSUME HeapSizesAssumption == HeapSizes \subseteq Nat \ {0}
ASSUME InfoPerPageAssumption == InfoPerPage \in Nat \ {0}
ASSUME NumPml1sAssumption == NumPml1s \in Nat

CpuTypes == {"XENON", "SH4A", "GEKKO", "UNSPECIFIED"}

Nullptr == -1      \* what AllocatePage returns when the heap is full
Unset   == -2      \* a table pointer nobody has assigned yet

(* The table pointers of the kernel: an array element is <<array, index>>. *)
Array(name, n) == {name} \X (0 .. n - 1)

Owners ==
    UNION { Array("idtEntries", 1),
            Array("ramPml2", 4), Array("socPml2", 4), Array("physPml2", 1),
            Array("hvRealModePml3s", 4), Array("ir32Pml3", 1),
            Array("ir32Pml2s", 4), Array("ir32Pml1s", NumPml1s),
            Array("pml3", 1), Array("pml2s", 4), Array("pml1s", NumPml1s),
            Array("cachedPml2", 1), Array("uncachedPml2", 1) }

(* Page-table entries, as pairs: not present, a next-level table at a heap  *)
(* page, a quarter GiB of 2 MiB leaves, or one of the boot tables.          *)
Empty    == <<"empty", 0>>
Table(p) == <<"table", p>>
Frame(q) == <<"frame", q>>
Boot(n)  == <<"boot", n>>          \* __boot_pml3 (3) and __boot_pml2 (2)

RamQuarter == 16                   \* XENON_RAM/DC/WII_PHYS_BASE, 0x100000000
SocQuarter == 32                   \* XENON_SOC_PHYS_BASE, 0x200000000
RamVirtGiB == -12                  \* XENON_RAM/DC/WII_VIRT_BASE, 0xFFFFFFFD00000000
SocVirtGiB_Bug == -4               \* a base whose third GiB is the VMM's own window
SocVirtGiB == -8                   \* XENON_SOC_VIRT_BASE, 0xFFFFFFFE00000000

Pml4Slots == {0, 2, 4, 6, 511}     \* the PML4 slots the kernel touches
Pml3Slots == {0, 510} \union 500 .. 507

VARIABLES
    cpuType,       \* cpuContext->type, written by the host before the kernel runs
    numPages,      \* numContiguousPages
    stage,         \* where kmain is
    step,          \* iteration of the allocation loop kmain is in
    allocated,     \* pages whose contiguousHeapInfo[i].allocated is set
    page,          \* value of each table pointer
    pml4,          \* top-level page table
    higherPml3,    \* PML3 of the upper half
    content,       \* first four entries (quarters, for a PML2) of each heap page
    lowerHandler   \* who handles faults of the lower half

vars == <<cpuType, numPages, stage, step, allocated, page, pml4, higherPml3,
          content, lowerHandler>>

Pages == 0 .. numPages - 1

(* Number of pages that hold HeapPageInfo, rounded up.                     *)
InfoPages == (numPages + InfoPerPage - 1) \div InfoPerPage
-----------------------------------------------------------------------------
(* What Boot.asm leaves: both halves share one PML3, which maps the lowest  *)
(* 8 MiB at 0 and at -2 GiB; RAM the host has just mmapped is zero.         *)
Init ==
    /\ cpuType \in CpuTypes
    /\ numPages \in HeapSizes
    /\ stage = "mmInit"
    /\ step = 0
    /\ allocated = {}
    /\ page = [o \in Owners |-> Unset]
    /\ pml4 = [s \in Pml4Slots |-> IF s \in {0, 511} THEN Boot(3) ELSE Empty]
    /\ higherPml3 = [s \in Pml3Slots |-> IF s \in {0, 510} THEN Boot(2) ELSE Empty]
    /\ content = [p \in Pages |-> [i \in 0 .. 3 |-> Empty]]
    /\ lowerHandler = "none"

Goto(next) == stage' = next /\ step' = 0

(* A write through nullptr.  The lower half is unmapped, so it faults; with *)
(* an IDT the fault reaches MemoryManager::OnPageFault, which has no lower  *)
(* handler and calls hyper_quit.  Before that the machine triple-faults.    *)
NullWrite ==
    /\ Goto(IF stage = "intmInit" THEN "tripleFault" ELSE "quit")
    /\ UNCHANGED <<content, pml4, higherPml3, lowerHandler>>

(* The scan of AllocatePage: the highest free page, never page 0.           *)
FreePages_Bug1 == {i \in 1 .. numPages : i \notin allocated}       \* scan starts one too high
FreePages_Bug2 == {i \in 2 .. numPages - 1 : i \notin allocated}   \* scan stops one too early
FreePages == {i \in 1 .. numPages - 1 : i \notin allocated}

AllocatePage(o) ==
    \/ /\ FreePages = {}
       /\ page' = [page EXCEPT ![o] = Nullptr]
       /\ UNCHANGED allocated
    \/ \E i \in FreePages :
          /\ \A j \in FreePages : j <= i
          /\ allocated' = allocated \union {i}
          /\ page' = [page EXCEPT ![o] = i]

(* SetPml2Page indexes the upper PML3 with the address modulo 512 GiB.      *)
SetPml2Page(p, virtGiB) ==
    higherPml3' = [higherPml3 EXCEPT ![virtGiB % 512] = Table(p)]

(* SetLowerPml3 indexes the PML4 with the address divided by 512 GiB.       *)
Pml4Slot(virtGiB) == virtGiB \div 512
-----------------------------------------------------------------------------
(* MemoryManager::Init: map the work RAM, drop the identity mapping, mark   *)
(* the pages that hold the heap's own bookkeeping as allocated.             *)
UnmapBootLower_Bug ==      \* the PML4 entry is left in place
    /\ higherPml3' = [higherPml3 EXCEPT ![0] = Empty]
    /\ pml4' = pml4

UnmapBootLower ==
    /\ higherPml3' = [higherPml3 EXCEPT ![0] = Empty]
    /\ pml4' = [pml4 EXCEPT ![0] = Empty]

InitializeContiguousHeap_Bug ==     \* the last page of the map itself is left free
    allocated' = {p \in Pages : p < InfoPages - 1}

InitializeContiguousHeap == allocated' = {p \in Pages : p < InfoPages}

MmInit ==
    /\ stage = "mmInit"
    /\ UnmapBootLower
    /\ InitializeContiguousHeap
    /\ Goto("intmInit")
    /\ UNCHANGED <<cpuType, numPages, page, content, lowerHandler>>

(* InterruptManager::Init: one page for the IDT, cleared and filled.        *)
IntmInit ==
    /\ stage = "intmInit"
    /\ AllocatePage(<<"idtEntries", 0>>)
    /\ \/ /\ page'[<<"idtEntries", 0>>] = Nullptr
          /\ NullWrite
       \/ /\ page'[<<"idtEntries", 0>>] # Nullptr
          /\ Goto("dispatch")
          /\ UNCHANGED <<content, pml4, higherPml3, lowerHandler>>
    /\ UNCHANGED <<cpuType, numPages>>

Dispatch_Bug ==            \* the SH4A case falls through to the default
    /\ stage = "dispatch"
    /\ Goto(IF cpuType \in {"UNSPECIFIED", "SH4A"} THEN "quit" ELSE "realInit")
    /\ UNCHANGED <<cpuType, numPages, allocated, page, content, pml4, higherPml3,
                   lowerHandler>>

(* kmain's switch on the CPU type; an unknown type quits.                   *)
Dispatch ==
    /\ stage = "dispatch"
    /\ Goto(IF cpuType = "UNSPECIFIED" THEN "quit" ELSE "realInit")
    /\ UNCHANGED <<cpuType, numPages, allocated, page, content, pml4, higherPml3,
                   lowerHandler>>
-----------------------------------------------------------------------------
(* The real-memory components.  FillPml2 is one iteration: allocate a PML2, *)
(* fill it through the returned pointer, hang it below the upper PML3.      *)
FillPml2(o, quarters, virtGiB) ==
    /\ AllocatePage(o)
    /\ \/ /\ page'[o] = Nullptr
          /\ NullWrite
       \/ /\ page'[o] # Nullptr
          /\ content' = [content EXCEPT ![page'[o]] = quarters]
          /\ SetPml2Page(page'[o], virtGiB)
          /\ UNCHANGED <<pml4, lowerHandler>>

Quarters(base) == [q \in 0 .. 3 |-> Frame(base + q)]

(* XenonRealMemory::MapUpperRealSpace: four GiB of RAM, four of SoC space.  *)
XenonRealInit ==
    /\ stage = "realInit"
    /\ cpuType = "XENON"
    /\ LET i == step % 4
           soc == step >= 4
           o == <<IF soc THEN "socPml2" ELSE "ramPml2", i>>
           base == (IF soc THEN SocQuarter ELSE RamQuarter) + 4 * i
           virt == (IF soc THEN SocVirtGiB ELSE RamVirtGiB) + i
       IN /\ FillPml2(o, Quarters(base), virt)
          /\ page'[o] # Nullptr =>
                IF step = 7 THEN Goto("cpuInit") ELSE stage' = stage /\ step' = step + 1
    /\ UNCHANGED <<cpuType, numPages>>

(* DcRealMemory and WiiRealMemory map 512 MiB: the upper half stays empty.  *)
HalfGiB == [q \in 0 .. 3 |-> IF q < 2 THEN Frame(RamQuarter + q) ELSE Empty]

SingleRealInit ==
    /\ stage = "realInit"
    /\ cpuType \in {"SH4A", "GEKKO"}
    /\ LET o == <<"physPml2", 0>>
       IN FillPml2(o, HalfGiB, RamVirtGiB) /\ (page'[o] # Nullptr => Goto("cpuInit"))
    /\ UNCHANGED <<cpuType, numPages>>
-----------------------------------------------------------------------------
(* The CPUs' MmuContext::Init: the loops only store what AllocatePage       *)
(* returns, nullptr included.                                               *)
PpcTable(k) ==
    CASE k < 4 -> <<"hvRealModePml3s", k>>
      [] k = 4 -> <<"ir32Pml3", 0>>
      [] k \in 5 .. 8 -> <<"ir32Pml2s", k - 5>>
      [] OTHER -> <<"ir32Pml1s", k - 9>>

Sh4aTable(k) ==
    CASE k = 0 -> <<"pml3", 0>>
      [] k \in 1 .. 4 -> <<"pml2s", k - 1>>
      [] OTHER -> <<"pml1s", k - 5>>

GekkoTable(k) ==
    CASE k = 0 -> <<"pml3", 0>>
      [] k = 1 -> <<"cachedPml2", 0>>
      [] OTHER -> <<"uncachedPml2", 0>>

CpuTable(k) ==
    CASE cpuType = "XENON" -> PpcTable(k)
      [] cpuType = "SH4A" -> Sh4aTable(k)
      [] OTHER -> GekkoTable(k)

CpuTables ==
    CASE cpuType = "XENON" -> 9 + NumPml1s
      [] cpuType = "SH4A" -> 5 + NumPml1s
      [] OTHER -> 3

CpuMmuInit ==
    /\ stage = "cpuInit"
    /\ AllocatePage(CpuTable(step))
    /\ IF step = CpuTables - 1
         THEN Goto("mapFull")
         ELSE stage' = stage /\ step' = step + 1
    /\ UNCHANGED <<cpuType, numPages, content, pml4, higherPml3, lowerHandler>>
-----------------------------------------------------------------------------
P(name, i) == page[<<name, i>>]

WindowPml2_Bug(w, g) == IF w = 3 THEN P("socPml2", g) ELSE P("ramPml2", g)

(* The PML2 that MapFull puts below window w of the real address space.     *)
WindowPml2(w, g) == IF w = 2 THEN P("socPml2", g) ELSE P("ramPml2", g)

(* PpcCpu::MmuContext::MapFull: the four windows of the real address space, *)
(* the PML2s of the relocated one, and DisableRelocation, which puts the    *)
(* windows of 1 TiB into the PML4.  Nothing is written through an ir32Pml2s *)
(* pointer here: only the entries are built.                                *)
PpcMapFull ==
    /\ stage = "mapFull"
    /\ cpuType = "XENON"
    /\ \/ /\ \/ \E w \in 0 .. 3 : P("hvRealModePml3s", w) = Nullptr
             \/ P("ir32Pml3", 0) = Nullptr
          /\ NullWrite
       \/ /\ \A w \in 0 .. 3 : P("hvRealModePml3s", w) # Nullptr
          /\ P("ir32Pml3", 0) # Nullptr
          /\ content' =
                [p \in Pages |-> [g \in 0 .. 3 |->
                   IF p = P("ir32Pml3", 0) THEN Table(P("ir32Pml2s", g))
                   ELSE IF \E w \in 0 .. 3 : p = P("hvRealModePml3s", w)
                     THEN LET w == CHOOSE w \in 0 .. 3 : p = P("hvRealModePml3s", w)
                          IN  Table(WindowPml2(w, g))
                     ELSE content[p][g]]]
          /\ pml4' = [s \in Pml4Slots |->
                        IF \E w \in 0 .. 3 : s = Pml4Slot(1024 * w)
                          THEN Table(P("hvRealModePml3s", s \div 2))
                          ELSE pml4[s]]
          /\ Goto("execute")
          /\ UNCHANGED <<higherPml3, lowerHandler>>
    /\ UNCHANGED <<cpuType, numPages, allocated, page>>

(* Sh4aCpu::MmuContext::MapFull: of the four GiB only P1 and P2 (the two    *)
(* halves of GiB 2) are mapped, both to the 512 MiB of physical memory; the *)
(* MmuContext becomes the lower fault handler.                              *)
Sh4aMapFull ==
    /\ stage = "mapFull"
    /\ cpuType = "SH4A"
    /\ \/ /\ \/ P("pml3", 0) = Nullptr
             \/ \E g \in 0 .. 3 : P("pml2s", g) = Nullptr
          /\ NullWrite
       \/ /\ P("pml3", 0) # Nullptr
          /\ \A g \in 0 .. 3 : P("pml2s", g) # Nullptr
          /\ content' =
                [p \in Pages |->
                   CASE p = P("pml3", 0) -> [g \in 0 .. 3 |-> Table(P("pml2s", g))]
                     [] p = P("pml2s", 2) -> [q \in 0 .. 3 |-> Frame(RamQuarter + (q % 2))]
                     [] p \in {P("pml2s", g) : g \in {0, 1, 3}} -> [q \in 0 .. 3 |-> Empty]
                     [] OTHER -> content[p]]
          /\ pml4' = [pml4 EXCEPT ![Pml4Slot(0)] = Table(P("pml3", 0))]
          /\ lowerHandler' = "Sh4aCpu"
          /\ Goto("execute")
          /\ UNCHANGED higherPml3
    /\ UNCHANGED <<cpuType, numPages, allocated, page>>

(* The rest of PowerPC32Mmu::Init: 256 MiB, cached and uncached.            *)
GekkoMapFull ==
    /\ stage = "mapFull"
    /\ cpuType = "GEKKO"
    /\ LET quarter == [q \in 0 .. 3 |-> IF q = 0 THEN Frame(RamQuarter) ELSE Empty]
           tables == {P("pml3", 0), P("cachedPml2", 0), P("uncachedPml2", 0)}
       IN \/ Nullptr \in tables /\ NullWrite
          \/ /\ Nullptr \notin tables
             /\ content' =
                   [p \in Pages |->
                      CASE p = P("pml3", 0) -> [content[p] EXCEPT
                                                  ![2] = Table(P("cachedPml2", 0)),
                                                  ![3] = Table(P("uncachedPml2", 0))]
                        [] p \in {P("cachedPml2", 0), P("uncachedPml2", 0)} -> quarter
                        [] OTHER -> content[p]]
             /\ pml4' = [pml4 EXCEPT ![Pml4Slot(0)] = Table(P("pml3", 0))]
             /\ Goto("execute")
             /\ UNCHANGED <<higherPml3, lowerHandler>>
    /\ UNCHANGED <<cpuType, numPages, allocated, page>>

(* The head of Execute: only the PowerPC interpreter registers its handler. *)
EnterExecute ==
    /\ stage = "execute"
    /\ cpuType = "XENON"
    /\ lowerHandler = "none"
    /\ lowerHandler' = "PpcCpu"
    /\ UNCHANGED <<cpuType, numPages, stage, step, allocated, page, content, pml4, higherPml3>>

Next ==
    \/ MmInit \/ IntmInit \/ Dispatch
    \/ XenonRealInit \/ SingleRealInit
    \/ CpuMmuInit
    \/ PpcMapFull \/ Sh4aMapFull \/ GekkoMapFull
    \/ EnterExecute

(* Boot is straight-line code on one virtual CPU the host keeps running.    *)
Spec == Init /\ [][Next]_vars /\ WF_vars(Next)
-----------------------------------------------------------------------------
(* Table pointers are unset, null or pages of the heap, and tables are      *)
(* written within their bounds.                                             *)
TypeOK ==
    /\ cpuType \in CpuTypes
    /\ numPages \in HeapSizes
    /\ stage \in {"mmInit", "intmInit", "dispatch", "realInit", "cpuInit",
                  "mapFull", "execute", "quit", "tripleFault"}
    /\ step \in Nat
    /\ allocated \subseteq Pages
    /\ page \in [Owners -> Pages \union {Nullptr, Unset}]
    /\ DOMAIN pml4 = Pml4Slots
    /\ DOMAIN higherPml3 = Pml3Slots
    /\ DOMAIN content = Pages
    /\ \A p \in Pages : DOMAIN content[p] = 0 .. 3
    /\ lowerHandler \in {"none", "PpcCpu", "Sh4aCpu"}

(* Table pointers that hold a page.                                         *)
Owned == {o \in Owners : page[o] >= 0}

(* AllocatePage never hands out one page twice, nor a page that holds the   *)
(* heap's own bookkeeping: filling a table through one pointer would        *)
(* otherwise rewrite another table, the IDT or the allocation map.          *)
NoSharedPage ==
    /\ \A o \in Owned : page[o] \in allocated /\ page[o] >= InfoPages
    /\ \A o1, o2 \in Owned : o1 # o2 => page[o1] # page[o2]

(* Hanging guest tables below the upper PML3 never replaces the window      *)
(* through which the kernel itself runs, and each slot in use leads to a    *)
(* PML2 of the real-memory components.                                      *)
HigherHalfIntact ==
    /\ pml4[511] = Boot(3)
    /\ higherPml3[510] = Boot(2)
    /\ \A s \in Pml3Slots \ {0, 510} :
          \/ higherPml3[s] = Empty
          \/ \E o \in Owned : /\ o[1] \in {"ramPml2", "socPml2", "physPml2"}
                              /\ higherPml3[s] = Table(page[o])

(* From the end of MemoryManager::Init until the CPU's own tables are       *)
(* installed no lower half is mapped, so the unchecked nullptr of a failed  *)
(* AllocatePage always faults instead of writing guest or VMM memory.       *)
NullWritesFault ==
    stage \notin {"mmInit", "execute"} =>
        \A s \in Pml4Slots \ {511} : pml4[s] = Empty

(* The page walk of quarter q of GiB g of the lower PML4 slot s.            *)
Below(entry, i) ==
    IF entry[1] = "table" /\ entry[2] \in Pages THEN content[entry[2]][i] ELSE Empty
Walk(s, g, q) == Below(Below(pml4[s], g), q)

(* XenonRealMemory::GetVmmPhysForXenonPhys, by the region number.           *)
GetVmmPhysForXenonPhys(region, quarter) ==
    Frame(quarter + IF region = 2 THEN SocQuarter ELSE RamQuarter)

(* The lower half the CPU starts with.  Xenon: every real address is where  *)
(* GetVmmPhysForXenonPhys, which fills the relocated tables, says it is, so *)
(* both address spaces see one memory.  SH-4A and Gekko: the cached and the *)
(* uncached view alias the same frames and nothing else is mapped.          *)
GuestView ==
    stage = "execute" =>
        \A w, g, q \in 0 .. 3 :
            CASE cpuType = "XENON" ->
                    Walk(2 * w, g, q) = GetVmmPhysForXenonPhys(w, 4 * g + q)
              [] cpuType = "SH4A" ->
                    Walk(2 * w, g, q) = IF w = 0 /\ g = 2 THEN Frame(RamQuarter + (q % 2))
                                                          ELSE Empty
              [] cpuType = "GEKKO" ->
                    Walk(2 * w, g, q) = IF w = 0 /\ g \in {2, 3} /\ q = 0 THEN Frame(RamQuarter)
                                                                           ELSE Empty

(* Pages the whole boot asks for: the IDT, the real memory, the CPU.        *)
Needed == 1 + (IF cpuType = "XENON" THEN 8 ELSE 1) + CpuTables
HeapSuffices == numPages >= InfoPages + Needed

(* No caller checks what AllocatePage returns.  With a heap of the size     *)
(* HeapSuffices asks for none needs to: no pointer is ever nullptr and boot *)
(* stops early only for an unknown CPU type.                                *)
NoAllocationFails ==
    HeapSuffices =>
        /\ \A o \in Owners : page[o] # Nullptr
        /\ stage # "tripleFault"
        /\ stage = "quit" => cpuType = "UNSPECIFIED"

(* With enough pages every known CPU type reaches its Execute loop, with    *)
(* its fault handler registered (the Gekko interpreter has none).           *)
BootReachesExecute ==
    (HeapSuffices /\ cpuType # "UNSPECIFIED")
        ~> (stage = "execute" /\ (lowerHandler # "none" \/ cpuType = "GEKKO"))
=============================================================================
