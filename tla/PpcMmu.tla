------------------------------- MODULE PpcMmu -------------------------------
(***************************************************************************)
(* PpcCpu::MmuContext (vmm/PpcCpu.h, PpcCpu.cpp): the software-managed TLB *)
(* of the emulated PowerPC, kept in the special registers PPE_TLB_INDEX,   *)
(* PPE_TLB_VPN, PPE_TLB_RPN and PPE_TLB_INDEX_HINT, and the x86 page       *)
(* tables that carry its translations out.                                 *)
(*                                                                         *)
(* A page is 16 MiB.  An effective address is <<window, page>>, the window *)
(* (bits 40 and 41) selecting one of the PML4 slots SetLowerPml3 is given; *)
(* the relocated address space has 4 GiB and so lives in window 0.  A real *)
(* address is <<region, page>> with the same split.                        *)
(*                                                                         *)
(* The x86 processor may cache any translation its page tables hold, at    *)
(* any time, and drop it at any time; it never caches the absence of one.  *)
(* The guest is free: it writes the registers in any order, with any value *)
(* of the sets below.  PpcTlbFill.tla adds a guest that follows a protocol.*)
(***************************************************************************)
EXTENDS Integers, FiniteSets

CONSTANTS
    NumIndexes,    \* rows of tlbEntries (256 in the code)
    Pages,         \* 16 MiB page numbers (256 of them in 4 GiB)
    Windows,       \* PML4 windows in use, 0 among them (0 .. 3 in the code)
    Rpns,          \* real pages <<region, page>> the guest puts into the TLB
    SetMasks       \* sets the guest selects with one PPE_TLB_INDEX write

Sets == 0 .. 3                        \* loop index i, selected by flag 8 >> i
NumEntries == 4 * NumIndexes          \* NUM_TLB_ENTRIES
Indexes == 0 .. NumIndexes - 1

NoVpn == <<"no">>                     \* a vpn word whose valid bit is clear
Vpn(v) == <<"vpn", v>>
Unmapped == <<"unmapped">>
ZeroRpn == <<0, 0>>                   \* rpn of an entry never written

ASSUME NumIndexesAssumption == NumIndexes \in Nat \ {0}
ASSUME WindowsAssumption == 0 \in Windows /\ Windows \subseteq 0 .. 3
ASSUME PagesAssumption == 0 \in Pages /\ Pages \subseteq 0 .. 255
ASSUME RpnsAssumption == Rpns \subseteq (0 .. 3) \X Pages
ASSUME SetMasksAssumption == SetMasks \subseteq SUBSET Sets

VARIABLES
    tlbEntries,        \* [index -> [set -> [vpn, rpn]]]
    currentTlbIndex,   \* row selected by PPE_TLB_INDEX
    currentTlbSets,    \* sets selected by PPE_TLB_INDEX
    nextTlbHint,       \* only ever read modulo NumEntries, and kept so
    ir32Pml2s,         \* the relocated mapping: [page -> frame or Unmapped]
    pml4,              \* table each window leads to: "hv" or "ir32"
    msrRelocated,      \* IR and DR of context.msr
    cached,            \* translations the x86 processor holds
    halted             \* hyper_quit was called: the host does not resume

mmuVars == <<tlbEntries, currentTlbIndex, currentTlbSets, nextTlbHint, ir32Pml2s,
             pml4, msrRelocated, cached, halted>>

(* Where XenonRealMemory::GetVmmPhysForXenonPhys puts a real page; the      *)
(* real-mode windows translate the same way (VmmBoot!GuestView).            *)
GetVmmPhysForXenonPhys(rpn) == <<IF rpn[1] = 2 THEN "soc" ELSE "ram", rpn[2]>>

Frames == {"soc", "ram"} \X Pages

IsValid(entry) == entry.vpn # NoVpn

(* Init after MmuContext::MapFull; the entries are zero in fresh RAM.       *)
Init ==
    /\ tlbEntries = [i \in Indexes |-> [s \in Sets |-> [vpn |-> NoVpn, rpn |-> ZeroRpn]]]
    /\ currentTlbIndex = 0
    /\ currentTlbSets = {}
    /\ nextTlbHint = NumEntries - 1
    /\ ir32Pml2s = [v \in Pages |-> Unmapped]
    /\ pml4 = [w \in Windows |-> "hv"]
    /\ msrRelocated = FALSE
    /\ cached = {}
    /\ halted = FALSE
-----------------------------------------------------------------------------
(* PPE_TLB_INDEX_HINT: the entry the guest is advised to fill next.         *)
HintIndex_Bug == nextTlbHint          \* the shift by the set bits is missing
HintIndex == nextTlbHint \div 4
HintSets == {nextTlbHint % 4}

WriteTlbIndex_Bug(index, sets) ==     \* the row is decoded one too high
    /\ ~halted
    /\ currentTlbIndex' = index + 1
    /\ currentTlbSets' = sets
    /\ UNCHANGED <<tlbEntries, nextTlbHint, ir32Pml2s, pml4, msrRelocated, cached, halted>>

WriteTlbIndex(index, sets) ==
    /\ ~halted
    /\ currentTlbIndex' = index
    /\ currentTlbSets' = sets
    /\ UNCHANGED <<tlbEntries, nextTlbHint, ir32Pml2s, pml4, msrRelocated, cached, halted>>

WriteTlbRpn_Bug(rpn) ==               \* only entries already valid take the rpn
    /\ ~halted
    /\ tlbEntries' = [tlbEntries EXCEPT ![currentTlbIndex] =
                        [s \in Sets |-> IF s \in currentTlbSets /\ IsValid(@[s])
                                          THEN [@[s] EXCEPT !.rpn = rpn]
                                          ELSE @[s]]]
    /\ UNCHANGED <<currentTlbIndex, currentTlbSets, nextTlbHint, ir32Pml2s, pml4,
                   msrRelocated, cached, halted>>

(* The real page number goes into every selected set, valid or not; no      *)
(* mapping is touched.                                                      *)
WriteTlbRpn(rpn) ==
    /\ ~halted
    /\ tlbEntries' = [tlbEntries EXCEPT ![currentTlbIndex] =
                        [s \in Sets |-> IF s \in currentTlbSets
                                          THEN [@[s] EXCEPT !.rpn = rpn]
                                          ELSE @[s]]]
    /\ UNCHANGED <<currentTlbIndex, currentTlbSets, nextTlbHint, ir32Pml2s, pml4,
                   msrRelocated, cached, halted>>

(* WriteTlbVpn visits the selected sets in order; SetNewVpn quits at the    *)
(* first one that is already valid, so only those before it are written.    *)
Row == tlbEntries[currentTlbIndex]

Clashes_Bug ==                        \* only the first set is checked before the loop
    {s \in currentTlbSets : IsValid(Row[s]) /\ \A t \in currentTlbSets : s <= t}
Clashes == {s \in currentTlbSets : IsValid(Row[s])}
Written_Bug2 == {s \in currentTlbSets : IsValid(Row[s])}              \* check inverted
Written == {s \in currentTlbSets : \A c \in Clashes : s < c}

(* Of several sets written at once the last one's rpn stays mapped.         *)
LastWritten == CHOOSE s \in Written : \A t \in Written : t <= s

Map16MPage_Bug(v) == UNCHANGED ir32Pml2s      \* the entry is stored, nothing is mapped
Map16MPage_Late(v) ==                 \* mapped once behind the loop, which a quit skips
    ir32Pml2s' = IF Clashes = {}
                   THEN [ir32Pml2s EXCEPT ![v] = GetVmmPhysForXenonPhys(Row[LastWritten].rpn)]
                   ELSE ir32Pml2s

(* Map16MPage overwrites the eight PML2 entries of the page.  It flushes    *)
(* nothing: the x86 processor keeps what it has cached.                     *)
Map16MPage(v) ==
    ir32Pml2s' = [ir32Pml2s EXCEPT ![v] = GetVmmPhysForXenonPhys(Row[LastWritten].rpn)]

WriteTlbVpn_Bug(vpn) ==               \* the hint does not advance
    /\ ~halted
    /\ tlbEntries' = [tlbEntries EXCEPT ![currentTlbIndex] =
                        [s \in Sets |-> IF s \in Written THEN [@[s] EXCEPT !.vpn = vpn]
                                                         ELSE @[s]]]
    /\ \/ /\ vpn = NoVpn \/ Written = {}
          /\ UNCHANGED ir32Pml2s
       \/ \E v \in Pages : vpn = Vpn(v) /\ Written # {} /\ Map16MPage(v)
    /\ halted' = (Clashes # {})
    /\ UNCHANGED <<nextTlbHint, currentTlbIndex, currentTlbSets, pml4, msrRelocated, cached>>

WriteTlbVpn(vpn) ==
    /\ ~halted
    /\ tlbEntries' = [tlbEntries EXCEPT ![currentTlbIndex] =
                        [s \in Sets |-> IF s \in Written THEN [@[s] EXCEPT !.vpn = vpn]
                                                         ELSE @[s]]]
    /\ \/ /\ vpn = NoVpn \/ Written = {}
          /\ UNCHANGED ir32Pml2s
       \/ \E v \in Pages :
             /\ vpn = Vpn(v)
             /\ Written # {}
             /\ Map16MPage(v)
    /\ nextTlbHint' = (nextTlbHint + Cardinality(Written)) % NumEntries
    /\ halted' = (Clashes # {})
    /\ UNCHANGED <<currentTlbIndex, currentTlbSets, pml4, msrRelocated, cached>>
-----------------------------------------------------------------------------
(* SetLowerPml3 ends in InvalidateAllPages, which reloads CR3.              *)
DisableRelocation_Bug ==              \* CR3 is not reloaded
    /\ pml4' = [w \in Windows |-> "hv"]
    /\ UNCHANGED cached

DisableRelocation ==
    /\ pml4' = [w \in Windows |-> "hv"]
    /\ cached' = {}

EnableRelocation_Bug1 ==              \* the relocated tables go into every window
    /\ pml4' = [w \in Windows |-> "ir32"]
    /\ cached' = {}

EnableRelocation_Bug2 ==              \* CR3 is not reloaded
    /\ pml4' = [pml4 EXCEPT ![0] = "ir32"]
    /\ UNCHANGED cached

(* Only window 0 is switched: the ClearLowerPml3 calls for the other three  *)
(* are commented out, so they go on showing real memory.                    *)
EnableRelocation ==
    /\ pml4' = [pml4 EXCEPT ![0] = "ir32"]
    /\ cached' = {}

(* PpcCpu::SetMsr, by the IR and DR bits of the new value: different bits   *)
(* are not supported and quit.                                              *)
SetMsr(ir, dr) ==
    /\ ~halted
    /\ \/ ir = dr /\ ~ir /\ DisableRelocation /\ msrRelocated' = FALSE
       \/ ir = dr /\ ir /\ EnableRelocation /\ msrRelocated' = TRUE
       \/ ir # dr /\ UNCHANGED <<pml4, cached, msrRelocated>>
    /\ halted' = (ir # dr)
    /\ UNCHANGED <<tlbEntries, currentTlbIndex, currentTlbSets, nextTlbHint, ir32Pml2s>>
-----------------------------------------------------------------------------
(* What the page tables say of <<w, v>>; only window 0 can be relocated.    *)
Walk(w, v) ==
    IF pml4[w] = "ir32" THEN ir32Pml2s[v] ELSE GetVmmPhysForXenonPhys(<<w, v>>)

CachedFor(w, v) == {c \in cached : c.window = w /\ c.page = v}

(* The x86 processor caches a translation (by a guest access or on its own) *)
(* or drops one.                                                            *)
CacheFill(w, v) ==
    /\ ~halted
    /\ CachedFor(w, v) = {}
    /\ Walk(w, v) # Unmapped
    /\ cached' = cached \union {[window |-> w, page |-> v, frame |-> Walk(w, v)]}
    /\ UNCHANGED <<tlbEntries, currentTlbIndex, currentTlbSets, nextTlbHint, ir32Pml2s,
                   pml4, msrRelocated, halted>>

CacheEvict(w, v) ==
    /\ ~halted
    /\ CachedFor(w, v) # {}
    /\ cached' = cached \ CachedFor(w, v)
    /\ UNCHANGED <<tlbEntries, currentTlbIndex, currentTlbSets, nextTlbHint, ir32Pml2s,
                   pml4, msrRelocated, halted>>

(* An access to a page nothing maps: the ISI or DSI of PpcCpu::Execute      *)
(* clears IR and DR, SetMsr(context.msr & ~0x30).                           *)
PageFault(w, v) ==
    /\ CachedFor(w, v) = {}
    /\ Walk(w, v) = Unmapped
    /\ SetMsr(FALSE, FALSE)

Next ==
    \/ \E index \in Indexes, sets \in SetMasks : WriteTlbIndex(index, sets)
    \/ \E rpn \in Rpns : WriteTlbRpn(rpn)
    \/ \E vpn \in {NoVpn} \union {Vpn(v) : v \in Pages} : WriteTlbVpn(vpn)
    \/ \E ir, dr \in BOOLEAN : SetMsr(ir, dr)
    \/ \E w \in Windows, v \in Pages :
          CacheFill(w, v) \/ CacheEvict(w, v) \/ PageFault(w, v)

Spec == Init /\ [][Next]_mmuVars
-----------------------------------------------------------------------------
TlbEntry == [vpn : {NoVpn} \union {Vpn(v) : v \in Pages}, rpn : Rpns \union {ZeroRpn}]

(* No register write leads outside of tlbEntries, the page tables hold      *)
(* frames of the machine's memory only, and so does the processor's cache.  *)
TypeOK ==
    /\ tlbEntries \in [Indexes -> [Sets -> TlbEntry]]
    /\ currentTlbIndex \in Indexes
    /\ currentTlbSets \in SUBSET Sets
    /\ nextTlbHint \in 0 .. NumEntries - 1
    /\ ir32Pml2s \in [Pages -> Frames \union {Unmapped}]
    /\ pml4 \in [Windows -> {"hv", "ir32"}]
    /\ msrRelocated \in BOOLEAN
    /\ cached \subseteq [window : Windows, page : Pages, frame : Frames]
    /\ halted \in BOOLEAN

(* The x86 tables translate a page exactly when some valid TLB entry of the *)
(* guest names it, whatever the guest writes and wherever a write stopped.  *)
MappedIffValid ==
    \A v \in Pages :
        ir32Pml2s[v] # Unmapped <=>
            \E i \in Indexes, s \in Sets : tlbEntries[i][s].vpn = Vpn(v)

(* The window the guest addresses through always shows the address space    *)
(* its MSR asks for, and the other windows always show real memory.         *)
RootMatchesMsr ==
    \A w \in Windows : pml4[w] = IF w = 0 /\ msrRelocated THEN "ir32" ELSE "hv"

(* A translation of one address space does not survive in the processor     *)
(* when the guest has moved to the other: in real mode every access reaches *)
(* the real address, in relocated mode a page without a TLB entry faults.   *)
NoTranslationLeaks ==
    \A c \in cached :
        IF c.window = 0 /\ msrRelocated
          THEN ir32Pml2s[c.page] # Unmapped
          ELSE c.frame = GetVmmPhysForXenonPhys(<<c.window, c.page>>)

(* A TLB entry that became valid keeps its page number, and a page that was *)
(* mapped stays mapped: no register write takes a translation back.         *)
NothingIsRevoked ==
    [][ /\ \A i \in Indexes, s \in Sets :
              IsValid(tlbEntries[i][s]) => tlbEntries'[i][s].vpn = tlbEntries[i][s].vpn
        /\ \A v \in Pages : ir32Pml2s[v] # Unmapped => ir32Pml2s'[v] # Unmapped ]_mmuVars
=============================================================================
