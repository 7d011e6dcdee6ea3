-------------------------- MODULE PpcTlbFill_proofs --------------------------
(***************************************************************************)
(* Proofs about PpcTlbFill: the fill protocol of the guest is one use of   *)
(* the MMU among all of PpcMmu, and it never runs into a valid entry.      *)
(***************************************************************************)
EXTENDS PpcTlbFill, PpcMmu_proofs

(* The handler carries the hint it read to the register writes: nothing     *)
(* advances the hint before the entry is filled.                            *)
HintCarried ==
    /\ guest = "writeIndex" => hintReg = <<HintIndex, HintSets>>
    /\ guest \in {"writeRpn", "writeVpn"} =>
          currentTlbIndex = HintIndex /\ currentTlbSets = HintSets

(* The MSR says who runs, and the page a handler works for is not mapped.   *)
WantUnmapped ==
    /\ msrRelocated <=> guest = "program"
    /\ guest \in Handler => ir32Pml2s[want] = Unmapped

(* The rpn is in the entry when the vpn makes it valid.                     *)
RpnBeforeVpn ==
    guest = "writeVpn" => \A s \in currentTlbSets : Row[s].rpn = PageTable[want]

Mapped == {v \in Pages : ir32Pml2s[v] # Unmapped}
Entry(i, s) == 4 * i + s

(* Entries are filled in the order of the hint: the last one first, then    *)
(* 0, 1, and so on, one for every mapped page.                              *)
FilledInOrder ==
    LET k == Cardinality(Mapped)
    IN  /\ nextTlbHint = IF k = 0 THEN NumEntries - 1 ELSE k - 1
        /\ \A i \in Indexes, s \in Sets :
              IsValid(tlbEntries[i][s]) <=>
                  k > 0 /\ (Entry(i, s) = NumEntries - 1 \/ Entry(i, s) < k - 1)

FillInv == HintCarried /\ WantUnmapped /\ RpnBeforeVpn /\ FilledInOrder
-----------------------------------------------------------------------------
(* The hint names one entry, row and set.                                   *)
LEMMA HintType ==
    ASSUME TypeOK
    PROVE  /\ HintIndex \in Indexes
           /\ HintSets \in SUBSET Sets
           /\ HintSets \in SetMasks
           /\ \E s \in Sets : HintSets = {s} /\ Entry(HintIndex, s) = nextTlbHint
  <1>1. nextTlbHint \in Int /\ 0 <= nextTlbHint /\ nextTlbHint <= 4 * NumIndexes - 1
    BY NumIndexesAssumption DEF TypeOK, NumEntries
  <1>2. /\ nextTlbHint \div 4 \in 0 .. NumIndexes - 1
        /\ nextTlbHint % 4 \in 0 .. 3
        /\ 4 * (nextTlbHint \div 4) + (nextTlbHint % 4) = nextTlbHint
    BY <1>1, NumIndexesAssumption
  <1>3. HintSets = {nextTlbHint % 4} /\ Entry(HintIndex, nextTlbHint % 4) = nextTlbHint
    BY <1>2 DEF HintSets, HintIndex, Entry
  <1> QED
    BY <1>2, <1>3, SingleSetsAssumption DEF HintIndex, HintSets, Indexes, Sets

(* Every action of the composition is a step of the MMU, or changes none of *)
(* its variables.                                                           *)
LEMMA FillStepIsMmuStep ==
    ASSUME FillTypeOK, HintCarried, [FillNext]_fillVars
    PROVE  [Next]_mmuVars
  <1> USE DEF FillTypeOK
  <1>1. ASSUME SelectEntry PROVE Next
    <2>1. WriteTlbIndex(HintIndex, HintSets)
      BY <1>1 DEF SelectEntry, HintCarried
    <2> QED
      BY <2>1, HintType DEF Next
  <1>2. ASSUME FillRpn PROVE Next
    <2>1. want \in Pages
      BY <1>2 DEF FillRpn, Handler
    <2>2. PageTable[want] \in Rpns
      BY <2>1, PageTableAssumption
    <2> QED
      BY <1>2, <2>2 DEF FillRpn, Next
  <1>3. ASSUME FillVpn PROVE Next
    <2>1. want \in Pages
      BY <1>3 DEF FillVpn, Handler
    <2> QED
      BY <1>3, <2>1 DEF FillVpn, Next
  <1>4. ASSUME Return \/ Syscall \/ Miss PROVE Next
    BY <1>4 DEF Return, Syscall, Miss, PageFault, Next
  <1>5. ASSUME Processor PROVE Next
    BY <1>5 DEF Processor, Next
  <1>6. ASSUME (\E v \in Pages : Issue(v)) \/ Complete \/ ReadHint \/ UNCHANGED fillVars
        PROVE  UNCHANGED mmuVars
    BY <1>6 DEF Issue, Complete, ReadHint, fillVars
  <1> QED
    BY <1>1, <1>2, <1>3, <1>4, <1>5, <1>6 DEF FillNext, GuestStep

(* The types of the composition, with the hint the handler carries: the     *)
(* hint is read in one step and used in a later one.                        *)
LEMMA FillTypeInvariant == FillSpec => [](FillTypeOK /\ HintCarried)
<1>1. FillInit => FillTypeOK /\ HintCarried
  <2> SUFFICES ASSUME FillInit PROVE FillTypeOK /\ HintCarried
    OBVIOUS
  <2>1. TypeOK
    BY InitType DEF FillInit
  <2>2. 0 \in Indexes
    BY NumIndexesAssumption DEF Indexes
  <2> QED
    BY <2>1, <2>2 DEF FillInit, FillTypeOK, HintCarried, Handler
<1>2. FillTypeOK /\ HintCarried /\ [FillNext]_fillVars => FillTypeOK' /\ HintCarried'
  <2> SUFFICES ASSUME FillTypeOK, HintCarried, [FillNext]_fillVars
               PROVE  FillTypeOK' /\ HintCarried'
    OBVIOUS
  <2>1. TypeOK'
    BY FillStepIsMmuStep, TypeStep DEF FillTypeOK
  <2>2. HintIndex \in Indexes /\ HintSets \in SUBSET Sets
    BY HintType DEF FillTypeOK
  <2> USE DEF FillTypeOK, HintCarried, Handler, HintIndex, HintSets
  <2>3. CASE (\E v \in Pages : Issue(v)) \/ Complete \/ Miss \/ ReadHint
    BY <2>1, <2>2, <2>3 DEF Issue, Complete, Miss, ReadHint, PageFault, SetMsr, mmuVars
  <2>4. CASE SelectEntry
    BY <2>1, <2>4 DEF SelectEntry, WriteTlbIndex
  <2>5. CASE FillRpn \/ FillVpn
    BY <2>1, <2>5 DEF FillRpn, FillVpn, WriteTlbRpn
  <2>6. CASE Return \/ Syscall
    BY <2>1, <2>6 DEF Return, Syscall
  <2>7. CASE Processor
    BY <2>1, <2>7 DEF Processor, CacheFill, CacheEvict
  <2>8. CASE UNCHANGED fillVars
    BY <2>1, <2>8 DEF fillVars, mmuVars
  <2> QED
    BY <2>3, <2>4, <2>5, <2>6, <2>7, <2>8 DEF FillNext, GuestStep
<1> QED
  BY <1>1, <1>2, PTL DEF FillSpec

(* The MMU and the handler's own state stay well-formed, and the handler    *)
(* never runs without a page to fill.                                       *)
THEOREM HandlerTypeCorrect == FillSpec => []FillTypeOK
BY FillTypeInvariant, PTL


(* A guest that follows the fill protocol is one of the guests of PpcMmu:   *)
(* all that is proved of the MMU under an arbitrary guest holds here.       *)
THEOREM FillImplementsMmu == FillSpec => Spec
<1>1. FillInit => Init
  BY DEF FillInit
<1>2. FillTypeOK /\ HintCarried /\ [FillNext]_fillVars => [Next]_mmuVars
  BY FillStepIsMmuStep
<1> QED
  BY <1>1, <1>2, FillTypeInvariant, PTL DEF FillSpec, Spec
-----------------------------------------------------------------------------
(* The hint advances by one and wraps.                                      *)
LEMMA HintAdvances ==
    ASSUME NEW n \in 0 .. NumEntries - 1
    PROVE  (n + 1) % NumEntries = IF n = NumEntries - 1 THEN 0 ELSE n + 1
  <1>1. NumEntries \in Nat \ {0}
    BY NumEntriesType
  <1> QED
    BY <1>1

(* Different rows or sets are different entries.                            *)
LEMMA EntryInjective ==
    ASSUME NEW i \in Indexes, NEW j \in Indexes, NEW s \in Sets, NEW t \in Sets,
           Entry(i, s) = Entry(j, t)
    PROVE  i = j /\ s = t
  BY NumIndexesAssumption DEF Entry, Indexes, Sets

(* While a page is missing, fewer pages are mapped than there are entries.  *)
LEMMA MappedCount ==
    /\ IsFiniteSet(Mapped)
    /\ Cardinality(Mapped) \in Nat
    /\ \A v \in Pages \ Mapped : Cardinality(Mapped) < NumEntries
  <1>1. IsFiniteSet(Mapped) /\ Cardinality(Mapped) \in Nat
    BY EntriesAssumption, FS_Subset, FS_CardinalityType DEF Mapped
  <1>2. ASSUME NEW v \in Pages \ Mapped PROVE Cardinality(Mapped) < NumEntries
    <2>1. /\ IsFiniteSet(Mapped \union {v})
          /\ Cardinality(Mapped \union {v}) = Cardinality(Mapped) + 1
      BY <1>1, FS_AddElement
    <2>2. Cardinality(Mapped \union {v}) <= Cardinality(Pages)
      BY EntriesAssumption, FS_Subset DEF Mapped
    <2>3. Cardinality(Pages) \in Nat
      BY EntriesAssumption, FS_CardinalityType
    <2> QED
      BY <1>1, <2>1, <2>2, <2>3, EntriesAssumption, NumEntriesType
  <1> QED
    BY <1>1, <1>2

(* The vpn write of the handler: it finds the hinted entry free, makes it   *)
(* valid, and maps the page the program wants as the page table says.       *)
LEMMA FillVpnEffect ==
    ASSUME FillTypeOK, HintCarried, WantUnmapped, RpnBeforeVpn, FilledInOrder, FillVpn
    PROVE  /\ Clashes = {}
           /\ Written = HintSets
           /\ Cardinality(Written) = 1
           /\ want \in Pages \ Mapped
           /\ ir32Pml2s' = [ir32Pml2s EXCEPT ![want] = GetVmmPhysForXenonPhys(PageTable[want])]
  <1>1. TypeOK /\ want \in Pages \ Mapped
    BY DEF FillTypeOK, FillVpn, Handler, WantUnmapped, Mapped
  <1>2. currentTlbIndex = HintIndex /\ currentTlbSets = HintSets
    BY DEF HintCarried, FillVpn
  <1>3. PICK s \in Sets : HintSets = {s} /\ Entry(HintIndex, s) = nextTlbHint
    BY <1>1, HintType
  <1>4. HintIndex \in Indexes
    BY <1>1, HintType
  <1>5. ~IsValid(tlbEntries[HintIndex][s])
    <2>1. Cardinality(Mapped) \in Nat /\ Cardinality(Mapped) < NumEntries
      BY <1>1, MappedCount
    <2> QED
      BY <1>3, <1>4, <2>1, NumEntriesType DEF FilledInOrder
  <1>6. Clashes = {}
    BY <1>2, <1>3, <1>5 DEF Clashes, Row
  <1>7. Written = {s}
    BY <1>2, <1>3, <1>6 DEF Written
  <1>8. LastWritten = s
    BY <1>1, <1>7, WrittenFacts
  <1>9. Row[s].rpn = PageTable[want]
    BY <1>2, <1>3 DEF RpnBeforeVpn, FillVpn
  <1>10. ir32Pml2s' = [ir32Pml2s EXCEPT ![want] = GetVmmPhysForXenonPhys(PageTable[want])]
    BY <1>1, <1>7, <1>8, <1>9, VpnFacts DEF FillVpn, WriteTlbVpn, Map16MPage
  <1> QED
    BY <1>1, <1>3, <1>6, <1>7, <1>10, FS_Singleton

(* Filling one entry keeps the order: the next entry is the next one free.  *)
LEMMA FillVpnKeepsOrder ==
    ASSUME FillTypeOK, HintCarried, WantUnmapped, RpnBeforeVpn, FilledInOrder, FillVpn
    PROVE  FilledInOrder'
  <1> DEFINE k == Cardinality(Mapped)
  <1>1. /\ TypeOK /\ want \in Pages \ Mapped
        /\ k \in Nat /\ k < NumEntries
    BY FillVpnEffect, MappedCount DEF FillTypeOK
  <1>2. Mapped' = Mapped \union {want}
    BY <1>1, FillVpnEffect, VpnFacts DEF Mapped, TypeOK
  <1>3. Cardinality(Mapped') = k + 1
    BY <1>1, <1>2, MappedCount, FS_AddElement
  <1>4. nextTlbHint' = k
    <2>1. nextTlbHint' = (nextTlbHint + 1) % NumEntries
      BY FillVpnEffect DEF FillVpn, WriteTlbVpn
    <2>2. nextTlbHint \in 0 .. NumEntries - 1
      BY <1>1 DEF TypeOK
    <2>3. nextTlbHint = IF k = 0 THEN NumEntries - 1 ELSE k - 1
      BY DEF FilledInOrder
    <2> QED
      BY <1>1, <2>1, <2>2, <2>3, HintAdvances, NumEntriesType
  <1>5. ASSUME NEW i \in Indexes, NEW s \in Sets
        PROVE  IsValid(tlbEntries'[i][s]) <=>
                  Entry(i, s) = NumEntries - 1 \/ Entry(i, s) < k
    <2>1. PICK t \in Sets : HintSets = {t} /\ Entry(HintIndex, t) = nextTlbHint
      BY <1>1, HintType
    <2>2. HintIndex \in Indexes /\ currentTlbIndex = HintIndex
      BY <1>1, HintType DEF HintCarried, FillVpn
    <2>3. Entry(i, s) \in Nat
      BY NumIndexesAssumption DEF Entry, Indexes, Sets
    <2>4. nextTlbHint = IF k = 0 THEN NumEntries - 1 ELSE k - 1
      BY DEF FilledInOrder
    <2>5. IsValid(tlbEntries[i][s]) <=>
             k > 0 /\ (Entry(i, s) = NumEntries - 1 \/ Entry(i, s) < k - 1)
      BY DEF FilledInOrder
    <2>6. WriteTlbVpn(Vpn(want)) /\ Vpn(want) \in {NoVpn} \union {Vpn(v) : v \in Pages}
      BY <1>1 DEF FillVpn
    <2>7. CASE i = HintIndex /\ s = t
      <3>1. tlbEntries'[i][s].vpn = Vpn(want)
        BY <1>1, <2>1, <2>2, <2>6, <2>7, FillVpnEffect, WriteTlbVpnEffect
      <3>2. IsValid(tlbEntries'[i][s])
        BY <3>1, VpnFacts DEF IsValid
      <3> QED
        BY <1>1, <2>1, <2>4, <2>7, <3>2, NumEntriesType
    <2>8. CASE ~(i = HintIndex /\ s = t)
      <3>1. tlbEntries'[i][s].vpn = tlbEntries[i][s].vpn
        BY <1>1, <2>1, <2>2, <2>6, <2>8, FillVpnEffect, WriteTlbVpnEffect
      <3>2. Entry(i, s) # nextTlbHint
        BY <2>1, <2>2, <2>8, EntryInjective
      <3> QED
        BY <1>1, <2>3, <2>4, <2>5, <3>1, <3>2, NumEntriesType DEF IsValid
    <2> QED
      BY <2>7, <2>8
  <1> QED
    BY <1>1, <1>3, <1>4, <1>5 DEF FilledInOrder

(* The order depends on the page numbers, the tables and the hint only.     *)
LEMMA OrderUnchanged ==
    ASSUME FilledInOrder, UNCHANGED <<nextTlbHint, ir32Pml2s>>,
           \A i \in Indexes, s \in Sets : tlbEntries'[i][s].vpn = tlbEntries[i][s].vpn
    PROVE  FilledInOrder'
  <1>1. Mapped' = Mapped
    BY DEF Mapped
  <1>2. \A i \in Indexes, s \in Sets : IsValid(tlbEntries'[i][s]) <=> IsValid(tlbEntries[i][s])
    BY DEF IsValid
  <1> QED
    BY <1>1, <1>2 DEF FilledInOrder

(* An rpn write leaves the vpns alone and reaches every selected set.       *)
LEMMA FillRpnEffect ==
    ASSUME TypeOK, NEW rpn \in Rpns, WriteTlbRpn(rpn)
    PROVE  /\ \A i \in Indexes, s \in Sets : tlbEntries'[i][s].vpn = tlbEntries[i][s].vpn
           /\ \A s \in currentTlbSets : Row'[s].rpn = rpn
  <1>1. ASSUME NEW i \in Indexes, NEW s \in Sets
        PROVE  /\ tlbEntries'[i][s].vpn = tlbEntries[i][s].vpn
               /\ i = currentTlbIndex /\ s \in currentTlbSets => tlbEntries'[i][s].rpn = rpn
    <2>1. tlbEntries[i][s] \in TlbEntry
      BY DEF TypeOK
    <2> QED
      BY <2>1 DEF WriteTlbRpn, TypeOK, TlbEntry
  <1>2. currentTlbIndex \in Indexes /\ currentTlbSets \in SUBSET Sets
    BY DEF TypeOK
  <1> QED
    BY <1>1, <1>2 DEF Row, WriteTlbRpn

(* The inductive step of FillInv and of "the machine does not quit".        *)
LEMMA FillInvStep ==
    ASSUME FillTypeOK, FillInv, ~halted, [FillNext]_fillVars
    PROVE  WantUnmapped' /\ RpnBeforeVpn' /\ FilledInOrder' /\ ~halted'
  <1> USE DEF FillInv
  <1>1. CASE (\E v \in Pages : Issue(v)) \/ Complete \/ ReadHint \/ UNCHANGED fillVars
    <2>1. UNCHANGED mmuVars
      BY <1>1 DEF Issue, Complete, ReadHint, fillVars
    <2>2. FilledInOrder' /\ ~halted'
      BY <2>1, OrderUnchanged DEF mmuVars
    <2>3. WantUnmapped' /\ RpnBeforeVpn'
      BY <1>1, <2>1
      DEF Issue, Complete, ReadHint, fillVars, mmuVars, WantUnmapped, RpnBeforeVpn, Handler, Row
    <2> QED
      BY <2>2, <2>3
  <1>2. CASE Miss
    <2>1. ir32Pml2s[want] = Unmapped
      BY <1>2, VpnFacts DEF Miss, PageFault, Walk
    <2>2. /\ UNCHANGED <<tlbEntries, nextTlbHint, ir32Pml2s, want>>
          /\ msrRelocated' = FALSE /\ halted' = FALSE /\ guest' = "readHint"
      BY <1>2 DEF Miss, PageFault, SetMsr
    <2> QED
      BY <2>1, <2>2, OrderUnchanged DEF WantUnmapped, RpnBeforeVpn, Handler
  <1>3. CASE SelectEntry
    <2>1. /\ UNCHANGED <<tlbEntries, nextTlbHint, ir32Pml2s, want, msrRelocated, halted>>
          /\ guest = "writeIndex" /\ guest' = "writeRpn"
      BY <1>3 DEF SelectEntry, WriteTlbIndex
    <2> QED
      BY <2>1, OrderUnchanged DEF WantUnmapped, RpnBeforeVpn, Handler
  <1>4. CASE FillRpn
    <2>1. /\ UNCHANGED <<nextTlbHint, ir32Pml2s, want, msrRelocated, halted, currentTlbSets>>
          /\ guest = "writeRpn" /\ guest' = "writeVpn"
          /\ WriteTlbRpn(PageTable[want])
      BY <1>4 DEF FillRpn, WriteTlbRpn
    <2>2. PageTable[want] \in Rpns
      BY <2>1, PageTableAssumption DEF FillTypeOK, Handler
    <2>3. /\ \A i \in Indexes, s \in Sets : tlbEntries'[i][s].vpn = tlbEntries[i][s].vpn
          /\ \A s \in currentTlbSets : Row'[s].rpn = PageTable[want]
      BY <2>1, <2>2, FillRpnEffect DEF FillTypeOK
    <2> QED
      BY <2>1, <2>3, OrderUnchanged DEF WantUnmapped, RpnBeforeVpn, Handler
  <1>5. CASE FillVpn
    <2>1. FilledInOrder'
      BY <1>5, FillVpnKeepsOrder
    <2>2. ~halted'
      BY <1>5, FillVpnEffect DEF FillVpn, WriteTlbVpn
    <2>3. WantUnmapped' /\ RpnBeforeVpn'
      BY <1>5 DEF FillVpn, WriteTlbVpn, WantUnmapped, RpnBeforeVpn, Handler
    <2> QED
      BY <2>1, <2>2, <2>3
  <1>6. CASE Return \/ Syscall
    <2>1. /\ UNCHANGED <<tlbEntries, nextTlbHint, ir32Pml2s>>
          /\ msrRelocated' = (guest' = "program") /\ halted' = FALSE
          /\ guest' \in {"kernel", "program"}
      BY <1>6 DEF Return, Syscall, SetMsr
    <2> QED
      BY <2>1, OrderUnchanged DEF WantUnmapped, RpnBeforeVpn, Handler
  <1>7. CASE Processor
    <2>1. UNCHANGED <<tlbEntries, currentTlbIndex, currentTlbSets, nextTlbHint, ir32Pml2s,
                      msrRelocated, halted, guest, want>>
      BY <1>7 DEF Processor, CacheFill, CacheEvict
    <2> QED
      BY <2>1, OrderUnchanged DEF WantUnmapped, RpnBeforeVpn, Handler, Row
  <1> QED
    BY <1>1, <1>2, <1>3, <1>4, <1>5, <1>6, <1>7 DEF FillNext, GuestStep

LEMMA FillInvariant == FillSpec => [](FillTypeOK /\ FillInv /\ ~halted)
<1>1. FillInit => FillInv /\ ~halted
  <2> SUFFICES ASSUME FillInit PROVE FillInv /\ ~halted
    OBVIOUS
  <2>1. Mapped = {}
    BY DEF FillInit, Init, Mapped
  <2>2. Cardinality(Mapped) = 0
    BY <2>1, FS_EmptySet
  <2>3. FilledInOrder
    BY <2>2, VpnFacts DEF FillInit, Init, FilledInOrder, IsValid
  <2> QED
    BY <2>3 DEF FillInit, Init, FillInv, HintCarried, WantUnmapped, RpnBeforeVpn, Handler
<1>2. /\ FillTypeOK /\ HintCarried /\ (FillTypeOK /\ HintCarried)'
      /\ FillInv /\ ~halted /\ [FillNext]_fillVars
      => FillInv' /\ ~halted'
  BY FillInvStep DEF FillInv
<1>3. FillInv => HintCarried
  BY DEF FillInv
<1> QED
  BY <1>1, <1>2, <1>3, FillTypeInvariant, PTL DEF FillSpec

(* The handler always finds the hinted entry free: the check in SetNewVpn   *)
(* for rewriting a valid entry, which ends the machine, is never hit.       *)
THEOREM HintIsAlwaysFree == FillSpec => []NeverRewritesValidEntry
<1>1. ~halted => NeverRewritesValidEntry
  BY DEF NeverRewritesValidEntry
<1> QED
  BY <1>1, FillInvariant, PTL

(* The relocated space shows the guest's page table: the rpn a handler wrote*)
(* before the vpn is the one Map16MPage maps.                               *)
THEOREM TablesShowPageTable == FillSpec => []MapsGuestPageTable
<1>1. FillInit => MapsGuestPageTable
  BY DEF FillInit, Init, MapsGuestPageTable
<1>2. FillTypeOK /\ FillInv /\ MapsGuestPageTable /\ [FillNext]_fillVars => MapsGuestPageTable'
  <2> SUFFICES ASSUME FillTypeOK, FillInv, MapsGuestPageTable, [FillNext]_fillVars
               PROVE  MapsGuestPageTable'
    OBVIOUS
  <2>1. CASE FillVpn
    <3>1. ir32Pml2s' = [ir32Pml2s EXCEPT ![want] = GetVmmPhysForXenonPhys(PageTable[want])]
      BY <2>1, FillVpnEffect DEF FillInv
    <3> QED
      BY <3>1 DEF MapsGuestPageTable, FillTypeOK, TypeOK, GetVmmPhysForXenonPhys
  <2>2. CASE UNCHANGED ir32Pml2s
    BY <2>2 DEF MapsGuestPageTable, GetVmmPhysForXenonPhys
  <2> QED
    BY <2>1, <2>2
    DEF FillNext, GuestStep, Issue, Complete, Miss, PageFault, ReadHint, SelectEntry, FillRpn,
        Return, Syscall, Processor, CacheFill, CacheEvict, SetMsr, WriteTlbIndex, WriteTlbRpn,
        fillVars, mmuVars
<1> QED
  BY <1>1, <1>2, FillInvariant, PTL DEF FillSpec

(* No access ever goes through a translation that is out of date, although  *)
(* the register writes flush nothing: a page is mapped once, while nothing  *)
(* of it can be cached, and CR3 is reloaded at every change of space.       *)
THEOREM CacheIsCoherent == FillSpec => []NoStaleTranslation
<1>1. FillInit => NoStaleTranslation
  BY DEF FillInit, Init, NoStaleTranslation
<1>2. /\ FillTypeOK /\ FillInv /\ RootMatchesMsr
      /\ NoStaleTranslation /\ [FillNext]_fillVars
      => NoStaleTranslation'
  <2> SUFFICES ASSUME FillTypeOK, FillInv, RootMatchesMsr, NoStaleTranslation,
                      [FillNext]_fillVars
               PROVE  NoStaleTranslation'
    OBVIOUS
  <2> USE DEF NoStaleTranslation, GetVmmPhysForXenonPhys, Walk
  <2>1. CASE FillVpn
    <3>1. \A w \in Windows : pml4[w] # "ir32"
      BY <2>1 DEF FillVpn, FillInv, WantUnmapped, RootMatchesMsr
    <3>2. \A c \in cached : c.window \in Windows
      BY DEF FillTypeOK, TypeOK
    <3> QED
      BY <2>1, <3>1, <3>2 DEF FillVpn, WriteTlbVpn
  <2>2. CASE Miss \/ Return \/ Syscall
    <3>1. cached' = {}
      BY <2>2 DEF Miss, Return, Syscall, PageFault, SetMsr, EnableRelocation, DisableRelocation
    <3> QED
      BY <3>1
  <2>3. ASSUME NEW w \in Windows, NEW v \in Pages, CacheFill(w, v) PROVE NoStaleTranslation'
    <3> DEFINE new == [window |-> w, page |-> v, frame |-> Walk(w, v)]
    <3>1. cached' = cached \union {new} /\ UNCHANGED <<pml4, ir32Pml2s>>
      BY <2>3 DEF CacheFill
    <3>2. new.frame = Walk(new.window, new.page)
      OBVIOUS
    <3> HIDE DEF new
    <3> QED
      BY <3>1, <3>2
  <2>4. CASE cached' \subseteq cached /\ UNCHANGED <<pml4, ir32Pml2s>>
    BY <2>4
  <2> QED
    BY <2>1, <2>2, <2>3, <2>4
    DEF FillNext, GuestStep, Issue, Complete, ReadHint, SelectEntry, FillRpn, Processor,
        CacheEvict, WriteTlbIndex, WriteTlbRpn, fillVars, mmuVars
<1> QED
  BY <1>1, <1>2, FillInvariant, FillImplementsMmu, RootFollowsMsr, PTL DEF FillSpec

(* A page that was filled never takes a second entry: while it is mapped it *)
(* does not miss, and it is mapped exactly while an entry names it.         *)
THEOREM EntriesAreDistinct == FillSpec => []NoDuplicateEntries
<1>1. FillInit => NoDuplicateEntries
  BY DEF FillInit, Init, NoDuplicateEntries, IsValid
<1>2. /\ FillTypeOK /\ FillInv /\ MappedIffValid
      /\ NoDuplicateEntries /\ [FillNext]_fillVars
      => NoDuplicateEntries'
  <2> SUFFICES ASSUME FillTypeOK, FillInv, MappedIffValid, NoDuplicateEntries,
                      [FillNext]_fillVars
               PROVE  NoDuplicateEntries'
    OBVIOUS
  <2>1. ASSUME \A i \in Indexes, s \in Sets : tlbEntries'[i][s].vpn = tlbEntries[i][s].vpn
        PROVE  NoDuplicateEntries'
    BY <2>1 DEF NoDuplicateEntries, IsValid
  <2>2. CASE FillVpn
    <3>1. want \in Pages /\ ir32Pml2s[want] = Unmapped /\ TypeOK
      BY <2>2, FillVpnEffect DEF FillInv, Mapped, FillTypeOK
    <3>2. WriteTlbVpn(Vpn(want)) /\ Vpn(want) \in {NoVpn} \union {Vpn(v) : v \in Pages}
      BY <2>2, <3>1 DEF FillVpn
    <3>3. PICK t \in Sets : Written = {t}
      BY <2>2, <3>1, FillVpnEffect, HintType DEF FillInv
    <3>4. \A i \in Indexes, s \in Sets : tlbEntries[i][s].vpn # Vpn(want)
      BY <3>1 DEF MappedIffValid
    <3>5. \A i \in Indexes, s \in Sets :
             tlbEntries'[i][s].vpn = IF i = currentTlbIndex /\ s = t
                                       THEN Vpn(want) ELSE tlbEntries[i][s].vpn
      BY <3>1, <3>2, <3>3, WriteTlbVpnEffect
    <3> QED
      BY <3>4, <3>5 DEF NoDuplicateEntries, IsValid
  <2>3. ASSUME FillRpn
        PROVE  \A i \in Indexes, s \in Sets : tlbEntries'[i][s].vpn = tlbEntries[i][s].vpn
    <3>1. PageTable[want] \in Rpns /\ WriteTlbRpn(PageTable[want]) /\ TypeOK
      BY <2>3, PageTableAssumption DEF FillRpn, FillTypeOK, Handler
    <3> QED
      BY <3>1, FillRpnEffect
  <2> QED
    BY <2>1, <2>2, <2>3
    DEF FillNext, GuestStep, Issue, Complete, Miss, PageFault, ReadHint, SelectEntry,
        Return, Syscall, Processor, CacheFill, CacheEvict, SetMsr, WriteTlbIndex,
        fillVars, mmuVars
<1> QED
  BY <1>1, <1>2, FillInvariant, FillImplementsMmu, TablesFollowTlb, PTL DEF FillSpec
=============================================================================
