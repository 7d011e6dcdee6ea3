---------------------------- MODULE PpcMmu_proofs ----------------------------
(***************************************************************************)
(* Proofs about PpcMmu for every TLB size and every set of pages, windows, *)
(* real pages and selected sets.                                           *)
(***************************************************************************)
EXTENDS PpcMmu, FiniteSetTheorems, TLAPS

(* The number of entries is a positive natural number.                      *)
LEMMA NumEntriesType == NumEntries \in Nat \ {0} /\ Sets = {0, 1, 2, 3}
  BY NumIndexesAssumption DEF NumEntries, Sets

(* A remainder by the number of entries is an entry.                        *)
LEMMA HintWraps == ASSUME NEW n \in Nat PROVE n % NumEntries \in 0 .. NumEntries - 1
  BY NumEntriesType

(* A valid vpn names its page, and no frame is mistaken for "unmapped".     *)
LEMMA VpnFacts ==
    /\ \A v : Vpn(v) # NoVpn
    /\ \A v, u : Vpn(v) = Vpn(u) => v = u
    /\ \A r : GetVmmPhysForXenonPhys(r) # Unmapped
  BY DEF Vpn, NoVpn, GetVmmPhysForXenonPhys, Unmapped

(* A real page has its frame among Frames.                                  *)
LEMMA FrameType ==
    ASSUME NEW r \in Rpns \union {ZeroRpn}
    PROVE  GetVmmPhysForXenonPhys(r) \in Frames
  <1>1. r \in (0 .. 3) \X Pages
    BY RpnsAssumption, PagesAssumption DEF ZeroRpn
  <1>2. r[2] \in Pages
    BY <1>1
  <1> QED
    BY <1>2 DEF GetVmmPhysForXenonPhys, Frames

(* The window and the page of an effective address are a real address too.  *)
LEMMA WindowFrameType ==
    ASSUME NEW w \in Windows, NEW v \in Pages
    PROVE  GetVmmPhysForXenonPhys(<<w, v>>) \in Frames
  BY DEF GetVmmPhysForXenonPhys, Frames

(* WriteTlbVpn writes selected sets only, and none that was valid.          *)
LEMMA WrittenFacts ==
    ASSUME TypeOK
    PROVE  /\ Written \in SUBSET Sets
           /\ Written \subseteq currentTlbSets
           /\ \A s \in Written : Row[s].vpn = NoVpn
           /\ Cardinality(Written) \in Nat
           /\ Written # {} => LastWritten \in Written
  <1> USE NumEntriesType
  <1>1. Written \in SUBSET Sets /\ Written \subseteq currentTlbSets
    BY DEF Written, TypeOK
  <1>2. \A s \in Written : Row[s].vpn = NoVpn
    BY <1>1 DEF Written, Clashes, IsValid, TypeOK
  <1>3. IsFiniteSet(Sets)
    BY FS_Interval, 0 \in Int, 3 \in Int DEF Sets
  <1>4. Cardinality(Written) \in Nat
    BY <1>1, <1>3, FS_Subset, FS_CardinalityType
  <1>5. ASSUME Written # {} PROVE \E s \in Written : \A t \in Written : t <= s
    <2>1. \A t \in Written : t = 0 \/ t = 1 \/ t = 2 \/ t = 3
      BY <1>1
    <2>2. CASE 3 \in Written
      BY <2>1, <2>2
    <2>3. CASE 3 \notin Written /\ 2 \in Written
      BY <2>1, <2>3
    <2>4. CASE 3 \notin Written /\ 2 \notin Written /\ 1 \in Written
      BY <2>1, <2>4
    <2>5. CASE 3 \notin Written /\ 2 \notin Written /\ 1 \notin Written
      BY <2>1, <2>5, <1>5
    <2> QED
      BY <2>2, <2>3, <2>4, <2>5
  <1> QED
    BY <1>1, <1>2, <1>4, <1>5 DEF LastWritten
-----------------------------------------------------------------------------
(* The page a write maps has a frame.                                       *)
LEMMA MappedFrameType ==
    ASSUME TypeOK, Written # {}
    PROVE  GetVmmPhysForXenonPhys(Row[LastWritten].rpn) \in Frames
  <1>1. LastWritten \in Sets
    BY WrittenFacts
  <1>2. Row[LastWritten] \in TlbEntry
    BY <1>1 DEF TypeOK, Row
  <1>3. Row[LastWritten].rpn \in Rpns \union {ZeroRpn}
    BY <1>2 DEF TlbEntry
  <1> QED
    BY <1>3, FrameType
(* SetMsr by the bits that decide it.                                       *)
LEMMA SetMsrType ==
    ASSUME TypeOK, NEW ir \in BOOLEAN, NEW dr \in BOOLEAN, SetMsr(ir, dr)
    PROVE  TypeOK'
  <1>1. /\ pml4' \in [Windows -> {"hv", "ir32"}]
        /\ cached' \subseteq [window : Windows, page : Pages, frame : Frames]
        /\ msrRelocated' \in BOOLEAN
    BY WindowsAssumption DEF SetMsr, EnableRelocation, DisableRelocation, TypeOK
  <1>2. halted' \in BOOLEAN
    BY DEF SetMsr
  <1> QED
    BY <1>1, <1>2 DEF SetMsr, TypeOK

LEMMA WriteTlbVpnType ==
    ASSUME TypeOK, NEW vpn \in {NoVpn} \union {Vpn(v) : v \in Pages}, WriteTlbVpn(vpn)
    PROVE  TypeOK'
  <1>1. tlbEntries' \in [Indexes -> [Sets -> TlbEntry]]
    <2> DEFINE row == [s \in Sets |-> IF s \in Written THEN [Row[s] EXCEPT !.vpn = vpn]
                                                       ELSE Row[s]]
    <2>1. Row \in [Sets -> TlbEntry]
      BY DEF TypeOK, Row
    <2>2. row \in [Sets -> TlbEntry]
      <3> SUFFICES ASSUME NEW s \in Sets PROVE row[s] \in TlbEntry
        OBVIOUS
      <3>1. Row[s] \in TlbEntry
        BY <2>1
      <3> QED
        BY <3>1 DEF TlbEntry
    <2>3. tlbEntries' = [tlbEntries EXCEPT ![currentTlbIndex] = row]
      BY DEF WriteTlbVpn, Row, TypeOK
    <2> HIDE DEF row
    <2> QED
      BY <2>2, <2>3 DEF TypeOK
  <1>2. nextTlbHint' \in 0 .. NumEntries - 1
    <2>1. nextTlbHint \in Nat /\ Cardinality(Written) \in Nat
      BY WrittenFacts, NumEntriesType DEF TypeOK
    <2>2. nextTlbHint + Cardinality(Written) \in Nat
      BY <2>1
    <2>3. nextTlbHint' = (nextTlbHint + Cardinality(Written)) % NumEntries
      BY DEF WriteTlbVpn
    <2> QED
      BY <2>2, <2>3, HintWraps
  <1>3. ir32Pml2s' \in [Pages -> Frames \union {Unmapped}]
    <2>1. CASE UNCHANGED ir32Pml2s
      BY <2>1 DEF TypeOK
    <2>2. CASE \E v \in Pages : Written # {} /\ Map16MPage(v)
      BY <2>2, MappedFrameType DEF Map16MPage, TypeOK
    <2> QED
      BY <2>1, <2>2 DEF WriteTlbVpn
  <1>4. halted' \in BOOLEAN
    BY DEF WriteTlbVpn
  <1> QED
    BY <1>1, <1>2, <1>3, <1>4 DEF WriteTlbVpn, TypeOK

LEMMA WriteTlbRpnType ==
    ASSUME TypeOK, NEW rpn \in Rpns, WriteTlbRpn(rpn)
    PROVE  TypeOK'
  <1> DEFINE row == [s \in Sets |-> IF s \in currentTlbSets THEN [Row[s] EXCEPT !.rpn = rpn]
                                                            ELSE Row[s]]
  <1>1. row \in [Sets -> TlbEntry]
    <2> SUFFICES ASSUME NEW s \in Sets PROVE row[s] \in TlbEntry
      OBVIOUS
    <2>1. Row[s] \in TlbEntry
      BY DEF TypeOK, Row
    <2> QED
      BY <2>1 DEF TlbEntry
  <1>2. tlbEntries' = [tlbEntries EXCEPT ![currentTlbIndex] = row]
    BY DEF WriteTlbRpn, Row, TypeOK
  <1> HIDE DEF row
  <1>3. tlbEntries' \in [Indexes -> [Sets -> TlbEntry]]
    BY <1>1, <1>2 DEF TypeOK
  <1> QED
    BY <1>3 DEF WriteTlbRpn, TypeOK

(* A walk that finds something finds a frame.                               *)
LEMMA WalkType ==
    ASSUME TypeOK, NEW w \in Windows, NEW v \in Pages, Walk(w, v) # Unmapped
    PROVE  Walk(w, v) \in Frames
  BY WindowFrameType DEF Walk, TypeOK

(* The initial state has the types.                                         *)
LEMMA InitType == ASSUME Init PROVE TypeOK
  <1>1. [vpn |-> NoVpn, rpn |-> ZeroRpn] \in TlbEntry
    BY DEF TlbEntry
  <1>2. tlbEntries \in [Indexes -> [Sets -> TlbEntry]]
    BY <1>1 DEF Init
  <1>3. 0 \in Indexes /\ nextTlbHint \in 0 .. NumEntries - 1
    BY NumEntriesType, NumIndexesAssumption DEF Init, Indexes
  <1> QED
    BY <1>2, <1>3 DEF Init, TypeOK

(* No step leaves the types.                                                *)
LEMMA TypeStep == ASSUME TypeOK, [Next]_mmuVars PROVE TypeOK'
  <1>1. ASSUME NEW index \in Indexes, NEW sets \in SetMasks, WriteTlbIndex(index, sets)
        PROVE  TypeOK'
    BY <1>1, SetMasksAssumption DEF WriteTlbIndex, TypeOK
  <1>2. ASSUME NEW rpn \in Rpns, WriteTlbRpn(rpn) PROVE TypeOK'
    BY <1>2, WriteTlbRpnType
  <1>3. ASSUME NEW vpn \in {NoVpn} \union {Vpn(v) : v \in Pages}, WriteTlbVpn(vpn)
        PROVE  TypeOK'
    BY <1>3, WriteTlbVpnType
  <1>4. ASSUME NEW ir \in BOOLEAN, NEW dr \in BOOLEAN, SetMsr(ir, dr) PROVE TypeOK'
    BY <1>4, SetMsrType
  <1>5. ASSUME NEW w \in Windows, NEW v \in Pages, CacheFill(w, v) PROVE TypeOK'
    <2>1. [window |-> w, page |-> v, frame |-> Walk(w, v)]
            \in [window : Windows, page : Pages, frame : Frames]
      BY <1>5, WalkType DEF CacheFill
    <2> QED
      BY <1>5, <2>1 DEF CacheFill, TypeOK
  <1>6. ASSUME NEW w \in Windows, NEW v \in Pages, CacheEvict(w, v) PROVE TypeOK'
    BY <1>6 DEF CacheEvict, TypeOK
  <1>7. ASSUME NEW w \in Windows, NEW v \in Pages, PageFault(w, v) PROVE TypeOK'
    BY <1>7, SetMsrType DEF PageFault
  <1>8. CASE UNCHANGED mmuVars
    BY <1>8 DEF mmuVars, TypeOK
  <1> QED
    BY <1>1, <1>2, <1>3, <1>4, <1>5, <1>6, <1>7, <1>8 DEF Next

(* Type correctness: no register write leaves the TLB, the hint or the page *)
(* tables outside their ranges (SetNewVpn, WriteTlbIndex, Map16MPage).      *)
THEOREM TypeCorrect == Spec => []TypeOK
<1>1. Init => TypeOK
  BY InitType
<1>2. TypeOK /\ [Next]_mmuVars => TypeOK'
  BY TypeStep
<1> QED
  BY <1>1, <1>2, PTL DEF Spec
-----------------------------------------------------------------------------
(* The address space the guest addresses through always follows its MSR:    *)
(* SetMsr switches window 0 and the register together, and no other         *)
(* register write touches the PML4.                                         *)
THEOREM RootFollowsMsr == Spec => []RootMatchesMsr
<1>1. Init => RootMatchesMsr
  BY DEF Init, RootMatchesMsr
<1>2. TypeOK /\ RootMatchesMsr /\ [Next]_mmuVars => RootMatchesMsr'
  <2> SUFFICES ASSUME TypeOK, RootMatchesMsr, [Next]_mmuVars PROVE RootMatchesMsr'
    OBVIOUS
  <2>1. ASSUME NEW ir \in BOOLEAN, NEW dr \in BOOLEAN, SetMsr(ir, dr) PROVE RootMatchesMsr'
    BY <2>1 DEF SetMsr, EnableRelocation, DisableRelocation, RootMatchesMsr, TypeOK
  <2>2. ASSUME UNCHANGED <<pml4, msrRelocated>> PROVE RootMatchesMsr'
    BY <2>2 DEF RootMatchesMsr
  <2> QED
    BY <2>1, <2>2
    DEF Next, WriteTlbIndex, WriteTlbRpn, WriteTlbVpn, CacheFill, CacheEvict, PageFault, mmuVars
<1> QED
  BY <1>1, <1>2, TypeCorrect, PTL DEF Spec

(* What one step does to the page numbers of the TLB and to the relocated   *)
(* tables: only WriteTlbVpn changes them.                                   *)
LEMMA OtherStepsKeepVpns ==
    ASSUME TypeOK, [Next]_mmuVars,
           \A vpn \in {NoVpn} \union {Vpn(v) : v \in Pages} : ~WriteTlbVpn(vpn)
    PROVE  /\ \A i \in Indexes, s \in Sets : tlbEntries'[i][s].vpn = tlbEntries[i][s].vpn
           /\ UNCHANGED ir32Pml2s
  <1>1. ASSUME NEW rpn \in Rpns, WriteTlbRpn(rpn), NEW i \in Indexes, NEW s \in Sets
        PROVE  tlbEntries'[i][s].vpn = tlbEntries[i][s].vpn
    <2>1. tlbEntries[i][s] \in TlbEntry
      BY DEF TypeOK
    <2> QED
      BY <1>1, <2>1 DEF WriteTlbRpn, TypeOK, TlbEntry
  <1>2. ASSUME NEW rpn \in Rpns, WriteTlbRpn(rpn) PROVE UNCHANGED ir32Pml2s
    BY <1>2 DEF WriteTlbRpn
  <1>3. ASSUME UNCHANGED <<tlbEntries, ir32Pml2s>>
        PROVE  /\ \A i \in Indexes, s \in Sets : tlbEntries'[i][s].vpn = tlbEntries[i][s].vpn
               /\ UNCHANGED ir32Pml2s
    BY <1>3
  <1> QED
    BY <1>1, <1>2, <1>3
    DEF Next, WriteTlbIndex, SetMsr, CacheFill, CacheEvict, PageFault, mmuVars

(* WriteTlbVpn changes no entry but those of Written, which get the vpn, and*)
(* no page of the tables but the one it maps.                               *)
LEMMA WriteTlbVpnEffect ==
    ASSUME TypeOK, NEW vpn \in {NoVpn} \union {Vpn(v) : v \in Pages}, WriteTlbVpn(vpn)
    PROVE  /\ \A i \in Indexes, s \in Sets :
                 tlbEntries'[i][s].vpn = IF i = currentTlbIndex /\ s \in Written
                                           THEN vpn ELSE tlbEntries[i][s].vpn
           /\ \A i \in Indexes, s \in Sets :
                 i = currentTlbIndex /\ s \in Written => ~IsValid(tlbEntries[i][s])
           /\ \A v \in Pages :
                 IF vpn = Vpn(v) /\ Written # {}
                   THEN ir32Pml2s'[v] # Unmapped
                   ELSE ir32Pml2s'[v] = ir32Pml2s[v]
  <1>1. ASSUME NEW i \in Indexes, NEW s \in Sets
        PROVE  tlbEntries'[i][s].vpn = IF i = currentTlbIndex /\ s \in Written
                                         THEN vpn ELSE tlbEntries[i][s].vpn
    <2>1. tlbEntries[i][s] \in TlbEntry
      BY DEF TypeOK
    <2> QED
      BY <2>1 DEF WriteTlbVpn, TypeOK, TlbEntry
  <1>2. ASSUME NEW i \in Indexes, NEW s \in Sets, i = currentTlbIndex, s \in Written
        PROVE  ~IsValid(tlbEntries[i][s])
    BY <1>2, WrittenFacts DEF IsValid, Row
  <1>3. ASSUME NEW v \in Pages
        PROVE  IF vpn = Vpn(v) /\ Written # {}
                 THEN ir32Pml2s'[v] # Unmapped
                 ELSE ir32Pml2s'[v] = ir32Pml2s[v]
    <2>1. CASE vpn = NoVpn \/ Written = {}
      BY <2>1, VpnFacts DEF WriteTlbVpn
    <2>2. CASE vpn # NoVpn /\ Written # {}
      <3>1. PICK u \in Pages : vpn = Vpn(u) /\ Map16MPage(u)
        BY <2>2 DEF WriteTlbVpn
      <3>2. CASE v = u
        BY <2>2, <3>1, <3>2, VpnFacts DEF Map16MPage, TypeOK
      <3>3. CASE v # u
        BY <3>1, <3>3, VpnFacts DEF Map16MPage, TypeOK
      <3> QED
        BY <3>2, <3>3
    <2> QED
      BY <2>1, <2>2
  <1> QED
    BY <1>1, <1>2, <1>3
-----------------------------------------------------------------------------
(* The x86 tables translate exactly the pages that valid TLB entries name,  *)
(* also when SetNewVpn stopped between two of the selected sets.            *)
THEOREM TablesFollowTlb == Spec => []MappedIffValid
<1>1. Init => MappedIffValid
  BY VpnFacts DEF Init, MappedIffValid
<1>2. TypeOK /\ MappedIffValid /\ [Next]_mmuVars => MappedIffValid'
  <2> SUFFICES ASSUME TypeOK, MappedIffValid, [Next]_mmuVars, NEW v \in Pages
               PROVE  ir32Pml2s'[v] # Unmapped <=>
                        \E i \in Indexes, s \in Sets : tlbEntries'[i][s].vpn = Vpn(v)
    BY DEF MappedIffValid
  <2>1. CASE \A vpn \in {NoVpn} \union {Vpn(u) : u \in Pages} : ~WriteTlbVpn(vpn)
    BY <2>1, OtherStepsKeepVpns DEF MappedIffValid
  <2>2. ASSUME NEW vpn \in {NoVpn} \union {Vpn(u) : u \in Pages}, WriteTlbVpn(vpn)
        PROVE  ir32Pml2s'[v] # Unmapped <=>
                 \E i \in Indexes, s \in Sets : tlbEntries'[i][s].vpn = Vpn(v)
    <3>1. CASE vpn = Vpn(v) /\ Written # {}
      <4>1. PICK s \in Written : s \in Sets
        BY <3>1, WrittenFacts
      <4>2. tlbEntries'[currentTlbIndex][s].vpn = Vpn(v)
        BY <2>2, <3>1, <4>1, WriteTlbVpnEffect DEF TypeOK
      <4> QED
        BY <2>2, <3>1, <4>1, <4>2, WriteTlbVpnEffect DEF TypeOK
    <3>2. CASE ~(vpn = Vpn(v) /\ Written # {})
      <4>1. ir32Pml2s'[v] = ir32Pml2s[v]
        BY <2>2, <3>2, WriteTlbVpnEffect
      <4>2. ASSUME NEW i \in Indexes, NEW s \in Sets
            PROVE  tlbEntries'[i][s].vpn = Vpn(v) <=> tlbEntries[i][s].vpn = Vpn(v)
        BY <2>2, <3>2, VpnFacts, WriteTlbVpnEffect DEF IsValid
      <4> QED
        BY <4>1, <4>2 DEF MappedIffValid
    <3> QED
      BY <3>1, <3>2
  <2> QED
    BY <2>1, <2>2
<1> QED
  BY <1>1, <1>2, TypeCorrect, PTL DEF Spec

(* One step revokes nothing.                                                *)
LEMMA StepRevokesNothing ==
    ASSUME TypeOK, [Next]_mmuVars
    PROVE  /\ \A i \in Indexes, s \in Sets :
                 IsValid(tlbEntries[i][s]) => tlbEntries'[i][s].vpn = tlbEntries[i][s].vpn
           /\ \A v \in Pages : ir32Pml2s[v] # Unmapped => ir32Pml2s'[v] # Unmapped
  <1>1. CASE \A vpn \in {NoVpn} \union {Vpn(u) : u \in Pages} : ~WriteTlbVpn(vpn)
    BY <1>1, OtherStepsKeepVpns
  <1>2. CASE \E vpn \in {NoVpn} \union {Vpn(u) : u \in Pages} : WriteTlbVpn(vpn)
    BY <1>2, WriteTlbVpnEffect
  <1> QED
    BY <1>1, <1>2

(* No register write takes a translation back: SetNewVpn refuses to rewrite *)
(* a valid entry, tlbiel does nothing, and no code unmaps a page.           *)
THEOREM TranslationsAreForever == Spec => NothingIsRevoked
<1>1. TypeOK /\ [Next]_mmuVars =>
        [ /\ \A i \in Indexes, s \in Sets :
                IsValid(tlbEntries[i][s]) => tlbEntries'[i][s].vpn = tlbEntries[i][s].vpn
          /\ \A v \in Pages : ir32Pml2s[v] # Unmapped => ir32Pml2s'[v] # Unmapped ]_mmuVars
  BY StepRevokesNothing
<1> QED
  BY <1>1, TypeCorrect, PTL DEF Spec, NothingIsRevoked

(* What the x86 processor holds never belongs to the address space the guest*)
(* has left: every switch of window 0 reloads CR3, and within the relocated *)
(* space no mapped page is ever unmapped.                                   *)
THEOREM NoLeaks == Spec => []NoTranslationLeaks
<1>1. Init => NoTranslationLeaks
  BY DEF Init, NoTranslationLeaks
<1>2. TypeOK /\ RootMatchesMsr /\ NoTranslationLeaks /\ [Next]_mmuVars => NoTranslationLeaks'
  <2> SUFFICES ASSUME TypeOK, RootMatchesMsr, NoTranslationLeaks, [Next]_mmuVars
               PROVE  NoTranslationLeaks'
    OBVIOUS
  <2>1. ASSUME NEW ir \in BOOLEAN, NEW dr \in BOOLEAN, SetMsr(ir, dr)
        PROVE  NoTranslationLeaks'
    <3>1. CASE ir = dr
      BY <2>1, <3>1 DEF SetMsr, EnableRelocation, DisableRelocation, NoTranslationLeaks
    <3>2. CASE ir # dr
      BY <2>1, <3>2 DEF SetMsr, NoTranslationLeaks, GetVmmPhysForXenonPhys
    <3> QED
      BY <3>1, <3>2
  <2>2. ASSUME NEW w \in Windows, NEW v \in Pages, CacheFill(w, v) PROVE NoTranslationLeaks'
    <3> DEFINE new == [window |-> w, page |-> v, frame |-> Walk(w, v)]
    <3>1. IF w = 0 /\ msrRelocated
            THEN ir32Pml2s[v] # Unmapped
            ELSE Walk(w, v) = GetVmmPhysForXenonPhys(<<w, v>>)
      BY <2>2 DEF CacheFill, Walk, RootMatchesMsr
    <3>2. cached' = cached \union {new} /\ UNCHANGED <<msrRelocated, ir32Pml2s>>
      BY <2>2 DEF CacheFill
    <3>3. new.window = w /\ new.page = v /\ new.frame = Walk(w, v)
      OBVIOUS
    <3> HIDE DEF new
    <3> QED
      BY <3>1, <3>2, <3>3 DEF NoTranslationLeaks, GetVmmPhysForXenonPhys
  <2>3. ASSUME cached' \subseteq cached, UNCHANGED msrRelocated PROVE NoTranslationLeaks'
    <3>1. cached \subseteq [window : Windows, page : Pages, frame : Frames]
      BY DEF TypeOK
    <3>2. \A c \in cached : c.page \in Pages
      BY <3>1
    <3> QED
      BY <2>3, <3>2, StepRevokesNothing DEF NoTranslationLeaks
  <2> QED
    BY <2>1, <2>2, <2>3
    DEF Next, WriteTlbIndex, WriteTlbRpn, WriteTlbVpn, CacheEvict, PageFault, mmuVars
<1> QED
  BY <1>1, <1>2, TypeCorrect, RootFollowsMsr, PTL DEF Spec
=============================================================================
