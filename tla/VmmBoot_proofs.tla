--------------------------- MODULE VmmBoot_proofs ---------------------------
(***************************************************************************)
(* Proofs of the safety of the kernel's boot, for every heap size, every   *)
(* number of level-1 tables and every CPU type.                            *)
(***************************************************************************)
EXTENDS VmmBoot, TLAPS

(* The real-memory components in one form: iteration k allocates            *)
(* RealOwner(k), fills it with RealQuarters(k) and hangs it at 500 + k.     *)
RealNames == {"ramPml2", "socPml2", "physPml2"}

RealTables == IF cpuType = "XENON" THEN 8 ELSE 1

RealOwner(k) ==
    IF cpuType = "XENON" THEN <<IF k >= 4 THEN "socPml2" ELSE "ramPml2", k % 4>>
                         ELSE <<"physPml2", 0>>

RealQuarters(k) ==
    IF cpuType = "XENON" THEN Quarters((IF k >= 4 THEN SocQuarter ELSE RamQuarter) + 4 * (k % 4))
                         ELSE HalfGiB

Hung(k) == RealOwner(k) \in Owned /\ higherPml3[500 + k] = Table(page[RealOwner(k)])

Blank(p) == \A q \in 0 .. 3 : content[p][q] = Empty

(* Nothing is allocated before the heap has marked its own pages.           *)
Reserved ==
    /\ stage = "mmInit" => allocated = {} /\ \A o \in Owners : page[o] = Unset
    /\ stage # "mmInit" => \A p \in Pages : p < InfoPages => p \in allocated

(* What the steps of each stage have done so far.                           *)
Progress ==
    /\ stage \in {"realInit", "cpuInit", "mapFull", "execute"} => cpuType # "UNSPECIFIED"
    /\ stage = "realInit" => step \in 0 .. RealTables - 1 /\ \A k \in 0 .. step - 1 : Hung(k)
    /\ stage = "cpuInit" =>
          step \in 0 .. CpuTables - 1 /\ \A k \in 0 .. step - 1 : page[CpuTable(k)] # Unset
    /\ stage = "mapFull" => \A k \in 0 .. CpuTables - 1 : page[CpuTable(k)] # Unset
    /\ stage \in {"cpuInit", "mapFull"} => \A k \in 0 .. RealTables - 1 : Hung(k)

(* The upper half: the kernel's window, and the tables hung below 500 + k.  *)
Upper ==
    /\ pml4[511] = Boot(3)
    /\ higherPml3[510] = Boot(2)
    /\ \A k \in 0 .. 7 : higherPml3[500 + k] = Empty \/ (k < RealTables /\ Hung(k))
    /\ stage \in {"mmInit", "intmInit", "dispatch"} =>
          \A k \in 0 .. 7 : higherPml3[500 + k] = Empty
    /\ stage = "realInit" => \A k \in step .. 7 : higherPml3[500 + k] = Empty

(* The lower half.                                                          *)
Lower ==
    /\ NullWritesFault
    /\ stage = "mmInit" => \A s \in Pml4Slots \ {0, 511} : pml4[s] = Empty

(* Before MapFull only the tables of the real memory have been written.     *)
Filled ==
    stage # "execute" =>
        /\ \A p \in Pages \ allocated : Blank(p)
        /\ \A o \in Owned : o[1] \notin RealNames => Blank(page[o])
        /\ \A k \in 0 .. RealTables - 1 : RealOwner(k) \in Owned =>
              \A q \in 0 .. 3 : content[page[RealOwner(k)]][q] = RealQuarters(k)[q]

(* The heap is used from its end: with Done pages handed out, exactly the   *)
(* pages between the heap's own and the last Done are free.                 *)
Done ==
    CASE stage = "intmInit" -> 0
      [] stage = "dispatch" -> 1
      [] stage = "realInit" -> 1 + step
      [] stage = "cpuInit" -> 1 + RealTables + step
      [] OTHER -> 0

Counted ==
    HeapSuffices =>
        /\ NoAllocationFails
        /\ stage \in {"intmInit", "dispatch", "realInit", "cpuInit"} =>
              \A p \in Pages : p \in allocated <=> (p < InfoPages \/ p >= numPages - Done)

BootInv ==
    /\ TypeOK /\ Reserved /\ Progress /\ NoSharedPage /\ Upper /\ Lower /\ Filled
    /\ Counted /\ GuestView
-----------------------------------------------------------------------------
(* Constants.                                                               *)
LEMMA OwnerList ==
    /\ <<"idtEntries", 0>> \in Owners /\ <<"physPml2", 0>> \in Owners
    /\ <<"ir32Pml3", 0>> \in Owners /\ <<"pml3", 0>> \in Owners
    /\ <<"cachedPml2", 0>> \in Owners /\ <<"uncachedPml2", 0>> \in Owners
    /\ \A k \in 0 .. 3 : /\ <<"ramPml2", k>> \in Owners /\ <<"socPml2", k>> \in Owners
                         /\ <<"hvRealModePml3s", k>> \in Owners
                         /\ <<"ir32Pml2s", k>> \in Owners /\ <<"pml2s", k>> \in Owners
    /\ \A k \in 0 .. NumPml1s - 1 : <<"ir32Pml1s", k>> \in Owners /\ <<"pml1s", k>> \in Owners
BY NumPml1sAssumption DEF Owners, Array

LEMMA Sizes ==
    ASSUME numPages \in HeapSizes
    PROVE  numPages \in Nat /\ numPages >= 1 /\ InfoPages \in Int /\ InfoPages >= 1
<1>1. numPages \in Nat /\ numPages >= 1 /\ InfoPerPage \in Nat /\ InfoPerPage >= 1
  BY HeapSizesAssumption, InfoPerPageAssumption
<1> DEFINE x == numPages + InfoPerPage - 1
<1>2. x \in Nat /\ x >= InfoPerPage
  BY <1>1
<1>3. InfoPages = x \div InfoPerPage
  BY DEF InfoPages
<1> HIDE DEF x
<1>4. x \div InfoPerPage \in Int /\ x \div InfoPerPage >= 1
  BY <1>1, <1>2
<1>5. QED
  BY <1>1, <1>3, <1>4

LEMMA RealOwners ==
    ASSUME NEW k \in 0 .. RealTables - 1
    PROVE  /\ RealOwner(k) \in Owners /\ RealOwner(k)[1] \in RealNames
           /\ RealTables \in {1, 8}
           /\ \A j \in 0 .. RealTables - 1 : j # k => RealOwner(j) # RealOwner(k)
BY OwnerList DEF RealTables, RealOwner, RealNames

LEMMA CpuOwners ==
    ASSUME NEW k \in 0 .. CpuTables - 1
    PROVE  CpuTable(k) \in Owners /\ CpuTable(k)[1] \notin RealNames
<1>1. NumPml1s \in Nat
  BY NumPml1sAssumption
<1>2. CASE cpuType = "XENON"
  <2>1. k \in 0 .. 8 + NumPml1s /\ CpuTable(k) = PpcTable(k)
    BY <1>1, <1>2 DEF CpuTables, CpuTable
  <2>2. CASE k < 4
    BY <2>1, <2>2, OwnerList DEF PpcTable, RealNames
  <2>3. CASE k = 4
    BY <2>1, <2>3, OwnerList DEF PpcTable, RealNames
  <2>4. CASE k \in 5 .. 8
    BY <2>1, <2>4, OwnerList DEF PpcTable, RealNames
  <2>5. CASE k > 8
    <3>1. k - 9 \in 0 .. NumPml1s - 1 /\ PpcTable(k) = <<"ir32Pml1s", k - 9>>
      BY <1>1, <2>1, <2>5 DEF PpcTable
    <3>2. <<"ir32Pml1s", k - 9>> \in Owners
      BY <3>1, OwnerList
    <3>3. QED
      BY <2>1, <3>1, <3>2 DEF RealNames
  <2>6. QED
    BY <2>1, <2>2, <2>3, <2>4, <2>5
<1>3. CASE cpuType = "SH4A"
  <2>1. k \in 0 .. 4 + NumPml1s /\ CpuTable(k) = Sh4aTable(k)
    BY <1>1, <1>3 DEF CpuTables, CpuTable
  <2>2. CASE k = 0
    BY <2>1, <2>2, OwnerList DEF Sh4aTable, RealNames
  <2>3. CASE k \in 1 .. 4
    BY <2>1, <2>3, OwnerList DEF Sh4aTable, RealNames
  <2>4. CASE k > 4
    <3>1. k - 5 \in 0 .. NumPml1s - 1 /\ Sh4aTable(k) = <<"pml1s", k - 5>>
      BY <1>1, <2>1, <2>4 DEF Sh4aTable
    <3>2. <<"pml1s", k - 5>> \in Owners
      BY <3>1, OwnerList
    <3>3. QED
      BY <2>1, <3>1, <3>2 DEF RealNames
  <2>5. QED
    BY <2>1, <2>2, <2>3, <2>4
<1>4. CASE cpuType \notin {"XENON", "SH4A"}
  BY <1>4, OwnerList DEF CpuTables, CpuTable, GekkoTable, RealNames
<1>5. QED
  BY <1>2, <1>3, <1>4
-----------------------------------------------------------------------------
(* AllocatePage sets one pointer: to nullptr if every page is taken, or     *)
(* else to the highest free page.                                           *)
LEMMA Allocation ==
    ASSUME TypeOK, NEW o \in Owners, AllocatePage(o)
    PROVE  /\ page' \in [Owners -> Pages \union {Nullptr, Unset}]
           /\ \A x \in Owners : x # o => page'[x] = page[x]
           /\ page'[o] # Unset
           /\ allocated \subseteq allocated' /\ allocated' \subseteq Pages
           /\ page'[o] = Nullptr => allocated' = allocated /\ FreePages = {}
           /\ page'[o] # Nullptr =>
                 /\ page'[o] \in FreePages /\ page'[o] \in Pages \ allocated
                 /\ \A j \in FreePages : j <= page'[o]
                 /\ allocated' = allocated \union {page'[o]}
<1>1. numPages \in Nat /\ numPages >= 1
  BY Sizes DEF TypeOK
<1>2. FreePages \subseteq Pages \ allocated
  BY <1>1 DEF FreePages, Pages
<1>3. Nullptr \notin Pages /\ Unset \notin Pages /\ Nullptr # Unset
  BY <1>1 DEF Pages, Nullptr, Unset
<1>4. CASE FreePages = {} /\ page' = [page EXCEPT ![o] = Nullptr] /\ UNCHANGED allocated
  BY <1>3, <1>4 DEF TypeOK
<1>5. ASSUME NEW i \in FreePages, \A j \in FreePages : j <= i,
             allocated' = allocated \union {i}, page' = [page EXCEPT ![o] = i]
      PROVE  /\ page' \in [Owners -> Pages \union {Nullptr, Unset}]
             /\ \A x \in Owners : x # o => page'[x] = page[x]
             /\ page'[o] = i /\ page'[o] # Nullptr /\ page'[o] # Unset
             /\ allocated \subseteq allocated' /\ allocated' \subseteq Pages
  BY <1>2, <1>3, <1>5 DEF TypeOK
<1>6. QED
  BY <1>2, <1>4, <1>5 DEF AllocatePage

(* A pointer that is set is never unset again, and pages stay where they    *)
(* are: what other pointers own is theirs before and after.                 *)
LEMMA OthersKeepTheirs ==
    ASSUME TypeOK, Reserved, NoSharedPage, stage # "mmInit", NEW o \in Owners, AllocatePage(o),
           numPages' = numPages
    PROVE  /\ \A x \in Owners : page[x] # Unset => page'[x] # Unset
           /\ \A x \in Owners : x # o => (x \in Owned' <=> x \in Owned)
           /\ o \in Owned' <=> page'[o] # Nullptr
           /\ o \in Owned' => \A x \in Owned : page[x] # page'[o]
           /\ NoSharedPage'
<1>1. numPages \in Nat /\ numPages >= 1 /\ InfoPages \in Int
  BY Sizes DEF TypeOK
<1>2. \A p \in Pages : p \in Int /\ p >= 0
  BY <1>1 DEF Pages
<1>3. \A x \in Owners : page[x] # Unset => page'[x] # Unset
  BY Allocation
<1>4. \A x \in Owners : x # o => (x \in Owned' <=> x \in Owned)
  BY Allocation DEF Owned
<1>5. o \in Owned' <=> page'[o] # Nullptr
  BY <1>2, Allocation DEF Owned, Nullptr
<1>6. o \in Owned' => \A x \in Owned : page[x] # page'[o]
  BY <1>5, Allocation DEF NoSharedPage
<1>7. InfoPages' = InfoPages
  BY DEF InfoPages
<1>8. \A x \in Owned' : page'[x] \in allocated' /\ page'[x] >= InfoPages
  <2> TAKE x \in Owned'
  <2>1. x \in Owners
    BY DEF Owned
  <2>2. CASE x = o
    <3>1. page'[o] \in Pages \ allocated /\ allocated' = allocated \union {page'[o]}
      BY <1>5, <2>2, Allocation
    <3>2. ~(page'[o] < InfoPages) /\ page'[o] \in Int
      BY <1>2, <3>1 DEF Reserved
    <3>3. QED
      BY <1>1, <2>2, <3>1, <3>2
  <2>3. CASE x # o
    BY <1>4, <2>1, <2>3, Allocation DEF NoSharedPage
  <2>4. QED
    BY <2>2, <2>3
<1>9. \A x, y \in Owned' : x # y => page'[x] # page'[y]
  <2> TAKE x, y \in Owned'
  <2>1. x \in Owners /\ y \in Owners
    BY DEF Owned
  <2>2. CASE x = o
    BY <1>4, <1>6, <2>1, <2>2, Allocation
  <2>3. CASE y = o
    BY <1>4, <1>6, <2>1, <2>3, Allocation
  <2>4. CASE x # o /\ y # o
    BY <1>4, <2>1, <2>4, Allocation DEF NoSharedPage
  <2>5. QED
    BY <2>2, <2>3, <2>4
<1>10. NoSharedPage'
  BY <1>7, <1>8, <1>9 DEF NoSharedPage
<1>11. QED
  BY <1>3, <1>4, <1>5, <1>6, <1>10

(* With a big enough heap the page is there, and it is the one before those *)
(* that are handed out already.                                             *)
LEMMA PageThere ==
    ASSUME TypeOK, Counted, HeapSuffices, NEW o \in Owners, AllocatePage(o),
           stage \in {"intmInit", "dispatch", "realInit", "cpuInit"},
           Done \in Nat, Done < Needed, numPages' = numPages
    PROVE  /\ page'[o] # Nullptr
           /\ \A p \in Pages : p \in allocated' <=> (p < InfoPages \/ p >= numPages - (Done + 1))
<1>1. numPages \in Nat /\ InfoPages \in Int /\ InfoPages >= 1
  BY Sizes DEF TypeOK
<1>2. Needed \in Int
  BY NumPml1sAssumption DEF Needed, CpuTables
<1>3. numPages - Done - 1 >= InfoPages
  BY <1>1, <1>2 DEF HeapSuffices
<1>4. \A p \in Pages : p \in allocated <=> (p < InfoPages \/ p >= numPages - Done)
  BY DEF Counted
<1> DEFINE top == numPages - Done - 1
<1>5. top \in FreePages
  <2>1. top \in Pages /\ top \in 1 .. numPages - 1
    BY <1>1, <1>3 DEF Pages
  <2>2. top \notin allocated
    BY <1>1, <1>3, <1>4, <2>1
  <2>3. QED
    BY <2>1, <2>2 DEF FreePages
<1>6. page'[o] # Nullptr
  BY <1>5, Allocation
<1>7. page'[o] \in Pages \ allocated /\ top <= page'[o] /\ allocated' = allocated \union {page'[o]}
  BY <1>5, <1>6, Allocation
<1>8. page'[o] \in Int /\ page'[o] < numPages - Done
  BY <1>1, <1>4, <1>7 DEF Pages
<1>9. page'[o] = top
  BY <1>1, <1>7, <1>8
<1>10. \A p \in Pages : p \in allocated' <=> (p < InfoPages \/ p >= numPages - (Done + 1))
  BY <1>1, <1>3, <1>4, <1>7, <1>9 DEF Pages
<1>11. QED
  BY <1>6, <1>10
-----------------------------------------------------------------------------
(* The console never changes.                                               *)
LEMMA SameConsole ==
    ASSUME cpuType' = cpuType, numPages' = numPages
    PROVE  /\ RealTables' = RealTables /\ CpuTables' = CpuTables
           /\ \A k : RealOwner(k)' = RealOwner(k) /\ RealQuarters(k)' = RealQuarters(k)
           /\ \A k : CpuTable(k)' = CpuTable(k)
           /\ Pages' = Pages /\ InfoPages' = InfoPages /\ Needed' = Needed
           /\ HeapSuffices' = HeapSuffices
<1>1. RealTables' = RealTables
  BY DEF RealTables
<1>2. CpuTables' = CpuTables
  BY Zenon DEF CpuTables
<1>3. \A k : RealOwner(k)' = RealOwner(k)
  BY DEF RealOwner
<1>4. \A k : RealQuarters(k)' = RealQuarters(k)
  BY DEF RealQuarters
<1>5. \A k : CpuTable(k)' = CpuTable(k)
  BY Zenon DEF CpuTable
<1>6. Pages' = Pages /\ InfoPages' = InfoPages
  BY DEF Pages, InfoPages
<1>7. Needed' = Needed
  BY <1>2 DEF Needed
<1>8. HeapSuffices' = HeapSuffices
  BY <1>6, <1>7 DEF HeapSuffices
<1>9. QED
  BY <1>1, <1>2, <1>3, <1>4, <1>5, <1>6, <1>7, <1>8

LEMMA TableIsNotEmpty == \A p : Table(p) # Empty
BY DEF Table, Empty

(* A table that hangs stays hung while its pointer and its slot are kept.   *)
LEMMA StaysHung ==
    ASSUME cpuType' = cpuType, numPages' = numPages, NEW k, Hung(k), RealOwner(k) \in Owned',
           page'[RealOwner(k)] = page[RealOwner(k)], higherPml3'[500 + k] = higherPml3[500 + k]
    PROVE  Hung(k)'
BY SameConsole DEF Hung

(* A new table that is not one of the real memory is blank.                 *)
LEMMA FilledStays ==
    ASSUME Filled, stage # "execute", content' = content, UNCHANGED <<cpuType, numPages>>,
           NEW o \in Owners, o[1] \notin RealNames,
           \A k \in 0 .. RealTables - 1 : RealOwner(k) \in Owners /\ RealOwner(k) # o,
           \A x \in Owners : x # o => page'[x] = page[x] /\ (x \in Owned' <=> x \in Owned),
           allocated \subseteq allocated', page'[o] # Nullptr => page'[o] \in Pages \ allocated,
           o \in Owned' <=> page'[o] # Nullptr
    PROVE  Filled'
<1>1. /\ Pages' = Pages /\ RealTables' = RealTables
      /\ \A k : RealOwner(k)' = RealOwner(k) /\ RealQuarters(k)' = RealQuarters(k)
  BY SameConsole
<1>2. \A p : Blank(p) <=> \A q \in 0 .. 3 : content'[p][q] = Empty
  BY DEF Blank
<1>3. ASSUME NEW p \in Pages \ allocated'
      PROVE  \A q \in 0 .. 3 : content'[p][q] = Empty
  BY <1>2 DEF Filled
<1>4. ASSUME NEW x \in Owned', x[1] \notin RealNames
      PROVE  \A q \in 0 .. 3 : content'[page'[x]][q] = Empty
  <2>1. CASE x = o
    BY <1>2, <2>1 DEF Filled
  <2>2. CASE x # o
    BY <1>2, <1>4, <2>2 DEF Filled, Owned
  <2>3. QED
    BY <2>1, <2>2
<1>5. ASSUME NEW k \in 0 .. RealTables - 1, RealOwner(k) \in Owned', NEW q \in 0 .. 3
      PROVE  content'[page'[RealOwner(k)]][q] = RealQuarters(k)[q]
  BY <1>5 DEF Filled
<1>6. QED
  BY <1>1, <1>3, <1>4, <1>5 DEF Filled, Blank

LEMMA MmInitStep == BootInv /\ MmInit => BootInv'
<1> SUFFICES ASSUME BootInv, MmInit PROVE BootInv'
  OBVIOUS
<1>1. /\ stage = "mmInit" /\ stage' = "intmInit" /\ step' = 0
      /\ UNCHANGED <<cpuType, numPages, page, content, lowerHandler>>
      /\ higherPml3' = [higherPml3 EXCEPT ![0] = Empty]
      /\ pml4' = [pml4 EXCEPT ![0] = Empty]
      /\ allocated' = {p \in Pages : p < InfoPages}
  BY DEF MmInit, Goto, UnmapBootLower, InitializeContiguousHeap
<1>2. Pages' = Pages /\ InfoPages' = InfoPages /\ HeapSuffices' = HeapSuffices
  BY <1>1, SameConsole
<1>3. TypeOK'
  BY <1>1, <1>2 DEF BootInv, TypeOK
<1>4. Reserved' /\ Progress'
  BY <1>1, <1>2 DEF Reserved, Progress
<1>5. Owned = {} /\ Owned' = {}
  BY <1>1 DEF BootInv, Reserved, Owned, Unset
<1>6. NoSharedPage' /\ GuestView'
  BY <1>1, <1>5 DEF NoSharedPage, GuestView
<1>7. Upper'
  BY <1>1 DEF BootInv, TypeOK, Pml4Slots, Pml3Slots, Upper
<1>8. Lower'
  BY <1>1 DEF BootInv, TypeOK, Pml4Slots, Lower, NullWritesFault
<1>9. Filled'
  <2>1. allocated = {}
    BY <1>1 DEF BootInv, Reserved
  <2>2. \A p \in Pages : Blank(p) /\ Blank(p)'
    BY <1>1, <2>1 DEF BootInv, Filled, Blank
  <2>3. QED
    BY <1>2, <1>5, <2>2 DEF Filled
<1>10. Counted'
  <2>1. NoAllocationFails'
    BY <1>1, <1>2, <1>5 DEF BootInv, Reserved, NoAllocationFails, Unset, Nullptr
  <2>2. Done' = 0
    BY <1>1 DEF Done
  <2>3. numPages \in Nat
    BY Sizes DEF BootInv, TypeOK
  <2>4. \A p \in Pages : p \in allocated' <=> (p < InfoPages \/ p >= numPages)
    BY <1>1, <2>3 DEF Pages
  <2>5. QED
    BY <1>1, <1>2, <2>1, <2>2, <2>3, <2>4 DEF Counted
<1>11. QED
  BY <1>3, <1>4, <1>6, <1>7, <1>8, <1>9, <1>10 DEF BootInv

(* A write through nullptr ends the boot and leaves all tables alone.       *)
LEMMA NullWriteStep ==
    ASSUME BootInv, stage \in {"intmInit", "realInit", "mapFull"}, NullWrite, ~HeapSuffices,
           UNCHANGED <<cpuType, numPages>>, allocated \subseteq allocated', allocated' \subseteq Pages,
           page' \in [Owners -> Pages \union {Nullptr, Unset}], NoSharedPage',
           \A x \in Owned' : x \in Owned /\ page'[x] = page[x],
           \A k \in 0 .. RealTables - 1 : Hung(k) => RealOwner(k) \in Owned'
    PROVE  BootInv'
<1>1. /\ stage' \in {"tripleFault", "quit"} /\ step' = 0 /\ UNCHANGED <<cpuType, numPages>>
      /\ UNCHANGED <<content, pml4, higherPml3, lowerHandler>>
  BY DEF NullWrite, Goto
<1>2. /\ Pages' = Pages /\ InfoPages' = InfoPages /\ HeapSuffices' = HeapSuffices
      /\ RealTables' = RealTables /\ \A k : RealOwner(k)' = RealOwner(k)
      /\ \A k : RealQuarters(k)' = RealQuarters(k)
  BY <1>1, SameConsole
<1>3. TypeOK'
  BY <1>1, <1>2 DEF BootInv, TypeOK
<1>4. Reserved' /\ Progress' /\ GuestView'
  BY <1>1, <1>2 DEF BootInv, Reserved, Progress, GuestView
<1>5. Upper'
  <2>1. \A k \in 0 .. 7 : higherPml3[500 + k] = Empty \/ (k < RealTables /\ Hung(k)')
    <3> TAKE k \in 0 .. 7
    <3>1. CASE k < RealTables /\ Hung(k)
      <4>1. k \in 0 .. RealTables - 1
        BY <3>1 DEF RealTables
      <4>2. QED
        BY <1>1, <3>1, <4>1, StaysHung
    <3>2. QED
      BY <3>1 DEF BootInv, Upper
  <2>2. QED
    BY <1>1, <1>2, <2>1 DEF BootInv, Upper
<1>6. Lower'
  BY <1>1 DEF BootInv, Lower, NullWritesFault
<1>7. Filled'
  BY <1>1, <1>2 DEF BootInv, Filled, Blank
<1>8. Counted'
  BY <1>2 DEF Counted
<1>9. QED
  BY <1>3, <1>4, <1>5, <1>6, <1>7, <1>8 DEF BootInv

LEMMA IntmInitStep == BootInv /\ IntmInit => BootInv'
<1> SUFFICES ASSUME BootInv, IntmInit PROVE BootInv'
  OBVIOUS
<1> DEFINE o == <<"idtEntries", 0>>
<1>1. /\ stage = "intmInit" /\ AllocatePage(o) /\ UNCHANGED <<cpuType, numPages>>
      /\ o \in Owners /\ o[1] \notin RealNames
  BY OwnerList DEF IntmInit, RealNames
<1>2. \A k \in 0 .. RealTables - 1 : RealOwner(k) \in Owners /\ RealOwner(k) # o
  BY <1>1, RealOwners
<1> HIDE DEF o
<1>3. /\ Pages' = Pages /\ InfoPages' = InfoPages /\ HeapSuffices' = HeapSuffices
      /\ RealTables' = RealTables /\ \A k : RealOwner(k)' = RealOwner(k)
      /\ \A k : RealQuarters(k)' = RealQuarters(k)
  BY <1>1, SameConsole
<1>4. /\ \A x \in Owners : x # o => page'[x] = page[x] /\ (x \in Owned' <=> x \in Owned)
      /\ o \in Owned' <=> page'[o] # Nullptr
      /\ NoSharedPage'
      /\ page' \in [Owners -> Pages \union {Nullptr, Unset}]
      /\ allocated \subseteq allocated' /\ allocated' \subseteq Pages
      /\ page'[o] # Nullptr => page'[o] \in Pages \ allocated
  BY <1>1, Allocation, OthersKeepTheirs DEF BootInv
<1>5. HeapSuffices =>
        /\ page'[o] # Nullptr
        /\ \A p \in Pages : p \in allocated' <=> (p < InfoPages \/ p >= numPages - 1)
  <2>1. Done = 0 /\ 0 < Needed
    BY <1>1, NumPml1sAssumption DEF Done, Needed, CpuTables
  <2>2. QED
    BY <1>1, <2>1, PageThere DEF BootInv
<1>6. CASE page'[o] = Nullptr /\ NullWrite
  <2>1. \A x \in Owned' : x \in Owned /\ page'[x] = page[x]
    BY <1>4, <1>6 DEF Owned
  <2>2. \A k \in 0 .. RealTables - 1 : Hung(k) => RealOwner(k) \in Owned'
    BY <1>2, <1>4 DEF Hung
  <2>3. QED
    BY <1>1, <1>4, <1>5, <1>6, <2>1, <2>2, NullWriteStep
<1>7. CASE /\ page'[o] # Nullptr /\ Goto("dispatch")
           /\ UNCHANGED <<content, pml4, higherPml3, lowerHandler>>
  <2>1. stage' = "dispatch" /\ step' = 0
    BY <1>7 DEF Goto
  <2>2. TypeOK'
    BY <1>1, <1>3, <1>4, <1>7, <2>1 DEF BootInv, TypeOK
  <2>3. Reserved' /\ Progress' /\ GuestView'
    BY <1>1, <1>3, <1>4, <2>1 DEF BootInv, Reserved, Progress, GuestView
  <2>4. Upper'
    BY <1>1, <1>7, <2>1 DEF BootInv, Upper
  <2>5. Lower'
    BY <1>1, <1>7, <2>1 DEF BootInv, Lower, NullWritesFault
  <2>6. Filled'
    <3>1. stage # "execute" /\ stage' # "execute" /\ content' = content
      BY <1>1, <1>7, <2>1
    <3>2. QED
      BY <1>1, <1>2, <1>4, <1>7, <3>1, FilledStays DEF BootInv
  <2>7. Counted'
    <3>1. Done' = 1
      BY <2>1 DEF Done
    <3>2. NoAllocationFails'
      BY <1>3, <1>4, <1>5, <2>1 DEF BootInv, Counted, NoAllocationFails
    <3>3. QED
      BY <1>1, <1>3, <1>5, <2>1, <3>1, <3>2 DEF Counted
  <2>8. QED
    BY <1>4, <2>2, <2>3, <2>4, <2>5, <2>6, <2>7 DEF BootInv
<1>8. QED
  BY <1>6, <1>7 DEF IntmInit, o
LEMMA DispatchStep == BootInv /\ Dispatch => BootInv'
<1> SUFFICES ASSUME BootInv, Dispatch PROVE BootInv'
  OBVIOUS
<1>1. /\ stage = "dispatch" /\ step' = 0
      /\ stage' = IF cpuType = "UNSPECIFIED" THEN "quit" ELSE "realInit"
      /\ UNCHANGED <<cpuType, numPages, allocated, page, content, pml4, higherPml3, lowerHandler>>
  BY DEF Dispatch, Goto
<1>2. /\ Pages' = Pages /\ InfoPages' = InfoPages /\ HeapSuffices' = HeapSuffices
      /\ RealTables' = RealTables /\ \A k : RealOwner(k)' = RealOwner(k)
      /\ \A k : RealQuarters(k)' = RealQuarters(k)
  BY <1>1, SameConsole
<1>3. TypeOK' /\ Reserved' /\ NoSharedPage' /\ GuestView'
  BY <1>1, <1>2 DEF BootInv, TypeOK, Reserved, NoSharedPage, Owned, GuestView
<1>4. Progress'
  BY <1>1, <1>2 DEF Progress, RealTables
<1>5. Upper' /\ Lower'
  BY <1>1, <1>2 DEF BootInv, Upper, Lower, NullWritesFault
<1>6. Filled'
  BY <1>1, <1>2 DEF BootInv, Filled, Owned, Blank
<1>7. Counted'
  <2>1. stage' = "realInit" => Done' = Done
    BY <1>1 DEF Done
  <2>2. QED
    BY <1>1, <1>2, <2>1 DEF BootInv, Counted, NoAllocationFails
<1>8. QED
  BY <1>3, <1>4, <1>5, <1>6, <1>7 DEF BootInv
-----------------------------------------------------------------------------
(* An iteration of the real-memory components, in one form.                 *)
LEMMA RealForm ==
    ASSUME BootInv, XenonRealInit \/ SingleRealInit
    PROVE  /\ stage = "realInit" /\ step \in 0 .. RealTables - 1
           /\ UNCHANGED <<cpuType, numPages>>
           /\ AllocatePage(RealOwner(step))
           /\ \/ page'[RealOwner(step)] = Nullptr /\ NullWrite
              \/ /\ page'[RealOwner(step)] # Nullptr
                 /\ content' = [content EXCEPT ![page'[RealOwner(step)]] = RealQuarters(step)]
                 /\ higherPml3' =
                       [higherPml3 EXCEPT ![500 + step] = Table(page'[RealOwner(step)])]
                 /\ UNCHANGED <<pml4, lowerHandler>>
                 /\ IF step = RealTables - 1 THEN stage' = "cpuInit" /\ step' = 0
                                             ELSE stage' = stage /\ step' = step + 1
<1>1. CASE XenonRealInit
  <2> DEFINE soc == step >= 4
             o == <<IF soc THEN "socPml2" ELSE "ramPml2", step % 4>>
             base == (IF soc THEN SocQuarter ELSE RamQuarter) + 4 * (step % 4)
             virt == (IF soc THEN SocVirtGiB ELSE RamVirtGiB) + (step % 4)
  <2>1. /\ stage = "realInit" /\ cpuType = "XENON" /\ UNCHANGED <<cpuType, numPages>>
        /\ FillPml2(o, Quarters(base), virt)
        /\ page'[o] # Nullptr =>
              IF step = 7 THEN Goto("cpuInit") ELSE stage' = stage /\ step' = step + 1
    BY <1>1 DEF XenonRealInit
  <2>2. RealTables = 8 /\ step \in 0 .. 7
    BY <2>1 DEF BootInv, Progress, RealTables
  <2>3. virt % 512 = 500 + step
    BY <2>2 DEF SocVirtGiB, RamVirtGiB
  <2>4. RealOwner(step) = o /\ RealQuarters(step) = Quarters(base)
    BY <2>1 DEF RealOwner, RealQuarters
  <2> HIDE DEF o, base, virt
  <2>5. QED
    BY <2>1, <2>2, <2>3, <2>4 DEF FillPml2, SetPml2Page, Goto
<1>2. CASE SingleRealInit
  <2> DEFINE o == <<"physPml2", 0>>
  <2>1. /\ stage = "realInit" /\ cpuType # "XENON" /\ UNCHANGED <<cpuType, numPages>>
        /\ FillPml2(o, HalfGiB, RamVirtGiB)
        /\ page'[o] # Nullptr => Goto("cpuInit")
    BY <1>2 DEF SingleRealInit
  <2>2. RealTables = 1 /\ step = 0
    BY <2>1 DEF BootInv, Progress, RealTables
  <2>3. RamVirtGiB % 512 = 500 + step
    <3>1. \A x \in 0 .. 7 : (RamVirtGiB + x) % 512 = 500 + x
      BY DEF RamVirtGiB
    <3>2. RamVirtGiB + 0 = RamVirtGiB
      BY DEF RamVirtGiB
    <3>3. QED
      BY <2>2, <3>1, <3>2
  <2>4. RealOwner(step) = o /\ RealQuarters(step) = HalfGiB
    BY <2>1 DEF RealOwner, RealQuarters
  <2> HIDE DEF o
  <2>5. QED
    BY <2>1, <2>2, <2>3, <2>4 DEF FillPml2, SetPml2Page, Goto
<1>3. QED
  BY <1>1, <1>2

LEMMA RealStep == BootInv /\ (XenonRealInit \/ SingleRealInit) => BootInv'
<1> SUFFICES ASSUME BootInv, XenonRealInit \/ SingleRealInit PROVE BootInv'
  OBVIOUS
<1> DEFINE o == RealOwner(step)
           p == page'[o]
<1>1. /\ stage = "realInit" /\ step \in 0 .. RealTables - 1 /\ UNCHANGED <<cpuType, numPages>>
      /\ AllocatePage(o) /\ RealTables \in {1, 8} /\ o \in Owners /\ o[1] \in RealNames
  BY RealForm, RealOwners
<1>2. \A k \in 0 .. RealTables - 1 :
         RealOwner(k) \in Owners /\ (k # step => RealOwner(k) # o)
  BY <1>1, RealOwners
<1>3. /\ Pages' = Pages /\ InfoPages' = InfoPages /\ HeapSuffices' = HeapSuffices
      /\ RealTables' = RealTables /\ \A k : RealOwner(k)' = RealOwner(k)
      /\ CpuTables' = CpuTables /\ \A k : RealQuarters(k)' = RealQuarters(k)
  BY <1>1, SameConsole
<1>4. /\ \A x \in Owners : x # o => page'[x] = page[x] /\ (x \in Owned' <=> x \in Owned)
      /\ o \in Owned' <=> page'[o] # Nullptr
      /\ o \in Owned' => \A x \in Owned : page[x] # page'[o]
      /\ NoSharedPage'
      /\ page' \in [Owners -> Pages \union {Nullptr, Unset}]
      /\ allocated \subseteq allocated' /\ allocated' \subseteq Pages
      /\ page'[o] # Nullptr => page'[o] \in Pages \ allocated /\ page'[o] \in allocated'
  BY <1>1, Allocation, OthersKeepTheirs DEF BootInv
<1>5. HeapSuffices =>
        /\ page'[o] # Nullptr
        /\ \A x \in Pages : x \in allocated' <=> (x < InfoPages \/ x >= numPages - (2 + step))
  <2>1. Done = 1 + step /\ Done \in Nat /\ Done < Needed /\ Done + 1 = 2 + step
    BY <1>1, NumPml1sAssumption DEF Done, Needed, CpuTables, RealTables
  <2>2. QED
    BY <1>1, <2>1, PageThere DEF BootInv
<1>6. \A k \in 0 .. 7 : (k # step /\ k < RealTables /\ Hung(k)) =>
         RealOwner(k) \in Owned' /\ page'[RealOwner(k)] = page[RealOwner(k)]
  BY <1>1, <1>2, <1>4 DEF Hung
<1>7. CASE p = Nullptr /\ NullWrite
  <2>1. \A x \in Owned' : x \in Owned /\ page'[x] = page[x]
    BY <1>4, <1>7 DEF Owned
  <2>2. ~Hung(step)
    BY <1>1, TableIsNotEmpty DEF BootInv, Upper, Hung
  <2>3. \A k \in 0 .. RealTables - 1 : Hung(k) => RealOwner(k) \in Owned'
    BY <1>1, <1>6, <2>2
  <2>4. QED
    BY <1>1, <1>4, <1>5, <1>7, <2>1, <2>3, NullWriteStep
<1>8. CASE /\ p # Nullptr
           /\ content' = [content EXCEPT ![p] = RealQuarters(step)]
           /\ higherPml3' = [higherPml3 EXCEPT ![500 + step] = Table(p)]
           /\ UNCHANGED <<pml4, lowerHandler>>
           /\ IF step = RealTables - 1 THEN stage' = "cpuInit" /\ step' = 0
                                       ELSE stage' = stage /\ step' = step + 1
  <2>1. stage' \in {"realInit", "cpuInit"} /\ step' \in Nat
    BY <1>1, <1>8
  <2>2. p \in Pages /\ \A q \in 0 .. 3 : q \in DOMAIN RealQuarters(step)
    BY <1>4, <1>8 DEF RealQuarters, Quarters, HalfGiB
  <2>3. TypeOK'
    <3>1. DOMAIN RealQuarters(step) = 0 .. 3
      BY DEF RealQuarters, Quarters, HalfGiB
    <3>2. QED
      BY <1>1, <1>3, <1>4, <1>8, <2>1, <2>2, <3>1 DEF BootInv, TypeOK
  <2>4. /\ higherPml3'[500 + step] = Table(p)
        /\ \A k \in 0 .. 7 : k # step => higherPml3'[500 + k] = higherPml3[500 + k]
        /\ higherPml3'[510] = higherPml3[510]
    <3>1. DOMAIN higherPml3 = Pml3Slots /\ 500 + step \in Pml3Slots /\ 500 + step # 510
      BY <1>1 DEF BootInv, TypeOK, Pml3Slots
    <3>2. QED
      BY <1>1, <1>8, <3>1
  <2>5. \A k \in 0 .. RealTables - 1 : k <= step => Hung(k)'
    <3> TAKE k \in 0 .. RealTables - 1
    <3>1. CASE k = step
      <4>1. RealOwner(k) \in Owned' /\ higherPml3'[500 + k] = Table(page'[RealOwner(k)])
        BY <1>4, <1>8, <2>4, <3>1
      <4>2. QED
        BY <1>3, <4>1 DEF Hung
    <3>2. CASE k < step
      <4>1. Hung(k) /\ k \in 0 .. 7
        BY <1>1, <3>2 DEF BootInv, Progress
      <4>2. QED
        BY <1>1, <1>6, <2>4, <3>2, <4>1, StaysHung
    <3>3. QED
      BY <1>1, <3>1, <3>2
  <2>6. Reserved' /\ GuestView' /\ Lower'
    BY <1>1, <1>3, <1>4, <1>8, <2>1 DEF BootInv, Reserved, GuestView, Lower, NullWritesFault
  <2>7. Progress'
    <3>1. stage' = "realInit" => step' = step + 1 /\ step' \in 0 .. RealTables - 1
      BY <1>1, <1>8
    <3>2. stage' = "cpuInit" => step' = 0 /\ step = RealTables - 1
      BY <1>1, <1>8
    <3>3. CpuTables - 1 \in Nat
      BY NumPml1sAssumption DEF CpuTables
    <3>4. stage' = "realInit" => \A k \in 0 .. step' - 1 : Hung(k)'
      BY <1>1, <2>5, <3>1
    <3>5. stage' = "cpuInit" => \A k \in 0 .. RealTables - 1 : Hung(k)'
      BY <1>1, <2>5, <3>2
    <3>6. stage' = "cpuInit" => step' \in 0 .. CpuTables - 1 /\ 0 .. step' - 1 = {}
      BY <3>2, <3>3
    <3>7. cpuType' # "UNSPECIFIED"
      BY <1>1 DEF BootInv, Progress
    <3>8. QED
      BY <1>3, <2>1, <3>1, <3>4, <3>5, <3>6, <3>7 DEF Progress
  <2>8. Upper'
    <3>1. \A k \in 0 .. 7 : higherPml3'[500 + k] = Empty \/ (k < RealTables /\ Hung(k)')
      <4> TAKE k \in 0 .. 7
      <4>1. CASE k = step
        BY <1>1, <2>5, <4>1
      <4>2. CASE k # step /\ k < RealTables /\ Hung(k)
        BY <1>1, <1>6, <2>4, <4>2, StaysHung
      <4>3. CASE k # step /\ higherPml3[500 + k] = Empty
        BY <2>4, <4>3
      <4>4. QED
        BY <4>1, <4>2, <4>3 DEF BootInv, Upper
    <3>2. stage' = "realInit" => \A k \in step' .. 7 : higherPml3'[500 + k] = Empty
      BY <1>1, <1>8, <2>4 DEF BootInv, Upper
    <3>3. QED
      BY <1>3, <1>8, <2>1, <2>4, <3>1, <3>2 DEF BootInv, Upper
  <2>9. Filled'
    <3>1. DOMAIN content = Pages /\ content'[p] = RealQuarters(step)
          /\ \A x \in Pages : x # p => content'[x] = content[x]
      BY <1>8, <2>2 DEF BootInv, TypeOK
    <3>2. \A x \in Pages \ allocated' : \A q \in 0 .. 3 : content'[x][q] = Empty
      BY <1>1, <1>4, <1>8, <3>1 DEF BootInv, Filled, Blank
    <3>3. \A x \in Owned' : x[1] \notin RealNames =>
             \A q \in 0 .. 3 : content'[page'[x]][q] = Empty
      <4> TAKE x \in Owned'
      <4>1. HAVE x[1] \notin RealNames
      <4>2. x \in Owners /\ x # o /\ x \in Owned /\ page'[x] = page[x]
        BY <1>1, <1>4, <4>1 DEF Owned
      <4>3. page[x] \in Pages /\ page[x] # p
        BY <1>4, <1>8, <4>2 DEF BootInv, NoSharedPage, TypeOK
      <4>4. QED
        BY <1>1, <3>1, <4>1, <4>2, <4>3 DEF BootInv, Filled, Blank
    <3>4. \A k \in 0 .. RealTables - 1 : RealOwner(k) \in Owned' =>
             \A q \in 0 .. 3 : content'[page'[RealOwner(k)]][q] = RealQuarters(k)[q]
      <4> TAKE k \in 0 .. RealTables - 1
      <4>1. HAVE RealOwner(k) \in Owned'
      <4>2. CASE k = step
        BY <3>1, <4>2
      <4>3. CASE k # step
        <5>1. RealOwner(k) \in Owned /\ page'[RealOwner(k)] = page[RealOwner(k)]
          BY <1>2, <1>4, <4>1, <4>3
        <5>2. page[RealOwner(k)] \in Pages /\ page[RealOwner(k)] # p
          BY <1>4, <1>8, <5>1 DEF BootInv, NoSharedPage, TypeOK
        <5>3. QED
          BY <1>1, <3>1, <5>1, <5>2 DEF BootInv, Filled
      <4>4. QED
        BY <4>2, <4>3
    <3>5. QED
      BY <1>3, <3>2, <3>3, <3>4 DEF Filled, Blank
  <2>10. Counted'
    <3>1. Done' = 2 + step
      BY <1>1, <1>3, <1>8 DEF Done, RealTables
    <3>2. HeapSuffices => NoAllocationFails'
      BY <1>3, <1>4, <1>8, <2>1 DEF BootInv, Counted, NoAllocationFails
    <3>3. QED
      BY <1>1, <1>3, <1>5, <3>1, <3>2 DEF Counted
  <2>11. QED
    BY <1>4, <2>3, <2>6, <2>7, <2>8, <2>9, <2>10 DEF BootInv
<1>9. QED
  BY <1>7, <1>8, RealForm-----------------------------------------------------------------------------
(* A table of the CPU; nothing is written through its pointer yet.          *)
LEMMA CpuStep == BootInv /\ CpuMmuInit => BootInv'
<1> SUFFICES ASSUME BootInv, CpuMmuInit PROVE BootInv'
  OBVIOUS
<1> DEFINE o == CpuTable(step)
<1>1. /\ stage = "cpuInit" /\ AllocatePage(o) /\ step \in 0 .. CpuTables - 1
      /\ IF step = CpuTables - 1 THEN stage' = "mapFull" /\ step' = 0
                                 ELSE stage' = stage /\ step' = step + 1
      /\ UNCHANGED <<cpuType, numPages, content, pml4, higherPml3, lowerHandler>>
  BY DEF CpuMmuInit, Goto, BootInv, Progress
<1>2. CpuTables \in Nat /\ stage' \in {"cpuInit", "mapFull"} /\ step' \in Nat
  BY <1>1, NumPml1sAssumption DEF CpuTables
<1>3. o \in Owners /\ o[1] \notin RealNames
  BY <1>1, CpuOwners
<1>4. \A k \in 0 .. RealTables - 1 : RealOwner(k) \in Owners /\ RealOwner(k) # o
  BY <1>3, RealOwners
<1>5. /\ Pages' = Pages /\ InfoPages' = InfoPages /\ HeapSuffices' = HeapSuffices
      /\ RealTables' = RealTables /\ \A k : RealOwner(k)' = RealOwner(k)
      /\ CpuTables' = CpuTables /\ \A k : CpuTable(k)' = CpuTable(k)
  BY <1>1, SameConsole
<1> HIDE DEF o
<1>6. /\ \A x \in Owners : x # o => page'[x] = page[x] /\ (x \in Owned' <=> x \in Owned)
      /\ \A x \in Owners : page[x] # Unset => page'[x] # Unset
      /\ page'[o] # Unset
      /\ o \in Owned' <=> page'[o] # Nullptr
      /\ NoSharedPage'
      /\ page' \in [Owners -> Pages \union {Nullptr, Unset}]
      /\ allocated \subseteq allocated' /\ allocated' \subseteq Pages
      /\ page'[o] # Nullptr => page'[o] \in Pages \ allocated
  BY <1>1, <1>3, Allocation, OthersKeepTheirs DEF BootInv
<1>7. HeapSuffices =>
        /\ page'[o] # Nullptr
        /\ \A x \in Pages : x \in allocated' <=> (x < InfoPages \/ x >= numPages - (Done + 1))
  <2>1. Done = 1 + RealTables + step
    BY <1>1 DEF Done
  <2>2. Done \in Nat /\ Done < Needed
    BY <1>1, <1>2, <2>1 DEF Needed, RealTables
  <2>3. QED
    BY <1>1, <1>3, <2>2, PageThere DEF BootInv
<1>8. TypeOK' /\ Reserved' /\ GuestView'
  BY <1>1, <1>2, <1>5, <1>6 DEF BootInv, TypeOK, Reserved, GuestView
<1>9. \A k \in 0 .. RealTables - 1 : Hung(k) => Hung(k)'
  BY <1>1, <1>4, <1>6, StaysHung DEF Hung
<1>10. Progress'
  <2>1. \A k \in 0 .. CpuTables - 1 : k <= step => page'[CpuTable(k)] # Unset
    <3> TAKE k \in 0 .. CpuTables - 1
    <3>1. CASE k = step
      BY <1>6, <3>1 DEF o
    <3>2. CASE k < step
      <4>1. CpuTable(k) \in Owners /\ page[CpuTable(k)] # Unset
        BY <1>1, <1>2, <3>2, CpuOwners DEF BootInv, Progress
      <4>2. QED
        BY <1>6, <4>1
    <3>3. QED
      BY <1>1, <3>1, <3>2
  <2>2. stage' = "cpuInit" =>
           step' \in 0 .. CpuTables - 1 /\ \A k \in 0 .. step' - 1 : page'[CpuTable(k)] # Unset
    <3> HAVE stage' = "cpuInit"
    <3>1. step' = step + 1 /\ step + 1 \in 0 .. CpuTables - 1
      BY <1>1, <1>2
    <3>2. \A k \in 0 .. step' - 1 : k \in 0 .. CpuTables - 1 /\ k <= step
      BY <1>1, <1>2, <3>1
    <3>3. QED
      BY <2>1, <3>1, <3>2
  <2>3. stage' = "mapFull" => \A k \in 0 .. CpuTables - 1 : page'[CpuTable(k)] # Unset
    BY <1>1, <1>2, <2>1
  <2>4. \A k \in 0 .. RealTables - 1 : Hung(k)'
    BY <1>1, <1>9 DEF BootInv, Progress
  <2>5. cpuType' # "UNSPECIFIED"
    BY <1>1 DEF BootInv, Progress
  <2>6. QED
    BY <1>2, <1>5, <2>2, <2>3, <2>4, <2>5 DEF Progress
<1>11. Upper'
  <2>1. \A k \in 0 .. 7 : higherPml3[500 + k] = Empty \/ (k < RealTables /\ Hung(k)')
    <3> TAKE k \in 0 .. 7
    <3>1. CASE k < RealTables /\ Hung(k)
      <4>1. k \in 0 .. RealTables - 1
        BY <3>1 DEF RealTables
      <4>2. QED
        BY <1>9, <3>1, <4>1
    <3>2. QED
      BY <3>1 DEF BootInv, Upper
  <2>2. QED
    BY <1>1, <1>2, <1>5, <2>1 DEF BootInv, Upper
<1>12. Lower'
  BY <1>1, <1>2 DEF BootInv, Lower, NullWritesFault
<1>13. Filled'
  <2>1. stage # "execute"
    BY <1>1
  <2>2. QED
    BY <1>1, <1>3, <1>4, <1>6, <2>1, FilledStays DEF BootInv
<1>14. Counted'
  <2>1. stage' = "cpuInit" => Done' = Done + 1
    BY <1>1, <1>5 DEF Done, RealTables
  <2>2. HeapSuffices => NoAllocationFails'
    BY <1>1, <1>2, <1>5, <1>6, <1>7 DEF BootInv, Counted, NoAllocationFails
  <2>3. QED
    BY <1>1, <1>2, <1>5, <1>7, <2>1, <2>2 DEF Counted
<1>15. QED
  BY <1>6, <1>8, <1>10, <1>11, <1>12, <1>13, <1>14 DEF BootInv
-----------------------------------------------------------------------------
(* MapFull.  What it reads is there.                                        *)
LEMMA CpuPointer ==
    ASSUME BootInv, stage = "mapFull", NEW k \in 0 .. CpuTables - 1, page[CpuTable(k)] # Nullptr
    PROVE  CpuTable(k) \in Owned /\ page[CpuTable(k)] \in Pages /\ Blank(page[CpuTable(k)])
<1>1. CpuTable(k) \in Owners /\ CpuTable(k)[1] \notin RealNames
  BY CpuOwners
<1>2. page[CpuTable(k)] \in Pages
  BY <1>1 DEF BootInv, TypeOK, Progress
<1>3. CpuTable(k) \in Owned
  BY <1>1, <1>2, Sizes DEF BootInv, TypeOK, Pages, Owned
<1>4. QED
  BY <1>1, <1>2, <1>3 DEF BootInv, Filled

LEMMA RealPointer ==
    ASSUME BootInv, stage = "mapFull", NEW k \in 0 .. RealTables - 1
    PROVE  /\ RealOwner(k) \in Owned /\ page[RealOwner(k)] \in Pages
           /\ \A q \in 0 .. 3 : content[page[RealOwner(k)]][q] = RealQuarters(k)[q]
<1>1. RealOwner(k) \in Owned
  BY DEF BootInv, Progress, Hung
<1>2. page[RealOwner(k)] \in Pages
  BY <1>1, Sizes DEF BootInv, TypeOK, Owned, Nullptr, Unset
<1>3. QED
  BY <1>1, <1>2 DEF BootInv, Filled

LEMMA MapFullFails ==
    ASSUME BootInv, stage = "mapFull", UNCHANGED <<cpuType, numPages, allocated, page>>, NullWrite,
           NEW o \in Owners, page[o] = Nullptr
    PROVE  BootInv'
<1>1. ~HeapSuffices
  BY DEF BootInv, Counted, NoAllocationFails
<1>2. Owned' = Owned /\ InfoPages' = InfoPages
  BY DEF Owned, InfoPages
<1>3. NoSharedPage'
  BY <1>2 DEF BootInv, NoSharedPage
<1>4. allocated' \subseteq Pages /\ page' \in [Owners -> Pages \union {Nullptr, Unset}]
  BY DEF BootInv, TypeOK
<1>5. \A k \in 0 .. RealTables - 1 : Hung(k) => RealOwner(k) \in Owned'
  BY <1>2 DEF Hung
<1>6. QED
  BY <1>1, <1>2, <1>3, <1>4, <1>5, NullWriteStep

LEMMA MapFullEnds ==
    ASSUME BootInv, stage = "mapFull", Goto("execute"),
           UNCHANGED <<cpuType, numPages, allocated, page, higherPml3>>,
           lowerHandler' \in {lowerHandler, "Sh4aCpu"},
           DOMAIN pml4' = Pml4Slots, pml4'[511] = pml4[511],
           DOMAIN content' = Pages, \A p \in Pages : DOMAIN content'[p] = 0 .. 3,
           GuestView'
    PROVE  BootInv'
<1>1. stage' = "execute" /\ step' = 0
  BY DEF Goto
<1>2. /\ Pages' = Pages /\ InfoPages' = InfoPages /\ HeapSuffices' = HeapSuffices
      /\ RealTables' = RealTables /\ \A k : RealOwner(k)' = RealOwner(k)
  BY SameConsole
<1>3. Owned' = Owned
  BY DEF Owned
<1>4. TypeOK' /\ Reserved' /\ Progress' /\ NoSharedPage'
  BY <1>1, <1>2, <1>3 DEF BootInv, TypeOK, Reserved, Progress, NoSharedPage
<1>5. Upper'
  BY <1>1, <1>2, <1>3 DEF BootInv, Upper, Hung
<1>6. Lower' /\ Filled'
  BY <1>1 DEF Lower, NullWritesFault, Filled
<1>7. Counted'
  BY <1>1, <1>2 DEF BootInv, Counted, NoAllocationFails
<1>8. QED
  BY <1>4, <1>5, <1>6, <1>7 DEF BootInv
LEMMA WalkIs ==
    ASSUME NEW s, NEW p \in Pages, pml4'[s] = Table(p), Pages' = Pages, NEW g, NEW q
    PROVE  /\ \A r \in Pages : content'[p][g] = Table(r) => Walk(s, g, q)' = content'[r][q]
           /\ content'[p][g] = Empty => Walk(s, g, q)' = Empty
<1>1. Walk(s, g, q)' =
         IF content'[p][g][1] = "table" /\ content'[p][g][2] \in Pages
           THEN content'[content'[p][g][2]][q] ELSE Empty
  BY DEF Walk, Below, Table
<1>2. QED
  BY <1>1 DEF Table, Empty

LEMMA WalkOfNothing ==
    ASSUME NEW s, pml4'[s] = Empty, NEW g, NEW q
    PROVE  Walk(s, g, q)' = Empty
BY DEF Walk, Below, Empty

LEMMA PpcMapFullStep == BootInv /\ PpcMapFull => BootInv'
<1> SUFFICES ASSUME BootInv, PpcMapFull PROVE BootInv'
  OBVIOUS
<1>1. /\ stage = "mapFull" /\ cpuType = "XENON"
      /\ UNCHANGED <<cpuType, numPages, allocated, page>>
  BY DEF PpcMapFull
<1>2. /\ CpuTables = 9 + NumPml1s /\ NumPml1s \in Nat /\ RealTables = 8
      /\ \A w \in 0 .. 3 : CpuTable(w) = <<"hvRealModePml3s", w>>
      /\ CpuTable(4) = <<"ir32Pml3", 0>>
  BY <1>1, NumPml1sAssumption DEF CpuTables, CpuTable, PpcTable, RealTables
<1> DEFINE hv(w) == P("hvRealModePml3s", w)
           ir == P("ir32Pml3", 0)
<1>3. CASE /\ \/ \E w \in 0 .. 3 : hv(w) = Nullptr
              \/ ir = Nullptr
           /\ NullWrite
  BY <1>1, <1>3, OwnerList, MapFullFails DEF P
<1>4. CASE /\ \A w \in 0 .. 3 : hv(w) # Nullptr
           /\ ir # Nullptr
           /\ content' =
                [p \in Pages |-> [g \in 0 .. 3 |->
                   IF p = ir THEN Table(P("ir32Pml2s", g))
                   ELSE IF \E w \in 0 .. 3 : p = hv(w)
                     THEN LET w == CHOOSE w \in 0 .. 3 : p = hv(w)
                          IN  Table(WindowPml2(w, g))
                     ELSE content[p][g]]]
           /\ pml4' = [s \in Pml4Slots |->
                        IF \E w \in 0 .. 3 : s = Pml4Slot(1024 * w)
                          THEN Table(P("hvRealModePml3s", s \div 2))
                          ELSE pml4[s]]
           /\ Goto("execute")
           /\ UNCHANGED <<higherPml3, lowerHandler>>
  <2>1. \A w \in 0 .. 3 : <<"hvRealModePml3s", w>> \in Owned /\ hv(w) \in Pages
    BY <1>1, <1>2, <1>4, CpuPointer DEF P
  <2>2. <<"ir32Pml3", 0>> \in Owned /\ ir \in Pages
    BY <1>1, <1>2, <1>4, CpuPointer DEF P
  <2>3. \A w \in 0 .. 3 : hv(w) # ir /\ \A v \in 0 .. 3 : hv(w) = hv(v) => w = v
    BY <2>1, <2>2 DEF P, BootInv, NoSharedPage
  <2>4. \A k \in 0 .. 7 :
           /\ RealOwner(k) \in Owned /\ page[RealOwner(k)] \in Pages
           /\ \A q \in 0 .. 3 : content[page[RealOwner(k)]][q] = RealQuarters(k)[q]
    BY <1>1, <1>2, RealPointer
  <2>5. \A k \in 0 .. 7 : RealOwner(k)[1] \in RealNames
    BY <1>2, RealOwners
  <2>6. \A k \in 0 .. 7 : page[RealOwner(k)] # ir /\ \A w \in 0 .. 3 : page[RealOwner(k)] # hv(w)
    BY <2>1, <2>2, <2>4, <2>5 DEF P, BootInv, NoSharedPage, RealNames
  <2>7. \A w, g \in 0 .. 3 : content'[hv(w)][g] = Table(WindowPml2(w, g))
    <3> TAKE w, g \in 0 .. 3
    <3> DEFINE v == CHOOSE v \in 0 .. 3 : hv(w) = hv(v)
    <3>1. v \in 0 .. 3 /\ hv(w) = hv(v)
      OBVIOUS
    <3>2. v = w
      BY <2>3, <3>1
    <3>3. content'[hv(w)][g] = Table(WindowPml2(v, g))
      BY <1>4, <2>1, <2>3
    <3>4. QED
      BY <3>2, <3>3
  <2>8. \A k \in 0 .. 7 : \A q \in 0 .. 3 : content'[page[RealOwner(k)]][q] = RealQuarters(k)[q]
    BY <1>4, <2>4, <2>6
  <2>9. \A w \in 0 .. 3 : pml4'[2 * w] = Table(hv(w))
    BY <1>4 DEF Pml4Slots, Pml4Slot
  <2>10. pml4'[511] = pml4[511] /\ DOMAIN pml4' = Pml4Slots
    BY <1>4 DEF Pml4Slots, Pml4Slot
  <2>11. GuestView'
    <3> SUFFICES ASSUME NEW w \in 0 .. 3, NEW g \in 0 .. 3, NEW q \in 0 .. 3
                 PROVE  Walk(2 * w, g, q)' = GetVmmPhysForXenonPhys(w, 4 * g + q)
      BY <1>1 DEF GuestView
    <3> DEFINE k == IF w = 2 THEN 4 + g ELSE g
    <3>1. k \in 0 .. 7 /\ WindowPml2(w, g) = page[RealOwner(k)]
      BY <1>1 DEF WindowPml2, P, RealOwner
    <3>2. RealQuarters(k)[q] = GetVmmPhysForXenonPhys(w, 4 * g + q)
      BY <1>1 DEF RealQuarters, Quarters, GetVmmPhysForXenonPhys, Frame, RamQuarter, SocQuarter
    <3> HIDE DEF k
    <3>3. content'[hv(w)][g] = Table(page[RealOwner(k)]) /\ page[RealOwner(k)] \in Pages
      BY <2>4, <2>7, <3>1
    <3>4. pml4'[2 * w] = Table(hv(w)) /\ hv(w) \in Pages /\ Pages' = Pages
      BY <1>1, <2>1, <2>9, SameConsole
    <3>5. Walk(2 * w, g, q)' = content'[page[RealOwner(k)]][q]
      BY <3>3, <3>4, WalkIs
    <3>6. QED
      BY <2>8, <3>1, <3>2, <3>5
  <2>12. DOMAIN content' = Pages /\ \A p \in Pages : DOMAIN content'[p] = 0 .. 3
    BY <1>4
  <2>13. QED
    BY <1>1, <1>4, <2>10, <2>11, <2>12, MapFullEnds
<1>5. QED
  BY <1>3, <1>4 DEF PpcMapFull
LEMMA Sh4aMapFullStep == BootInv /\ Sh4aMapFull => BootInv'
<1> SUFFICES ASSUME BootInv, Sh4aMapFull PROVE BootInv'
  OBVIOUS
<1>1. /\ stage = "mapFull" /\ cpuType = "SH4A"
      /\ UNCHANGED <<cpuType, numPages, allocated, page>>
  BY DEF Sh4aMapFull
<1>2. /\ CpuTables = 5 + NumPml1s /\ NumPml1s \in Nat
      /\ CpuTable(0) = <<"pml3", 0>>
      /\ \A k \in 1 .. 4 : CpuTable(k) = <<"pml2s", k - 1>>
  BY <1>1, NumPml1sAssumption DEF CpuTables, CpuTable, Sh4aTable
<1>3. \A g \in 0 .. 3 : CpuTable(g + 1) = <<"pml2s", g>> /\ g + 1 \in 0 .. CpuTables - 1
  <2> TAKE g \in 0 .. 3
  <2>1. g + 1 \in 1 .. 4 /\ (g + 1) - 1 = g
    OBVIOUS
  <2>2. QED
    BY <1>2, <2>1
<1> DEFINE top == P("pml3", 0)
           pml2(g) == P("pml2s", g)
<1>4. CASE /\ \/ top = Nullptr
              \/ \E g \in 0 .. 3 : pml2(g) = Nullptr
           /\ NullWrite
  BY <1>1, <1>4, OwnerList, MapFullFails DEF P
<1>5. CASE /\ top # Nullptr
           /\ \A g \in 0 .. 3 : pml2(g) # Nullptr
           /\ content' =
                [p \in Pages |->
                   CASE p = top -> [g \in 0 .. 3 |-> Table(pml2(g))]
                     [] p = pml2(2) -> [q \in 0 .. 3 |-> Frame(RamQuarter + (q % 2))]
                     [] p \in {pml2(g) : g \in {0, 1, 3}} -> [q \in 0 .. 3 |-> Empty]
                     [] OTHER -> content[p]]
           /\ pml4' = [pml4 EXCEPT ![Pml4Slot(0)] = Table(top)]
           /\ lowerHandler' = "Sh4aCpu"
           /\ Goto("execute")
           /\ UNCHANGED higherPml3
  <2>1. <<"pml3", 0>> \in Owned /\ top \in Pages
    BY <1>1, <1>2, <1>5, CpuPointer DEF P
  <2>2. \A g \in 0 .. 3 : <<"pml2s", g>> \in Owned /\ pml2(g) \in Pages
    BY <1>1, <1>3, <1>5, CpuPointer DEF P
  <2>3. \A g \in 0 .. 3 : pml2(g) # top /\ \A h \in 0 .. 3 : g # h => pml2(g) # pml2(h)
    BY <2>1, <2>2 DEF P, BootInv, NoSharedPage
  <2>4. \A p \in Pages :
           content'[p] = CASE p = top -> [g \in 0 .. 3 |-> Table(pml2(g))]
                           [] p = pml2(2) -> [q \in 0 .. 3 |-> Frame(RamQuarter + (q % 2))]
                           [] p \in {pml2(g) : g \in {0, 1, 3}} -> [q \in 0 .. 3 |-> Empty]
                           [] OTHER -> content[p]
    BY <1>5
  <2>5. content'[top] = [g \in 0 .. 3 |-> Table(pml2(g))]
    <3>1. top # pml2(2) /\ top \notin {pml2(g) : g \in {0, 1, 3}}
      BY <2>3
    <3>2. QED
      BY <2>1, <2>4, <3>1
  <2>6. content'[pml2(2)] = [q \in 0 .. 3 |-> Frame(RamQuarter + (q % 2))]
    <3>1. pml2(2) \in Pages /\ pml2(2) # top /\ pml2(2) \notin {pml2(g) : g \in {0, 1, 3}}
      BY <2>2, <2>3
    <3>2. QED
      BY <2>4, <3>1
  <2>7. ASSUME NEW h \in {0, 1, 3}
        PROVE  content'[pml2(h)] = [q \in 0 .. 3 |-> Empty]
    <3>1. h \in 0 .. 3 /\ h # 2
      OBVIOUS
    <3>2. pml2(h) \in Pages /\ pml2(h) # top /\ pml2(h) # pml2(2)
      BY <2>2, <2>3, <3>1
    <3>3. pml2(h) \in {pml2(g) : g \in {0, 1, 3}}
      OBVIOUS
    <3>4. QED
      BY <2>4, <3>2, <3>3
  <2>8. \A p \in Pages : DOMAIN content'[p] = 0 .. 3
    <3> TAKE p \in Pages
    <3>1. CASE p = top
      BY <2>5, <3>1
    <3>2. CASE p = pml2(2)
      BY <2>6, <3>2
    <3>3. CASE p \in {pml2(g) : g \in {0, 1, 3}}
      BY <2>7, <3>3
    <3>4. CASE p # top /\ p # pml2(2) /\ p \notin {pml2(g) : g \in {0, 1, 3}}
      <4>1. content'[p] = content[p]
        BY <2>4, <3>4
      <4>2. QED
        BY <4>1 DEF BootInv, TypeOK
    <3>5. QED
      BY <3>1, <3>2, <3>3, <3>4
  <2>9. DOMAIN content' = Pages
    BY <1>5
  <2>10. /\ pml4'[0] = Table(top) /\ pml4'[511] = pml4[511] /\ DOMAIN pml4' = Pml4Slots
         /\ \A w \in 1 .. 3 : pml4'[2 * w] = Empty
    <3>1. Pml4Slot(0) = 0
      BY DEF Pml4Slot
    <3>2. \A s \in Pml4Slots \ {511} : pml4[s] = Empty
      BY <1>1 DEF BootInv, Lower, NullWritesFault
    <3>3. pml4' = [pml4 EXCEPT ![0] = Table(top)] /\ DOMAIN pml4 = Pml4Slots
      BY <1>5, <3>1 DEF BootInv, TypeOK
    <3>4. \A w \in 1 .. 3 : 2 * w \in Pml4Slots \ {0, 511}
      BY DEF Pml4Slots
    <3>5. QED
      BY <3>2, <3>3, <3>4 DEF Pml4Slots
  <2>11. GuestView'
    <3> SUFFICES ASSUME NEW w \in 0 .. 3, NEW g \in 0 .. 3, NEW q \in 0 .. 3
                 PROVE  Walk(2 * w, g, q)' = IF w = 0 /\ g = 2 THEN Frame(RamQuarter + (q % 2))
                                                               ELSE Empty
      BY <1>1 DEF GuestView
    <3>1. CASE w = 0
      <4>1. pml4'[2 * w] = Table(top) /\ content'[top][g] = Table(pml2(g)) /\ Pages' = Pages
        BY <1>1, <2>5, <2>10, <3>1, SameConsole
      <4>2. Walk(2 * w, g, q)' = content'[pml2(g)][q]
        BY <2>1, <2>2, <4>1, WalkIs
      <4>3. CASE g = 2
        BY <2>6, <3>1, <4>2, <4>3
      <4>4. CASE g \in {0, 1, 3}
        BY <2>7, <3>1, <4>2, <4>4
      <4>5. QED
        BY <4>3, <4>4
    <3>2. CASE w # 0
      <4>1. pml4'[2 * w] = Empty
        BY <2>10, <3>2
      <4>2. QED
        BY <3>2, <4>1, WalkOfNothing
    <3>3. QED
      BY <3>1, <3>2
  <2>12. QED
    BY <1>1, <1>5, <2>8, <2>9, <2>10, <2>11, MapFullEnds
<1>6. QED
  BY <1>4, <1>5 DEF Sh4aMapFull
LEMMA GekkoMapFullStep == BootInv /\ GekkoMapFull => BootInv'
<1> SUFFICES ASSUME BootInv, GekkoMapFull PROVE BootInv'
  OBVIOUS
<1>1. /\ stage = "mapFull" /\ cpuType = "GEKKO"
      /\ UNCHANGED <<cpuType, numPages, allocated, page>>
  BY DEF GekkoMapFull
<1>2. /\ CpuTables = 3
      /\ CpuTable(0) = <<"pml3", 0>> /\ CpuTable(1) = <<"cachedPml2", 0>>
      /\ CpuTable(2) = <<"uncachedPml2", 0>>
  BY <1>1 DEF CpuTables, CpuTable, GekkoTable
<1> DEFINE top == P("pml3", 0)
           cached == P("cachedPml2", 0)
           uncached == P("uncachedPml2", 0)
           quarter == [q \in 0 .. 3 |-> IF q = 0 THEN Frame(RamQuarter) ELSE Empty]
<1>3. CASE Nullptr \in {top, cached, uncached} /\ NullWrite
  BY <1>1, <1>3, OwnerList, MapFullFails DEF P
<1>4. CASE /\ Nullptr \notin {top, cached, uncached}
           /\ content' =
                [p \in Pages |->
                   CASE p = top -> [content[p] EXCEPT ![2] = Table(cached), ![3] = Table(uncached)]
                     [] p \in {cached, uncached} -> quarter
                     [] OTHER -> content[p]]
           /\ pml4' = [pml4 EXCEPT ![Pml4Slot(0)] = Table(top)]
           /\ Goto("execute")
           /\ UNCHANGED <<higherPml3, lowerHandler>>
  <2>1. <<"pml3", 0>> \in Owned /\ top \in Pages /\ Blank(top)
    BY <1>1, <1>2, <1>4, CpuPointer DEF P
  <2>2. <<"cachedPml2", 0>> \in Owned /\ cached \in Pages
    BY <1>1, <1>2, <1>4, CpuPointer DEF P
  <2>3. <<"uncachedPml2", 0>> \in Owned /\ uncached \in Pages
    BY <1>1, <1>2, <1>4, CpuPointer DEF P
  <2>4. cached # top /\ uncached # top
    BY <2>1, <2>2, <2>3 DEF P, BootInv, NoSharedPage
  <2>5. \A p \in Pages :
           content'[p] =
              CASE p = top -> [content[p] EXCEPT ![2] = Table(cached), ![3] = Table(uncached)]
                [] p \in {cached, uncached} -> quarter
                [] OTHER -> content[p]
    BY <1>4
  <2>6. content'[top] = [content[top] EXCEPT ![2] = Table(cached), ![3] = Table(uncached)]
    <3>1. top \notin {cached, uncached}
      BY <2>4
    <3>2. QED
      BY <2>1, <2>5, <3>1
  <2>7. content'[cached] = quarter /\ content'[uncached] = quarter
    BY <2>2, <2>3, <2>4, <2>5
  <2>8. DOMAIN content[top] = 0 .. 3
    BY <2>1 DEF BootInv, TypeOK
  <2>9. /\ content'[top][0] = Empty /\ content'[top][1] = Empty
        /\ content'[top][2] = Table(cached) /\ content'[top][3] = Table(uncached)
        /\ DOMAIN content'[top] = 0 .. 3
    BY <2>1, <2>6, <2>8 DEF Blank
  <2>10. \A p \in Pages : DOMAIN content'[p] = 0 .. 3
    <3> TAKE p \in Pages
    <3>1. CASE p \in {cached, uncached}
      BY <2>7, <3>1
    <3>2. CASE p # top /\ p \notin {cached, uncached}
      <4>1. content'[p] = content[p]
        BY <2>5, <3>2
      <4>2. QED
        BY <4>1 DEF BootInv, TypeOK
    <3>3. QED
      BY <2>9, <3>1, <3>2
  <2>11. DOMAIN content' = Pages
    BY <1>4
  <2>12. /\ pml4'[0] = Table(top) /\ pml4'[511] = pml4[511] /\ DOMAIN pml4' = Pml4Slots
         /\ \A w \in 1 .. 3 : pml4'[2 * w] = Empty
    <3>1. Pml4Slot(0) = 0
      BY DEF Pml4Slot
    <3>2. \A s \in Pml4Slots \ {511} : pml4[s] = Empty
      BY <1>1 DEF BootInv, Lower, NullWritesFault
    <3>3. pml4' = [pml4 EXCEPT ![0] = Table(top)] /\ DOMAIN pml4 = Pml4Slots
      BY <1>4, <3>1 DEF BootInv, TypeOK
    <3>4. \A w \in 1 .. 3 : 2 * w \in Pml4Slots \ {0, 511}
      BY DEF Pml4Slots
    <3>5. QED
      BY <3>2, <3>3, <3>4 DEF Pml4Slots
  <2>13. GuestView'
    <3> SUFFICES ASSUME NEW w \in 0 .. 3, NEW g \in 0 .. 3, NEW q \in 0 .. 3
                 PROVE  Walk(2 * w, g, q)' =
                           IF w = 0 /\ g \in {2, 3} /\ q = 0 THEN Frame(RamQuarter) ELSE Empty
      BY <1>1 DEF GuestView
    <3>1. CASE w = 0
      <4>1. pml4'[2 * w] = Table(top) /\ Pages' = Pages
        BY <1>1, <2>12, <3>1, SameConsole
      <4>2. CASE g \in {0, 1}
        <5>1. content'[top][g] = Empty
          BY <2>9, <4>2
        <5>2. Walk(2 * w, g, q)' = Empty
          BY <2>1, <4>1, <5>1, WalkIs
        <5>3. QED
          BY <4>2, <5>2
      <4>3. CASE g \in {2, 3}
        <5> HIDE DEF top, cached, uncached, quarter
        <5>1. content'[top][g] = Table(cached) \/ content'[top][g] = Table(uncached)
          BY <2>9, <4>3
        <5>2. Walk(2 * w, g, q)' = quarter[q]
          BY <2>1, <2>2, <2>3, <2>7, <4>1, <5>1, WalkIs
        <5> USE DEF quarter
        <5>3. QED
          BY <3>1, <4>3, <5>2
      <4>4. QED
        BY <4>2, <4>3
    <3>2. CASE w # 0
      <4>1. pml4'[2 * w] = Empty
        BY <2>12, <3>2
      <4>2. QED
        BY <3>2, <4>1, WalkOfNothing
    <3>3. QED
      BY <3>1, <3>2
  <2>14. QED
    BY <1>1, <1>4, <2>10, <2>11, <2>12, <2>13, MapFullEnds
<1>5. QED
  BY <1>3, <1>4 DEF GekkoMapFull

(* The invariant does not depend on the handler beyond its type.            *)
LEMMA StutterOnState ==
    ASSUME BootInv, TypeOK',
           UNCHANGED <<cpuType, numPages, stage, step, allocated, page, content, pml4, higherPml3>>
    PROVE  BootInv'
<1>1. /\ Pages' = Pages /\ InfoPages' = InfoPages /\ HeapSuffices' = HeapSuffices
      /\ RealTables' = RealTables /\ CpuTables' = CpuTables
      /\ \A k : RealOwner(k)' = RealOwner(k) /\ CpuTable(k)' = CpuTable(k)
      /\ \A k : RealQuarters(k)' = RealQuarters(k)
  BY SameConsole
<1>2. Owned' = Owned
  BY DEF Owned
<1>3. Reserved' /\ NoSharedPage' /\ Lower'
  BY <1>1, <1>2 DEF BootInv, Reserved, NoSharedPage, Lower, NullWritesFault
<1>4. Progress' /\ Upper'
  BY <1>1, <1>2 DEF BootInv, Progress, Upper, Hung
<1>5. Filled'
  BY <1>1, <1>2 DEF BootInv, Filled, Blank
<1>6. Counted'
  <2>1. Done' = Done
    BY <1>1, Zenon DEF Done
  <2>2. QED
    BY <1>1, <2>1 DEF BootInv, Counted, NoAllocationFails
<1>7. GuestView'
  <2>1. \A s, g, q : Walk(s, g, q)' = Walk(s, g, q)
    BY <1>1 DEF Walk, Below
  <2>2. QED
    BY <2>1 DEF BootInv, GuestView
<1>8. QED
  BY <1>3, <1>4, <1>5, <1>6, <1>7 DEF BootInv

LEMMA EnterExecuteStep == BootInv /\ EnterExecute => BootInv'
<1> SUFFICES ASSUME BootInv, EnterExecute PROVE BootInv'
  OBVIOUS
<1>1. /\ stage = "execute" /\ lowerHandler' = "PpcCpu"
      /\ UNCHANGED <<cpuType, numPages, stage, step, allocated, page, content, pml4, higherPml3>>
  BY DEF EnterExecute
<1>2. QED
  BY <1>1, StutterOnState DEF BootInv, TypeOK, Pages
-----------------------------------------------------------------------------
LEMMA InitHolds == Init => BootInv
<1> SUFFICES ASSUME Init PROVE BootInv
  OBVIOUS
<1>1. numPages \in Nat /\ numPages >= 1
  BY Sizes DEF Init
<1>2. TypeOK
  BY <1>1 DEF Init, TypeOK, Pml4Slots, Pml3Slots
<1>3. Owned = {}
  BY DEF Init, Owned, Unset
<1>4. Reserved /\ Progress /\ NoSharedPage /\ GuestView
  BY <1>3 DEF Init, Reserved, Progress, NoSharedPage, GuestView
<1>5. Upper
  BY DEF Init, Upper, Pml4Slots, Pml3Slots
<1>6. Lower
  BY DEF Init, Lower, NullWritesFault, Pml4Slots
<1>7. Filled
  BY <1>3, RealOwners DEF Init, Filled, Blank
<1>8. Counted
  BY DEF Init, Counted, NoAllocationFails, Nullptr, Unset
<1>9. QED
  BY <1>2, <1>4, <1>5, <1>6, <1>7, <1>8 DEF BootInv

LEMMA StepHolds == BootInv /\ [Next]_vars => BootInv'
<1> SUFFICES ASSUME BootInv, [Next]_vars PROVE BootInv'
  OBVIOUS
<1>1. CASE Next
  BY <1>1, MmInitStep, IntmInitStep, DispatchStep, RealStep, CpuStep, PpcMapFullStep,
     Sh4aMapFullStep, GekkoMapFullStep, EnterExecuteStep DEF Next
<1>2. CASE UNCHANGED vars
  <2>1. TypeOK'
    BY <1>2 DEF vars, BootInv, TypeOK, Pages
  <2>2. QED
    BY <1>2, <2>1, StutterOnState DEF vars
<1>3. QED
  BY <1>1, <1>2

THEOREM BootInvariant == Spec => []BootInv
BY InitHolds, StepHolds, PTL DEF Spec

(* Every variable of the boot keeps its type, whatever the heap's size.     *)
THEOREM TypeCorrect == Spec => []TypeOK
<1>1. BootInv => TypeOK
  BY DEF BootInv
<1>2. QED
  BY <1>1, BootInvariant, PTL

(* No page is handed out twice, and none that holds the heap's own map.     *)
THEOREM PagesAreNotShared == Spec => []NoSharedPage
<1>1. BootInv => NoSharedPage
  BY DEF BootInv
<1>2. QED
  BY <1>1, BootInvariant, PTL

(* The window through which the kernel runs stays, and every other entry of *)
(* the upper half leads to a table of the real memory.                      *)
THEOREM KernelWindowStays == Spec => []HigherHalfIntact
<1>1. BootInv => HigherHalfIntact
  <2> SUFFICES ASSUME BootInv PROVE HigherHalfIntact
    OBVIOUS
  <2>1. \A k \in 0 .. 7 : \/ higherPml3[500 + k] = Empty
                          \/ \E o \in Owned : /\ o[1] \in RealNames
                                              /\ higherPml3[500 + k] = Table(page[o])
    <3> TAKE k \in 0 .. 7
    <3>1. CASE k < RealTables /\ Hung(k)
      <4>1. k \in 0 .. RealTables - 1
        BY <3>1 DEF RealTables
      <4>2. QED
        BY <3>1, <4>1, RealOwners DEF Hung
    <3>2. QED
      BY <3>1 DEF BootInv, Upper
  <2>2. \A s \in Pml3Slots \ {0, 510} : s - 500 \in 0 .. 7 /\ s = 500 + (s - 500)
    BY DEF Pml3Slots
  <2>3. QED
    BY <2>1, <2>2 DEF BootInv, Upper, HigherHalfIntact, RealNames
<1>2. QED
  BY <1>1, BootInvariant, PTL

(* Wherever an allocation fails, the write through nullptr faults.          *)
THEOREM UncheckedNullFaults == Spec => []NullWritesFault
<1>1. BootInv => NullWritesFault
  BY DEF BootInv, Lower
<1>2. QED
  BY <1>1, BootInvariant, PTL

(* The page tables the CPU starts with show the console's memory map.       *)
THEOREM GuestSeesItsMap == Spec => []GuestView
<1>1. BootInv => GuestView
  BY DEF BootInv
<1>2. QED
  BY <1>1, BootInvariant, PTL

(* HeapSuffices is enough: no caller of AllocatePage ever sees nullptr.     *)
THEOREM EnoughIsEnough == Spec => []NoAllocationFails
<1>1. BootInv => NoAllocationFails
  BY DEF BootInv, Counted, NoAllocationFails
<1>2. QED
  BY <1>1, BootInvariant, PTL
=============================================================================
