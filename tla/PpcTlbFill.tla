----------------------------- MODULE PpcTlbFill -----------------------------
(***************************************************************************)
(* PpcMmu composed with the guest software its registers are made for.  On *)
(* a miss the PowerPC enters its fault vector in real mode; the handler    *)
(* reads PPE_TLB_INDEX_HINT, writes the hint to PPE_TLB_INDEX, the real    *)
(* page to PPE_TLB_RPN and the virtual page to PPE_TLB_VPN, and returns    *)
(* with rfid to the access that missed.  The guest is not part of the      *)
(* repository: its order of register writes is the one the register        *)
(* handlers need (SetNewVpn maps with the rpn already in the entry), its   *)
(* page table never changes, and it touches the TLB in real mode only.     *)
(***************************************************************************)
EXTENDS PpcMmu

CONSTANT PageTable     \* the guest's page table: [Pages -> Rpns]

ASSUME PageTableAssumption == PageTable \in [Pages -> Rpns]

(* 256 pages of 16 MiB cover the relocated space, and there are 1024        *)
(* entries.                                                                 *)
ASSUME EntriesAssumption ==
    IsFiniteSet(Pages) /\ Cardinality(Pages) <= NumEntries

(* The guest can select any single set, as the hint asks it to.             *)
ASSUME SingleSetsAssumption == \A s \in Sets : {s} \in SetMasks

None == -1

VARIABLES
    guest,     \* what the guest software is doing
    want,      \* page of the access the guest program is executing, or None
    hintReg    \* general register holding the hint the handler read

fillVars == <<mmuVars, guest, want, hintReg>>

FillInit ==
    /\ Init
    /\ guest = "kernel"
    /\ want = None
    /\ hintReg = <<0, {}>>

(* The program issues an access; nothing in the MMU changes yet.            *)
Issue(v) ==
    /\ guest = "program"
    /\ want = None
    /\ ~halted
    /\ want' = v
    /\ UNCHANGED <<mmuVars, guest, hintReg>>

(* The access finds its page, in the processor's cache or in the tables.    *)
Complete ==
    /\ guest = "program"
    /\ want # None
    /\ ~halted
    /\ CachedFor(0, want) # {} \/ Walk(0, want) # Unmapped
    /\ want' = None
    /\ UNCHANGED <<mmuVars, guest, hintReg>>

Miss ==
    /\ guest = "program"
    /\ want # None
    /\ PageFault(0, want)
    /\ guest' = "readHint"
    /\ UNCHANGED <<want, hintReg>>

ReadHint ==
    /\ guest = "readHint"
    /\ hintReg' = <<HintIndex, HintSets>>
    /\ guest' = "writeIndex"
    /\ UNCHANGED <<mmuVars, want>>

SelectEntry ==
    /\ guest = "writeIndex"
    /\ WriteTlbIndex(hintReg[1], hintReg[2])
    /\ guest' = "writeRpn"
    /\ UNCHANGED <<want, hintReg>>

FillRpn ==
    /\ guest = "writeRpn"
    /\ WriteTlbRpn(PageTable[want])
    /\ guest' = "writeVpn"
    /\ UNCHANGED <<want, hintReg>>

FillVpn ==
    /\ guest = "writeVpn"
    /\ WriteTlbVpn(Vpn(want))
    /\ guest' = "kernel"
    /\ UNCHANGED <<want, hintReg>>

(* rfid to the program, and a system call back into the kernel.             *)
Return ==
    /\ guest = "kernel"
    /\ SetMsr(TRUE, TRUE)
    /\ guest' = "program"
    /\ UNCHANGED <<want, hintReg>>

Syscall ==
    /\ guest = "program"
    /\ want = None
    /\ SetMsr(FALSE, FALSE)
    /\ guest' = "kernel"
    /\ UNCHANGED <<want, hintReg>>

(* The x86 processor's own steps.                                           *)
Processor ==
    /\ \E w \in Windows, v \in Pages : CacheFill(w, v) \/ CacheEvict(w, v)
    /\ UNCHANGED <<guest, want, hintReg>>

GuestStep ==
    \/ Complete \/ Miss
    \/ ReadHint \/ SelectEntry \/ FillRpn \/ FillVpn
    \/ Return

FillNext ==
    \/ \E v \in Pages : Issue(v)
    \/ GuestStep
    \/ Syscall
    \/ Processor

FillSpec == FillInit /\ [][FillNext]_fillVars

(* The virtual CPU keeps executing the guest's instructions; nothing makes  *)
(* the program issue an access or the x86 processor cache or drop an entry. *)
FairFillSpec == FillSpec /\ WF_fillVars(GuestStep)
-----------------------------------------------------------------------------
Handler == {"readHint", "writeIndex", "writeRpn", "writeVpn"}

(* The MMU stays well-formed under the handler, the hint it carries names   *)
(* an entry of the TLB, and the handler runs for a page only.               *)
FillTypeOK ==
    /\ TypeOK
    /\ guest \in {"kernel", "program"} \union Handler
    /\ want \in Pages \union {None}
    /\ hintReg \in Indexes \X SUBSET Sets
    /\ guest \in Handler => want # None

(* No page is ever reached through an out-of-date translation, although     *)
(* Map16MPage and the register writes flush nothing: what the processor has *)
(* cached is what a walk of the tables would find now.                      *)
NoStaleTranslation == \A c \in cached : c.frame = Walk(c.window, c.page)

(* The relocated address space shows, page for page, what the guest's page  *)
(* table says: the rpn written before the vpn is the one that gets mapped.  *)
MapsGuestPageTable ==
    \A v \in Pages : ir32Pml2s[v] \in {Unmapped, GetVmmPhysForXenonPhys(PageTable[v])}

(* No page takes two TLB entries: a page that was filled never misses again.*)
NoDuplicateEntries ==
    \A i, j \in Indexes, s, t \in Sets :
        /\ IsValid(tlbEntries[i][s])
        /\ tlbEntries[i][s].vpn = tlbEntries[j][t].vpn
        => <<i, s>> = <<j, t>>

(* While the handler works the hint leads it to an entry that is free, so   *)
(* SetNewVpn's check for rewriting a valid entry never stops the machine:   *)
(* entries are never freed, but there are more of them than pages.          *)
NeverRewritesValidEntry == ~halted

(* Every access a program issues completes: a miss is served and retried,   *)
(* and the retry does not miss again forever.                               *)
AccessCompletes == \A v \in Pages : want = v ~> want = None
=============================================================================
