---------------------------- MODULE HostMachine ----------------------------
(***************************************************************************)
(* The host program: the subsystems of a MachineContext are initialised    *)
(* phase by phase in the order they registered, an executable is loaded,   *)
(* and KvmContext::Run runs the guest and answers its exits.  Any          *)
(* allocation, file, ioctl or KVM_RUN may fail.                            *)
(***************************************************************************)
EXTENDS HostMemory

CONSTANTS
    Order,                    \* the subsystems as they registered
    KernelElfs, GuestElfs,    \* files that crossvmm.bin and, per console, the path may be
    GdtAt, ContextAt,         \* INITIAL_GDT_LOCATION and PER_THREAD_START
    EntryAt, StackAt,         \* where the kernel starts, and its first stack
    GuestAddrs,               \* addresses the kernel maps for the guest, per console
    MaxStores                 \* bound on the guest's stores

Subsystems == {"CrossVmm", "VmmMemory", "NativeMemory"}

ASSUME OrderAssumption ==
    /\ Order \in [1 .. 3 -> Subsystems]
    /\ \A s \in Subsystems : \E k \in 1 .. 3 : Order[k] = s
    /\ \A j, k \in 1 .. 3 : Order[j] = Order[k] => j = k

ASSUME WramAssumption ==
    /\ GdtAt \in 0 .. Bytes["WRAM"] - 1
    /\ ContextAt \in 0 .. Bytes["WRAM"] - 1

ASSUME MaxStoresAssumption == MaxStores \in Nat

(* The kernel maps nothing of region 0 but its work RAM.                    *)
ASSUME GuestAddrsAssumption ==
    \A p \in Platforms : \A addr \in GuestAddrs[p] :
        /\ addr \in (0 .. 2) \X Nat
        /\ addr[1] = 0 => addr[2] < Bytes["WRAM"]

Segments ==
    [load : BOOLEAN, offset : Nat, paddr : Nat \X Nat, filesz : Nat]
Elfs == [is : {"whole", "cut", "missing", "noPath"}, size : Nat, segs : Seq(Segments), entry : Nat]

ASSUME ElfsAssumption ==
    /\ KernelElfs \subseteq Elfs
    /\ \A p \in Platforms : GuestElfs[p] \subseteq Elfs
    /\ \A p \in Platforms : \A e \in KernelElfs \union GuestElfs[p] :
          e.is # "whole" => e.segs = <<>>

VARIABLES
    platform,                \* the MachineContext that main constructed
    kernel, exe,             \* the two files
    status,                  \* "init", "load", "run", or how the program ended
    phase, turn,             \* InitPhase and position in the list of subsystems
    mem,                     \* the host's memories
    vmmEntries, nativeEntries,   \* memoryEntries of the two memory subsystems
    slots, regs,             \* the VM's memory slots and its processor's registers
    job,                     \* the word an ElfLoader copies next
    exit,                    \* the VM exit the run loop has to answer
    stores,                  \* stores the guest has made
    bus                      \* history: the memories the guest should see

files == <<platform, kernel, exe>>
vars == <<platform, kernel, exe, status, phase, turn, mem, vmmEntries, nativeEntries, slots, regs,
          job, exit, stores, bus>>

NoJob == [file |-> "none", seg |-> 1, i |-> 0]
NoExit == [kind |-> "none"]
NoRegs == [rip |-> 0, rsp |-> 0, gdt |-> 0]

Ended == {"exited", "failed", "aborted", "wild"}

Init ==
    /\ platform \in Platforms
    /\ kernel \in KernelElfs
    /\ exe \in GuestElfs[platform]
    /\ status = "init"
    /\ phase = 0 /\ turn = 1
    /\ mem = [a \in Memories |-> Null]
    /\ vmmEntries = <<>> /\ nativeEntries = <<>> /\ slots = <<>>
    /\ regs = NoRegs
    /\ job = NoJob
    /\ exit = NoExit
    /\ stores = 0
    /\ bus = mem

(* sys::Exception reaches main, which returns 1.                            *)
Fail ==
    /\ status' = "failed"
    /\ UNCHANGED <<files, phase, turn, mem, vmmEntries, nativeEntries, slots, regs, job, exit,
                   stores, bus>>
-----------------------------------------------------------------------------
(* MachineContext::Init: the next subsystem, then the next phase.           *)
Turn(sub, ph) == status = "init" /\ phase = ph /\ Order[turn] = sub /\ job = NoJob

Advance_Bug ==              \* the phase goes on, the list is not begun again
    /\ turn' = turn + 1
    /\ phase' = IF turn < 3 THEN phase ELSE phase + 1
    /\ status' = IF turn = 3 /\ phase = 2 THEN "load" ELSE "init"

Advance ==
    /\ turn' = IF turn < 3 THEN turn + 1 ELSE 1
    /\ phase' = IF turn < 3 THEN phase ELSE phase + 1
    /\ status' = IF turn = 3 /\ phase = 2 THEN "load" ELSE "init"

Allocated(as) == [a \in Memories |-> IF a \in as THEN Contents(a) ELSE mem[a]]

NativeSet(p) == {Native(p)[i] : i \in DOMAIN Native(p)}

AllocateVmm ==
    /\ Turn("VmmMemory", 0)
    /\ \/ /\ mem' = [mem EXCEPT !["WRAM"] = Contents("WRAM")]
          /\ vmmEntries' = Append(vmmEntries, Entry("WRAM"))
          /\ Advance
          /\ UNCHANGED <<files, nativeEntries, slots, regs, job, exit, stores, bus>>
       \/ Fail

(* Mutant: the console allocates a phase later, after its entries are read. *)
AllocateNative_Bug ==
    \/ /\ Turn("NativeMemory", 0)
       /\ Advance
       /\ UNCHANGED <<files, mem, vmmEntries, nativeEntries, slots, regs, job, exit, stores, bus>>
    \/ /\ Turn("NativeMemory", 1)
       /\ mem' = Allocated(NativeSet(platform))
       /\ nativeEntries' = [i \in DOMAIN Native(platform) |-> Entry(Native(platform)[i])]
       /\ Advance
       /\ UNCHANGED <<files, vmmEntries, slots, regs, job, exit, stores, bus>>

(* The console's memories and, where it has one, its ROM file; the PS3 has  *)
(* nothing that could fail.                                                 *)
AllocateNative ==
    /\ Turn("NativeMemory", 0)
    /\ \/ /\ mem' = Allocated(NativeSet(platform))
          /\ nativeEntries' = [i \in DOMAIN Native(platform) |-> Entry(Native(platform)[i])]
          /\ Advance
          /\ UNCHANGED <<files, vmmEntries, slots, regs, job, exit, stores, bus>>
       \/ platform # "PS3" /\ Fail

(* CrossVmmPhysicalMemory takes over the console's entries.                 *)
CopyEntries ==
    /\ Turn("VmmMemory", 1)
    /\ vmmEntries' = vmmEntries \o nativeEntries
    /\ Advance
    /\ UNCHANGED <<files, mem, nativeEntries, slots, regs, job, exit, stores, bus>>

(* ElfLoader::Load: the headers are read before anything is copied.         *)
StartJob(file, elf) ==
    IF elf.is = "whole"
      THEN /\ job' = [NoJob EXCEPT !.file = file]
           /\ UNCHANGED status
      ELSE status' = "failed" /\ UNCHANGED job

LoadKernel ==
    /\ Turn("CrossVmm", 1)
    /\ StartJob("crossvmm.bin", kernel)
    /\ UNCHANGED <<files, phase, turn, mem, vmmEntries, nativeEntries, slots, regs, exit,
                   stores, bus>>

Overlap(s, t) ==
    /\ s.region = t.region
    /\ s.offset < t.offset + t.size /\ t.offset < s.offset + s.size

(* KVM refuses a slot over another one.                                     *)
KvmAccepts(entries) ==
    \A i, j \in DOMAIN entries : i # j => ~Overlap(entries[i], entries[j])

(* KvmContext::SetupMemory: slots have no flags, for ROMs neither.          *)
Slot(e) == [alloc |-> e.alloc, region |-> e.region, offset |-> e.offset, size |-> e.size]
SetupMemory(entries) == [i \in DOMAIN entries |-> Slot(entries[i])]

(* SetupRegisters: flat protected mode without paging.                      *)
SetupRegisters == [rip |-> EntryAt, rsp |-> StackAt, gdt |-> GdtAt]

(* KvmContext::Init: the VM and its processor, the GDT, one slot for every  *)
(* entry, and the registers.                                                *)
InitKvm ==
    /\ Turn("CrossVmm", 2)
    /\ LET gdt == WritePhys8(mem, <<0, GdtAt>>, <<"gdt", 0, FALSE>>)
       IN  \/ /\ gdt.end = "none" /\ KvmAccepts(vmmEntries)
              /\ mem' = gdt.mem
              /\ slots' = SetupMemory(vmmEntries)
              /\ regs' = SetupRegisters
              /\ Advance
              /\ UNCHANGED <<files, vmmEntries, nativeEntries, job, exit, stores, bus>>
           \/ /\ status' \in {"failed", gdt.end} \ {"none"}
              /\ UNCHANGED <<files, phase, turn, mem, vmmEntries, nativeEntries, slots, regs,
                             job, exit, stores, bus>>

(* The phases a subsystem has nothing to do in.                             *)
SkipPhase ==
    /\ \/ Turn("CrossVmm", 0) \/ Turn("VmmMemory", 2)
       \/ Turn("NativeMemory", 1) \/ Turn("NativeMemory", 2)
    /\ Advance
    /\ UNCHANGED <<files, mem, vmmEntries, nativeEntries, slots, regs, job, exit, stores, bus>>
-----------------------------------------------------------------------------
(* One turn of ElfLoader::Load's loops.                                     *)
Elf == IF job.file = "crossvmm.bin" THEN kernel ELSE exe
Segment == Elf.segs[job.seg]
Copying == status \in {"init", "load"} /\ job.file # "none" /\ job.seg <= Len(Elf.segs)

(* Mutant: the word a segment ends in is left out.                          *)
MoreWords_Bug == Segment.load /\ job.i + 4 <= Segment.filesz

MoreWords == Segment.load /\ job.i < Segment.filesz

(* Consoles with big-endian executables; crossvmm.bin is little endian.     *)
Swapped(p) == p \in {"XENON", "WII"}

WriteWord(addr, v) ==
    IF job.file = "crossvmm.bin" THEN WritePhys32(platform, mem, addr, v)
                                 ELSE LoaderWrite32(platform, mem, addr, v)

(* Read a word, which throws at the end of the file, and write it.          *)
CopyWord ==
    /\ Copying /\ MoreWords
    /\ LET at == Segment.offset + job.i
           o == WriteWord(<<Segment.paddr[1], Segment.paddr[2] + job.i>>,
                   FileWord(job.file, at, job.file = "exe" /\ Swapped(platform)))
       IN  IF at + 4 <= Elf.size
             THEN IF o.end = "none"
                    THEN mem' = o.mem /\ job' = [job EXCEPT !.i = @ + 4] /\ UNCHANGED status
                    ELSE status' = o.end /\ UNCHANGED <<mem, job>>
             ELSE status' = "failed" /\ UNCHANGED <<mem, job>>
    /\ UNCHANGED <<files, phase, turn, vmmEntries, nativeEntries, slots, regs, exit, stores, bus>>

(* Mutant: the loop starts the segment again.                               *)
NextSegment_Bug ==
    /\ Copying /\ ~MoreWords
    /\ job' = [job EXCEPT !.i = 0]
    /\ UNCHANGED <<files, status, phase, turn, mem, vmmEntries, nativeEntries, slots, regs, exit,
                   stores, bus>>

NextSegment ==
    /\ Copying /\ ~MoreWords
    /\ job' = [job EXCEPT !.seg = @ + 1, !.i = 0]
    /\ UNCHANGED <<files, status, phase, turn, mem, vmmEntries, nativeEntries, slots, regs, exit,
                   stores, bus>>

Copied(file) ==
    status \in {"init", "load"} /\ job.file = file /\ job.seg > Len(Elf.segs)

KernelLoaded ==
    /\ Copied("crossvmm.bin")
    /\ job' = NoJob
    /\ Advance
    /\ UNCHANGED <<files, mem, vmmEntries, nativeEntries, slots, regs, exit, stores, bus>>
-----------------------------------------------------------------------------
(* The context of the guest's CPU: the type the kernel dispatches on and    *)
(* the entry point.                                                         *)
Context(p, pc) == <<p, pc, FALSE>>
PutContext(pc) == Put(mem, "WRAM", ContextAt, Context(platform, pc))

BiosEntry == 5      \* 0xA0000000, as a window
NoEntry == 0

StartRun(pc) ==
    LET o == PutContext(pc)
    IN  /\ status' = IF o.end = "none" THEN "run" ELSE o.end
        /\ mem' = o.mem
        /\ bus' = o.mem
        /\ job' = NoJob

(* MachineContext::Load of the console, up to the ELF loader.  Without a    *)
(* path the Dreamcast starts its BIOS; the PS3's only throws.               *)
LoadExe ==
    /\ status = "load" /\ job = NoJob
    /\ platform # "PS3"
    /\ IF exe.is = "noPath" /\ platform = "DC"
         THEN StartRun(BiosEntry)
         ELSE LET o == PutContext(NoEntry)
              IN  /\ mem' = o.mem
                  /\ IF o.end = "none" THEN StartJob("exe", exe)
                                       ELSE status' = o.end /\ UNCHANGED job
                  /\ UNCHANGED bus
    /\ UNCHANGED <<files, phase, turn, vmmEntries, nativeEntries, slots, regs, exit, stores>>

LoadPs3 ==
    /\ status = "load"
    /\ platform = "PS3"
    /\ Fail

ExeLoaded ==
    /\ Copied("exe")
    /\ StartRun(exe.entry)
    /\ UNCHANGED <<files, phase, turn, vmmEntries, nativeEntries, slots, regs, exit, stores>>
-----------------------------------------------------------------------------
(* The guest runs inside KVM_RUN: an access that a slot covers goes to the  *)
(* host memory behind it, any other is an MMIO exit.                        *)
Running == status = "run" /\ exit = NoExit

InSlot(s, addr) == addr[1] = s.region /\ s.offset <= addr[2] /\ addr[2] < s.offset + s.size
Covering(addr) == {i \in DOMAIN slots : InSlot(slots[i], addr)}

Mmio(write, len, addr, v) ==
    [kind |-> "mmio", write |-> write, len |-> len, addr |-> addr, value |-> v]

Lengths == {1, 2, 4, 8}

GuestStore(addr, len) ==
    /\ Running
    /\ stores < MaxStores
    /\ stores' = stores + 1
    /\ LET v == <<"guest", stores', FALSE>>
           p == Place(platform, addr)
       IN  /\ IF Covering(addr) # {}
                THEN LET s == slots[CHOOSE i \in Covering(addr) : TRUE]
                     IN  /\ mem' = Put(mem, s.alloc, addr[2] - s.offset, v).mem
                         /\ UNCHANGED exit
                ELSE /\ exit' = Mmio(TRUE, len, addr, v)
                     /\ UNCHANGED mem
           /\ bus' = IF p = Nowhere THEN bus ELSE [bus EXCEPT ![p[1]][p[2]] = v]
    /\ UNCHANGED <<files, status, phase, turn, vmmEntries, nativeEntries, slots, regs, job>>

GuestLoad(addr, len) ==
    /\ Running
    /\ Covering(addr) = {}
    /\ exit' = Mmio(FALSE, len, addr, Junk)
    /\ UNCHANGED <<files, status, phase, turn, mem, vmmEntries, nativeEntries, slots, regs, job,
                   stores, bus>>

(* The kernel's hyper_quit (0) and hyper_putc (1), and calls nobody makes.  *)
GuestHypercall(rdi) ==
    /\ Running
    /\ exit' = [kind |-> "io", rdi |-> rdi]
    /\ UNCHANGED <<files, status, phase, turn, mem, vmmEntries, nativeEntries, slots, regs, job,
                   stores, bus>>

(* FAIL_ENTRY, INTERNAL_ERROR, or a reason the loop does not know, as HLT.  *)
GuestStops ==
    /\ Running
    /\ exit' = [kind |-> "other"]
    /\ UNCHANGED <<files, status, phase, turn, mem, vmmEntries, nativeEntries, slots, regs, job,
                   stores, bus>>

(* KVM_RUN itself fails, on a signal for one.                               *)
KvmRunFails == Running /\ Fail

(* Mutant: the case of a quit falls through without stopping the loop.      *)
ProcessHypercall_Bug ==
    /\ status = "run" /\ exit.kind = "io"
    /\ \/ exit' = NoExit /\ UNCHANGED status
       \/ status' = "failed" /\ UNCHANGED exit
    /\ UNCHANGED <<files, phase, turn, mem, vmmEntries, nativeEntries, slots, regs, job,
                   stores, bus>>

(* ProcessHypercall reads and writes the registers, and either may fail.    *)
ProcessHypercall ==
    /\ status = "run" /\ exit.kind = "io"
    /\ \/ /\ status' = IF exit.rdi = 0 THEN "exited" ELSE status
          /\ exit' = NoExit
       \/ status' = "failed" /\ UNCHANGED exit
    /\ UNCHANGED <<files, phase, turn, mem, vmmEntries, nativeEntries, slots, regs, job,
                   stores, bus>>

(* What the run loop makes of an MMIO exit.                                 *)
Answer(e) ==
    CASE e.write /\ e.len = 2 -> WritePhys16(platform, mem, e.addr)
      [] e.write /\ e.len = 4 -> WritePhys32(platform, mem, e.addr, e.value)
      [] ~e.write /\ e.len = 4 -> ReadPhys32(platform, mem, e.addr)
      [] OTHER -> Throws(mem)

AnswerMmio ==
    /\ status = "run" /\ exit.kind = "mmio"
    /\ LET o == Answer(exit)
       IN  /\ mem' = o.mem
           /\ status' = IF o.end = "none" THEN status ELSE o.end
           /\ exit' = IF o.end = "none" THEN NoExit ELSE exit
    /\ UNCHANGED <<files, phase, turn, vmmEntries, nativeEntries, slots, regs, job, stores, bus>>

OtherExit ==
    /\ status = "run" /\ exit.kind = "other"
    /\ Fail
-----------------------------------------------------------------------------
HostInit ==
    \/ AllocateVmm \/ AllocateNative \/ CopyEntries \/ LoadKernel \/ InitKvm \/ SkipPhase
    \/ KernelLoaded

HostLoad == LoadExe \/ LoadPs3 \/ ExeLoaded \/ CopyWord \/ NextSegment

HostRun == ProcessHypercall \/ AnswerMmio \/ OtherExit

Guest ==
    \/ \E addr \in GuestAddrs[platform], len \in Lengths :
          GuestStore(addr, len) \/ GuestLoad(addr, len)
    \/ \E rdi \in 0 .. 2 : GuestHypercall(rdi)
    \/ GuestStops
    \/ KvmRunFails

Host == HostInit \/ HostLoad \/ HostRun

Next == Host \/ Guest

(* The host program is one thread that always has its next statement to     *)
(* execute; nothing is assumed of the guest or of KVM.                      *)
Spec == Init /\ [][Next]_vars /\ WF_vars(Host)
-----------------------------------------------------------------------------
TypeOK ==
    /\ platform \in Platforms /\ kernel \in KernelElfs /\ exe \in GuestElfs[platform]
    /\ status \in {"init", "load", "run"} \union Ended
    /\ phase \in 0 .. 3 /\ turn \in 1 .. 3
    /\ \A a \in Memories : mem[a] = Null \/ DOMAIN mem[a] = 0 .. Bytes[a] \div 4 - 1
    /\ job.file \in {"none", "crossvmm.bin", "exe"} /\ job.seg \in Nat \ {0} /\ job.i \in Nat
    /\ exit.kind \in {"none", "mmio", "io", "other"}
    /\ stores \in 0 .. MaxStores

(* The host never goes through a pointer that nobody has assigned, nor past *)
(* the end of a memory: not while the subsystems come up in phases, not     *)
(* when a file is loaded wherever its headers say, and not for a 16-bit     *)
(* MMIO write, whose pointer into the work RAM is never assigned.           *)
StaysInside == status # "wild"

(* When the guest runs every memory of the console and the work RAM has     *)
(* exactly one slot, backed by all of an allocated memory: the phases have  *)
(* met the order that CrossVmm::Init and CrossVmmPhysicalMemory::Init       *)
(* depend on.                                                               *)
SlotsCoverMemory ==
    status = "run" =>
        /\ \A a \in NativeSet(platform) \union {"WRAM"} :
              \E i \in DOMAIN slots : /\ slots[i] = Slot(Entry(a))
                                      /\ \A j \in DOMAIN slots \ {i} : slots[j].alloc # a
        /\ \A i \in DOMAIN slots : DOMAIN mem[slots[i].alloc] = 0 .. slots[i].size \div 4 - 1
        /\ \A i, j \in DOMAIN slots : i # j => ~Overlap(slots[i], slots[j])

(* Where word i of a segment belongs: a Xenon program's view 2 is the SoC.  *)
RegionOf(file, s) ==
    CASE file # "exe" -> s.paddr[1]
      [] file = "exe" /\ platform = "XENON" /\ s.paddr[1] = 2 -> 2
      [] OTHER -> 1
Home(file, s, i) == Place(platform, <<RegionOf(file, s), s.paddr[2] + i>>)
Steps(s) == {i \in 0 .. s.filesz - 1 : i % 4 = 0 /\ s.load}

(* The words a file brings, as pairs of place and word.                     *)
Image(file, elf) ==
    UNION {{<<Home(file, elf.segs[k], i),
              FileWord(file, elf.segs[k].offset + i, file = "exe" /\ Swapped(platform))>> :
                i \in Steps(elf.segs[k])} : k \in DOMAIN elf.segs}

Fixed == {<<<<"WRAM", GdtAt \div 4>>, <<"gdt", 0, FALSE>>>>,
          <<<<"WRAM", ContextAt \div 4>>,
             Context(platform, IF exe.is = "noPath" THEN BiosEntry ELSE exe.entry)>>}
Loaded == Image("crossvmm.bin", kernel) \union Image("exe", exe) \union Fixed

(* Files the linkers of the kernel and of a console's programs produce:     *)
(* aligned, no two words at one place, and the kernel in the work RAM, with *)
(* a word where the host starts it.                                         *)
WellFormed ==
    /\ \A f \in {kernel, exe} : \A k \in DOMAIN f.segs : f.segs[k].paddr[2] % 4 = 0
    /\ \A x, y \in Loaded : x[1] = y[1] /\ x[1] # Nowhere => x = y
    /\ \A k \in DOMAIN kernel.segs : kernel.segs[k].load => kernel.segs[k].paddr[1] = 0
    /\ \E x \in Image("crossvmm.bin", kernel) : x[1] = <<"WRAM", EntryAt \div 4>>

(* The guest starts with all of both files, the GDT and its context in      *)
(* place, and with every other word of memory as it was allocated: no word  *)
(* is lost at a segment's end, none beside a segment is touched, and the    *)
(* registers lead to the kernel and to the GDT.                             *)
ElfIntact ==
    (status = "run" /\ stores = 0 /\ WellFormed) =>
        /\ \A a \in NativeSet(platform) \union {"WRAM"} : \A i \in DOMAIN mem[a] :
              IF \E x \in Loaded : x[1] = <<a, i>>
                THEN <<<<a, i>>, mem[a][i]>> \in Loaded
                ELSE mem[a][i] = Contents(a)[i]
        /\ mem["WRAM"][regs.rip \div 4][1] = "crossvmm.bin"
        /\ mem["WRAM"][regs.gdt \div 4][1] = "gdt"

(* The guest sees one memory: whichever way its stores go, through a slot   *)
(* or as an MMIO exit to one of the DRAM's mirrors, each is at its place on *)
(* the console's map when the guest goes on, and nothing else has changed.  *)
(* (The slots of ROMs are writable, and so are the ROMs here.)              *)
OneMemory == Running => mem = bus

(* Initialisation and loading come to an end, whatever the files say: the   *)
(* guest runs or the program has ended.                                     *)
BootEnds == <>(status \notin {"init", "load"})

(* A guest that calls hyper_quit is not run again: the program ends.        *)
QuitEnds == (exit.kind = "io" /\ exit.rdi = 0) ~> status \in {"exited", "failed"}
=============================================================================
