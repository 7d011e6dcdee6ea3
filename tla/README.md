# A verification of gen7

gen7 emulates game consoles (Xbox 360 "Xenon", Wii "Gekko", Dreamcast
"SH-4A"). A host process creates a KVM virtual machine and loads into it a
small kernel, the VMM. The kernel sets up x86 page tables that show the
console's address space and then interprets the console's instructions, with
the x86 page tables doing the address translation of every guest access.

These modules model the host process, from the construction of its machine to
the run loop, and the kernel, from its boot to its interpreters. The TLC
configurations check them on small instances, and the eight `_proofs` modules
prove the main results for every size. All paths below are under `src/src/`;
`vmm/` is `crossvmm/vmm/` and `jitpp/` is `libjitpp/`.

## 1. Inventory

| Component | State | Operations | Interacts through |
|---|---|---|---|
| VMM boot, memory manager (`vmm/Main.cpp`, `MemoryManager.cpp`) | page heap and its allocation map, PML4, upper PML3, lower-half handler | `Init`, `AllocatePage`, `SetPml2Page`, `SetLowerPml3`, `OnPageFault` | called by every component of the kernel |
| Real-memory maps (`vmm/*RealMemory.cpp`) | PML2 tables of RAM and SoC | `MapUpperRealSpace`, `GetVmmPhysForXenonPhys` | memory manager; PowerPC MMU |
| Interrupt manager (`vmm/InterruptManager.cpp`, `Isr.asm`) | IDT | `Init`, dispatch of page faults | memory manager |
| PowerPC software TLB (`PpcCpu::MmuContext`) | `tlbEntries`, selected row and sets, hint, relocated tables | writes of four special registers, `SetMsr` | guest, x86 TLB, page tables |
| PowerPC interpreter (`vmm/PpcCpu.cpp`, `CpuInterpreter.h`) | `XenonCpuContext`, intermediates in progress, saved context | fetch, build, interpret, fault and restart | page faults, MMU |
| Translation to intermediates (`jitpp/…/PowerPCIntermediateBuilder.cpp`) | none | one builder per opcode | interpreter |
| SH-4A interpreter (`vmm/Sh4aCpu.cpp`) | registers and banks, delay state, store queues, P4 registers | one case per opcode, `SetSR`, emulation of P4 accesses | page faults, memory manager |
| Gekko interpreter (`vmm/GekkoCpu.cpp`, `jitpp/…/PowerPCDecoder.cpp`, `GekkoTranslator.cpp`, `CommonOpInterpreter.h`) | context, common operations | decode, translate, interpret, report | memory manager |
| Host machine (`host/MachineContext.cpp`, `Subsystem.cpp`, `CrossVmm.cpp`) | registered subsystems | phased initialisation, loading, run | all host parts |
| Host physical memory (`host/*/…PhysicalMemory.cpp`) | memory entries, regions, device registers | typed reads and writes | KVM run loop |
| KVM virtual machine (`host/crossvmm/KvmContext.cpp`) | memory slots, virtual CPU | run loop, MMIO, hypercalls | kernel, physical memory |
| ELF loader (`host/ElfLoader.cpp`) | none | read headers, copy segments | files, physical memory |
| Host system layer (`host/sys/`, `cli-frontend/Main.cpp`) | none | files, allocation, exceptions, choice of the machine | host machine |
| Disassembler, printf, tools, stubs (PS3, Xenos, librast) | | | |

What is hard here, and what correctness means:

- **Boot** happens in stages that take address spaces away and add others.
  No allocation is checked, addresses become table indexes by shifting, and
  the tables that carry the kernel itself are among those written. Correct:
  no table is shared, the kernel's window survives, a failed allocation does
  not write memory, and the guest starts in the right address space.
- **The software TLB** is filled by several guest writes that other steps (a
  switch of address space, the x86 processor caching or dropping a
  translation) can fall between, is never flushed and never gives an entry
  back. Correct: x86 tables, TLB registers and cached translations agree, the
  hint never leads to an entry in use, every access completes.
- **The PowerPC interpreter** executes an instruction as up to four
  intermediates, any of which can fault; the handler then goes back, as if by
  `longjmp`, into a function half-way through another iteration. Correct:
  interrupts are precise and no instruction faults forever.
- **The SH-4A interpreter** has delayed branches, two banks of registers that
  exchange places, and accesses that fault in the interpreter's own machine
  code and are emulated there. Correct: it is a processor with a `pc` and an
  `npc` and two banks.
- **The PowerPC translation** turns every instruction into intermediates that
  were written for something else: rotates from shifts, loads from host words,
  carries from comparisons. Correct: the result is what the architecture says,
  and what can fail or fault comes before what changes a register.
- **The Gekko interpreter** advances the pc before it executes, and also when it
  could not translate. Correct: branches, links and failure reports are about
  the address of their own instruction.
- **The host** initialises subsystems in phases, in the order they happened to
  register, with three dependencies between them; files, allocations and ioctls
  can fail at any point; memory is reached through slots, MMIO exits and the ELF
  loader, each with an address decoder of its own. Correct: whatever fails, no
  access leaves its memory; a guest that runs finds both files, its context and
  one memory behind every address; boot and `hyper_quit` end.

The full list of hazards with their lines is in `PROJECT.json`, with the
properties that cover each, or a note where none does yet.

## 2. Modules

| Module | Models | Role |
|---|---|---|
| `VmmBoot` | `kmain` up to `Execute`, with memory manager, interrupt manager, real memories, `Init` and `MapFull` of the three CPUs | component, composed |
| `PpcMmu` | `PpcCpu::MmuContext`, `SetMsr`, the x86 TLB | component; guest free |
| `PpcTlbFill` | `PpcMmu` with the guest's miss handler | composition |
| `PpcWords` | words, registers, vectors of the PowerPC modules | vocabulary |
| `PpcArch` | the architecture: instructions and interrupts are indivisible | abstract specification |
| `PpcCpu` | `PpcCpu::Execute`, `CpuInterpreter`, the intermediate builder | implements `PpcArch` |
| `Sh4aOps` | what SH-4A instructions compute; the address space | vocabulary |
| `Sh4aArch` | a processor with `pc`, `npc` and two register banks | abstract specification |
| `Sh4aCpu` | `Sh4aCpu::Execute`, `SetSR`, the fault handler | implements `Sh4aArch` |
| `PpcOps` | fields, bit operations and the builder of every instruction | vocabulary |
| `PpcInterp` | `CpuInterpreter` executing them, without faults | component |
| `PpcBook` | what the architecture says of each instruction | reference definition |
| `GekkoOps` | words, windows and instructions of the Gekko | vocabulary |
| `GekkoArch` | an instruction is one step; one not implemented stops | abstract specification |
| `GekkoCpu` | decoder, translator, common operations, `GekkoCpu::Execute` | implements `GekkoArch` |
| `HostMemory` | the host's memories and the ways into them | vocabulary |
| `HostMachine` | `MachineContext`, the subsystems, `ElfLoader`, `KvmContext` | component, composed |
| `VmmBoot_proofs`, `PpcMmu_proofs`, `PpcTlbFill_proofs`, `PpcCpu_proofs`, `PpcBook_proofs`, `Sh4aCpu_proofs`, `GekkoCpu_proofs`, `HostMachine_proofs` | | theorems |

`MC…` modules give constants to TLC. An operator whose name ends in `_Bug` is
a plausible mistake in the definition that follows it; nothing uses it but
the check that the properties notice the mistake.

### How state and actions correspond

`VmmBoot`. `page` holds every table pointer of the kernel's objects,
`content` the four quarters of each table page, `allocated` the heap's map,
`pml4` and `higherPml3` the two roots. Every call is an action, in the order of
`kmain`; `NullWrite` is what a table filled through `nullptr` does: it faults
if nothing is mapped at 0, into `MemoryManager::OnPageFault` or, before the
IDT is loaded, into a triple fault. Physical memory is counted in quarters of
a GiB, the largest unit in which every table is uniform.

`PpcMmu`. One action per register write. A page of 16 MiB stands for the eight
PML2 entries `Map16MPage` writes together. `cached` is the x86 processor's own
TLB: it may load any translation the tables hold and drop any at any moment,
and only `SetLowerPml3` (a reload of CR3) empties it. `halted` is
`hyper_quit`.

`PpcTlbFill`. The guest's handler is not part of the repository. Its order
(hint, index, rpn, vpn) is the one the register handlers require, since
`SetNewVpn` maps with the rpn already in the entry. The module states the
other things it assumes: the guest's page table does not change, and only
the kernel, in real mode, touches the TLB.

`PpcCpu`. `intermediates` is what is left of the instruction in progress;
`Fetch`, each `Interpret…` action and `DataFault` are one turn of the inner
loop. `PageFault` is the second return of `getmcontext` and the interrupt it
builds. `start` is a history variable with the context at the fetch. The
instructions are those with memory accesses, several intermediates or
branches, in fifteen kinds, one of them unknown; a register is two words of `W`
values, so that the difference between 32-bit and 64-bit mode is kept.

`Sh4aCpu`. One turn of the loop per step: the case of the opcode, then
`EndTurn`. `gpr_bank` is the bank that is not selected. An access to RAM is
made; one to the P4 area is made by the fault handler if it knows the register
and the x86 instruction the compiler chose (both outcomes are allowed, because
the source does not fix that choice), or ends the machine; any other ends the
machine, except that the host may drop a store. `Quit` is that end in the
middle of a turn.

`PpcOps`, `PpcInterp`, `PpcBook`. `PpcOps` has the fields of an instruction, the
bit operations of `BitOps.h` and, as one operator per opcode, the sequence of
intermediates the builder returns. `PpcInterp` executes them on a context of
registers, special registers, pc and memory; the memory is kept in the order of
the host's words (guest byte *a* is at *a* xor 3, as in the code), so that what
an access of another size or alignment reads is visible. `PpcBook` defines each
instruction a second time, from the architecture, with bits numbered from the
left, and shares no intermediate with the others. Its `Diverges` names every
case in which the code is known to differ. `start` and `previous` are history
variables. `PpcCpu` has faults and few instructions, `PpcInterp` every
instruction and no faults; `Restartable` is the bridge between the two.

`GekkoCpu`. `Fetch` decodes, translates and advances the pc; `ExecuteOp` is one
turn of the loop over the operations. `FetchFails` is the translation that
yields nothing: `DumpState` reports the pc, `DumpPosition` reads sixteen words
around it (which, at the edge of a window, ends the machine), and the pc
advances nevertheless. `at` and `before` are history variables with the pc and
the registers at the fetch.

`HostMemory`, `HostMachine`. An address is a region (or, for a loader, a window)
and an offset; a word is its origin (file and position, erased, junk, the
guest's n-th store) and whether it was swapped. `turn` and `phase` are the two
loops of `MachineContext::Init`, and each subsystem's work in a phase is an
action; any of them may throw. `job` is the word the ELF loader copies next.
`exit` is the VM exit that waits for an answer, `Guest` what happens inside
`KVM_RUN`: stores and loads at the addresses the kernel maps, hypercalls, other
exits, or a failure of `KVM_RUN` itself. `status` says how the program ended:
normally, by an exception that `main` reports, by an assertion, or "wild",
which is an access through an unassigned pointer or past a memory. `bus` is a
history variable: the memories the guest's stores should have produced.

## 3. Runs

| Run | Question | Instance | States |
|---|---|---|---|
| `vmm_boot` | Is boot right for every CPU and heap? | 4 CPU types, 15 heap sizes | 627 |
| `ppc_mmu` | Do tables and TLB agree whatever the guest writes? | 1 row of 4 sets, 2 pages, 2 windows | 219 000 |
| `ppc_tlb_fill` | Is every miss served, with no stale translation? | 4 entries, 4 pages, 2 windows | 149 000 |
| `ppc_cpu` | Are interrupts precise, does every instruction complete? | all pairs of 23 instructions, `W` = 8 | 251 000 |
| `sh4a_cpu` | Are delay slots and banks kept? | some 8 000 programs, three register files | 81 000 |
| `ppc_interp` | Does each instruction compute what the architecture says, and can it be restarted? | every instruction the translator knows; words of 8 bits, registers of 16 | 549 000 |
| `gekko_cpu` | Is an instruction one step, and is the right one reported? | all programs of three of 23 instructions at four places of a MEM1 of 24 words | 244 000 |
| `host_machine` | Does the machine come up, load and run with one memory, whatever fails? | 4 consoles, 4 kernels, some 120 executables, 2 stores | 101 000 |
| `ppc_interp_spr`, `sh4a_lds_macl`, `sh4a_lds_sr`, `sh4a_pref` | Does the code do what its own text says? | programs with the instruction in question | violated |

`vmm_boot`: `NoSharedPage` (the heap never hands out a page twice or its own
map), `HigherHalfIntact`, `NullWritesFault` (between the end of
`MemoryManager::Init` and the installation of the CPU's tables, an unchecked
`nullptr` cannot write memory), `GuestView` (page tables and
`GetVmmPhysForXenonPhys` describe one memory; the SH-4A and Gekko views alias
the same frames), `NoAllocationFails` (how many pages are enough), and that
boot then ends in `Execute`. The heap sizes surround each point where an
allocation of some CPU type first fails. `NUM_PML1S` is 2 instead of 1024 and
the page of heap information holds 12 entries, so that the rounding of the
map's size matters: it takes one page, exactly one, or more, by the heap.

`ppc_mmu`: `MappedIffValid`, `RootMatchesMsr`, `NoTranslationLeaks`,
`NothingIsRevoked`. The guest selects either of two sets, not adjacent, or both. A
set that was written alone is already valid when both are selected, so that a write
stops before the first of them or between the two, with one set written and mapped. Code that
wrote the tables behind the loop, or checked the first set only, would differ in the
second case alone, and TLC tells both from the code (`Map16MPage_Late`, `Clashes_Bug`).

`ppc_tlb_fill`: with as many pages as entries, the last miss takes the last
entry, which is the case `NeverRewritesValidEntry` is about. `AccessCompletes`
is the liveness property.

`ppc_cpu`: `InstructionsAreAtomic` is the refinement of `PpcArch`; it allows
three traces of an interrupted instruction and no others: `stwcx.` may have
cleared CR0, `lwarx` may hold its reservation, `std` may have stored its first
word. `EveryInstructionCompletes` is its liveness. All pages begin unmapped,
so each access faults once. Addresses wrap within the instance.

`sh4a_cpu`: `SlotsAndBanksAreKept` is the refinement of `Sh4aArch`. Programs
of three instructions combine every branch, every write of SR and the
instructions that make a difference visible; every other instruction runs in
front of those. The code is seen through two views, so that calls and
jumps leave and come back, and five turns are enough for call, slot, target,
return and slot. `TypeOK` includes that no value `SetSR` refuses gets into SR.
The programs leave out the two uses of `lds.l` below.

`ppc_interp`: `MeetsBook` compares registers, memory and pc after every
instruction with `PpcBook`, except in the cases `Diverges` lists; operands are
those at which carries, signs, shifts, masks and rotations change. A register is
16 bits, so that its two words differ, and a byte 2, so that a word has four.
`Restartable`: as long as an intermediate is left that may fail or that
accesses memory, nothing the guest can see has changed but the pc.

`gekko_cpu`: `InstructionsAreWhole` is the refinement of `GekkoArch`.
`ReportNamesCulprit`: the pc in a failure report is that of an instruction
without operations. `NeverFailsHalfway`: every operation the translator emits is
one the interpreter executes. Half words have 5 bits; both windows are used, so
that branches leave one for the other, run off the end of the memory, wrap
around the top of the address space and fall in front of it.

`host_machine`: `StaysInside` (no access is "wild", including the one 16-bit
write that would go through a pointer nobody assigns), `SlotsCoverMemory` (one
slot for every memory of the console and the work RAM, all of it, none
overlapping), `ElfIntact` (when the guest starts, every word of both files, the
GDT and the context are in place and nothing else has been touched),
`OneMemory` (a store through a slot and one answered as an MMIO exit to a
mirror of the DRAM meet in one memory), `BootEnds` and `QuitEnds`. Memories have
one to five words, and the files place segments at the beginning, the end and
past the end of memories, in holes and mirrors, unaligned, and in windows that
do not exist; files are missing, cut off, or absent.

### Disagreements between the code and what it says

1. `lds.l @Rm+,MACL` assigns `mach` (`vmm/Sh4aCpu.cpp:822`; the comment is at 818).
2. `lds.l @Rm+,SR` calls `SetSR` before it increments the register. When RB
   changes, the banks have been exchanged and the register of the same number
   in the other bank is incremented (lines 873 and 874).
3. `pref` looks for the store queues above `0xF0000000` (line 395), while
   `Write32` and `Read32` keep them at `0xE0000000`. A `pref` of a queue is a
   nop instead of the stop its message announces.

4. `mfspr` of SPRG0 returns CTR, and of SPRG3 SPRG2
   (`PowerPCIntermediateBuilder.cpp:201` and `:213`), while `mtspr` stores each
   in its own register (lines 251 and 263).

Modelled as they are, without a text of the repository that says otherwise:

- SH-4A: `bra` keeps eight of its twelve bits of displacement; `negc` loses
  borrows; `frchg` is not recorded in FPSCR.
- PowerPC, all of them in `Diverges`: `ldu`, `lwa` and `stdu` are executed as
  `ld` and `std`; `ld` with `ra` = 0 adds GPR0 where other loads use zero; an
  unaligned access of a word or double word mixes the bytes of two host words;
  `slw` takes its shift modulo the word size, and it and `rlwinm` keep the old
  upper word; a 64-bit `cmp` compares the lower words; compares do not copy
  the summary overflow; `srawi` sets the carry for positive words too, `subfic`
  for most operands the wrong way; `rldimi` clears its source first if it is
  also the target, and a mask that wraps is another mask; `bdnz` in 32-bit mode
  tests all of CTR; `bclr` and `bcctr` keep the two low bits of their target;
  `mtspr` of HRMOR keeps the address bits only.
- PowerPC MMU: `SetMsr` stops when IR and DR differ.
- Host: memory slots of ROMs are writable; the first word of MEM1 cannot be
  loaded; `ElfLoader` never calls `IsValid`; a segment is copied in whole words
  and what lies beyond its file size is not cleared; a Wii drops every MMIO
  store.

## 4. Fairness

Weak fairness on `Next` in `VmmBoot` and `PpcCpu`: the kernel runs on one
virtual CPU and the host's loop calls `KVM_RUN` again after every exit it
knows. In `PpcTlbFill` weak fairness holds only for what the virtual CPU
executes next (`GuestStep`). Nothing makes the program issue an access, and
nothing makes the x86 processor cache or drop a translation, so
`AccessCompletes` holds also when the processor drops what was just loaded.
`HostMachine` has weak fairness on `Host` alone: the host program is one thread
that always has its next statement to execute, and every ioctl but `KVM_RUN`
returns. Nothing is assumed of the guest, nor that `KVM_RUN` returns. No run
relies on strong fairness. `Sh4aCpu`, `PpcMmu`, `PpcInterp` and `GekkoCpu` state
no liveness.

Deadlock is checked where the system never stops (`ppc_tlb_fill`) and not
where it does: boot ends in `Execute`, `hyper_quit` halts, programs end, and so
does the host process.

## 5. Proofs

`tlapm` checks the eight `_proofs` modules with Z3, Zenon and LS4.

### The PowerPC MMU (`PpcMmu_proofs`, `PpcTlbFill_proofs`)

For every number of rows, pages, windows and every set of masks:

- `TypeCorrect`, `RootFollowsMsr`, `TablesFollowTlb` (`MappedIffValid`),
  `TranslationsAreForever` (`NothingIsRevoked`), `NoLeaks`
  (`NoTranslationLeaks`).
- `FillImplementsMmu`: the guest's protocol is one use of the MMU, so the
  above hold for it. `HandlerTypeCorrect` (`FillTypeOK`).
- `HintIsAlwaysFree` (`NeverRewritesValidEntry`), `TablesShowPageTable`
  (`MapsGuestPageTable`), `CacheIsCoherent` (`NoStaleTranslation`),
  `EntriesAreDistinct` (`NoDuplicateEntries`).

Assumptions: the named `ASSUME`s of `PpcMmu` and `PpcTlbFill`. The weighty ones
are that the relocated space has no more pages than the TLB has entries (256 and
1024 in the code), that the guest can select any single set, and that its page
table is a constant.

The argument. `MappedIffValid` is inductive with `TypeOK`, because
`WriteTlbVpn` writes the entries and the table of the same page, or neither,
whichever set it stops at. `NoTranslationLeaks` follows from `RootMatchesMsr`
and `NothingIsRevoked`: the cache is emptied at every switch, and within one
address space a mapped page stays mapped. `NeverRewritesValidEntry` is far from
inductive: that the entry the hint names is free depends on how many entries
were filled before. `FillInv` supplies that:

- `HintCarried`: between reading the hint and writing the vpn, hint, selected
  row and selected set are the same;
- `WantUnmapped`: the handler runs only in real mode and for a page that is not
  mapped;
- `RpnBeforeVpn`: the rpn is in the entry when the vpn makes it valid;
- `FilledInOrder`: with *k* pages mapped, the valid entries are the last one
  and the first *k* - 1, and the hint is the entry before the next one.

Since the page wanted is not mapped, *k* is less than the number of pages, hence
of entries, and the next one is free. `CacheIsCoherent` then holds although
`Map16MPage` flushes nothing: it is only called for a page that was not mapped,
of which the processor holds no relocated translation, and in real mode, where
the relocated tables are not in use.

### Boot (`VmmBoot_proofs`)

For every heap size, size of the heap's own map and number of page tables:
`TypeCorrect`, `PagesAreNotShared` (`NoSharedPage`), `KernelWindowStays`
(`HigherHalfIntact`), `UncheckedNullFaults` (`NullWritesFault`),
`GuestSeesItsMap` (`GuestView`), `EnoughIsEnough` (`NoAllocationFails`).

`BootInv` adds to the properties: what has been allocated follows from where
`kmain` is (`Progress`); the pages of the heap's map are never free (`Reserved`);
which upper and lower tables are installed at each point (`Upper`, `Lower`);
before the CPU's `MapFull` only tables of the real memory have contents
(`Filled`); and `Counted`: pages are taken from the end of the heap, so that the
free ones are always those between the heap's own and the last handed out. The
last one replaces an argument by cardinality, and is why enough pages are enough.

### The PowerPC interpreter (`PpcCpu_proofs`, `PpcBook_proofs`)

For every size of a word, every set of programs over `Instructions`, every
contents of the registers: `TypeCorrect` and `AtomicInstructions`, the refinement
`InstructionsAreAtomic`. The invariant `IInv` of `PpcCpu_proofs` says of an
instruction in progress that what is left of it is a suffix of what the builder
made, and that the context is the one at the fetch (`start`) after the
intermediates in front of that suffix: one of the few `Stages` an instruction
has. The guest sees `start` for as long as an instruction is in progress, so a
fetch is a stutter, the last intermediate is the instruction, and a data fault is the
interrupt of `PpcArch` with the trace the stage has left, one of the three
`PpcArch` allows. That the address that faulted is one `PpcArch` finds missing needs the
translation of the operands as well: the intermediate that faults computes it from the
context, `PpcArch` from the instruction (`FirstAccess`, `SecondAccess`).

`InstructionsRestart` (`Restartable`) is proved for every width `N`, every set of
instructions and every context, without an assumption on the instructions:
`SafeTranslation` shows of each builder that what fails or accesses memory comes
before what changes more than the scratch register, and `BookInv` carries that
through the execution.

`TypeCorrect` (`TypeOK`) and `InstructionsMeetBook` (`MeetsBook`) hold for every
width, number of registers, memory size, program and contents of registers and memory.
The assumptions are what the encoding and the machine give. `NAssumption`: a word
is four bytes, and 2^N is a multiple of N, because the code takes the shift count of
`slw` modulo N from a register whose high word is ignored; every power of two from 8
on satisfies this, and for twelve bits `MeetsBook` would be false.
`NumGprsAssumption`: register numbers are below those of LR and CTR. `MemSizeAssumption`: memory is whole words, at least two, and
no larger than 32-bit addresses reach. `InstructionsAssumption` and
`ContextsAssumption`: fields and registers have their widths. What `Diverges` lists
is part of the statement, and so are the two guards that `Fetch` has for the model's sake:
operands lie inside the memory (`InMemory`), and pc + 4 does not wrap.

The argument, in the order of the module:

1. Numbers. The library's induction cannot be instantiated, so an argument by
   induction is made from the least number that contradicts it (`LeastMember`).
   `Num`, a fold over a set of bits, is shown to be the sum it looks like; a number
   below 2^n is then the set of its bits, and two numbers are equal when those are.
2. Registers. And, or, masks, rotations, shifts and sign extension are compared
   with the book's bit by bit, carries and signs as inequalities. This is where the two ways
   of numbering bits meet.
3. Memory. A word the host writes is the word the guest reads, byte for byte,
   at any address, since *a* xor 3 permutes the bytes of a word.
4. `Restartable`, above.
5. `Fine` says of what is left of an instruction that every intermediate leaves a
   context and the last one leaves what the book says. One lemma for each
   instruction shows it of the whole translation, and `FineTranslation` gathers them.
6. `RunInv` adds to `TypeOK` and `BookInv` that what is left is `Fine` (`Leads`)
   and that no fetch exceeds `MaxInstr` (`Budget`). `TypeOK` is not inductive
   alone: that a result has its width depends on which intermediates come in
   front of the one that stores it, and that stepping back the pc on a failure leaves a
   pc depends on nothing having changed it, which is `BookInv`.

### The SH-4A interpreter (`Sh4aCpu_proofs`)

For every width of a byte, every size of the RAM, every set of programs over
`Instructions` and every contents of the registers: `TypeCorrect`, and
`DelaySlotsAndBanks`, the refinement `SlotsAndBanksAreKept`. The second has a
hypothesis, `ProgramsAvoidLds`: no `lds.l` to MACL, nor one to SR through a banked
register. With either the refinement is false (disagreements 1 and 2). `TypeOK` is
inductive with the program: results are taken modulo a word, `WithT` changes no
other bit of SR (`TBit`), and what an access reads are bytes, a queue or a register.
The refinement needs that RB is 0 or 1 and no turn begins in `ENTERING_DELAY`.
Every case of the loop is the instruction of `Sh4aArch` of the same name on the
registers of the selected bank (`RegIsGpr`, `Written`); `Exchanged` shows that an
exchange of `gpr` and `gpr_bank` under a new RB moves nothing; `TurnIsSequential`
that a turn continues at `npc` in both delay states. A branch in a slot is
illegal in `Sh4aArch`, which promises nothing of it.

### The Gekko interpreter (`GekkoCpu_proofs`)

For every width of a word, memory, set of windows and program: `TypeCorrect`,
`OperationsAreKnown` (`NeverFailsHalfway`), `ReportsAreRight`
(`ReportNamesCulprit`) and `GekkoImplementsArch` (`InstructionsAreWhole`). The
invariant is `InFlight`: the operations left are the whole translation of the
instruction at `at`, or its last one behind the link, with registers and pc as
they are then. A fetch and the first of two operations map to stutters, the last
operation maps to the instruction. `Or` is any operation on words.

### The host (`HostMachine_proofs`)

For every order in which the subsystems registered, every size and place of
memory, every set of files and guest addresses: `TypeCorrect`, `AccessesStayInside`
(`StaysInside`) and `GuestHasItsMemory` (`SlotsCoverMemory`). `HostInv` says what
each subsystem has done when it is `Past` a phase, for any order: hence memory is
allocated before anything is loaded, and entries are complete before slots are
made from them. That the 16-bit write through the unassigned pointer never
happens rests on two facts the source keeps in different files: the kernel maps
nothing of region 0 but its work RAM (`GuestAddrsAssumption`), and a slot covers
all of that, so no access to it is an MMIO exit.

`GuestSeesOneMemory` (`OneMemory`) builds on these. `Shown` says that the memories
are those the guest should see, up to the store that waits in an exit. An address
that no slot covers is nowhere on the console's map or in a mirror of the DRAM
(`Uncovered`), and there the mask of `DcPhysicalMemory` and the map agree because
the DRAM begins at a multiple of its size (`DramAssumption`, which also keeps the
Dreamcast's other memories and its 16-bit register out of the mirrors).

`GuestStartsIntact` (`ElfIntact`): for files of any number of segments, of any length
and at any place, with the two files' words interleaved with the GDT and the
context in whatever order the phases bring them. `FileInv` counts the words that are
`Due`: the kernel's once `CrossVmm` is past its second phase or as far as the
loader has come, the executable's as far as its loader has come, the GDT and the
context once they are written. A due word that has a place is in it, and no other
word differs from what was allocated (`Filled`). A write keeps this when it is the
only word due at its place (`Writes`), which is what `WellFormed` says of the files: no two
words at one place, addresses aligned, the kernel in the work RAM with a word at
its entry. That a word which belongs nowhere lands nowhere takes `RegAssumption`: the
registers that a loader may write are not inside a memory (`0x005F74E4` lies above
the BIOS, `0xEA001010` and `0xEA00101C` above the boot ROM's size). A file that is
not whole has no segments to load (`ElfsAssumption`).

### Checked by TLC only

Liveness (`BootReachesExecute`, `AccessCompletes`, `EveryInstructionCompletes`,
`BootEnds`, `QuitEnds`), which the prover does not cover. Every safety property of a
run that passes has a theorem. The four disagreements above are counterexamples.

## 6. Bounds

Constants that stand for larger ones: rows of the TLB (256), pages (256), words
(`W` values for 2^32), bytes (`B` values for 256), bits of a word (`N` for 32) and
half word (`Half` for 2^16), general registers (the two or three that differ in
kind), table arrays (1024), sizes of memories. `MaxInstr` caps the instructions of
a behaviour in `PpcCpu`, `Sh4aCpu` and `PpcInterp`; loops within it are repeated
at least once. One instruction is enough for `ppc_interp`, which starts from
every context; `ppc_interp_spr` executes two. Both have four general registers (`NumGprs`)
and sixteen bytes of memory (`MemSize`): an aligned and an unaligned double word, and room
around them. `PpcInterp` does not fetch from the last
instruction of the address space (`Fetch`), so that pc + 4 does not wrap. `MaxStores` caps the guest's
stores in `HostMachine`: two are needed for one to overtake another. The cap on
heap sizes is a few pages above what the hungriest CPU needs. Code does not
modify itself, and lies outside of the memory the programs write.

## 7. Not modelled

Text output (`vmm/printf.cpp`) and the disassembler, which keep no state that
anything else reads; `memcpy` and the C++ runtime; the contents of the IDT and the
assembly stubs, straight-line code around what `VmmBoot` models; option parsing;
the stand-alone tools; Xenos and librast, which are empty. The values device
registers return are not told apart, and neither are the SH-4A's dumps of `fpr`.

The host's subsystems register in one order in each `…MachineContext`; TLC
checks that order and the proofs every other. `VmmBoot` and `HostMachine` meet
in what the one assumes and the other shows: the work RAM and the console's
memories are behind their addresses, and the kernel's context holds the type of
the CPU it dispatches on. `PpcCpu` asks of the guest's miss handler
(`HandlerMaps`) what `PpcTlbFill` shows of it (`AccessCompletes`).
