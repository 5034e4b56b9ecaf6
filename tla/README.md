# rv6 in TLA+

This directory holds TLA+ models of the rv6 kernel, the TLC configurations that
check them on small instances, and TLAPS proofs of what matters most.

## The system

rv6 boots on hart 0 of a RISC-V machine (`head.S`), maps itself and physical
memory (`setup_early_vm`, `setup_late`), sets up its allocators, probes the
drivers of the device tree, reads `init` from the initial ramdisk and runs it as
the only user process (`kmain`). From then on the kernel only runs in traps. All
other harts are parked. A panic, and every error of `exec` or of an I/O mapping,
halts the hart.

| Part | Source | Module |
| --- | --- | --- |
| frame allocator trait | `mm/allocator/mod.rs` | `FrameAllocator` (abstract) |
| bitmap frame allocator | `mm/allocator/bitmap.rs` | `BitmapAllocator` |
| kernel heap, I/O address allocator | `mm/allocator/bump.rs` | `BumpAllocator` |
| frame allocator in use (`GFA`) | `mm/allocator/bump.rs` | `BumpFrameAllocator`, over the constants of `FrameRequests` |
| page tables, address spaces | `arch/riscv/mmu.rs`, `arch/riscv/mm/elf.rs` | `PageTable`, `AddressSpace` (abstract) |
| traps, system calls, entering user mode | `arch/riscv/trap.S`, `trap.rs`, `stackframe.rs`, `proc.rs`, `uaccess.rs`, `syscall.rs` | `Trap` |
| virtio queue and block driver | `drivers/virtio/` | `VirtioBlk` |
| boot: early page tables, final page table, allocators | `head.S`, `arch/riscv/mm/init.rs`, `mm/mod.rs` | `BootMemory` |
| driver probing, interrupt controller, power off, ramdisk lookup | `drivers/`, `initrd.rs`, `lib.rs` | `Drivers` |
| device tree parser | `crates/fdt` | `Fdt` |
| cpio reader, ELF parser | `crates/cpio`, `crates/elf` | `Cpio`, `Elf` |
| process loading | `proc/`, `arch/riscv/mm/elf.rs` | `Loader` |

`BootProperties` states what `BootMemory` and `Drivers` together promise. `Checked`
holds what the parsers share: checks made one after the other, of which the first
that fails is the error, and additions that may overflow.

`PROJECT.json` lists every part of the repository with its state, the source
lines behind each definition, and the hazards the models are aimed at.

## The models

**BitmapAllocator.** One descriptor per page, kept in the first pages of the
region. `alloc` and `free` are modelled one loop iteration per step
(`alloc_skip`, `alloc_blocked`, `alloc_none`, `alloc_some`, `free_page`), so the
scan index is state and termination is a real question. Pages are numbered;
`paddr` and `offset` are the conversions from and to addresses. Ghost state
`held` is the set of chunks callers own, with their lengths, which the code does
not record: `free` has to find the end from the `LAST` flag.

**BumpAllocator.** The heap and the I/O address allocator: it grows down, aligns
down, counts blocks and resets when the count is zero. Each call runs under the
mutex, so it is one action.

**BumpFrameAllocator.** The frame allocator behind every page table, user page
and DMA buffer. It grows up and `free` reclaims nothing. `UsizeMax` keeps the
checked addition of the code. A chunk's address is always below `end`, which is a
`PhysAddr`, so `PhysAddr::try_new` cannot fail and has no action of its own.

**PageTable.** RAM is a function from frames to tables; a frame that was never
written holds `Garbage`. `map_range`, `map_anonymous`, `protect_range` and
`new_user_addr_space` start a call; `walk_*` and `leaf_*` are `map`, `find_*` is
`get_pte_ptr` with the update of `update_mapping`, `copy_*` is the recursive copy
with its call stack in `stack`. Linking a new table and clearing it are two steps
(`walk_link`, `walk_zero`) as in the code. Errors halt the kernel, because
`setup_late`, `iomap` and `exec` all panic on them. Kernel mappings are made
before `exec` creates the address space, as in `kmain`. `mmu_store` is the one
external action: the MMU setting the accessed and dirty bits when the loader
copies into a user page.

**Trap.** The hart with its mode, `sstatus`, `sepc`, `sscratch`, the stack pointer and
five registers that stand for the classes `trap.S` and the calling convention tell
apart. A stack pointer is a stack and the number of trap frames on it; frames are
saved to and loaded from memory by address. `trap_entry` and `trap_exit` are the two
halves of `trap.S`, `handle_*` and `sys_*` the cases of `handle_exception`, `ua_*`
the steps of `with_user_access`, `eu_*` those of `enter_user`, `load` a copy of the
loader. A fault that is not a system call is reported, and the report ends with a call
trace: `unwind_stack_frame` follows the saved frame pointers through the kernel's frames
to what the user program had in `s0`. That may be no frame of the kernel's, so the trace
ends, faults in the handler, or runs in a circle (`unwind_end`, `unwind_fault`, no step).
`interrupt`, `ecall`, `user_run`, `user_fault` and `fetch_fault` are the hart
and the user program. The ghost `trapped` remembers each interrupted context. That
interrupts arrive at all is an assumption about the machine: `trap::init` enables
them, and nothing in the kernel schedules the first tick.

**VirtioBlk.** One action per step of `VirtioBlkDev::new`, `transfer` and
`Virtq::submit`; `prepare` fills one descriptor. The device (`device_*`) is external:
it may look at the queue whenever the driver is ready. The kernel sends one request
per device; the model goes on until the queue is used up. The driver's fences keep
the steps in order, so the model writes memory in program order.

**Fdt**, **Cpio**, **Elf.** The parsers, over data that keeps what they look at: a
device tree is a sequence of tokens, an archive a sequence of entries with sizes and
a total length, an ELF file its header fields and program headers. All checks are
made in the order of the code. Offsets and padding in an archive, and the ranges in a
file, are computed in bytes, with the overflow of `usize`.

**BootMemory.** A machine is RAM, the address and length of the image, and the pages
where the boot loader put device tree and ramdisk. `mem` says for every page what is in
it, so that a frame taken for a table overwrites what was there. Actions: parking of the
other harts, clearing `.bss`, reading the device tree, the early mappings one range
at a time, relocation, and the steps of `setup_late` up to the write of `satp`.
The kernel addresses of image and RAM window are translated through what the tables
hold at that moment. Frames are counted here; how the entries are written is
`PageTable`.

**Drivers.** Continues with `kmain`: both breadth-first walks over the device tree, the
probes of the interrupt controller, UART, system controller and virtio devices with
their assertions on register sizes, the two registries, the lookup of the ramdisk, and
power off and reboot. Probes take frames for page tables and DMA while the walks still
read the tree. Where frames have overwritten it, the model does not parse what is left:
a walk may find no more nodes or panic, and the properties about nodes stop there.
Device registers read as their model says; the I/O window and the heap do not run out
here (`BumpAllocator` covers that), and a virtio queue is not in use before.

**Loader.** From the ramdisk to user mode: `find_file` one entry at a time,
`build_load_plan` one program header at a time, `load_elf_into` with mapping, copying,
clearing and protecting as separate steps, and the stack. `map_anonymous`, `copy_to_user`
and `protect_range` are those of `RiscvLoader`. The MMU is external: a store faults in a
page that is not both readable and writable, as write without read is a reserved
encoding, and sets the dirty bit as QEMU does. The end of a segment and its rounding
may overflow, which panics. `validate_user_range` and
`choose_pie_base` return constants in the source, so the files lie in the user range.

**FrameAllocator**, **AddressSpace.** What the code promises: chunks granted from
disjoint runs with an honest `None`, and two functions from pages to frames that
change one mapping at a time. The detailed models are checked to implement them.

## The runs

| Run | Question |
| --- | --- |
| `bitmap` | Do the descriptors always encode the held chunks, can `free` panic, is `None` honest, does every call return? |
| `bump` | Heap: are live blocks disjoint across resets, and does a reset happen exactly when nothing is live? Frames: is the promise of the trait kept up to the end of memory and of the address range? |
| `page_table` | Do the tables stay a forest of cleared tables, are user pages private, and do the tables implement the two address spaces, also when frames run out? |
| `trap` | Are the stacks swapped consistently, is a handler ever interrupted and where can it fault, what does a returning trap preserve, does every trap end unless its call trace does not? |
| `trap_registers` | Does a trap give all registers back? No: `t0` is lost. |
| `trap_enter_user` | Does `enter_user` start the process at its entry point whatever interrupts arrive? No. |
| `trap_user_access` | Does `with_user_access` disable user access again? No. |
| `virtio` | Do requests have descriptors of their own, does the device read them complete and in order, does `transfer` return exactly when its request is done? |
| `boot` | Do image and RAM translate to their own place before, across and after the switch of page tables, do both walks take every node once, in order, is a panic about memory or the tree justified, and is every power off write one that the tree asks for at that controller? |
| `boot_power` | Does a second system controller replace the first? No. |
| `loader` | Is the first file called `init` found, does a process start with exactly the bytes and permissions of its segments and nothing both writable and executable, and is a file refused only for a reason? |
| `loader_segments` | Is a file refused for its number of segments only if it has more than the limit? No. |

The five runs that answer "No" end in a violation, and `findings` in `PROJECT.json`
says which comment each contradicts. `t0` is overwritten in `trap.S` before it is saved
and after it is restored, so a program loses it in every system call. An interrupt
after `enter_user` has written `sepc` replaces it; the final `sret` then jumps to a
kernel address in user mode, which faults and halts. `with_user_access` writes the old
`sstatus` with an instruction that only sets bits, so `SUM` stays set. The limit
on `PT_LOAD` segments is compared with the index among all program headers, and the
plan is sliced by the number of all headers: a file with few segments is refused when
other headers come first, and panics the kernel when they follow. `register_provider`
keeps the first system controller, although its comment says it is replaced.

Bounds. `bitmap`: eight pages of four bytes, two of which hold descriptors, so six
pages and requests of one to four pages; every pattern of adjacent chunks and
every wrap of the scan occurs. `bump`: a behaviour uses one of the two allocators. The
heap has 14 bytes with unaligned ends and
five layouts whose sizes are and are not multiples of their alignment; frames come from
regions that are empty, whole, broken and at the end of a 6-bit address range.
`page_table`: three levels of two entries, one two-page device mapping, one large
page, overlapping user mappings, and 12 frames, which is enough for a full copy
of the kernel mappings and a few user mappings and is used up by both. `trap`: a user
program of three instructions, two interrupt causes and one fault, and at most four traps
in progress (`MaxTraps`): a system call that faults, and two faults of its call trace.
Interrupts never nest, so only an endless trace meets the bound. `virtio`: queues of
up to eleven descriptors, so up to five requests, ending with zero, one or two
descriptors left over; a queue of one request, of none, and one that does not exist.
`boot`: pages of 512 bytes, large pages of four and giga pages of sixteen pages, four early
tables. About 3100 machines: images that end before, at and after the end of a page
and of a large page, RAM from too little to plenty, device tree and ramdisk next to the
image, in the middle and under the early tables; and trees with every choice of three
out of ten devices, flat and below a bus, odd devices and malformed blobs. `loader`:
pages of four bytes, a user range of four pages, room for three headers. About 8400
files: every list of up to three of 20 headers (shared pages, no memory, file data that
ends inside, at the end of and after the memory, bad alignment, overflow), lists of four,
bad file headers; and archives with every list of three of 15 entries, and one cut
short at every byte.

What `boot` needs to hold. The frame allocator gets all RAM behind the image, in which
lie the device tree, the ramdisk and the early tables, although the comment at
`arch/riscv/mm/mod.rs:144` calls that memory unused. `MemoryIntact` and
`BootPanicsJustified` therefore assume `Roomy`, that frames and early tables do not
meet, and `OutOfTheWay`, that the device tree lies between them, as QEMU places it. The end of
the image must not fall in the last page of a large page, because its rounded-up end
is translated with the early tables. `PowerTargetsOwner` assumes registers that start
with a page, because `iomap` drops the offset. The same holds elsewhere: `FindsInit`
asks only for entries whose padding is in the archive, `TransferComplete` starts from a
device without a pending interrupt, and no property forbids the frame that an interrupt
between the stack swap and `sret` of `enter_user` saves on the user stack. `hazards` in
`PROJECT.json` says for each of these what is covered and what is not. One more comment
differs from the code: `drivers/virtio/virtq.rs:42` wants the used ring aligned to four
bytes, but the padding is itself a rounded offset. Nothing reads that ring.

Fairness. `CallsReturn` assumes weak fairness of the steps of a call that has
started, and of nothing else: calls run on one hart and, holding their lock or
`&mut self`, wait for nobody. `TrapsEnd` assumes weak fairness of the steps of a
handler, which runs with interrupts off; it excepts `TraceLost`, the report of a fault
of user code whose frame pointer leads to no end. `TransfersReturn` assumes weak fairness of
the driver, and of a device that looks at its queue when notified and finishes what
it has taken; `transfer` has no timeout, so this is needed.

The other runs pass. Each of their properties also comes with a mutant, a small plausible change of
one definition that breaks it (the `Mutant:` definitions).

## The proofs

| Module | Theorems |
| --- | --- |
| `BitmapAllocatorProofs` | `TypeCorrect`, `FramesEncoded`, `NoPanic`, `FramesInRegion`, `Refinement` |
| `BumpAllocatorProofs` | `BlocksDisjoint`, `CounterExact`, `ResetSafe` |
| `BumpFrameAllocatorProofs` | `AccountingHolds`, `Refinement` |
| `LoaderProofs` | `NoPageWX` |
| `TrapProofs` | `TypeCorrect`, `StacksSwapped`, `NoNesting`, `TrapsTransparent` |
| `VirtioBlkProofs` | `TransfersComplete`, `IndexCounts` |
| `DivisionLemmas` | facts about quotients the others cite |

Each proof goes through an inductive invariant, `IInv` (in `LoaderProofs`, `WXInv`), which
TLC has checked on the instances of the runs.

*Bitmap.* "The descriptors encode the held chunks" is not inductive: it fails in the
middle of `free`, and `alloc_none` is honest only because of what the scan has seen.
`IInv` adds the layout of the region, that every held chunk is encoded by its flags
and is apart from the others (`HeldInv`), which pages of the chunk being freed are
still marked (`ClearInv`), that every marked page belongs to a chunk (`CoverInv`), and
that no run of the requested length starts before the scan index (`ScanInv`). The
theorems assume `PositiveCounts`, that nobody asks for zero pages: `alloc(0)` returns
a frame that owns nothing, and freeing it would clear its neighbour or panic.

*Heap.* The invariant adds that every live block lies above the pointer.

*Frames.* The invariant adds that the granted chunks fill exactly `[start, ptr)`.

*Traps.* What a trap gives back depends on what `trap.S` saved on the way in. `IInv`
relates the context of each trap in progress to `sp`, `sscratch`, the frame in memory,
`sepc` and the previous-mode bits of `sstatus` at each point of the handler; it says where
the kernel's own thread may be interrupted and that the saved `sstatus` of
`with_user_access` never has `SIE` set inside a handler. Faults of call traces nest to any
depth, so `IInv` also says what every trap on the pile came from (`NestedTraps`): only
the first can be anything but a load fault of the handler, and no trap returns while
there are more. Assumed: interrupts and faults have causes of their own
(`CausesAssumption`), and at least two traps fit (`MaxTrapsAssumption`).

*Virtio.* The index is kept modulo the size of the queue, and `transfer` takes the
interrupt bit for the answer to its own request. Both are right because every request
uses up two descriptors or more and none comes back: `IInv` counts them, and relates the
positions of driver and device to the interrupt bit. Assumed: queue sizes below 2^16.

*Loading.* Pages are mapped writable and get their permissions afterwards, so the
property holds only at the end; `WXInv` exempts the pages of the segment being
loaded. Nothing is assumed of the files.

Refinement is proved for safety: initial states map to initial states and every step
to a step or a stutter of `FrameAllocator`.

`EmptyMeansWhole` of the heap and the types of the frame allocator are part of the
proofs only; no run repeats them.

Only model-checked: liveness (`CallsReturn`, `TrapsEnd`, `TransfersReturn`), because the
prover has no fairness; the contents of the virtio queue, which are defined by a walk
along the free list and would need induction; `PageTable` with its refinement of
`AddressSpace`; the contents of a loaded process and the search in the archive; and the
boot, since the device tree parser is recursive and the prover cannot be used on modules
with recursive operators.

## Not modelled

- Kernel symbols: a lookup in a sorted table for the text of a stack trace, and the
  tool that writes the table. Nothing depends on the result.
- Console, SBI calls, the text of the stack trace and the functions that dump page tables or the
  device tree: output only.
- The `ext2` crate, which is not linked into the kernel, and the userland runtime, which
  is system calls and formatting.
- Register wrappers other than those of `sstatus`: single instructions.
- Code without a caller: `identity_map_range`, the reserved memory map of the device tree,
  `Node::parent`, the section accessors of the ELF parser, `Ns16550::get`.
- Code that is `todo!()` in the source: `iounmap`, DMA `free_raw` and the cache
  maintenance calls, `resume_user`.
- SMP, which does not exist here: only hart 0 leaves `head.S`.
