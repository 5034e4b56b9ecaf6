----------------------------- MODULE BootMemory ------------------------------
(***************************************************************************)
(* From the first instruction to the final kernel page table: head.S,      *)
(* setup_early_vm (arch/riscv/mm/init.rs) and setup_late                   *)
(* (arch/riscv/mm/mod.rs).                                                 *)
(*                                                                         *)
(* A machine is where the boot loader put the kernel image, the device     *)
(* tree and the ramdisk in RAM, and the device tree itself.  `mem` says    *)
(* what each physical page holds.  A virtual address is <<window, offset>> *)
(* with the windows LOAD (the image), PHYS (all of RAM) and HEAP; a page   *)
(* table is a function from such addresses, in units of the page it maps.  *)
(* Addresses are bytes of a machine with small pages.                      *)
(***************************************************************************)
EXTENDS Fdt, Integers, FiniteSets

CONSTANTS Machines,
          PAGE_SIZE, LARGE, GIGA,   \* what an entry of level 0, 1 and 2 maps
          EarlyTables,              \* parameter of EarlyPageTableAllocator
          HeapPages                 \* HEAP_PREALLOC_SIZE

VARIABLES machine, hart, pc,
          tree,             \* root node of the device tree, once it has been read
          region,           \* the range of RAM it names
          satp,             \* active page table: "off", "early" or "late"
          early_tables,     \* entries of KERNEL_RPT: <<window, giga page>> -> page of the table
          early,            \* leaves of the early tables: <<window, large page>> -> address
          late,             \* final kernel page table: <<window, page>> -> address
          mem,              \* physical page -> contents
          phys_mem_offset,  \* PHYS_MEM_OFFSET
          gfa,              \* [ptr, end], or None
          reason

memory_vars == <<hart, tree, region, satp, early_tables, early, late, mem, phys_mem_offset, gfa>>
boot_vars == <<machine, pc, reason, memory_vars>>

align_up(x, a) == ((x + a - 1) \div a) * a
div_ceil(x, a) == (x + a - 1) \div a
page(addr) == addr \div PAGE_SIZE

Garbage == -1
Windows == {"LOAD", "PHYS"}
GigaPages == 0..8

\* The range of RAM according to the device tree.
memory_reg(root) ==
    LET n == IF root = None THEN None
             ELSE find(SelectSeq(preorder(root[1]), LAMBDA m : m.name = "memory"))
    IN IF n = None THEN None ELSE as_range(property(n[1], "reg"))

mem_base == region[1].base
mem_size == region[1].len
mem_end == mem_base + mem_size
image_end == machine.load + machine.image

\* RAM as the boot loader leaves it.
loaded(m) ==
    [p \in page(m.ram)..(page(m.ram + m.ram_size) - 1) |->
        CASE p \in page(m.load)..page(m.load + m.image - 1) -> "image"
          [] p \in m.fdt -> "fdt"
          [] p \in m.initrd -> "initrd"
          [] OTHER -> "free"]

BootInit ==
    /\ machine \in Machines
    /\ hart \in {0, 1}
    /\ pc = "start_kernel" /\ reason = "none"
    /\ tree = None /\ region = None
    /\ satp = "off"
    /\ early_tables = [wg \in Windows \X GigaPages |-> Garbage]
    /\ early = <<>> /\ late = <<>>
    /\ mem = loaded(machine)
    /\ phys_mem_offset = 0
    /\ gfa = None

panic(why) ==
    /\ pc' = "panic" /\ reason' = why
    /\ UNCHANGED <<machine, memory_vars>>

\* --- head.S --------------------------------------------------------------

park ==
    /\ pc = "start_kernel" /\ hart # 0
    /\ pc' = "parked"
    /\ UNCHANGED <<machine, reason, memory_vars>>

\* Mutant: .bss keeps what was in memory.
clear_bss_skip ==
    /\ pc = "start_kernel" /\ hart = 0
    /\ pc' = "setup_early_vm"
    /\ UNCHANGED <<machine, reason, memory_vars>>

\* KERNEL_RPT is in .bss.
clear_bss ==
    /\ pc = "start_kernel" /\ hart = 0
    /\ early_tables' = <<>>
    /\ pc' = "setup_early_vm"
    /\ UNCHANGED <<machine, reason, hart, tree, region, satp, early, late, mem, phys_mem_offset,
                   gfa>>

\* --- setup_early_vm ------------------------------------------------------

fdt_error(root) ==
    first_error(<< check(from_raw_ptr(machine.dtb) = "Ok", "bad fdt"),
                   check(memory_reg(root) # None, "no memory") >>)

early_fdt ==
    LET root == root_node(machine.dtb) IN
    /\ pc = "setup_early_vm"
    /\ \/ /\ fdt_error(root) = "Ok"
          /\ tree' = root /\ region' = memory_reg(root)
          /\ pc' = "early_map_kernel"
          /\ UNCHANGED <<machine, reason, hart, satp, early_tables, early, late, mem,
                         phys_mem_offset, gfa>>
       \/ fdt_error(root) # "Ok" /\ panic(fdt_error(root))

\* Nothing was written to the pages of the device tree.  Otherwise a later
\* reader may still find what it looks for, or stop with an error.
fdt_intact == \A p \in machine.fdt : mem[p] = "fdt"

\* EarlyPageTableAllocator: the tables taken so far are the last pages of RAM.
tables_taken == Cardinality({wg \in DOMAIN early_tables : early_tables[wg] # Garbage})
next_table(k) == page(mem_end) - (tables_taken + k)

(* create_l1_page_mapping for each of n large pages.  A level 1 table is    *)
(* taken, and cleared, for each giga page that has none.                   *)
create_l1_page_mapping(w, pa, n, missing) ==
    LET rank(g) == Cardinality({h \in missing : h <= g})
        table == [wg \in {w} \X missing |-> next_table(rank(wg[2]))]
    IN /\ early_tables' = early_tables @@ table
       /\ early' = early @@ [wl \in {w} \X (0..(n - 1)) |-> pa + wl[2] * LARGE]
       /\ mem' = [p \in DOMAIN mem |-> IF p \in Range(table) THEN "early" ELSE mem[p]]

early_map_range(w, pa, size, to) ==
    LET n == div_ceil(size, LARGE)
        gigas == {(i * LARGE) \div GIGA : i \in 0..(n - 1)}
        missing == {g \in gigas : <<w, g>> \notin DOMAIN early_tables}
        aligned == pa % LARGE = 0
        enough == tables_taken + Cardinality(missing) <= EarlyTables
    IN \/ /\ aligned /\ enough
          /\ create_l1_page_mapping(w, pa, n, missing)
          /\ pc' = to
          /\ UNCHANGED <<machine, reason, hart, tree, region, satp, late, phys_mem_offset, gfa>>
       \/ ~aligned /\ panic("misaligned")
       \/ aligned /\ ~enough /\ panic("out of early page tables")

early_map_kernel ==
    /\ pc = "early_map_kernel"
    /\ early_map_range("LOAD", machine.load, machine.image, "early_map_ram")

early_map_ram ==
    /\ pc = "early_map_ram"
    /\ early_map_range("PHYS", mem_base, mem_size, "relocate")

relocate ==
    /\ pc = "relocate"
    /\ satp' = "early"
    /\ pc' = "arch_init"
    /\ UNCHANGED <<machine, reason, hart, tree, region, early_tables, early, late, mem,
                   phys_mem_offset, gfa>>

\* --- arch_init, setup_late -----------------------------------------------

\* Reads the header of the device tree again.
arch_init ==
    /\ pc = "arch_init"
    /\ \/ /\ pc' = "setup_late"
          /\ UNCHANGED <<machine, reason, memory_vars>>
       \/ ~fdt_intact /\ panic("fdt lost")

\* What an address translates to with the early tables; a table that was
\* overwritten translates nothing.
early_translate(w, off) ==
    LET wg == <<w, off \div GIGA>>
        wl == <<w, off \div LARGE>>
    IN IF /\ wg \in DOMAIN early_tables /\ early_tables[wg] \in DOMAIN mem
          /\ mem[early_tables[wg]] = "early" /\ wl \in DOMAIN early
       THEN Some(early[wl] + (off % LARGE)) ELSE None

late_translate(w, off) ==
    LET wp == <<w, page(off)>>
    IN IF wp \in DOMAIN late THEN Some(late[wp] + (off % PAGE_SIZE)) ELSE None

\* virt_to_phys of the early mapper finds the tables through phys_to_virt.
virt_to_phys(w, off) ==
    IF phys_mem_offset = mem_base THEN early_translate(w, off) ELSE None

\* Mutant: PHYS_MEM_OFFSET is not saved yet.
save_memory_late ==
    /\ pc = "setup_late"
    /\ pc' = "setup_frame_allocator"
    /\ UNCHANGED <<machine, reason, memory_vars>>

\* PHYS_MEM_OFFSET is read from the device tree again, and saved before anything
\* translates an address.
save_memory ==
    /\ pc = "setup_late"
    /\ \/ /\ phys_mem_offset' = mem_base
          /\ pc' = "setup_frame_allocator"
          /\ UNCHANGED <<machine, reason, hart, tree, region, satp, early_tables, early, late,
                         mem, gfa>>
       \/ ~fdt_intact /\ panic("fdt lost")

setup_frame_allocator ==
    LET base == virt_to_phys("LOAD", align_up(machine.image, PAGE_SIZE)) IN
    /\ pc = "setup_frame_allocator"
    /\ \/ /\ base # None /\ base[1] <= mem_end
          /\ gfa' = Some([ptr |-> base[1], end |-> mem_end, start |-> base[1]])
          /\ pc' = "new_root"
          /\ UNCHANGED <<machine, reason, hart, tree, region, satp, early_tables, early, late, mem,
                         phys_mem_offset>>
       \/ ~(base # None /\ base[1] <= mem_end) /\ panic("kernel end not mapped")

\* n frames, in as many calls of alloc; they are written to.
room_for(n) == gfa[1].ptr + n * PAGE_SIZE <= gfa[1].end
take(n) ==
    LET first == page(gfa[1].ptr) IN
    /\ gfa' = Some([gfa[1] EXCEPT !.ptr = @ + n * PAGE_SIZE])
    /\ mem' = [p \in DOMAIN mem |-> IF p \in first..(first + n - 1) THEN "frame" ELSE mem[p]]

\* A step that takes n frames and adds the mappings `maps`.
take_frames(n, maps, to) ==
    \/ /\ room_for(n) /\ take(n)
       /\ late' = maps @@ late
       /\ pc' = to
       /\ UNCHANGED <<machine, reason, hart, tree, region, satp, early_tables, early,
                      phys_mem_offset>>
    \/ ~room_for(n) /\ panic("oom")

new_root ==
    /\ pc = "new_root"
    /\ take_frames(1, <<>>, "remap_kernel")

\* The pages that map_range maps, in units of pages of size sz.
map_range(w, start, end, sz) ==
    LET n == div_ceil(end - start, sz)
    IN [wp \in {w} \X (0..(n * page(sz) - 1)) |-> start + wp[2] * PAGE_SIZE]

\* Tables of level 1 and, for small pages, level 0 under a window.
tables_for(size, sz) == div_ceil(size, GIGA) + (IF sz = PAGE_SIZE THEN div_ceil(size, LARGE) ELSE 0)

remap_kernel ==
    LET start == virt_to_phys("LOAD", 0)
        end == virt_to_phys("LOAD", machine.image)
    IN /\ pc = "remap_kernel"
       /\ \/ /\ start # None /\ end # None
             /\ take_frames(tables_for(end[1] - start[1], PAGE_SIZE),
                            map_range("LOAD", start[1], end[1], PAGE_SIZE), "remap_ram")
          \/ (start = None \/ end = None) /\ panic("kernel end not mapped")

remap_ram ==
    /\ pc = "remap_ram"
    /\ take_frames(tables_for(mem_size, LARGE), map_range("PHYS", mem_base, mem_end, LARGE),
                   "map_heap")

\* The frames of the heap, then the tables that map them.
map_heap ==
    LET size == HeapPages * PAGE_SIZE IN
    /\ pc = "map_heap"
    /\ take_frames(HeapPages + tables_for(size, PAGE_SIZE),
                   map_range("HEAP", gfa[1].ptr, gfa[1].ptr + size, PAGE_SIZE), "switch")

\* satp is written and the mapper becomes the global one.
switch ==
    /\ pc = "switch"
    /\ satp' = "late"
    /\ pc' = "kmain"
    /\ UNCHANGED <<machine, reason, hart, tree, region, early_tables, early, late, mem,
                   phys_mem_offset, gfa>>

BootNext ==
    \/ park \/ clear_bss
    \/ early_fdt \/ early_map_kernel \/ early_map_ram \/ relocate
    \/ arch_init \/ save_memory \/ setup_frame_allocator
    \/ new_root \/ remap_kernel \/ remap_ram \/ map_heap \/ switch
=============================================================================
