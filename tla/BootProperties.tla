--------------------------- MODULE BootProperties ----------------------------
(***************************************************************************)
(* What the boot promises, stated of the machine it runs on: the tokens of *)
(* the device tree, and where the boot loader placed what is in RAM.       *)
(***************************************************************************)
EXTENDS Drivers

\* --- a device tree blob, read off its tokens
Depth(s, i) ==
    Cardinality({k \in 1..i : s[k].t = "BEGIN"}) - Cardinality({k \in 1..i : s[k].t = "END"})

\* The END of the first node.
RootEnd(s) ==
    LET E == {i \in DOMAIN s : s[i].t = "END" /\ Depth(s, i) <= 0}
    IN IF E = {} THEN 0 ELSE CHOOSE i \in E : \A j \in E : i <= j

Before(s, i) == {k \in 1..(i - 1) : s[k].t # "NOP"}
WellFormedTree(s) ==
    /\ RootEnd(s) # 0
    /\ \A i \in 1..RootEnd(s) :
          LET k == CHOOSE k \in Before(s, i) : \A j \in Before(s, i) : j <= k IN
          /\ s[i].t = "PROP" => Before(s, i) # {} /\ s[k].t \in {"BEGIN", "PROP"}
          /\ s[i].t = "END" => Depth(s, i) >= 0

\* The first node called memory says in its first reg where RAM is.
NamesRam(s) ==
    LET M == {i \in 1..RootEnd(s) : s[i].t = "BEGIN" /\ s[i].name = "memory"}
        m == CHOOSE i \in M : \A j \in M : i <= j
        R == {i \in (m + 1)..RootEnd(s) : /\ s[i].t = "PROP" /\ s[i].name = "reg"
                                          /\ \A k \in m + 1..i : s[k].t \in {"PROP", "NOP"}}
    IN M # {} /\ \E i \in R : (\A j \in R : i <= j) /\ Len(s[i].v) >= 4

\* --- the memory that the boot needs

\* The frames that setup_late takes.
FramesNeeded ==
    1 + tables_for(machine.image, PAGE_SIZE) + tables_for(mem_size, LARGE)
      + HeapPages + tables_for(HeapPages * PAGE_SIZE, PAGE_SIZE)

AllNodes == preorder(root)

\* The frames that probing all devices takes: for their I/O pages, and for DMA.
RegPages(n) ==
    LET reg == as_range(property(n, "reg"))
    IN IF reg = None THEN 0 ELSE iomap_pages(reg[1].base, reg[1].len)
DeviceFrames ==
    LET times(n) == (IF is_plic(n) THEN 1 ELSE 0) + (IF driver_of(n) # "none" THEN 1 ELSE 0)
        pages == FoldLeft(LAMBDA k, n : k + times(n) * RegPages(n), 0, AllNodes)
        disks == SelectSeq(AllNodes, LAMBDA n : driver_of(n) = "virtio,mmio")
        disk(n) == machine.virtio[as_range(property(n, "reg"))[1].base]
    IN tables_for(pages * PAGE_SIZE, PAGE_SIZE)
       + FoldLeft(LAMBDA k, n : k + (IF disk(n).id = 2 THEN dma_frames(disk(n)) ELSE 0), 0, disks)

\* There is room for them and for the early tables.
Roomy ==
    align_up(image_end, PAGE_SIZE) + PAGE_SIZE * (FramesNeeded + DeviceFrames + EarlyTables)
        <= mem_end

\* Page p is past the frames and below the early tables.
OutOfTheWay(p) ==
    /\ p >= page(align_up(image_end, PAGE_SIZE)) + FramesNeeded + DeviceFrames
    /\ p < page(mem_end) - EarlyTables

(***************************************************************************)
(* Properties                                                              *)
(***************************************************************************)

\* Types.  The frame allocator stays in its range, no more early tables are
\* taken than there are, a queue holds nodes that were not visited yet, and the
\* registers of a registered controller are not empty (sifive_plic.rs:38).
TypeOK ==
    /\ satp \in {"off", "early", "late"}
    /\ gfa # None => gfa[1].start <= gfa[1].ptr /\ gfa[1].ptr <= gfa[1].end
    /\ tables_taken <= EarlyTables
    /\ \A i \in DOMAIN nodes : nodes[i].off \notin ToSet(visited)
    /\ plic # None => plic[1].size > 0
    /\ syscon # None => syscon[1].regmap.size > 0

Translate(w, off) == IF satp = "early" THEN early_translate(w, off) ELSE late_translate(w, off)

\* The first and the last byte of each page of a range.
Bytes(size) == {p * PAGE_SIZE + b : p \in 0..page(size - 1), b \in {0, PAGE_SIZE - 1}}

\* Once the MMU is on, every address of the image and of the window on RAM
\* translates to its own place, before, across and after the switch from the
\* early to the final page table, and no table in use is overwritten
\* (arch/riscv/mm/mod.rs:218).  There must be room for the tables of both.  The
\* allocator is given the device tree and the ramdisk as free memory
\* (mm/mod.rs:236); they survive setup and probing where they are out of the way.
MemoryIntact ==
    satp # "off" /\ Roomy =>
        /\ \A off \in Bytes(machine.image) : Translate("LOAD", off) = Some(machine.load + off)
        /\ \A off \in Bytes(mem_size) : Translate("PHYS", off) = Some(mem_base + off)
        /\ \A p \in {q \in machine.fdt \union machine.initrd : OutOfTheWay(q)} :
              mem[p] = loaded(machine)[p]

BootReasons == {"bad fdt", "no memory", "fdt lost", "misaligned", "out of early page tables",
                "kernel end not mapped", "oom"}

\* A panic about memory or about the device tree as a whole means that the
\* machine fails one of these: the tree is well formed and names the RAM, image
\* and RAM start at a large page, the image does not end in the last page of a
\* large page (arch/riscv/mm/mod.rs:235, :166), there is room for all tables and
\* buffers, and the device tree is out of the way.  What a driver panics or
\* gives up on is not covered: its assertions, its `todo!`, its node.
BootPanicsJustified ==
    reason \in BootReasons =>
        LET b == machine.dtb
        IN ~ /\ b.totalsize >= 40 /\ b.magic /\ b.version = 17 /\ b.last_comp_version = 16
             /\ WellFormedTree(b.tokens) /\ NamesRam(b.tokens)
             /\ machine.load % LARGE = 0 /\ mem_base % LARGE = 0
             /\ align_up(machine.image, PAGE_SIZE) % LARGE # 0
             /\ div_ceil(machine.image, GIGA) + div_ceil(mem_size, GIGA) <= EarlyTables
             /\ Roomy
             /\ \A p \in machine.fdt : OutOfTheWay(p)

\* Node i comes before node j: on a higher level, or before it on the same.
Precedes(i, j) ==
    LET di == Depth(machine.dtb.tokens, i)
        dj == Depth(machine.dtb.tokens, j)
    IN di < dj \/ (di = dj /\ i < j)

\* Each walk takes every node of the device tree exactly once, level by level,
\* whatever NOP tokens are in between (drivers/mod.rs:103, irqchip/mod.rs:28), as
\* long as the tree is not overwritten.
EveryNodeProbed ==
    pc \in {"irqchip", "drivers", "initrd", "running", "halted"} /\ fdt_intact =>
        LET s == machine.dtb.tokens
            begins == {i \in 1..RootEnd(s) : s[i].t = "BEGIN"}
            seen == [k \in DOMAIN visited |-> skip_nops(s, visited[k])]
        IN /\ \A k \in 2..Len(seen) : Precedes(seen[k - 1], seen[k])
           /\ \A i \in begins \ ToSet(seen), k \in DOMAIN seen : Precedes(seen[k], i)
           /\ nodes = <<>> => ToSet(seen) = begins

Controllers == {i \in DOMAIN AllNodes : driver_of(AllNodes[i]) = "syscon"}
Actions(name) == {i \in DOMAIN AllNodes : name \in compatibles(AllNodes[i])}

\* Action node a is about controller c.
Names(a, c) ==
    /\ as_u32(property(AllNodes[c], "phandle")) # None
    /\ as_u32(property(AllNodes[a], "regmap")) = as_u32(property(AllNodes[c], "phandle"))

\* The write that action node a asks for at controller c.
Asks(a, c, w) ==
    /\ w.addr = as_range(property(AllNodes[c], "reg"))[1].base
                + as_u32(property(AllNodes[a], "offset"))[1]
    /\ w.v = as_u32(property(AllNodes[a], "value"))[1]

RegistersAligned ==
    \A c \in Controllers : as_range(property(AllNodes[c], "reg"))[1].base % PAGE_SIZE = 0

\* Powering off or rebooting writes to the registers of a controller, with
\* offset and value of an action node that names that very controller; and with
\* one controller, named by the only action nodes, the write is made.  The
\* registers must start with a page: iomap drops the offset in the page
\* (drivers/syscon/generic.rs:85, arch/riscv/mm/mmio.rs:62).
PowerTargetsOwner ==
    pc = "halted" /\ fdt_intact /\ RegistersAligned =>
        LET off == Actions("syscon-poweroff")
            boot == Actions("syscon-reboot")
            power == SelectSeq(writes, LAMBDA w : w.dev = "syscon")
        IN /\ \A i \in DOMAIN power :
                 \E c \in Controllers, a \in off \union boot :
                    Names(a, c) /\ Asks(a, c, power[i])
           /\ /\ Cardinality(off) = 1 /\ Cardinality(boot) = 1
              /\ Cardinality(Controllers) = 1
              /\ \A c \in Controllers, a \in off \union boot : Names(a, c)
              => power # <<>>

-----------------------------------------------------------------------------
(* What comments of the code say and the code does not do.                 *)

ProbedAt(i) == SelectInSeq(visited, LAMBDA o : o = AllNodes[i].off)

\* drivers/syscon/mod.rs:24: registering a controller replaces the one that is
\* registered, so the last one probed is the provider.
ProviderReplaced ==
    pc = "running" /\ fdt_intact =>
        \A c \in Controllers :
            (\A d \in Controllers : ProbedAt(d) <= ProbedAt(c)) => syscon[1].off = AllNodes[c].off
=============================================================================
