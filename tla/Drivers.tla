------------------------------- MODULE Drivers -------------------------------
(***************************************************************************)
(* kmain after the memory setup: the walks over the device tree that probe *)
(* interrupt controllers and drivers, the registries they fill, and what   *)
(* is done with them later (drivers/, initrd.rs).                          *)
(*                                                                         *)
(* A device register write is recorded as [dev, addr, v] with its physical *)
(* address; the text a UART writes is one write.  A probe that maps its    *)
(* registers gets an IoMapping [base, pa, size]; `base` is the physical    *)
(* address behind the first byte of its virtual range.  Mappings and DMA   *)
(* buffers take frames, while the walks are still reading the device tree. *)
(* What the probe of a block device does with its queue is VirtioBlk.      *)
(***************************************************************************)
EXTENDS BootMemory

VARIABLES nodes,        \* queue of the walk
          visited,      \* offsets of the nodes taken from it
          plic, syscon, \* PLIC and SYSCON: None or Some(device)
          initrd,       \* the ramdisk found by load_from_fdt
          io_pages,     \* pages taken from IOMAP
          writes        \* writes to device registers

driver_vars == <<nodes, visited, plic, syscon, initrd, io_pages, writes>>
vars == <<boot_vars, driver_vars>>

Init ==
    /\ BootInit
    /\ nodes = <<>> /\ visited = <<>>
    /\ plic = None /\ syscon = None /\ initrd = None
    /\ io_pages = 0 /\ writes = <<>>

stop(why) == panic(why) /\ UNCHANGED driver_vars

step(to) ==
    /\ pc' = to
    /\ UNCHANGED <<machine, reason, memory_vars>>

\* A step that takes n frames and k pages of I/O addresses.
step_taking(n, k, to) ==
    /\ pc' = to
    /\ take(n)
    /\ io_pages' = io_pages + k
    /\ UNCHANGED <<machine, reason, hart, tree, region, satp, early_tables, early, late,
                   phys_mem_offset>>

root == tree[1]

\* --- I/O mappings --------------------------------------------------------

\* RiscvIoMapper::iomap: the mapping starts with the page of `base`.
iomap(base, len) == [base |-> (base \div PAGE_SIZE) * PAGE_SIZE, pa |-> base, size |-> len]

\* What it takes: whole pages, from the top of the window down, and the page
\* tables that are not there yet.
iomap_pages(base, len) == page(align_up(base + len, PAGE_SIZE)) - page(base)
iomap_frames(k) ==
    tables_for((io_pages + k) * PAGE_SIZE, PAGE_SIZE) - tables_for(io_pages * PAGE_SIZE, PAGE_SIZE)

\* The assertions of IoMapping::read and write for a value of `width` bytes.
accessible(io, offset, width) ==
    /\ io.size >= offset + width
    /\ offset % width = 0

register_write(dev, io, offset, v) == [dev |-> dev, addr |-> io.base + offset, v |-> v]

\* --- kmain ---------------------------------------------------------------

kmain ==
    /\ pc = "kmain"
    /\ nodes' = <<root>>
    /\ step("irqchip")
    /\ UNCHANGED <<visited, plic, syscon, initrd, io_pages, writes>>

\* kmain and the walks read a device tree that was overwritten: they panic ...
fdt_lost ==
    /\ pc \in {"kmain", "irqchip", "drivers", "initrd"} /\ ~fdt_intact
    /\ stop("fdt lost")

\* ... or find no more children, or no `compatible`.
children_read(node) == IF fdt_intact THEN {node.children} ELSE {node.children, <<>>}

\* Mutant: the children come next, as in a depth-first walk.
pop_depth ==
    /\ nodes # <<>>
    /\ \E c \in children_read(Head(nodes)) : nodes' = c \o Tail(nodes)
    /\ visited' = Append(visited, Head(nodes).off)

\* Both walks: take the first node, append its children.
pop ==
    /\ nodes # <<>>
    /\ \E c \in children_read(Head(nodes)) : nodes' = Tail(nodes) \o c
    /\ visited' = Append(visited, Head(nodes).off)

\* --- interrupt controllers -----------------------------------------------

is_plic(node) == "riscv,plic0" \in compatibles(node)

\* Mutant: registers of no length are mapped.
plic_reg_any(node) == as_range(property(node, "reg"))

\* The registers that SifivePlic::init maps: errors are only printed.
plic_reg(node) ==
    LET reg == as_range(property(node, "reg"))
    IN IF reg # None /\ reg[1].len = 0 THEN None ELSE reg

\* register_platform_irqchip: the first controller stays, later ones are only
\* mapped.
plic_init ==
    LET reg == plic_reg(Head(nodes))
        k == iomap_pages(reg[1].base, reg[1].len)
    IN /\ pc = "irqchip" /\ nodes # <<>> /\ is_plic(Head(nodes)) /\ reg # None
       /\ \/ /\ room_for(iomap_frames(k)) /\ pop
             /\ plic' = IF plic = None THEN Some(iomap(reg[1].base, reg[1].len)) ELSE plic
             /\ step_taking(iomap_frames(k), k, "irqchip")
             /\ UNCHANGED <<syscon, initrd, writes>>
          \/ ~room_for(iomap_frames(k)) /\ stop("oom")

irqchip_skip ==
    /\ pc = "irqchip" /\ nodes # <<>>
    /\ ~is_plic(Head(nodes)) \/ plic_reg(Head(nodes)) = None \/ ~fdt_intact
    /\ pop
    /\ step("irqchip")
    /\ UNCHANGED <<plic, syscon, initrd, io_pages, writes>>

irqchip_done ==
    /\ pc = "irqchip" /\ nodes = <<>>
    /\ nodes' = <<root>> /\ visited' = <<>>
    /\ step("drivers")
    /\ UNCHANGED <<plic, syscon, initrd, io_pages, writes>>

\* --- drivers -------------------------------------------------------------

\* infos, in the order of the list, with what each of them matches.
infos == << "syscon", "virtio,mmio", "ns16550a" >>

driver_of(node) ==
    LET i == SelectInSeq(infos, LAMBDA c : c \in compatibles(node))
    IN IF i = 0 THEN "none" ELSE infos[i]

\* Mutant: the first compatible node, whichever controller it names.
find_syscon_driver_any(phandle, name) ==
    LET n == find_compatible(root, name)
        offset == as_u32(property(n[1], "offset"))
        value == as_u32(property(n[1], "value"))
    IN IF n # None /\ offset # None /\ value # None
       THEN Some([offset |-> offset[1], value |-> value[1]]) ELSE None

\* find_syscon_driver: the first compatible node, if it names the controller.
find_syscon_driver(phandle, name) ==
    LET n == find_compatible(root, name)
        offset == as_u32(property(n[1], "offset"))
        value == as_u32(property(n[1], "value"))
    IN IF n # None /\ as_u32(property(n[1], "regmap")) = Some(phandle)
          /\ offset # None /\ value # None
       THEN Some([offset |-> offset[1], value |-> value[1]]) ELSE None

generic_syscon(node, reg) ==
    LET phandle == as_u32(property(node, "phandle"))
        action(name) == IF phandle = None THEN None ELSE find_syscon_driver(phandle[1], name)
    IN [regmap |-> iomap(reg.base, reg.len), poweroff |-> action("syscon-poweroff"),
        reboot |-> action("syscon-reboot"), off |-> node.off]

register_provider(dev) == syscon' = IF syscon = None THEN Some(dev) ELSE syscon

\* What a probe ends with: Ok, an error, or a panic of its own.
reg_error(node) ==
    LET reg == as_range(property(node, "reg")) IN
    CASE property(node, "reg") = None -> "MissingRequiredProperty"
      [] property(node, "reg") # None /\ reg = None ->
            IF driver_of(node) = "syscon" THEN "empty reg property" ELSE "MissingRequiredProperty"
      [] reg # None /\ reg[1].len = 0 -> "InvalidPropertyValue"
      [] OTHER -> "Ok"

\* VirtioBlkDev::new: the queue of n entries (Virtq::new), and a page each for
\* the name of the device and the request that asks for it.
virtq_pages(n) ==
    LET desc == 16 * n
        avail == 4 + 2 * (n + 1)
        used == 4 + 2 + 8 * n
    IN page(align_up(desc + avail + used + align_up(desc + avail, 4), PAGE_SIZE))

dma_frames(dev) == virtq_pages(dev.num_max) + 2

\* VirtioMmio::init and VirtioBlkDev::new, after k frames were taken: every
\* register must be in the mapping, the features say how much of the
\* configuration is read.
virtio_error(io, k) ==
    LET dev == machine.virtio[io.pa] IN
    first_error(
        << check(accessible(io, 0, 4), "assert"), check(dev.magic, "UnexpectedError"),
           check(accessible(io, 4, 4), "assert"), check(dev.version = 1, "UnexpectedError"),
           check(accessible(io, 12, 4), "assert"), check(dev.id # 0, "DeviceNotFound"),
           check(accessible(io, 40, 4), "assert"), check(dev.id = 2, "todo"),
           check(accessible(io, 112, 4), "assert"),
           check(room_for(k + virtq_pages(dev.num_max)), "oom"),
           check(io.size >= 256 + dev.config, "assert"),
           check(room_for(k + dma_frames(dev)), "oom") >>)

\* Ns16550::put polls LSR and writes RTHR.
uart_error(io) == first_error(<< check(accessible(io, 5, 1), "assert") >>)

\* Ns16550::init greets.
uart_init(io) == writes' = Append(writes, register_write("uart", io, 0, 0))

\* Driver::init of the three drivers: reg, its mapping, then the device.
probe_result(node) ==
    LET reg == as_range(property(node, "reg"))[1]
        io == iomap(reg.base, reg.len)
        n == iomap_frames(iomap_pages(reg.base, reg.len))
    IN CASE reg_error(node) # "Ok" -> reg_error(node)
         [] reg_error(node) = "Ok" /\ ~room_for(n) -> "oom"
         [] reg_error(node) = "Ok" /\ room_for(n) /\ driver_of(node) = "virtio,mmio" ->
               virtio_error(io, n)
         [] reg_error(node) = "Ok" /\ room_for(n) /\ driver_of(node) = "ns16550a" ->
               uart_error(io)
         [] OTHER -> "Ok"

probe_skip ==
    /\ pc = "drivers" /\ nodes # <<>>
    /\ driver_of(Head(nodes)) = "none" \/ ~fdt_intact
    /\ pop
    /\ step("drivers")
    /\ UNCHANGED <<plic, syscon, initrd, io_pages, writes>>

\* A device that answers DeviceNotFound is passed over; it stays mapped.
probe_init ==
    LET node == Head(nodes)
        reg == as_range(property(node, "reg"))[1]
        k == iomap_pages(reg.base, reg.len)
        dma == IF driver_of(node) = "virtio,mmio" /\ probe_result(node) = "Ok"
               THEN dma_frames(machine.virtio[reg.base]) ELSE 0
    IN /\ pc = "drivers" /\ nodes # <<>> /\ driver_of(node) # "none"
       /\ probe_result(node) \in {"Ok", "DeviceNotFound"}
       /\ pop
       /\ \/ driver_of(node) = "syscon" /\ register_provider(generic_syscon(node, reg))
          \/ driver_of(node) # "syscon" /\ UNCHANGED syscon
       /\ \/ driver_of(node) = "ns16550a" /\ uart_init(iomap(reg.base, reg.len))
          \/ driver_of(node) # "ns16550a" /\ UNCHANGED writes
       /\ step_taking(iomap_frames(k) + dma, k, "drivers")
       /\ UNCHANGED <<plic, initrd>>

probe_fail ==
    /\ pc = "drivers" /\ nodes # <<>> /\ driver_of(Head(nodes)) # "none"
    /\ probe_result(Head(nodes)) \notin {"Ok", "DeviceNotFound"}
    /\ stop(probe_result(Head(nodes)))

probe_done ==
    /\ pc = "drivers" /\ nodes = <<>>
    /\ step("initrd")
    /\ UNCHANGED driver_vars

\* --- the initial ramdisk -------------------------------------------------

load_from_fdt ==
    LET chosen == find_child(root, "chosen")
        start == IF chosen = None THEN None
                 ELSE as_u32_pair(property(chosen[1], "linux,initrd-start"))
        end == IF chosen = None THEN None
               ELSE as_u32_pair(property(chosen[1], "linux,initrd-end"))
    IN /\ pc = "initrd"
       /\ \/ /\ start # None /\ end # None /\ start[1] <= end[1]
             /\ initrd' = Some([start |-> start[1], len |-> end[1] - start[1]])
             /\ step("running")
             /\ UNCHANGED <<nodes, visited, plic, syscon, io_pages, writes>>
          \/ (start = None \/ end = None \/ ~fdt_intact) /\ stop("NotFound")
          \/ start # None /\ end # None /\ start[1] > end[1] /\ stop("underflow")

\* --- power ---------------------------------------------------------------

\* poweroff and reboot of the registered controller, if it can; the hart stops.
syscon_write(reg) ==
    \/ /\ reg # None /\ accessible(syscon[1].regmap, reg[1].offset, 4)
       /\ writes' = Append(writes, register_write("syscon", syscon[1].regmap,
                                                reg[1].offset, reg[1].value))
       /\ step("halted")
       /\ UNCHANGED <<nodes, visited, plic, syscon, initrd, io_pages>>
    \/ reg = None /\ step("halted") /\ UNCHANGED driver_vars
    \/ reg # None /\ ~accessible(syscon[1].regmap, reg[1].offset, 4) /\ stop("assert")

poweroff ==
    /\ pc = "running"
    /\ syscon_write(IF syscon = None THEN None ELSE syscon[1].poweroff)

reboot ==
    /\ pc = "running"
    /\ syscon_write(IF syscon = None THEN None ELSE syscon[1].reboot)

Done ==
    /\ pc \in {"parked", "panic", "halted"}
    /\ UNCHANGED vars

Next ==
    \/ BootNext /\ UNCHANGED driver_vars
    \/ kmain \/ fdt_lost \/ plic_init \/ irqchip_skip \/ irqchip_done
    \/ probe_skip \/ probe_init \/ probe_fail \/ probe_done
    \/ load_from_fdt
    \/ poweroff \/ reboot
    \/ Done

Spec == Init /\ [][Next]_vars
=============================================================================
