------------------------------- MODULE MCBoot --------------------------------
(* Pages of 512 bytes, so that the registers of a device fit one; large     *)
(* pages of four pages and giga pages of four large pages; four early       *)
(* tables.  RAM starts with a large page of firmware.  Every placement is   *)
(* tried with one tree, and every tree with one placement.                  *)
EXTENDS BootProperties

P(n) == n * PAGE_SIZE   \* pages in bytes

begin(name, unit) == [t |-> "BEGIN", name |-> name, unit |-> unit]
prop(name, v) == [t |-> "PROP", name |-> name, v |-> v]
End == [t |-> "END"]
Nop == [t |-> "NOP"]

node(name, unit, props, children) == <<begin(name, unit)>> \o props \o children \o <<End>>

compatible(c) == prop("compatible", <<c>>)
range(base, len) == prop("reg", <<0, base, 0, len>>)

memory(base, size) == node("memory", "64", <<Nop, range(P(base), P(size)), range(0, 0)>>, <<>>)
chosen == node("chosen", "", <<prop("linux,initrd-start", <<0, P(70)>>),
                               prop("linux,initrd-end", <<0, P(70) + 700>>)>>, <<>>)

syscon_node(h, base) ==
    node("test", "1", <<prop("compatible", <<"sifive,test1", "syscon">>), range(P(base), 16),
                        prop("phandle", <<h>>)>>, <<>>)
action_node(c, h, offset, v) ==
    node(c, "", <<compatible(c), prop("regmap", <<h>>), prop("offset", <<offset>>),
                  prop("value", <<v>>)>>, <<>>)
device(c, base, len) == node("dev", "2", <<compatible(c), range(P(base), len)>>, <<>>)

Devices ==
    { syscon_node(1, 400), syscon_node(2, 500),
      action_node("syscon-poweroff", 1, 0, 7), action_node("syscon-poweroff", 2, 4, 8),
      action_node("syscon-reboot", 1, 8, 9), action_node("syscon-reboot", 2, 2, 9),
      device("riscv,plic0", 600, 8), device("ns16550a", 700, 8),
      <<Nop>> \o device("virtio,mmio", 800, 512), device("virtio,mmio", 900, 512) }

\* A controller whose registers do not start with a page, action nodes that do
\* not fit them, missing and empty registers, and odd virtio devices.
OddDevices ==
    LET odd(c, props) == node("a", "", <<prop("compatible", c)>> \o props, <<>>) IN
    { odd(<<"syscon">>, <<range(P(400) + 8, 16), prop("phandle", <<1>>)>>),
      action_node("syscon-poweroff", 1, 40, 7),
      odd(<<"syscon">>, <<>>), odd(<<"syscon">>, <<prop("reg", <<>>)>>),
      odd(<<"syscon">>, <<range(P(400), 0)>>), odd(<<"syscon">>, <<range(P(400), 8)>>),
      odd(<<"ns16550a", "syscon">>, <<range(P(400), 8)>>),
      odd(<<"riscv,plic0">>, <<>>), odd(<<"riscv,plic0", "ns16550a">>, <<range(P(700), 8)>>),
      device("riscv,plic0", 608, 2000), device("riscv,plic0", 608, 0),
      device("ns16550a", 700, 4),
      device("virtio,mmio", 808, 512), device("virtio,mmio", 816, 512),
      device("virtio,mmio", 824, 512), device("virtio,mmio", 832, 280),
      device("virtio,mmio", 800, 8), device("virtio,mmio", 800, 64),
      device("virtio,mmio", 800, 256), device("virtio,mmio", 840, 512) }

virtio_device(id) == [magic |-> TRUE, version |-> 1, id |-> id, num_max |-> 8, config |-> 8]
MCVirtio ==
    P(800) :> virtio_device(2) @@ P(900) :> virtio_device(0) @@ P(808) :> virtio_device(4)
    @@ P(816) :> [virtio_device(2) EXCEPT !.magic = FALSE]
    @@ P(824) :> [virtio_device(2) EXCEPT !.version = 2]
    @@ P(832) :> [virtio_device(2) EXCEPT !.config = 32]
    @@ P(840) :> [virtio_device(2) EXCEPT !.num_max = 256]

blob(tokens) == [totalsize |-> 4096, magic |-> TRUE, version |-> 17, last_comp_version |-> 16,
                 tokens |-> tokens]
dtb_of(base, size, children) == blob(node("", "", <<>>, memory(base, size) \o chosen \o children))

\* Lists of devices on the top level, or some of them below a bus, which comes
\* first.
Trees ==
    {dtb_of(32, 48, a \o b \o c) : a \in Devices \union {<<Nop>>}, b \in Devices, c \in Devices}
    \union {dtb_of(32, 48, node("soc", "", <<Nop>>, a \o <<Nop>> \o b) \o c) :
              a \in Devices, b \in Devices, c \in Devices}
    \union {dtb_of(32, 48, a \o o) : a \in Devices, o \in OddDevices}
    \union {dtb_of(32, 48, o \o a) : a \in Devices, o \in OddDevices}

UsualDevices ==
    syscon_node(1, 400) \o action_node("syscon-poweroff", 1, 0, 7)
    \o action_node("syscon-reboot", 1, 8, 9)

BadBlobs ==
    LET good == dtb_of(32, 48, UsualDevices)
        inner == memory(32, 48) \o chosen
    IN {[good EXCEPT !.magic = FALSE], [good EXCEPT !.version = 16],
        [good EXCEPT !.last_comp_version = 17], [good EXCEPT !.totalsize = 36],
        blob(<<Nop>> \o good.tokens \o <<Nop>>),
        blob(Front(good.tokens)), blob(Tail(good.tokens)), blob(good.tokens \o <<End>>),
        blob(node("", "", <<>>, inner \o <<prop("reg", <<>>)>>)),       \* property after a child
        blob(node("", "", <<prop("model", <<>>), Nop>>, inner)),
        blob(node("", "", <<>>, chosen)),                               \* no memory
        blob(node("", "", <<>>, node("memory", "", <<>>, <<>>) \o inner)),
        blob(node("", "", <<>>, node("soc", "", <<>>, inner) \o memory(0, 8))),
        blob(node("", "", <<>>, memory(32, 48))),                       \* no ramdisk
        blob(node("", "", <<>>, memory(32, 48) \o
                 node("chosen", "", <<prop("linux,initrd-start", <<0, P(60)>>),
                                      prop("linux,initrd-end", <<0, P(58)>>)>>, <<>>)))}

\* RAM of `size` pages from page 32 on; the image, of so many bytes, is loaded at
\* an address.
machine_of(size, load, image, fdt, ramdisk, dtb) ==
    [ram |-> P(32), ram_size |-> P(size), load |-> load, image |-> image, fdt |-> fdt,
     initrd |-> ramdisk, dtb |-> dtb, virtio |-> MCVirtio]

\* Images around the end of a page and of a large page, RAM from too little to
\* too much, device trees next to the image, in the middle and at the top.
Placements ==
    {machine_of(size, P(36), image, fdt, ramdisk, dtb_of(32, size, UsualDevices)) :
        size \in {18, 21, 22, 24, 26, 28, 29, 32, 48, 64},
        image \in {P(3), P(4) + 1, P(6) + 1, P(7) - 1, P(7), P(7) + 1, P(8), P(8) + 1},
        fdt \in {{42}, {47}, {50}, {54}, {55}, {56}, {63}},
        ramdisk \in {{45}, {57, 58}}}

InRam(m) ==
    /\ m.load + m.image <= m.ram + m.ram_size
    /\ m.fdt \intersect m.initrd = {}
    /\ \A p \in m.fdt \union m.initrd : page(m.load + m.image) < p /\ p < page(m.ram + m.ram_size)

MCMachines ==
    {m \in Placements : InRam(m)}
    \union {machine_of(48, load, P(6) + 1, {69}, {70}, dtb_of(32, 48, UsualDevices)) :
              load \in {P(36), P(37)}}
    \union {machine_of(48, P(36), P(6) + 1, {69}, {70}, dtb_of(33, 47, UsualDevices))}
    \union {machine_of(48, P(36), P(6) + 1, {69}, {70}, b) : b \in Trees \union BadBlobs}

\* Machines with two controllers.
MCTwoControllers ==
    {machine_of(48, P(36), P(6) + 1, {69}, {70},
                dtb_of(32, 48, syscon_node(1, 400) \o syscon_node(2, 500) \o d)) : d \in Devices}
=============================================================================
