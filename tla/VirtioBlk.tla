----------------------------- MODULE VirtioBlk ------------------------------
(***************************************************************************)
(* A virtio block device: the queue (virtq.rs), its driver (blkdev.rs on   *)
(* mmio.rs) and, as external actions, the device, which runs between any   *)
(* two steps of the driver.                                                *)
(*                                                                         *)
(* The kernel probes a device and asks for its name; the model then goes   *)
(* on with any sequence of transfers. Memory for requests and data is      *)
(* fresh for each request and never freed, so a buffer is named by the     *)
(* number of its request and its part. That this memory runs out is the    *)
(* business of BumpFrameAllocator.                                         *)
(***************************************************************************)
EXTENDS Integers, Sequences, FiniteSets, SequencesExt, FiniteSetsExt

CONSTANTS
    Sizes       \* what QUEUE_NUM_MAX may read

\* The indices in the queue are 16 bits wide.
U16 == 65536

ASSUME SizesAssumption == \A n \in Sizes : n \in Nat /\ n < U16

VARIABLES
    pc,         \* where the driver is
    vq,         \* the fields of Virtq; descr, ring and idx are shared with the device
    call,       \* locals of submit: chain_head, idx, the buffers left
    dev,        \* the device: registers, and its own position in the queue
    requests,   \* ghost: the buffers and the descriptors of each request
    served      \* ghost: the buffers of the requests the device has taken

vars == <<pc, vq, call, dev, requests, served>>

Kinds == {"GetId", "In", "Out", "Flush"}

\* The buffers of request r: its header, its data if any, its status byte.
buffers(r, kind) ==
    LET part(p, w) == [req |-> r, part |-> p, write |-> w] IN
    <<part("header", FALSE)>>
        \o (IF kind = "Flush" THEN <<>> ELSE <<part("data", kind \in {"In", "GetId"})>>)
        \o <<part("status", TRUE)>>

NoBuffer == [req |-> 0, part |-> "header", write |-> FALSE]

-----------------------------------------------------------------------------
(* Virtq::new.                                                             *)

NoQueue == [size |-> 0, descr |-> <<>>, ring |-> <<>>, idx |-> 0,
            first_free |-> 0, free_count |-> 0]

\* Mutant: the free list is not closed.
new_virtq_open(n) ==
    [size |-> n,
     descr |-> [i \in 0..(n - 1) |-> [next |-> i + 1, flags |-> {}, buf |-> NoBuffer]],
     ring |-> [i \in 0..(n - 1) |-> 0],
     idx |-> 0, first_free |-> 0, free_count |-> n]

\* The free list is circular.
new_virtq(n) ==
    [size |-> n,
     descr |-> [i \in 0..(n - 1) |->
                   [next |-> (i + 1) % n, flags |-> {}, buf |-> NoBuffer]],
     ring |-> [i \in 0..(n - 1) |-> 0],
     idx |-> 0, first_free |-> 0, free_count |-> n]

-----------------------------------------------------------------------------
(* VirtioBlkDev::new. Reading the features and the configuration changes   *)
(* nothing.                                                                *)

update_status(s) == dev' = [dev EXCEPT !.status = @ \cup {s}]

goto(l) == pc' = l

acknowledge ==
    /\ pc = "new"
    /\ update_status("ACKNOWLEDGE")
    /\ goto("driver")
    /\ UNCHANGED <<vq, call, requests, served>>

driver ==
    /\ pc = "driver"
    /\ update_status("DRIVER")
    /\ goto("virtq")
    /\ UNCHANGED <<vq, call, requests, served>>

\* A queue of no entries overflows the index of its last descriptor.
virtq_panic ==
    /\ pc = "virtq"
    /\ dev.pfn # 0 \/ dev.num_max = 0
    /\ goto("halt")
    /\ UNCHANGED <<vq, call, dev, requests, served>>

allocate_virtq ==
    /\ pc = "virtq"
    /\ dev.pfn = 0
    /\ dev.num_max # 0
    /\ vq' = new_virtq(dev.num_max)
    /\ dev' = [dev EXCEPT !.pfn = 1]
    /\ goto("driver_ok")
    /\ UNCHANGED <<call, requests, served>>

driver_ok ==
    /\ pc = "driver_ok"
    /\ update_status("DRIVER_OK")
    /\ goto("idle")
    /\ UNCHANGED <<vq, call, requests, served>>

-----------------------------------------------------------------------------
(* transfer and Virtq::submit.                                             *)

\* The first request asks for the name of the device.
transfer ==
    /\ pc = "idle"
    /\ \E kind \in IF requests = <<>> THEN {"GetId"} ELSE Kinds :
           call' = [call EXCEPT !.bufs = buffers(Len(requests) + 1, kind)]
    /\ goto("submit")
    /\ UNCHANGED <<vq, dev, requests, served>>

\* The descriptors met on the first k steps from i, and the one after them.
walk(d, i, k) ==
    LET path[j \in 0..k] == IF j = 0 THEN i ELSE d[path[j - 1]].next
    IN  path

total_req == Len(call.bufs)

\* Mutant: the chain is one descriptor short.
next_link_short == walk(vq.descr, vq.first_free, total_req - 1)[total_req - 1]

next_link == walk(vq.descr, vq.first_free, total_req)[total_req]

\* The first descriptor that points at the head of the chain.
parent == Min({i \in DOMAIN vq.descr : vq.descr[i].next = vq.first_free})

\* The free list has too few descriptors: the subtraction overflows.
submit_panic ==
    /\ pc = "submit"
    /\ total_req > vq.free_count
    /\ goto("halt")
    /\ UNCHANGED <<vq, call, dev, requests, served>>

\* Mutant: the free descriptors are not counted down, as if they came back.
submit_take_uncounted ==
    /\ pc = "submit"
    /\ vq' = [vq EXCEPT !.descr[parent].next = next_link, !.first_free = next_link]
    /\ call' = [call EXCEPT !.head = vq.first_free, !.idx = vq.first_free]
    /\ requests' = Append(requests,
           [bufs |-> call.bufs,
            chain |-> {walk(vq.descr, vq.first_free, total_req)[j] : j \in 0..(total_req - 1)}])
    /\ goto("prepare")
    /\ UNCHANGED <<dev, served>>

submit_take ==
    /\ pc = "submit"
    /\ total_req <= vq.free_count
    /\ vq' = [vq EXCEPT !.descr[parent].next = next_link,
                        !.first_free = next_link,
                        !.free_count = @ - total_req]
    /\ call' = [call EXCEPT !.head = vq.first_free, !.idx = vq.first_free]
    /\ requests' = Append(requests,
           [bufs |-> call.bufs,
            chain |-> {walk(vq.descr, vq.first_free, total_req)[j] : j \in 0..(total_req - 1)}])
    /\ goto("prepare")
    /\ UNCHANGED <<dev, served>>

\* Mutant: the chain ends one descriptor early.
flags_of_early(bufs) ==
    (IF Len(bufs) > 2 THEN {"NEXT"} ELSE {}) \cup (IF Head(bufs).write THEN {"WRITE"} ELSE {})

flags_of(bufs) ==
    (IF Len(bufs) # 1 THEN {"NEXT"} ELSE {}) \cup (IF Head(bufs).write THEN {"WRITE"} ELSE {})

prepare ==
    /\ pc = "prepare"
    /\ vq' = [vq EXCEPT !.descr[call.idx].buf = Head(call.bufs),
                        !.descr[call.idx].flags = flags_of(call.bufs)]
    /\ call' = [call EXCEPT !.idx = vq.descr[call.idx].next, !.bufs = Tail(@)]
    /\ goto(IF Len(call.bufs) = 1 THEN "ring" ELSE "prepare")
    /\ UNCHANGED <<dev, requests, served>>

write_ring ==
    /\ pc = "ring"
    /\ vq' = [vq EXCEPT !.ring[vq.idx] = call.head]
    /\ goto("idx")
    /\ UNCHANGED <<call, dev, requests, served>>

write_idx ==
    /\ pc = "idx"
    /\ vq' = [vq EXCEPT !.idx = (@ + 1) % vq.size]
    /\ goto("notify")
    /\ UNCHANGED <<call, dev, requests, served>>

\* Mutant: the device is never told.
notify_missing ==
    /\ pc = "notify"
    /\ goto("wait")
    /\ UNCHANGED <<vq, call, dev, requests, served>>

notify ==
    /\ pc = "notify"
    /\ dev' = [dev EXCEPT !.notified = TRUE]
    /\ goto("wait")
    /\ UNCHANGED <<vq, call, requests, served>>

\* Mutant: the interrupt is not cleared.
wait_keep ==
    /\ pc = "wait"
    /\ "USED_BUFFER" \in dev.isr
    /\ goto("idle")
    /\ UNCHANGED <<vq, call, dev, requests, served>>

\* The spin loop, once it sees the interrupt.
wait ==
    /\ pc = "wait"
    /\ "USED_BUFFER" \in dev.isr
    /\ goto("clear")
    /\ UNCHANGED <<vq, call, dev, requests, served>>

clear_interrupts ==
    /\ pc = "clear"
    /\ dev' = [dev EXCEPT !.isr = @ \ {"USED_BUFFER"}]
    /\ goto("idle")
    /\ UNCHANGED <<vq, call, requests, served>>

-----------------------------------------------------------------------------
(* The device. It may look at the queue at any time once the driver is     *)
(* ready, must do so when notified, and reports each request once.         *)

\* The buffers of the chain at descriptor i.
chain_at(i) ==
    LET len == CHOOSE k \in 1..vq.size :
                   LET p == walk(vq.descr, i, vq.size) IN
                   /\ "NEXT" \notin vq.descr[p[k - 1]].flags
                   /\ \A j \in 1..(k - 1) : "NEXT" \in vq.descr[p[j - 1]].flags
    IN  [j \in 1..len |-> vq.descr[walk(vq.descr, i, vq.size)[j - 1]].buf]

device_take ==
    /\ "DRIVER_OK" \in dev.status
    /\ ~dev.busy
    /\ dev.seen # vq.idx
    /\ served' = Append(served, chain_at(vq.ring[dev.seen % vq.size]))
    /\ dev' = [dev EXCEPT !.seen = (@ + 1) % U16, !.busy = TRUE, !.notified = FALSE]
    /\ UNCHANGED <<pc, vq, call, requests>>

device_use ==
    /\ dev.busy
    /\ dev' = [dev EXCEPT !.busy = FALSE, !.used = @ + 1, !.isr = @ \cup {"USED_BUFFER"}]
    /\ UNCHANGED <<pc, vq, call, requests, served>>

device_config ==
    /\ pc # "halt"
    /\ dev' = [dev EXCEPT !.isr = @ \cup {"CONFIG_CHANGED"}]
    /\ UNCHANGED <<pc, vq, call, requests, served>>

-----------------------------------------------------------------------------
Init ==
    /\ pc = "new"
    /\ vq = NoQueue
    /\ call = [head |-> 0, idx |-> 0, bufs |-> <<>>]
    /\ \E n \in Sizes, pfn \in {0, 1} :
           dev = [status |-> {}, pfn |-> pfn, num_max |-> n, isr |-> {}, seen |-> 0,
                  busy |-> FALSE, notified |-> FALSE, used |-> 0]
    /\ requests = <<>>
    /\ served = <<>>

Driver ==
    \/ acknowledge \/ driver \/ virtq_panic \/ allocate_virtq \/ driver_ok
    \/ transfer \/ submit_panic \/ submit_take \/ prepare
    \/ write_ring \/ write_idx \/ notify \/ wait \/ clear_interrupts

Device == device_take \/ device_use \/ device_config

Next == Driver \/ Device

Spec == Init /\ [][Next]_vars

\* The kernel runs nothing else while it probes a device. A notified device
\* looks at its queue and finishes what it has taken.
FairSpec ==
    /\ Spec
    /\ WF_vars(Driver)
    /\ WF_vars(dev.notified /\ device_take)
    /\ WF_vars(device_use)

-----------------------------------------------------------------------------
Locations == {"new", "driver", "virtq", "driver_ok", "idle", "submit", "prepare", "ring",
              "idx", "notify", "wait", "clear", "halt"}

Buffers == [req : Nat, part : {"header", "data", "status"}, write : BOOLEAN]

Descriptors == [next : 0..(U16 - 1), flags : SUBSET {"NEXT", "WRITE"}, buf : Buffers]

\* The queue is an array of descriptors and a ring of its size, whose links and
\* entries are indices into it; indices and counts stay in their range.
TypeOK ==
    /\ pc \in Locations
    /\ vq.size \in Sizes \cup {0}
    /\ DOMAIN vq.descr = 0..(vq.size - 1) \/ vq = NoQueue
    /\ \A i \in DOMAIN vq.descr : vq.descr[i] \in Descriptors
    /\ \A i \in DOMAIN vq.descr : vq.descr[i].next \in 0..(vq.size - 1)
    /\ \A i \in DOMAIN vq.ring : vq.ring[i] \in 0..(vq.size - 1)
    /\ vq.free_count \in 0..vq.size
    /\ vq # NoQueue => vq.idx \in DOMAIN vq.ring /\ vq.first_free \in DOMAIN vq.descr
    /\ dev.isr \subseteq {"USED_BUFFER", "CONFIG_CHANGED"}

\* The first free_count descriptors of the free list and the chains of all
\* requests divide the queue between them, so no descriptor serves two requests.
FreeListApart ==
    vq # NoQueue =>
        LET free == {walk(vq.descr, vq.first_free, vq.free_count)[j] : j \in 0..(vq.free_count - 1)}
            chains == {requests[k].chain : k \in DOMAIN requests}
        IN  /\ Cardinality(free) = vq.free_count
            /\ free \cup UNION chains = DOMAIN vq.descr
            /\ free \cap UNION chains = {}
            /\ \A k \in DOMAIN requests : Cardinality(requests[k].chain) = Len(requests[k].bufs)

\* The unwrap and the assertion of submit hold: some descriptor points at the
\* head of the free list, and preparing the chain ends at the new head.
SubmitAssertions ==
    /\ pc = "submit" => \E i \in DOMAIN vq.descr : vq.descr[i].next = vq.first_free
    /\ pc = "ring" => call.idx = vq.first_free

\* The device is given every request once, in order, and complete: whenever it
\* looks, the chain it reads holds the buffers of that request.
DeviceSeesRequests ==
    /\ Len(served) <= Len(requests)
    /\ \A k \in DOMAIN served : served[k] = requests[k].bufs

\* When transfer returns, the device has finished its request.
TransferComplete == pc = "idle" => dev.used = Len(requests)

\* The available index counts the requests. It is taken modulo the size of the
\* queue and not modulo 2^16 as the device does, which would matter after as many
\* requests as the queue has descriptors; but the descriptors run out before.
IndexNeverWraps ==
    pc \in {"notify", "wait", "clear", "idle"} => vq.idx = Len(requests)

\* Every transfer returns, unless it runs out of descriptors.
TransfersReturn == pc = "submit" ~> pc \in {"idle", "halt"}

=============================================================================
