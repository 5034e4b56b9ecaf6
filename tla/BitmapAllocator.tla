--------------------------- MODULE BitmapAllocator ---------------------------
(***************************************************************************)
(* kernel/src/mm/allocator/bitmap.rs: a frame allocator that keeps one     *)
(* descriptor per page at the start of the memory it manages.              *)
(*                                                                         *)
(* The two loops of the code are modelled one iteration per step, so that  *)
(* what has been scanned or cleared so far is part of the state.  The      *)
(* methods take &mut self: no other call runs between two steps of a call. *)
(* Ghost state: `held` (the Frames callers own, with their length, which   *)
(* the code does not store), `frame` (the argument of the last free) and   *)
(* `reply` (what the last call returned).                                  *)
(***************************************************************************)
EXTENDS Naturals

CONSTANTS N,            \* page size in bytes, the const generic N
          Regions,      \* [start, end] pairs passed to init
          Counts        \* page counts passed to alloc

ASSUME ConstantsAssumption ==
    /\ N \in Nat
    /\ Regions \subseteq [start : Nat, end : Nat]
    /\ \A r \in Regions : r.start <= r.end
    /\ Counts \subseteq Nat

VARIABLES descr_ptr,    \* address of the descriptor slice
          descriptors,  \* page number -> "free" | "taken" | "last"
          base_addr,    \* address of page 0
          num_pages,
          pc,           \* "uninit" | "failed" | "idle" | "scan" | "clear" | "panic"
          i,            \* loop index of alloc or free
          count,        \* argument of alloc
          frame, held, reply

vars == <<descr_ptr, descriptors, base_addr, num_pages, pc, i, count, frame, held, reply>>
self == <<descr_ptr, descriptors, base_addr, num_pages>>

FA == INSTANCE FrameAllocator WITH pages <- num_pages

Flags == {"free", "taken", "last"}
Chunk == [first : Nat, count : Nat]
Pages == 0..(num_pages - 1)
Taken(p) == descriptors[p] # "free"

Init ==
    /\ descr_ptr = 0 /\ base_addr = 0 /\ num_pages = 0
    /\ descriptors = [p \in {} |-> "free"]
    /\ pc = "uninit" /\ i = 0 /\ count = 0
    /\ frame = [first |-> 0, count |-> 0]
    /\ held = {}
    /\ reply = FA!NoReply

-----------------------------------------------------------------------------
(* Align for PhysAddr with a power-of-two alignment: the bit masks of the  *)
(* code are a remainder and a rounded quotient.                            *)
is_power_of_two(n) == \E k \in 0..n : 2^k = n
is_aligned(a) == a % N = 0
align_up(a) == ((a + N - 1) \div N) * N

total_num_pages(r) == (r.end - r.start) \div N

\* size_of::<PageDescriptor>() is 1.
\* Mutant: the reserved memory is not added.
avail_mem_start_unreserved(r) == align_up(r.start)

avail_mem_start(r) == align_up(r.start + total_num_pages(r))
avail_pages(r) == (r.end - avail_mem_start(r)) \div N

init_fails(r) ==
    N = 0 \/ ~is_power_of_two(N) \/ ~is_aligned(r.start) \/ ~is_aligned(r.end)

init_err(r) ==
    /\ pc \in {"uninit", "failed"}
    /\ init_fails(r)
    /\ pc' = "failed"
    /\ UNCHANGED <<self, i, count, frame, held, reply>>

\* Mutant: one descriptor per page of the whole region.
init_ok_whole_region(r) ==
    /\ pc \in {"uninit", "failed"}
    /\ ~init_fails(r)
    /\ descr_ptr' = r.start
    /\ base_addr' = avail_mem_start(r)
    /\ num_pages' = avail_pages(r)
    /\ descriptors' = [p \in 0..(total_num_pages(r) - 1) |-> "free"]
    /\ pc' = "idle"
    /\ UNCHANGED <<i, count, frame, held, reply>>

init_ok(r) ==
    /\ pc \in {"uninit", "failed"}
    /\ ~init_fails(r)
    /\ descr_ptr' = r.start
    /\ base_addr' = avail_mem_start(r)
    /\ num_pages' = avail_pages(r)
    /\ descriptors' = [p \in 0..(avail_pages(r) - 1) |-> "free"]
    /\ pc' = "idle"
    /\ UNCHANGED <<i, count, frame, held, reply>>

-----------------------------------------------------------------------------
alloc(n) ==
    /\ pc = "idle"
    /\ pc' = "scan" /\ i' = 0 /\ count' = n
    /\ UNCHANGED <<self, frame, held, reply>>

\* Page already taken => keep going.
alloc_skip ==
    /\ pc = "scan" /\ i < num_pages
    /\ Taken(i)
    /\ i' = i + 1
    /\ UNCHANGED <<self, pc, count, frame, held, reply>>

\* Mutant: `<=` in the check of the pages left.
alloc_none_off_by_one ==
    /\ pc = "scan"
    /\ i < num_pages => ~Taken(i) /\ num_pages - i <= count
    /\ pc' = "idle"
    /\ reply' = [op |-> "null", count |-> count]
    /\ UNCHANGED <<self, i, count, frame, held>>

\* Out of pages, or not enough pages left from the free page i.
alloc_none ==
    /\ pc = "scan"
    /\ i < num_pages => ~Taken(i) /\ num_pages - i < count
    /\ pc' = "idle"
    /\ reply' = [op |-> "null", count |-> count]
    /\ UNCHANGED <<self, i, count, frame, held>>

\* The run of `count` pages from i exists and starts with a free page.
run_from_i == pc = "scan" /\ i < num_pages /\ ~Taken(i) /\ num_pages - i >= count

\* Mutant: `continue 'outer` without `i = j`.
alloc_blocked_stuck ==
    /\ run_from_i
    /\ \E j \in i..(i + count - 1) : Taken(j)
    /\ UNCHANGED vars

\* A taken page j in the run => the scan goes on from the first such page.
alloc_blocked ==
    /\ run_from_i
    /\ \E j \in i..(i + count - 1) :
        /\ Taken(j)
        /\ \A k \in i..(j - 1) : ~Taken(k)
        /\ i' = j
    /\ UNCHANGED <<self, pc, count, frame, held, reply>>

\* Mutant: the end of the chunk is not marked.
marked_no_last(p) == IF p < i \/ p >= i + count THEN descriptors[p] ELSE "taken"

\* The flags the run starting at i gets.
marked(p) ==
    IF p < i \/ p >= i + count THEN descriptors[p]
    ELSE IF p = i + count - 1 THEN "last" ELSE "taken"

alloc_some ==
    /\ run_from_i
    /\ \A j \in i..(i + count - 1) : ~Taken(j)
    /\ descriptors' = [p \in Pages |-> marked(p)]
    /\ held' = held \cup {[first |-> i, count |-> count]}
    /\ reply' = [op |-> "some", first |-> i, count |-> count]
    /\ pc' = "idle"
    /\ UNCHANGED <<descr_ptr, base_addr, num_pages, i, count, frame>>

-----------------------------------------------------------------------------
(* The caller hands back the physical address it was given; free turns it  *)
(* back into a page number.                                                *)
paddr(p) == base_addr + p * N
\* Mutant: relative to the start of the region instead of page 0.
offset_from_region(a) == (a - descr_ptr) \div N

offset(a) == (a - base_addr) \div N

free(c) ==
    /\ pc = "idle"
    /\ c \in held
    /\ frame' = c
    /\ held' = held \ {c}
    /\ i' = offset(paddr(c.first))
    /\ pc' = IF i' < num_pages THEN "clear" ELSE "idle"
    /\ reply' = FA!NoReply
    /\ UNCHANGED <<self, count>>

\* One descriptor of the loop of free: the sanity check, the clear, and the
\* break after the last page of the chunk.
free_page ==
    /\ pc = "clear"
    /\ pc' = CASE ~Taken(i) -> "panic"
               [] descriptors[i] = "last" -> "idle"
               [] OTHER -> IF i + 1 < num_pages THEN "clear" ELSE "idle"
    /\ descriptors' = [descriptors EXCEPT ![i] = "free"]
    /\ i' = i + 1
    /\ UNCHANGED <<descr_ptr, base_addr, num_pages, count, frame, held, reply>>

-----------------------------------------------------------------------------
Loop == alloc_skip \/ alloc_none \/ alloc_blocked \/ alloc_some \/ free_page

Next ==
    \/ \E r \in Regions : init_err(r) \/ init_ok(r)
    \/ \E n \in Counts : alloc(n)
    \/ \E c \in held : free(c)
    \/ Loop

Spec == Init /\ [][Next]_vars

(* A call that has started runs on: nothing preempts the loops for good.   *)
FairSpec == Spec /\ WF_vars(Loop)

-----------------------------------------------------------------------------
(* Types of the fields and of the loop state.                              *)
TypeOK ==
    /\ descr_ptr \in Nat /\ base_addr \in Nat /\ num_pages \in Nat
    /\ descriptors \in [Pages -> Flags]
    /\ pc \in {"uninit", "failed", "idle", "scan", "clear", "panic"}
    /\ i \in Nat /\ count \in Nat
    /\ frame \in Chunk
    /\ held \subseteq Chunk

InChunk(p, c) == c.first <= p /\ p < c.first + c.count

(* Between calls the descriptors encode exactly the chunks the callers     *)
(* hold: the chunks share no page, a page is taken iff it is in one of     *)
(* them, and only the last page of each carries LAST (which is how free    *)
(* finds the end of a chunk from its address alone).                       *)
DescriptorsMatchFrames ==
    pc = "idle" =>
        /\ \A c, d \in held : c = d \/ FA!Apart(c, d)
        /\ \A p \in Pages : Taken(p) <=> \E c \in held : InChunk(p, c)
        /\ \A p \in Pages :
             descriptors[p] = "last" <=> \E c \in held : p + 1 = c.first + c.count

(* The sanity check of free, "Trying to free an unallocated page!", never  *)
(* fires for a Frame that alloc returned and that was not freed yet.       *)
FreeNeverPanics == pc # "panic"

(* The memory of a held chunk lies inside the region given to init and     *)
(* after the descriptors, which init stores at the start of the region.    *)
MetadataOutsideFrames ==
    \A c \in held :
        /\ descr_ptr + num_pages <= paddr(c.first)
        /\ \E r \in Regions :
             r.start = descr_ptr /\ paddr(c.first + c.count) <= r.end

(* The allocator keeps the promise of the FrameAllocator trait: it grants  *)
(* only pages nobody holds, says None only when no run is long enough, and *)
(* free releases exactly the chunk.                                        *)
ImplementsFrameAllocator == FA!Spec

(* Every call returns: the scan of alloc and the loop of free terminate.   *)
CallsReturn == pc \in {"scan", "clear"} ~> pc = "idle"

-----------------------------------------------------------------------------
(* The inductive invariant behind the properties above.  It says what the  *)
(* two loops have established so far.                                      *)

Ready == pc \notin {"uninit", "failed"}

\* Where init put the descriptors and the pages.
LayoutInv ==
    IF Ready
    THEN /\ N # 0
         /\ descr_ptr + num_pages <= base_addr
         /\ \E r \in Regions : r.start = descr_ptr /\ base_addr + num_pages * N <= r.end
    ELSE held = {} /\ num_pages = 0

\* From page q on, the chunk c is encoded as TAKEN ... TAKEN LAST.
EncodedFrom(q, c) ==
    /\ c.count > 0 /\ c.first + c.count <= num_pages
    /\ \A p \in Pages :
         q <= p /\ p < c.first + c.count =>
            descriptors[p] = IF p + 1 = c.first + c.count THEN "last" ELSE "taken"

HeldInv ==
    /\ \A c \in held : EncodedFrom(c.first, c)
    /\ \A c, d \in held : c = d \/ FA!Apart(c, d)

\* The chunk being freed is still encoded from the loop index on.
ClearInv ==
    pc = "clear" =>
        /\ InChunk(i, frame)
        /\ EncodedFrom(i, frame)
        /\ \A c \in held : FA!Apart(frame, c)

Pending(p) == pc = "clear" /\ i <= p /\ InChunk(p, frame)

CoverInv == \A p \in Pages : Taken(p) => Pending(p) \/ \E c \in held : InChunk(p, c)

FreeRun(s, n) ==
    /\ s + n <= num_pages
    /\ \A p \in Pages : s <= p /\ p < s + n => ~Taken(p)

\* No run of free pages starts before the scan position.
ScanInv ==
    pc = "scan" =>
        /\ count \in Counts
        /\ i <= num_pages
        /\ \A s \in Pages : s < i => ~FreeRun(s, count)

IInv ==
    /\ TypeOK /\ LayoutInv /\ HeldInv /\ ClearInv /\ CoverInv /\ ScanInv
    /\ pc # "panic"
=============================================================================
