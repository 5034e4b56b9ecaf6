---------------------------- MODULE BumpAllocator ----------------------------
(***************************************************************************)
(* kernel/src/mm/allocator/bump.rs, BumpAllocator: the kernel heap (HEAP)  *)
(* and the allocator of I/O virtual addresses (IOMAP).  It grows downwards *)
(* and is reset when the last allocation is released.                      *)
(*                                                                         *)
(* alloc and dealloc run under the allocator's mutex from their first to   *)
(* their last access, so each is one step.  `live` is ghost state: the     *)
(* allocations not yet deallocated, which the code only counts.            *)
(***************************************************************************)
EXTENDS Naturals, FiniteSets

CONSTANTS start, end,   \* the arguments of new
          Layouts       \* [size, align] records

ASSUME ConstantsAssumption ==
    /\ start \in Nat /\ end \in Nat
    /\ start <= end                     \* assert of new
    /\ Layouts \subseteq [size : Nat \ {0}, align : Nat \ {0}]  \* contract of GlobalAlloc

VARIABLES ptr, allocated, live,
          reply         \* answer of the last alloc: "some", "null"; "none" after dealloc

vars == <<ptr, allocated, live, reply>>

Block == [addr : Nat, layout : Layouts]

Init == ptr = end /\ allocated = 0 /\ live = {} /\ reply = "none"

-----------------------------------------------------------------------------
\* ptr & !(align - 1), for an alignment that is a power of two.
align_down(a, align) == a - (a % align)

\* Mutant: the block is aligned upwards.
chunk_start_align_up(l) == align_down(ptr - l.size + l.align - 1, l.align)

chunk_start(l) == align_down(ptr - l.size, l.align)

alloc_null(l) ==
    /\ ptr >= l.size => chunk_start(l) < start
    /\ reply' = "null"
    /\ UNCHANGED <<ptr, allocated, live>>

alloc(l) ==
    /\ ptr >= l.size /\ chunk_start(l) >= start
    /\ ptr' = chunk_start(l)
    /\ allocated' = allocated + 1
    /\ live' = live \cup {[addr |-> ptr', layout |-> l]}
    /\ reply' = "some"

\* Mutant: the counter is taken for a number of bytes.
dealloc_bytes(b) ==
    /\ b \in live
    /\ allocated' = allocated - b.layout.size
    /\ ptr' = IF allocated' = 0 THEN end ELSE ptr
    /\ live' = live \ {b}
    /\ reply' = "none"

\* Mutant: the pointer is moved back on every dealloc of the newest block.
dealloc_pop(b) ==
    /\ b \in live
    /\ allocated' = allocated - 1
    /\ ptr' = IF allocated' = 0 THEN end
              ELSE IF b.addr = ptr THEN ptr + b.layout.size ELSE ptr
    /\ live' = live \ {b}
    /\ reply' = "none"

dealloc(b) ==
    /\ b \in live
    /\ allocated' = allocated - 1
    /\ ptr' = IF allocated' = 0 THEN end ELSE ptr
    /\ live' = live \ {b}
    /\ reply' = "none"

Next ==
    \/ \E l \in Layouts : alloc(l) \/ alloc_null(l)
    \/ \E b \in live : dealloc(b)

Spec == Init /\ [][Next]_vars

-----------------------------------------------------------------------------
(* Types of the fields.                                                    *)
TypeOK ==
    /\ ptr \in Nat /\ allocated \in Nat
    /\ live \subseteq Block
    /\ reply \in {"none", "some", "null"}

Last(b) == b.addr + b.layout.size

(* GlobalAlloc's promise: live blocks lie in the managed range, are        *)
(* aligned as asked, and do not overlap, across any number of resets.      *)
LiveBlocksDisjoint ==
    /\ \A b \in live : start <= b.addr /\ Last(b) <= end /\ b.addr % b.layout.align = 0
    /\ \A b, c \in live : b = c \/ Last(b) <= c.addr \/ Last(c) <= b.addr

(* The counter of the code is the number of live blocks: dealloc cannot    *)
(* underflow it, and it is zero exactly when the reset is harmless.        *)
CounterCountsLive == allocated = Cardinality(live)

(* The pointer moves up only by a reset, and a reset needs every block     *)
(* released: nothing live is ever below the pointer's old position and     *)
(* handed out again.                                                       *)
ResetOnlyWhenEmpty == [][ptr' > ptr => live' = {} /\ ptr' = end]_vars

(* Releasing everything gives the whole range back: fragmentation does not *)
(* outlive the last block.                                                 *)
EmptyMeansWhole == live = {} => ptr = end

-----------------------------------------------------------------------------
(* The inductive invariant: every live block is above the pointer.         *)
IInv ==
    /\ TypeOK
    /\ IsFiniteSet(live)
    /\ start <= ptr /\ ptr <= end
    /\ \A b \in live : ptr <= b.addr
    /\ LiveBlocksDisjoint /\ CounterCountsLive /\ EmptyMeansWhole
=============================================================================
