------------------------------- MODULE MCBump -------------------------------
(* Both allocators of bump.rs.  They share nothing, so a behaviour uses one *)
(* of them.                                                                 *)
(*                                                                          *)
(* A 14-byte heap from address 3: neither end is aligned, an allocation of  *)
(* 20 exceeds the pointer itself (the checked_sub case).  Regions of frames *)
(* with a whole and with a broken number of 4-byte pages, an empty one, and *)
(* one that ends near the largest usize.                                    *)
EXTENDS BumpAllocator, FrameRequests

VARIABLES allocator,    \* the one in use
          ready, gfa_start, gfa_end, gfa_ptr, gfa_allocated, granted, owned, gfa_reply

gfa_vars == <<ready, gfa_start, gfa_end, gfa_ptr, gfa_allocated, granted, owned, gfa_reply>>

GFA == INSTANCE BumpFrameAllocator WITH
           start <- gfa_start, end <- gfa_end, ptr <- gfa_ptr, allocated <- gfa_allocated,
           reply <- gfa_reply

BumpInit == Init /\ GFA!Init /\ allocator \in {"heap", "frames"}

InHeap(A) == allocator = "heap" /\ A /\ UNCHANGED <<allocator, gfa_vars>>
InFrames(A) == allocator = "frames" /\ A /\ UNCHANGED <<allocator, vars>>

BumpNext ==
    \/ \E l \in Layouts : InHeap(alloc(l))
    \/ \E l \in Layouts : InHeap(alloc_null(l))
    \/ \E b \in live : InHeap(dealloc(b))
    \/ \E r \in Regions : InFrames(GFA!new(r))
    \/ \E n \in Counts : InFrames(GFA!alloc_none(n))
    \/ \E n \in Counts : InFrames(GFA!alloc_some(n))
    \/ \E c \in owned : InFrames(GFA!free(c))

BumpSpec == BumpInit /\ [][BumpNext]_<<allocator, vars, gfa_vars>>

\* The pointer and the page counter of the frame allocator agree and stay inside
\* the region (BumpFrameAllocator).
Accounting == GFA!Accounting

\* Frames are granted from disjoint runs, and None means that no run is left
\* (BumpFrameAllocator).
ImplementsFrameAllocator == GFA!ImplementsFrameAllocator

MCLayouts == {[size |-> 1, align |-> 1], [size |-> 2, align |-> 4],
              [size |-> 3, align |-> 2], [size |-> 5, align |-> 8],
              [size |-> 20, align |-> 1]}

MCRegions == {[start |-> 4, end |-> 24], [start |-> 8, end |-> 23],
              [start |-> 8, end |-> 8], [start |-> 40, end |-> 63]}
=============================================================================
