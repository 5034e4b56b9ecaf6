------------------------- MODULE BumpFrameAllocator -------------------------
(***************************************************************************)
(* kernel/src/mm/allocator/bump.rs, BumpFrameAllocator: the allocator of   *)
(* physical frames (GFA).  It grows upwards; free drops the Frame and      *)
(* reclaims nothing.                                                       *)
(*                                                                         *)
(* Ghost state: `granted`, every chunk ever returned (numbered in pages    *)
(* from `start`); `owned`, those whose Frame was not given to free; and    *)
(* `reply`, the last answer.                                               *)
(***************************************************************************)
EXTENDS FrameRequests

VARIABLES ready,        \* GFA is Some(_)
          start, end, ptr, allocated,
          granted, owned, reply

vars == <<ready, start, end, ptr, allocated, granted, owned, reply>>

\* Number of whole pages in the region.
num_pages == (end - start) \div N

(* The promise of the trait, with every chunk held for ever.               *)
FA == INSTANCE FrameAllocator WITH pages <- num_pages, held <- granted

Init ==
    /\ ready = FALSE
    /\ start = 0 /\ end = 0 /\ ptr = 0 /\ allocated = 0
    /\ granted = {} /\ owned = {} /\ reply = FA!NoReply

-----------------------------------------------------------------------------
new(r) ==
    /\ ~ready
    /\ ready' = TRUE
    /\ start' = r.start /\ end' = r.end /\ ptr' = r.start /\ allocated' = 0
    /\ UNCHANGED <<granted, owned, reply>>

\* checked_add
overflows(n) == ptr + n * N > UsizeMax

next(n) == ptr + n * N

\* Mutant: `>=` in the check of the end.
alloc_none_early(n) ==
    /\ ready
    /\ overflows(n) \/ next(n) >= end
    /\ reply' = [op |-> "null", count |-> n]
    /\ UNCHANGED <<ready, start, end, ptr, allocated, granted, owned>>

alloc_none(n) ==
    /\ ready
    /\ overflows(n) \/ next(n) > end
    /\ reply' = [op |-> "null", count |-> n]
    /\ UNCHANGED <<ready, start, end, ptr, allocated, granted, owned>>

chunk(n) == [first |-> (ptr - start) \div N, count |-> n]

\* Mutant: only one page is counted.
alloc_some_one(n) ==
    /\ ready
    /\ ~overflows(n) /\ next(n) <= end
    /\ ptr' = next(n) /\ allocated' = allocated + 1
    /\ granted' = granted \cup {chunk(n)}
    /\ owned' = owned \cup {chunk(n)}
    /\ reply' = [op |-> "some", first |-> chunk(n).first, count |-> n]
    /\ UNCHANGED <<ready, start, end>>

alloc_some(n) ==
    /\ ready
    /\ ~overflows(n) /\ next(n) <= end
    /\ ptr' = next(n) /\ allocated' = allocated + n
    /\ granted' = granted \cup {chunk(n)}
    /\ owned' = owned \cup {chunk(n)}
    /\ reply' = [op |-> "some", first |-> chunk(n).first, count |-> n]
    /\ UNCHANGED <<ready, start, end>>

free(c) ==
    /\ c \in owned
    /\ owned' = owned \ {c}
    /\ UNCHANGED <<ready, start, end, ptr, allocated, granted, reply>>

Next ==
    \/ \E r \in Regions : new(r)
    \/ \E n \in Counts : alloc_none(n) \/ alloc_some(n)
    \/ \E c \in owned : free(c)

Spec == Init /\ [][Next]_vars

-----------------------------------------------------------------------------
Chunk == [first : Nat, count : Nat]

(* Types of the fields.                                                    *)
TypeOK ==
    /\ ready \in BOOLEAN
    /\ start \in 0..UsizeMax /\ end \in 0..UsizeMax /\ ptr \in 0..UsizeMax
    /\ allocated \in Nat
    /\ granted \subseteq Chunk /\ owned \subseteq granted

(* The pointer and the page counter agree and stay inside the region, even *)
(* when the region is not a whole number of pages and free is called.      *)
Accounting == start <= end /\ ptr = start + allocated * N /\ ptr <= end

(* Frames are granted from disjoint runs and None means that no run is     *)
(* left, counting the pages whose Frame was freed as still in use.         *)
ImplementsFrameAllocator == FA!Spec

-----------------------------------------------------------------------------
(* The inductive invariant: the granted chunks fill exactly [start, ptr).  *)
IInv ==
    /\ TypeOK /\ Accounting
    /\ ~ready => start = end /\ granted = {}
    /\ \A c \in granted : c.first + c.count <= allocated
    /\ \A p \in 0..(allocated - 1) :
         \E c \in granted : c.first <= p /\ p < c.first + c.count
=============================================================================
