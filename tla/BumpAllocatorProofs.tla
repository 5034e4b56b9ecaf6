------------------------- MODULE BumpAllocatorProofs -------------------------
(***************************************************************************)
(* Proofs about BumpAllocator for every range, every set of layouts and    *)
(* every number of allocations.                                            *)
(***************************************************************************)
EXTENDS BumpAllocator, FiniteSetTheorems, TLAPS

(* `ptr & !(align - 1)` is an aligned address not above ptr.               *)
LEMMA AlignDownBounds ==
    ASSUME NEW a \in Nat, NEW n \in Nat \ {0}
    PROVE  /\ align_down(a, n) \in Nat
           /\ align_down(a, n) <= a
           /\ align_down(a, n) % n = 0
  <1> DEFINE q == a \div n
  <1>1. q \in Nat /\ a % n \in Nat /\ a = q * n + (a % n) /\ q * n \in Nat
    OBVIOUS
  <1>2. align_down(a, n) = q * n
    BY <1>1 DEF align_down
  <1>3. (q * n) % n = 0
    <2> HIDE DEF q
    <2> QED
      BY <1>1
  <1> QED
    BY <1>1, <1>2, <1>3

(* The block alloc carves out ends at or below the old pointer, starts at  *)
(* or above the range's start and is aligned (bump.rs lines 62 to 70).     *)
LEMMA ChunkBounds ==
    ASSUME IInv, NEW l \in Layouts, ptr >= l.size, chunk_start(l) >= start
    PROVE  /\ l.size \in Nat /\ l.size > 0
           /\ chunk_start(l) \in Nat
           /\ chunk_start(l) + l.size <= ptr
           /\ chunk_start(l) % l.align = 0
  <1>1. l.size \in Nat /\ l.size > 0 /\ l.align \in Nat \ {0}
    BY ConstantsAssumption
  <1>2. ptr \in Nat /\ ptr - l.size \in Nat
    BY <1>1 DEF IInv, TypeOK
  <1> QED
    BY <1>1, <1>2, AlignDownBounds DEF chunk_start

(* The empty heap satisfies the invariant.                                 *)
LEMMA InitIInv == Init => IInv
  BY ConstantsAssumption, FS_EmptySet
  DEF Init, IInv, TypeOK, LiveBlocksDisjoint, CounterCountsLive, EmptyMeansWhole

(* A successful alloc puts the new block below every live one.             *)
LEMMA AllocStep ==
    ASSUME IInv, NEW l \in Layouts, alloc(l)
    PROVE  IInv'
  <1> DEFINE b == [addr |-> chunk_start(l), layout |-> l]
  <1>1. /\ l.size \in Nat /\ l.size > 0
        /\ chunk_start(l) \in Nat /\ start <= chunk_start(l)
        /\ chunk_start(l) + l.size <= ptr
        /\ chunk_start(l) % l.align = 0
    BY ChunkBounds, ConstantsAssumption DEF alloc
  <1>2. ptr' = chunk_start(l) /\ allocated' = allocated + 1 /\ live' = live \cup {b}
    BY DEF alloc
  <1>3. b \in Block /\ b.addr = chunk_start(l) /\ Last(b) = chunk_start(l) + l.size
    BY <1>1 DEF Block, Last
  <1> HIDE DEF b
  <1>4. ASSUME NEW c \in live
        PROVE  /\ c.addr \in Nat /\ c.layout.size \in Nat
               /\ Last(b) <= c.addr /\ b.addr < c.addr
    <2>1. c \in Block /\ ptr <= c.addr /\ ptr \in Nat
      BY DEF IInv, TypeOK
    <2> QED
      BY <1>1, <1>3, <2>1, ConstantsAssumption DEF Block
  <1>5. TypeOK'
    BY <1>1, <1>2, <1>3 DEF IInv, TypeOK, alloc
  <1>6. b \notin live
    BY <1>1, <1>3, <1>4
  <1>7. IsFiniteSet(live)' /\ CounterCountsLive'
    BY <1>2, <1>6, FS_AddElement DEF IInv, CounterCountsLive
  <1>8. (start <= ptr /\ ptr <= end)'
    BY <1>1, <1>2, ConstantsAssumption DEF IInv, TypeOK
  <1>9. (\A c \in live : ptr <= c.addr)'
    BY <1>1, <1>2, <1>3, <1>4
  <1>10. LiveBlocksDisjoint'
    <2>1. start <= b.addr /\ Last(b) <= end /\ b.addr % b.layout.align = 0
      BY <1>1, <1>3, ConstantsAssumption DEF IInv, TypeOK, b
    <2> QED
      BY <1>2, <1>4, <2>1 DEF IInv, LiveBlocksDisjoint, Last
  <1> QED
    BY <1>2, <1>5, <1>7, <1>8, <1>9, <1>10 DEF IInv, EmptyMeansWhole

(* dealloc resets the pointer only when the counter, hence the number of   *)
(* live blocks, is zero.                                                   *)
LEMMA DeallocStep ==
    ASSUME IInv, NEW b \in live, dealloc(b)
    PROVE  IInv' /\ (ptr' > ptr => live' = {} /\ ptr' = end)
  <1>1. /\ live' = live \ {b} /\ allocated' = allocated - 1
        /\ ptr' = IF allocated' = 0 THEN end ELSE ptr
    BY DEF dealloc
  <1>2. IsFiniteSet(live') /\ Cardinality(live') = Cardinality(live) - 1
    BY <1>1, FS_RemoveElement DEF IInv
  <1>3. allocated' = Cardinality(live') /\ allocated' \in Nat
    BY <1>1, <1>2, FS_CardinalityType DEF IInv, CounterCountsLive
  <1>4. allocated' = 0 <=> live' = {}
    BY <1>2, <1>3, FS_EmptySet
  <1>5. TypeOK'
    BY <1>1, <1>3, ConstantsAssumption DEF IInv, TypeOK, dealloc
  <1>6. (start <= ptr /\ ptr <= end)' /\ (\A c \in live : ptr <= c.addr)'
    BY <1>1, <1>4, ConstantsAssumption DEF IInv
  <1>7. LiveBlocksDisjoint'
    BY <1>1 DEF IInv, LiveBlocksDisjoint, Last
  <1>8. IInv'
    BY <1>1, <1>2, <1>3, <1>4, <1>5, <1>6, <1>7 DEF IInv, CounterCountsLive, EmptyMeansWhole
  <1> QED
    BY <1>1, <1>4, <1>8 DEF IInv, TypeOK

(* Every step preserves the invariant, and moves the pointer up only by a  *)
(* reset with nothing live.                                                *)
LEMMA NextStep ==
    ASSUME IInv, [Next]_vars
    PROVE  IInv' /\ (ptr' > ptr => live' = {} /\ ptr' = end)
  <1>1. ASSUME NEW l \in Layouts, alloc(l) PROVE IInv' /\ ~(ptr' > ptr)
    BY <1>1, AllocStep, ChunkBounds DEF alloc, IInv, TypeOK
  <1>2. ASSUME UNCHANGED <<ptr, allocated, live>>, reply' \in {"none", "some", "null"}
        PROVE  IInv' /\ ~(ptr' > ptr)
    BY <1>2 DEF IInv, TypeOK, LiveBlocksDisjoint, CounterCountsLive, EmptyMeansWhole, Last
  <1>3. ASSUME NEW l \in Layouts, alloc_null(l) PROVE IInv' /\ ~(ptr' > ptr)
    BY <1>2, <1>3 DEF alloc_null
  <1>4. CASE UNCHANGED vars
    BY <1>2, <1>4 DEF vars, IInv, TypeOK
  <1> QED
    BY <1>1, <1>3, <1>4, DeallocStep DEF Next

(* The inductive invariant holds in every reachable state.                 *)
THEOREM Invariance == Spec => []IInv
  <1>1. IInv /\ [Next]_vars => IInv'
    BY NextStep
  <1> QED
    BY InitIInv, <1>1, PTL DEF Spec

(* Live blocks of the heap and of the I/O address allocator never overlap, *)
(* whatever the order of alloc and dealloc.                                *)
THEOREM BlocksDisjoint == Spec => []LiveBlocksDisjoint
  <1>1. IInv => LiveBlocksDisjoint
    BY DEF IInv
  <1> QED
    BY Invariance, <1>1, PTL

(* The counter that decides on the reset is exact.                         *)
THEOREM CounterExact == Spec => []CounterCountsLive
  <1>1. IInv => CounterCountsLive
    BY DEF IInv
  <1> QED
    BY Invariance, <1>1, PTL

(* A reset happens only when nothing is live.                              *)
THEOREM ResetSafe == Spec => ResetOnlyWhenEmpty
  <1>1. IInv /\ [Next]_vars => [ptr' > ptr => live' = {} /\ ptr' = end]_vars
    BY NextStep
  <1> QED
    BY Invariance, <1>1, PTL DEF Spec, ResetOnlyWhenEmpty
=============================================================================
