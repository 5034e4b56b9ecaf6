---------------------- MODULE BumpFrameAllocatorProofs ----------------------
(***************************************************************************)
(* Proofs about BumpFrameAllocator for every page size, region and set of  *)
(* page counts (zero included).                                            *)
(***************************************************************************)
EXTENDS BumpFrameAllocator, DivisionLemmas, TLAPS

(* The region holds `n` more pages exactly when the checks of alloc pass   *)
(* (bump.rs lines 120 to 123), and the next chunk starts where the pages   *)
(* handed out so far end.                                                  *)
LEMMA RoomIsPages ==
    ASSUME IInv, NEW n \in Nat
    PROVE  /\ num_pages \in Nat
           /\ (~overflows(n) /\ next(n) <= end) <=> allocated + n <= num_pages
           /\ (ptr - start) \div N = allocated
  <1>1. /\ N \in Nat /\ N # 0 /\ UsizeMax \in Nat
        /\ start \in Nat /\ end \in Nat /\ end <= UsizeMax /\ start <= end
        /\ allocated \in Nat /\ ptr = start + allocated * N
    BY RequestsAssumption DEF IInv, TypeOK, Accounting
  <1>2. end - start \in Nat /\ num_pages \in Nat
    BY <1>1, DivBounds DEF num_pages
  <1>3. allocated * N \in Nat /\ n * N \in Nat /\ (allocated + n) * N = allocated * N + n * N
    BY <1>1
  <1>4. (ptr - start) = allocated * N
    BY <1>1, <1>3
  <1>5. (ptr - start) \div N = allocated
    BY <1>1, <1>4, MulDiv
  <1>6. (allocated + n) * N <= end - start <=> allocated + n <= num_pages
    BY <1>1, <1>2, PagesFit DEF num_pages
  <1>7. next(n) <= end <=> (allocated + n) * N <= end - start
    BY <1>1, <1>3 DEF next
  <1>8. next(n) <= end => ~overflows(n)
    BY <1>1, <1>3 DEF next, overflows
  <1> QED
    BY <1>2, <1>5, <1>6, <1>7, <1>8

(* Before new, nothing is managed.                                         *)
LEMMA InitIInv == Init => IInv
  <1> SUFFICES ASSUME Init PROVE IInv
    OBVIOUS
  <1>1. TypeOK
    <2>1. ready \in BOOLEAN
      BY DEF Init
    <2>2. 0 \in 0..UsizeMax
      BY RequestsAssumption
    <2> QED
      BY <2>1, <2>2 DEF Init, TypeOK
  <1>2. Accounting
    BY RequestsAssumption DEF Init, Accounting
  <1> QED
    BY <1>1, <1>2 DEF Init, IInv

(* new starts with the whole region free.                                  *)
LEMMA NewStep ==
    ASSUME IInv, NEW r \in Regions, new(r)
    PROVE  IInv'
  BY RequestsAssumption DEF new, IInv, TypeOK, Accounting, Chunk

(* A granted chunk extends the filled part of the region at its end.       *)
LEMMA AllocSomeStep ==
    ASSUME IInv, NEW n \in Counts, alloc_some(n)
    PROVE  IInv'
  <1> DEFINE c == [first |-> allocated, count |-> n]
  <1>1. n \in Nat /\ allocated \in Nat /\ N \in Nat
    BY RequestsAssumption DEF IInv, TypeOK
  <1>2. chunk(n) = c
    BY <1>1, RoomIsPages DEF chunk
  <1>3. /\ granted' = granted \cup {c} /\ owned' = owned \cup {c}
        /\ allocated' = allocated + n
        /\ ptr' = ptr + n * N /\ UNCHANGED <<ready, start, end>> /\ ready
    BY <1>2 DEF alloc_some, next
  <1>4. ptr \in Nat /\ n * N \in Nat /\ ptr' <= end /\ end \in 0..UsizeMax /\ UsizeMax \in Nat
    BY <1>1, RequestsAssumption DEF IInv, TypeOK, alloc_some, next
  <1>5. TypeOK'
    BY <1>1, <1>3, <1>4 DEF IInv, TypeOK, Chunk
  <1>6. Accounting'
    <2>1. allocated * N \in Nat /\ (allocated + n) * N = allocated * N + n * N /\ start \in Nat
      BY <1>1 DEF IInv, TypeOK
    <2> QED
      BY <1>3, <1>4, <2>1 DEF IInv, Accounting
  <1>7. (\A d \in granted : d.first + d.count <= allocated)'
    <2>1. ASSUME NEW d \in granted PROVE d.first + d.count <= allocated + n
      BY <1>1 DEF IInv, TypeOK, Chunk
    <2> QED
      BY <1>1, <1>3, <2>1
  <1>8. ASSUME NEW p \in 0..(allocated' - 1)
        PROVE  \E d \in granted' : d.first <= p /\ p < d.first + d.count
    <2>1. CASE p < allocated
      <3>1. PICK d \in granted : d.first <= p /\ p < d.first + d.count
        BY <1>1, <1>3, <2>1 DEF IInv
      <3> QED
        BY <1>3, <3>1
    <2>2. CASE allocated <= p
      <3>1. c.first <= p /\ p < c.first + c.count
        BY <1>1, <1>3, <2>2
      <3>2. c \in granted'
        BY <1>3
      <3> HIDE DEF c
      <3> QED
        BY <3>1, <3>2
    <2> QED
      BY <1>1, <1>3, <2>1, <2>2
  <1> QED
    BY <1>3, <1>5, <1>6, <1>7, <1>8 DEF IInv

(* None and free change neither the pointer nor what was granted.          *)
LEMMA QuietStep ==
    ASSUME IInv, UNCHANGED <<ready, start, end, ptr, allocated, granted>>, owned' \subseteq owned
    PROVE  IInv'
  BY DEF IInv, TypeOK, Accounting

(* Every step preserves the invariant.                                     *)
LEMMA NextStep ==
    ASSUME IInv, [Next]_vars
    PROVE  IInv'
  <1>1. ASSUME NEW n \in Counts, alloc_none(n) PROVE IInv'
    BY <1>1, QuietStep DEF alloc_none
  <1>2. ASSUME NEW c \in owned, free(c) PROVE IInv'
    BY <1>2, QuietStep DEF free
  <1>3. CASE UNCHANGED vars
    BY <1>3, QuietStep DEF vars
  <1> QED
    BY <1>1, <1>2, <1>3, NewStep, AllocSomeStep DEF Next

(* The pages handed out fill exactly the region below the pointer.         *)
THEOREM Invariance == Spec => []IInv
  <1>1. IInv /\ [Next]_vars => IInv'
    BY NextStep
  <1> QED
    BY InitIInv, <1>1, PTL DEF Spec

(* The pointer stays inside the region and agrees with the page counter.   *)
THEOREM AccountingHolds == Spec => []Accounting
  <1>1. IInv => Accounting
    BY DEF IInv
  <1> QED
    BY Invariance, <1>1, PTL

-----------------------------------------------------------------------------
(* Refinement of FrameAllocator.                                           *)

(* A grant takes pages nobody was ever given.                              *)
LEMMA SomeIsGrant ==
    ASSUME IInv, NEW n \in Counts, alloc_some(n)
    PROVE  FA!Grant(n)
  <1>1. n \in Nat /\ allocated \in Nat
    BY RequestsAssumption DEF IInv, TypeOK
  <1>2. /\ num_pages \in Nat /\ allocated + n <= num_pages
        /\ chunk(n) = [first |-> allocated, count |-> n]
    BY <1>1, RoomIsPages DEF alloc_some, chunk
  <1>3. FA!Fits(allocated, n)
    BY <1>2 DEF FA!Fits, FA!Apart, IInv
  <1>4. allocated \in 0..num_pages
    BY <1>1, <1>2
  <1>5. UNCHANGED num_pages
    BY DEF alloc_some, num_pages
  <1> QED
    BY <1>2, <1>3, <1>4, <1>5 DEF FA!Grant, alloc_some

(* None means that no run of n pages outside the granted ones exists: such *)
(* a run would start at or after the pointer.                              *)
LEMMA NoneIsRefusal ==
    ASSUME IInv, NEW n \in Counts, alloc_none(n)
    PROVE  FA!Refuse(n)
  <1>1. n \in Nat /\ allocated \in Nat /\ num_pages \in Nat /\ allocated + n > num_pages
    <2>1. n \in Nat /\ allocated \in Nat
      BY RequestsAssumption DEF IInv, TypeOK
    <2>2. ~(~overflows(n) /\ next(n) <= end)
      <3>1. ptr \in Nat /\ n * N \in Nat /\ end \in Nat /\ UsizeMax \in Nat
        BY <2>1, RequestsAssumption DEF IInv, TypeOK
      <3> QED
        BY <3>1 DEF alloc_none, next, overflows
    <2> QED
      BY <2>1, <2>2, RoomIsPages
  <1>2. allocated <= num_pages
    <2>1. ptr \in Nat /\ end \in Nat /\ UsizeMax \in Nat /\ end <= UsizeMax /\ ptr <= end
      BY RequestsAssumption DEF IInv, TypeOK, Accounting
    <2>2. next(0) = ptr
      BY <2>1, RequestsAssumption DEF next
    <2>3. ~overflows(0) /\ next(0) <= end
      BY <2>1, <2>2 DEF overflows, next
    <2> QED
      BY <1>1, <2>3, RoomIsPages
  <1>3. ASSUME NEW s \in 0..num_pages, FA!Fits(s, n) PROVE FALSE
    <2>1. s \in Nat /\ s + n <= num_pages /\ n > 0 /\ s < allocated
      BY <1>1, <1>2, <1>3 DEF FA!Fits
    <2>2. PICK c \in granted : c.first <= s /\ s < c.first + c.count
      BY <1>1, <2>1 DEF IInv
    <2>3. c.first \in Nat /\ c.count \in Nat
      BY DEF IInv, TypeOK, Chunk
    <2>4. s + n <= c.first \/ c.first + c.count <= s
      BY <1>3 DEF FA!Fits, FA!Apart
    <2> QED
      BY <1>1, <2>1, <2>2, <2>3, <2>4
  <1>4. UNCHANGED num_pages
    BY DEF alloc_none, num_pages
  <1> QED
    BY <1>3, <1>4 DEF FA!Refuse, alloc_none

(* Every step is a step of the abstract allocator or invisible to it.      *)
LEMMA StepRefines ==
    ASSUME IInv, [Next]_vars
    PROVE  [FA!Next]_(FA!vars)
  <1> USE DEF FA!vars
  <1>1. ASSUME NEW r \in Regions, new(r) PROVE FA!Next
    <2>1. num_pages = 0
      <3>1. start \in Nat /\ end = start /\ N \in Nat \ {0}
        BY <1>1, RequestsAssumption DEF new, IInv, TypeOK
      <3>2. end - start = 0 * N
        BY <3>1
      <3> QED
        BY <3>1, <3>2, MulDiv DEF num_pages
    <2>2. num_pages' \in Nat
      <3>1. /\ N \in Nat /\ N # 0 /\ r.start \in Nat /\ r.end \in Nat /\ r.start <= r.end
            /\ start' = r.start /\ end' = r.end
        BY <1>1, RequestsAssumption DEF new
      <3>2. r.end - r.start \in Nat
        BY <3>1
      <3> QED
        BY <3>1, <3>2, DivBounds DEF num_pages
    <2> QED
      BY <1>1, <2>1, <2>2 DEF new, FA!Next, FA!Setup
  <1>2. ASSUME NEW n \in Counts, alloc_none(n) PROVE FA!Next
    BY <1>2, NoneIsRefusal DEF FA!Next
  <1>3. ASSUME NEW n \in Counts, alloc_some(n) PROVE FA!Next
    BY <1>3, SomeIsGrant DEF FA!Next
  <1>4. ASSUME NEW c \in owned, free(c) PROVE UNCHANGED FA!vars
    BY <1>4 DEF free, num_pages
  <1>5. CASE UNCHANGED vars
    BY <1>5 DEF vars, num_pages
  <1> QED
    BY <1>1, <1>2, <1>3, <1>4, <1>5 DEF Next

(* BumpFrameAllocator implements the trait's promise when the pages of a   *)
(* freed Frame count as still in use.                                      *)
THEOREM Refinement == Spec => ImplementsFrameAllocator
  <1>1. Init => FA!Init
    <2>1. (0 * N) \div N = 0 /\ 0 * N = 0 /\ 0 - 0 = 0
      BY MulDiv, RequestsAssumption
    <2> QED
      BY <2>1 DEF Init, FA!Init, num_pages
  <1>2. IInv /\ [Next]_vars => [FA!Next]_(FA!vars)
    BY StepRefines
  <1> QED
    BY Invariance, <1>1, <1>2, PTL DEF Spec, ImplementsFrameAllocator, FA!Spec
=============================================================================
