------------------------ MODULE BitmapAllocatorProofs ------------------------
(***************************************************************************)
(* Proofs about BitmapAllocator for every page size, region and set of     *)
(* page counts, provided no caller asks for zero pages.                    *)
(***************************************************************************)
EXTENDS BitmapAllocator, DivisionLemmas, TLAPS

PositiveCounts == 0 \notin Counts

-----------------------------------------------------------------------------
(* Arithmetic of init and of the address conversions.                      *)

(* free recovers the page number from the address alloc returned: the      *)
(* conversions of bitmap.rs lines 137 and 146 are inverse to each other.   *)
LEMMA OffsetOfPaddr ==
    ASSUME NEW b \in Nat, NEW p \in Nat, NEW n \in Nat, n # 0
    PROVE  ((b + p * n) - b) \div n = p
  <1>1. p * n \in Nat /\ (b + p * n) - b = p * n
    OBVIOUS
  <1> QED
    BY <1>1, MulDiv

(* Rounding up never goes below the argument, nor above an aligned bound.  *)
LEMMA AlignUpBounds ==
    ASSUME NEW a \in Nat, NEW e \in Nat, N \in Nat, N # 0, e % N = 0, a <= e
    PROVE  /\ align_up(a) \in Nat
           /\ a <= align_up(a)
           /\ align_up(a) <= e
  <1> DEFINE q == (a + N - 1) \div N
             k == e \div N
  <1>1. a + N - 1 \in Nat
    OBVIOUS
  <1>2. q \in Nat /\ q * N <= a + N - 1 /\ a + N - 1 < q * N + N
    BY <1>1, DivBounds
  <1>3. k \in Nat /\ e = k * N
    BY DivBounds
  <1> HIDE DEF q, k
  <1>4. q <= k
    <2> SUFFICES ASSUME k < q PROVE FALSE
      BY <1>2, <1>3
    <2>1. k + 1 <= q
      BY <1>2, <1>3
    <2>2. (k + 1) * N <= q * N
      BY <2>1, <1>2, <1>3
    <2> QED
      BY <2>2, <1>2, <1>3
  <1>5. q * N <= k * N /\ q * N \in Nat
    BY <1>4, <1>2, <1>3
  <1>6. align_up(a) = q * N
    BY DEF align_up, q
  <1> QED
    BY <1>2, <1>3, <1>5, <1>6

(* The layout init computes: the descriptors fit before the first page and *)
(* the pages end inside the region (bitmap.rs lines 67 to 80).             *)
LEMMA InitLayout ==
    ASSUME NEW r \in Regions, ~init_fails(r)
    PROVE  /\ N # 0
           /\ avail_mem_start(r) \in Nat
           /\ avail_pages(r) \in Nat
           /\ r.start + avail_pages(r) <= avail_mem_start(r)
           /\ avail_mem_start(r) + avail_pages(r) * N <= r.end
  <1> DEFINE t == total_num_pages(r)
             b == avail_mem_start(r)
             v == avail_pages(r)
  <1>1. /\ N \in Nat /\ N # 0 /\ r.start \in Nat /\ r.end \in Nat
        /\ r.start <= r.end /\ r.end % N = 0
    BY ConstantsAssumption DEF init_fails, is_aligned
  <1>2. t \in Nat /\ t * N <= r.end - r.start /\ r.end - r.start < t * N + N
    <2>1. r.end - r.start \in Nat
      BY <1>1
    <2> QED
      BY <1>1, <2>1, DivBounds DEF total_num_pages
  <1>3. t <= t * N
    BY <1>1, <1>2
  <1>4. r.start + t \in Nat /\ r.start + t <= r.end
    BY <1>1, <1>2, <1>3
  <1>5. b \in Nat /\ r.start + t <= b /\ b <= r.end
    BY <1>1, <1>4, AlignUpBounds DEF avail_mem_start
  <1>6. v \in Nat /\ v * N <= r.end - b
    <2>1. r.end - b \in Nat
      BY <1>1, <1>5
    <2> QED
      BY <1>1, <2>1, DivBounds DEF avail_pages
  <1>7. v <= t
    <2> SUFFICES ASSUME t < v PROVE FALSE
      BY <1>2, <1>6
    <2>1. (t + 1) * N <= v * N
      BY <1>1, <1>2, <1>6
    <2> QED
      BY <2>1, <1>1, <1>2, <1>5, <1>6
  <1>8. r.start + v <= b
    BY <1>1, <1>2, <1>5, <1>6, <1>7
  <1>9. b + v * N <= r.end
    <2> HIDE DEF b, v
    <2>1. v * N \in Nat
      BY <1>1, <1>6
    <2> QED
      BY <2>1, <1>1, <1>5, <1>6
  <1> QED
    BY <1>1, <1>5, <1>6, <1>8, <1>9

-----------------------------------------------------------------------------
(* Inductiveness of IInv, one lemma per action.                            *)

(* Before init nothing is managed and nothing is held.                     *)
LEMMA InitIInv == Init => IInv
  BY ConstantsAssumption
  DEF Init, IInv, TypeOK, LayoutInv, HeldInv, ClearInv, CoverInv, ScanInv, Ready,
      Pages, Flags, Chunk

(* init returning an AllocatorError creates no allocator.                  *)
LEMMA InitErrStep ==
    ASSUME IInv, NEW r \in Regions, init_err(r)
    PROVE  IInv'
  BY DEF init_err, self, IInv, TypeOK, LayoutInv, HeldInv, ClearInv, CoverInv, ScanInv, Ready,
         Pages, Flags, Chunk, Taken, EncodedFrom, InChunk, Pending, FreeRun

(* A successful init establishes the layout with every page free.          *)
LEMMA InitOkStep ==
    ASSUME IInv, NEW r \in Regions, init_ok(r)
    PROVE  IInv'
  <1>1. ~init_fails(r) /\ ~Ready /\ held = {} /\ held' = {} /\ pc' = "idle"
    BY DEF init_ok, IInv, LayoutInv, Ready
  <1>2. TypeOK'
    BY <1>1, InitLayout, ConstantsAssumption DEF init_ok, IInv, TypeOK, Pages, Flags, Chunk
  <1>3. LayoutInv'
    BY <1>1, InitLayout DEF init_ok, LayoutInv, Ready
  <1>4. HeldInv' /\ ClearInv' /\ ScanInv' /\ pc' # "panic"
    BY <1>1 DEF HeldInv, ClearInv, ScanInv
  <1>5. CoverInv'
    BY <1>1 DEF init_ok, CoverInv, Taken, Pages
  <1> QED
    BY <1>2, <1>3, <1>4, <1>5 DEF IInv

(* Entering alloc: nothing has been ruled out at i = 0.                    *)
LEMMA AllocCallStep ==
    ASSUME IInv, NEW n \in Counts, alloc(n)
    PROVE  IInv'
  <1> USE DEF alloc, self
  <1>1. TypeOK'
    BY ConstantsAssumption DEF IInv, TypeOK, Pages
  <1>2. LayoutInv' /\ pc' # "panic"
    BY DEF IInv, LayoutInv, Ready
  <1>3. HeldInv'
    BY DEF IInv, HeldInv, EncodedFrom, Pages
  <1>4. ClearInv' /\ CoverInv'
    BY DEF IInv, ClearInv, CoverInv, Pending, Taken, Pages
  <1>5. ScanInv'
    BY DEF IInv, TypeOK, ScanInv, Pages
  <1> QED
    BY <1>1, <1>2, <1>3, <1>4, <1>5 DEF IInv

(* Skipping a taken page rules out the runs that start at it.              *)
LEMMA AllocSkipStep ==
    ASSUME PositiveCounts, IInv, alloc_skip
    PROVE  IInv'
  <1> USE DEF alloc_skip, self
  <1>1. TypeOK'
    BY DEF IInv, TypeOK, Pages
  <1>2. LayoutInv' /\ pc' # "panic"
    BY DEF IInv, LayoutInv, Ready
  <1>3. HeldInv'
    BY DEF IInv, HeldInv, EncodedFrom, Pages
  <1>4. ClearInv' /\ CoverInv'
    BY DEF IInv, ClearInv, CoverInv, Pending, Taken, Pages
  <1>5. ScanInv'
    <2>1. count \in Nat /\ count > 0 /\ i \in Pages
      BY ConstantsAssumption DEF PositiveCounts, IInv, TypeOK, ScanInv, Pages
    <2>2. ~FreeRun(i, count)
      BY <2>1 DEF FreeRun, IInv, TypeOK, Pages
    <2>3. \A s \in Pages : FreeRun(s, count)' <=> FreeRun(s, count)
      BY DEF FreeRun, Taken, Pages
    <2>4. \A s \in Pages : s < i + 1 => ~FreeRun(s, count)
      BY <2>1, <2>2 DEF IInv, TypeOK, ScanInv, Pages
    <2>5. Pages' = Pages /\ i + 1 <= num_pages /\ count \in Counts
      BY <2>1 DEF IInv, TypeOK, ScanInv, Pages
    <2> QED
      BY <2>3, <2>4, <2>5 DEF ScanInv
  <1> QED
    BY <1>1, <1>2, <1>3, <1>4, <1>5 DEF IInv

(* alloc returning None changes no descriptor.                             *)
LEMMA AllocNoneStep ==
    ASSUME IInv, alloc_none
    PROVE  IInv'
  <1> USE DEF alloc_none, self
  <1>1. TypeOK'
    BY DEF IInv, TypeOK, Pages
  <1>2. LayoutInv' /\ pc' # "panic"
    BY DEF IInv, LayoutInv, Ready
  <1>3. HeldInv'
    BY DEF IInv, HeldInv, EncodedFrom, Pages
  <1>4. ClearInv' /\ CoverInv' /\ ScanInv'
    BY DEF IInv, ClearInv, CoverInv, ScanInv, Pending, Taken, Pages
  <1> QED
    BY <1>1, <1>2, <1>3, <1>4 DEF IInv

(* Jumping to the taken page j (`i = j; continue 'outer`) skips no free    *)
(* run: every run that starts between i and j contains j.                  *)
LEMMA AllocBlockedStep ==
    ASSUME IInv, alloc_blocked
    PROVE  IInv'
  <1> USE DEF alloc_blocked, run_from_i, self
  <1>1. PICK j \in i..(i + count - 1) : Taken(j) /\ i' = j
    OBVIOUS
  <1>2. i \in Nat /\ count \in Nat /\ num_pages \in Nat /\ j \in Pages /\ i <= j
    BY <1>1 DEF IInv, TypeOK, Pages
  <1>3. TypeOK'
    BY <1>1, <1>2 DEF IInv, TypeOK, Pages
  <1>4. LayoutInv' /\ pc' # "panic"
    BY DEF IInv, LayoutInv, Ready
  <1>5. HeldInv'
    BY DEF IInv, HeldInv, EncodedFrom, Pages
  <1>6. ClearInv' /\ CoverInv'
    BY DEF IInv, ClearInv, CoverInv, Pending, Taken, Pages
  <1>7. ScanInv'
    <2>1. \A s \in Pages : FreeRun(s, count)' <=> FreeRun(s, count)
      BY DEF FreeRun, Taken, Pages
    <2>2. ASSUME NEW s \in Pages, i <= s, s < j PROVE ~FreeRun(s, count)
      BY <1>1, <1>2, <2>2 DEF FreeRun, Pages
    <2>3. \A s \in Pages : s < j => ~FreeRun(s, count)
      BY <1>2, <2>2 DEF IInv, ScanInv, Pages
    <2>4. Pages' = Pages /\ j <= num_pages /\ count \in Counts
      BY <1>2 DEF IInv, ScanInv, Pages
    <2> QED
      BY <1>1, <2>1, <2>3, <2>4 DEF ScanInv
  <1> QED
    BY <1>3, <1>4, <1>5, <1>6, <1>7 DEF IInv

(* The run alloc is about to mark shares no page with a chunk somebody     *)
(* holds: its pages are free, those of a held chunk are all taken.         *)
LEMMA GrantedRunApart ==
    ASSUME PositiveCounts, IInv, alloc_some, NEW c \in held
    PROVE  FA!Apart([first |-> i, count |-> count], c)
  <1>1. /\ i \in Nat /\ count \in Nat /\ num_pages \in Nat
        /\ count > 0 /\ i + count <= num_pages
        /\ \A p \in Pages : i <= p /\ p < i + count => ~Taken(p)
    BY ConstantsAssumption
    DEF PositiveCounts, IInv, TypeOK, ScanInv, alloc_some, run_from_i, Pages
  <1>2. /\ c.first \in Nat /\ c.count \in Nat
        /\ c.count > 0 /\ c.first + c.count <= num_pages
        /\ \A p \in Pages : c.first <= p /\ p < c.first + c.count => Taken(p)
    BY DEF IInv, TypeOK, HeldInv, EncodedFrom, Chunk, Taken
  <1>3. CASE c.first <= i
    <2>1. ~(i < c.first + c.count)
      BY <1>1, <1>2, <1>3 DEF Pages
    <2> QED
      BY <1>1, <1>2, <2>1 DEF FA!Apart
  <1>4. CASE i < c.first
    <2>1. ~(c.first < i + count)
      BY <1>1, <1>2, <1>4 DEF Pages
    <2> QED
      BY <1>1, <1>2, <2>1 DEF FA!Apart
  <1> QED
    BY <1>1, <1>2, <1>3, <1>4

(* Marking TAKEN ... TAKEN LAST encodes the new chunk and no other page.   *)
LEMMA AllocSomeStep ==
    ASSUME PositiveCounts, IInv, alloc_some
    PROVE  IInv'
  <1> DEFINE new == [first |-> i, count |-> count]
  <1>1. /\ i \in Nat /\ count \in Nat /\ num_pages \in Nat
        /\ count > 0 /\ i + count <= num_pages /\ pc = "scan"
        /\ \A p \in Pages : i <= p /\ p < i + count => ~Taken(p)
    BY ConstantsAssumption
    DEF PositiveCounts, IInv, TypeOK, ScanInv, alloc_some, run_from_i, Pages
  <1>2. /\ pc' = "idle" /\ held' = held \cup {new} /\ Pages' = Pages
        /\ descriptors' = [p \in Pages |-> marked(p)]
        /\ UNCHANGED <<descr_ptr, base_addr, num_pages, i, count, frame>>
    BY DEF alloc_some, Pages
  <1>3. new \in Chunk
    BY <1>1 DEF Chunk
  <1>4. TypeOK'
    BY <1>1, <1>2, <1>3 DEF IInv, TypeOK, Pages, Flags, marked
  <1>5. LayoutInv' /\ ClearInv' /\ ScanInv' /\ pc' # "panic"
    BY <1>1, <1>2 DEF IInv, LayoutInv, ClearInv, ScanInv, Ready
  <1>6. ASSUME NEW c \in held PROVE FA!Apart(new, c)
    BY GrantedRunApart
  <1>7. HeldInv'
    <2>1. EncodedFrom(new.first, new)'
      BY <1>1, <1>2 DEF EncodedFrom, marked, Pages
    <2>2. ASSUME NEW c \in held PROVE EncodedFrom(c.first, c)'
      <3>1. EncodedFrom(c.first, c) /\ c \in Chunk
        BY DEF IInv, HeldInv, TypeOK
      <3>2. \A p \in Pages : c.first <= p /\ p < c.first + c.count =>
                               descriptors'[p] = descriptors[p]
        BY <1>1, <1>2, <1>6, <3>1 DEF FA!Apart, marked, Pages, Chunk
      <3> QED
        BY <1>2, <3>1, <3>2 DEF EncodedFrom
    <2>3. \A c, d \in held' : c = d \/ FA!Apart(c, d)
      BY <1>2, <1>6 DEF IInv, HeldInv, FA!Apart
    <2> QED
      BY <1>2, <2>1, <2>2, <2>3 DEF HeldInv, FA!Apart
  <1>8. CoverInv'
    <2> SUFFICES ASSUME NEW p \in Pages, descriptors'[p] # "free"
                 PROVE  \E c \in held' : InChunk(p, c)
      BY <1>2 DEF CoverInv, Taken
    <2> HIDE DEF new
    <2>1. CASE i <= p /\ p < i + count
      <3>1. InChunk(p, new)
        BY <2>1 DEF InChunk, new
      <3>2. new \in held'
        BY <1>2
      <3> QED
        BY <3>1, <3>2
    <2>2. CASE ~(i <= p /\ p < i + count)
      <3>1. Taken(p)
        BY <1>1, <1>2, <2>2 DEF marked, Taken, Pages
      <3>2. \E c \in held : InChunk(p, c)
        BY <1>1, <3>1 DEF IInv, CoverInv, Pending
      <3> QED
        BY <1>2, <3>2
    <2> QED
      BY <2>1, <2>2
  <1> QED
    BY <1>4, <1>5, <1>7, <1>8 DEF IInv

(* Entering free: the loop starts at the first page of the frame's chunk.  *)
LEMMA FreeCallStep ==
    ASSUME IInv, NEW c \in held, free(c)
    PROVE  IInv'
  <1>1. /\ c \in Chunk /\ c.first \in Nat /\ c.count \in Nat /\ num_pages \in Nat
        /\ c.count > 0 /\ c.first + c.count <= num_pages
        /\ EncodedFrom(c.first, c)
    BY DEF IInv, TypeOK, HeldInv, EncodedFrom, Chunk
  <1>2. i' = c.first
    <2>1. N \in Nat \ {0} /\ base_addr \in Nat
      BY <1>1, ConstantsAssumption DEF IInv, TypeOK, LayoutInv, Ready, free
    <2>2. i' = ((base_addr + c.first * N) - base_addr) \div N
      BY DEF free, offset, paddr
    <2> QED
      BY <1>1, <2>1, <2>2, OffsetOfPaddr
  <1>3. /\ pc' = "clear" /\ frame' = c /\ held' = held \ {c} /\ Pages' = Pages
        /\ UNCHANGED <<descr_ptr, descriptors, base_addr, num_pages, count>>
    BY <1>1, <1>2 DEF free, self, Pages
  <1>4. TypeOK'
    BY <1>1, <1>2, <1>3 DEF IInv, TypeOK
  <1>5. LayoutInv' /\ ScanInv' /\ pc' # "panic"
    BY <1>3 DEF IInv, LayoutInv, ScanInv, Ready, free
  <1>6. HeldInv'
    BY <1>3 DEF IInv, HeldInv, EncodedFrom
  <1>7. ClearInv'
    <2>1. EncodedFrom(i, frame)'
      BY <1>1, <1>2, <1>3 DEF EncodedFrom
    <2>2. \A d \in held' : FA!Apart(c, d)
      BY <1>3 DEF IInv, HeldInv
    <2> QED
      BY <1>1, <1>2, <1>3, <2>1, <2>2 DEF ClearInv, InChunk, FA!Apart
  <1>8. CoverInv'
    <2> SUFFICES ASSUME NEW p \in Pages, Taken(p)
                 PROVE  Pending(p)' \/ \E d \in held' : InChunk(p, d)
      BY <1>3 DEF CoverInv, Taken, InChunk
    <2>1. PICK d \in held : InChunk(p, d)
      BY DEF IInv, CoverInv, Pending, free
    <2>2. CASE d = c
      BY <1>2, <1>3, <2>1, <2>2 DEF Pending, InChunk
    <2>3. CASE d # c
      BY <1>3, <2>1, <2>3
    <2> QED
      BY <2>2, <2>3
  <1> QED
    BY <1>4, <1>5, <1>6, <1>7, <1>8 DEF IInv

(* One iteration of free: the page is allocated, so no panic, and the loop *)
(* stops at LAST, before it reaches a page of another chunk.               *)
LEMMA FreePageStep ==
    ASSUME IInv, free_page
    PROVE  IInv'
  <1> DEFINE end == frame.first + frame.count
  <1>1. /\ pc = "clear" /\ i \in Nat /\ num_pages \in Nat /\ i \in Pages
        /\ frame.first \in Nat /\ frame.count \in Nat
        /\ frame.first <= i /\ i < end /\ end <= num_pages
        /\ descriptors[i] = IF i + 1 = end THEN "last" ELSE "taken"
        /\ EncodedFrom(i, frame)
        /\ \A c \in held : FA!Apart(frame, c)
    BY DEF IInv, TypeOK, ClearInv, EncodedFrom, InChunk, Pages, Chunk, free_page
  <1>2. /\ i' = i + 1 /\ Pages' = Pages
        /\ descriptors' = [descriptors EXCEPT ![i] = "free"]
        /\ UNCHANGED <<descr_ptr, base_addr, num_pages, count, frame, held>>
    BY DEF free_page, Pages
  <1>3. descriptors \in [Pages -> Flags]
    BY DEF IInv, TypeOK
  <1>4. pc' = IF i + 1 = end THEN "idle" ELSE "clear"
    BY <1>1 DEF free_page, Taken
  <1>5. TypeOK'
    BY <1>1, <1>2, <1>3, <1>4 DEF IInv, TypeOK, Flags
  <1>6. LayoutInv' /\ ScanInv' /\ pc' # "panic"
    BY <1>1, <1>2, <1>4 DEF IInv, LayoutInv, ScanInv, Ready
  <1>7. ASSUME NEW c \in held PROVE c.first \in Nat /\ c.count \in Nat /\ ~InChunk(i, c)
    BY <1>1, <1>7 DEF IInv, TypeOK, FA!Apart, InChunk, Chunk
  <1>8. HeldInv'
    <2>1. ASSUME NEW c \in held PROVE EncodedFrom(c.first, c)'
      <3>1. EncodedFrom(c.first, c)
        BY DEF IInv, HeldInv
      <3>2. \A p \in Pages : c.first <= p /\ p < c.first + c.count =>
                               descriptors'[p] = descriptors[p]
        BY <1>1, <1>2, <1>3, <1>7 DEF InChunk
      <3> QED
        BY <1>2, <3>1, <3>2 DEF EncodedFrom
    <2> QED
      BY <1>2, <2>1 DEF IInv, HeldInv, FA!Apart
  <1>9. ClearInv'
    <2> SUFFICES ASSUME i + 1 # end PROVE ClearInv'
      BY <1>4 DEF ClearInv
    <2>1. EncodedFrom(i + 1, frame)'
      BY <1>1, <1>2, <1>3 DEF EncodedFrom, Pages
    <2> QED
      BY <1>1, <1>2, <2>1 DEF ClearInv, InChunk, EncodedFrom
  <1>10. CoverInv'
    <2> SUFFICES ASSUME NEW p \in Pages, descriptors'[p] # "free"
                 PROVE  Pending(p)' \/ \E d \in held : InChunk(p, d)
      BY <1>2 DEF CoverInv, Taken, InChunk
    <2>1. p # i /\ Taken(p)
      BY <1>1, <1>2, <1>3 DEF Taken
    <2>2. CASE Pending(p)
      BY <1>1, <1>2, <1>4, <2>1, <2>2 DEF Pending, InChunk, Pages
    <2>3. CASE ~Pending(p)
      BY <2>1, <2>3 DEF IInv, CoverInv
    <2> QED
      BY <2>2, <2>3
  <1> QED
    BY <1>5, <1>6, <1>8, <1>9, <1>10 DEF IInv

(* Steps that change nothing.                                              *)
LEMMA StutterStep ==
    ASSUME IInv, UNCHANGED vars
    PROVE  IInv'
  BY DEF vars, IInv, TypeOK, LayoutInv, HeldInv, ClearInv, CoverInv, ScanInv, Ready,
         Pages, Taken, EncodedFrom, InChunk, Pending, FreeRun

(* Every step of a call to init, alloc or free preserves IInv.             *)
LEMMA NextStep ==
    ASSUME PositiveCounts, IInv, [Next]_vars
    PROVE  IInv'
  <1>1. CASE \E r \in Regions : init_err(r) \/ init_ok(r)
    BY <1>1, InitErrStep, InitOkStep
  <1>2. CASE \E n \in Counts : alloc(n)
    BY <1>2, AllocCallStep
  <1>3. CASE \E c \in held : free(c)
    BY <1>3, FreeCallStep
  <1>4. CASE Loop
    BY <1>4, AllocSkipStep, AllocNoneStep, AllocBlockedStep, AllocSomeStep, FreePageStep
    DEF Loop
  <1>5. CASE UNCHANGED vars
    BY <1>5, StutterStep
  <1> QED
    BY <1>1, <1>2, <1>3, <1>4, <1>5 DEF Next

(* IInv is an invariant of the allocator for every page size, set of regions *)
(* and set of positive page counts: initially and across every step.        *)
THEOREM Invariance == PositiveCounts => (Spec => []IInv)
  <1> SUFFICES ASSUME PositiveCounts PROVE Spec => []IInv
    OBVIOUS
  <1>1. IInv /\ [Next]_vars => IInv'
    BY NextStep
  <1> QED
    BY InitIInv, <1>1, PTL DEF Spec

-----------------------------------------------------------------------------
(* The properties, each from IInv.                                         *)

(* IInv gives the encoding the callers rely on between calls.              *)
LEMMA IInvImpliesEncoding == ASSUME IInv PROVE DescriptorsMatchFrames
  <1> SUFFICES ASSUME pc = "idle" PROVE DescriptorsMatchFrames
    BY DEF DescriptorsMatchFrames
  <1>1. ASSUME NEW c \in held
        PROVE  c.first \in Nat /\ c.count \in Nat /\ c.count > 0 /\ c.first + c.count <= num_pages
    BY DEF IInv, TypeOK, HeldInv, EncodedFrom, Chunk
  <1>2. ASSUME NEW c \in held, NEW p \in Pages, InChunk(p, c)
        PROVE  descriptors[p] = IF p + 1 = c.first + c.count THEN "last" ELSE "taken"
    BY <1>2 DEF IInv, HeldInv, EncodedFrom, InChunk
  <1>3. ASSUME NEW p \in Pages, Taken(p) PROVE \E c \in held : InChunk(p, c)
    BY <1>3 DEF IInv, CoverInv, Pending
  <1>4. \A p \in Pages : Taken(p) <=> \E c \in held : InChunk(p, c)
    BY <1>2, <1>3 DEF Taken
  <1>5. ASSUME NEW p \in Pages, descriptors[p] = "last"
        PROVE  \E c \in held : p + 1 = c.first + c.count
    <2>1. PICK c \in held : InChunk(p, c)
      BY <1>3, <1>5 DEF Taken
    <2> QED
      BY <1>2, <1>5, <2>1
  <1>6. ASSUME NEW p \in Pages, NEW c \in held, p + 1 = c.first + c.count
        PROVE  descriptors[p] = "last"
    <2>1. InChunk(p, c)
      BY <1>1, <1>6 DEF InChunk, Pages
    <2> QED
      BY <1>2, <1>6, <2>1
  <1> QED
    BY <1>4, <1>5, <1>6 DEF DescriptorsMatchFrames, IInv, HeldInv

(* IInv places held chunks after the descriptors, inside the region.       *)
LEMMA IInvImpliesPlacement == ASSUME IInv PROVE MetadataOutsideFrames
  <1> SUFFICES ASSUME NEW c \in held
               PROVE  /\ descr_ptr + num_pages <= paddr(c.first)
                      /\ \E r \in Regions :
                           r.start = descr_ptr /\ paddr(c.first + c.count) <= r.end
    BY DEF MetadataOutsideFrames
  <1>1. /\ c.first \in Nat /\ c.count \in Nat /\ c.first + c.count <= num_pages
        /\ descr_ptr \in Nat /\ base_addr \in Nat /\ num_pages \in Nat /\ N \in Nat
    BY ConstantsAssumption DEF IInv, TypeOK, HeldInv, EncodedFrom, Chunk
  <1>2. /\ descr_ptr + num_pages <= base_addr
        /\ \E r \in Regions : r.start = descr_ptr /\ base_addr + num_pages * N <= r.end
    BY DEF IInv, LayoutInv
  <1>3. c.first * N \in Nat /\ (c.first + c.count) * N <= num_pages * N
    BY <1>1
  <1>4. PICK r \in Regions : r.start = descr_ptr /\ base_addr + num_pages * N <= r.end
    BY <1>2
  <1>5. r.end \in Nat /\ (c.first + c.count) * N \in Nat /\ num_pages * N \in Nat
    BY <1>1, ConstantsAssumption
  <1>6. paddr(c.first + c.count) <= r.end
    BY <1>1, <1>3, <1>4, <1>5 DEF paddr
  <1> QED
    BY <1>1, <1>2, <1>3, <1>4, <1>6 DEF paddr

(* Every field and loop variable keeps its type.                           *)
THEOREM TypeCorrect == PositiveCounts => (Spec => []TypeOK)
  <1>1. IInv => TypeOK
    BY DEF IInv
  <1> QED
    BY Invariance, <1>1, PTL

(* Between calls the descriptors encode exactly the chunks callers hold,   *)
(* whatever sequence of alloc and free led there.                          *)
THEOREM FramesEncoded == PositiveCounts => (Spec => []DescriptorsMatchFrames)
  BY Invariance, IInvImpliesEncoding, PTL

(* The panic of free is unreachable for callers that ask for at least one  *)
(* page and hand back what they got.                                       *)
THEOREM NoPanic == PositiveCounts => (Spec => []FreeNeverPanics)
  <1>1. IInv => FreeNeverPanics
    BY DEF IInv, FreeNeverPanics
  <1> QED
    BY Invariance, <1>1, PTL

(* Held memory never overlaps the descriptors nor leaves the region.       *)
THEOREM FramesInRegion == PositiveCounts => (Spec => []MetadataOutsideFrames)
  BY Invariance, IInvImpliesPlacement, PTL

-----------------------------------------------------------------------------
(* Refinement of FrameAllocator.                                           *)

(* alloc says None only after every run of `count` pages was ruled out: by *)
(* the scan for runs that start before i, by the count of the pages left   *)
(* for the others (bitmap.rs lines 101 and 111).                           *)
LEMMA NoneIsRefusal ==
    ASSUME PositiveCounts, IInv, alloc_none
    PROVE  FA!Refuse(count) /\ count \in Counts
  <1>1. /\ count \in Nat /\ count > 0 /\ i \in Nat /\ num_pages \in Nat
        /\ pc = "scan" /\ count \in Counts
    BY ConstantsAssumption DEF PositiveCounts, IInv, TypeOK, ScanInv, alloc_none
  <1>2. ASSUME NEW s \in 0..num_pages, FA!Fits(s, count) PROVE FALSE
    <2>1. s \in Nat /\ s + count <= num_pages /\ s \in Pages
      BY <1>1, <1>2 DEF FA!Fits, Pages
    <2>2. ASSUME NEW p \in Pages, s <= p, p < s + count PROVE ~Taken(p)
      <3> SUFFICES ASSUME Taken(p) PROVE FALSE
        OBVIOUS
      <3>1. PICK c \in held : InChunk(p, c)
        BY <1>1 DEF IInv, CoverInv, Pending
      <3>2. c.first \in Nat /\ c.count \in Nat /\ p \in Nat
        BY <1>1 DEF IInv, TypeOK, Chunk, Pages
      <3>3. s + count <= c.first \/ c.first + c.count <= s
        BY <1>2 DEF FA!Fits, FA!Apart
      <3> QED
        BY <1>1, <2>1, <2>2, <3>1, <3>2, <3>3 DEF InChunk
    <2>3. FreeRun(s, count)
      BY <2>1, <2>2 DEF FreeRun
    <2>4. i <= s
      BY <1>1, <2>1, <2>3 DEF IInv, ScanInv
    <2> QED
      BY <1>1, <2>1, <2>4 DEF alloc_none
  <1> QED
    BY <1>1, <1>2 DEF FA!Refuse, alloc_none, self

(* The run alloc marks was free, so it shares no page with a held chunk.   *)
LEMMA SomeIsGrant ==
    ASSUME PositiveCounts, IInv, alloc_some
    PROVE  FA!Grant(count) /\ count \in Counts
  <1>1. /\ count \in Nat /\ i \in Nat /\ num_pages \in Nat
        /\ i + count <= num_pages /\ i \in 0..num_pages /\ count \in Counts
    BY DEF IInv, TypeOK, ScanInv, alloc_some, run_from_i
  <1>2. FA!Fits(i, count)
    BY <1>1, GrantedRunApart DEF FA!Fits
  <1> QED
    BY <1>1, <1>2 DEF FA!Grant, alloc_some

(* Every step of the bitmap allocator is a step of the abstract allocator  *)
(* or leaves what its callers see unchanged.                               *)
LEMMA StepRefines ==
    ASSUME PositiveCounts, IInv, [Next]_vars
    PROVE  [FA!Next]_(FA!vars)
  <1> USE DEF FA!vars
  <1>1. ASSUME NEW r \in Regions, init_err(r) PROVE UNCHANGED FA!vars
    BY <1>1 DEF init_err, self
  <1>2. ASSUME NEW r \in Regions, init_ok(r) PROVE FA!Next
    <2>1. num_pages = 0 /\ ~init_fails(r)
      BY <1>2 DEF IInv, LayoutInv, Ready, init_ok
    <2>2. num_pages' \in Nat /\ UNCHANGED <<held, reply>>
      BY <1>2, <2>1, InitLayout DEF init_ok
    <2> QED
      BY <2>1, <2>2 DEF FA!Next, FA!Setup
  <1>3. ASSUME NEW n \in Counts, alloc(n) PROVE UNCHANGED FA!vars
    BY <1>3 DEF alloc, self
  <1>4. ASSUME NEW c \in held, free(c) PROVE FA!Next
    BY <1>4 DEF FA!Next, FA!Release, free, self
  <1>5. CASE alloc_none
    BY <1>5, NoneIsRefusal DEF FA!Next
  <1>6. CASE alloc_some
    BY <1>6, SomeIsGrant DEF FA!Next
  <1>7. CASE alloc_skip \/ alloc_blocked \/ free_page
    BY <1>7 DEF alloc_skip, alloc_blocked, free_page, self
  <1>8. CASE UNCHANGED vars
    BY <1>8 DEF vars
  <1> QED
    BY <1>1, <1>2, <1>3, <1>4, <1>5, <1>6, <1>7, <1>8 DEF Next, Loop

(* BitmapAllocator implements the FrameAllocator trait's promise: grants   *)
(* are disjoint, None is honest, free gives back the whole chunk.          *)
THEOREM Refinement == PositiveCounts => (Spec => ImplementsFrameAllocator)
  <1> SUFFICES ASSUME PositiveCounts PROVE Spec => ImplementsFrameAllocator
    OBVIOUS
  <1>1. Init => FA!Init
    BY DEF Init, FA!Init
  <1>2. IInv /\ [Next]_vars => [FA!Next]_(FA!vars)
    BY StepRefines
  <1> QED
    BY Invariance, <1>1, <1>2, PTL DEF Spec, ImplementsFrameAllocator, FA!Spec
=============================================================================
