---------------------------- MODULE LoaderProofs -----------------------------
(***************************************************************************)
(* A process never starts with a page that is both writable and            *)
(* executable, for every file, page size and number of segments.           *)
(*                                                                         *)
(* The property is not inductive: load_elf_into maps every page with W and *)
(* takes it back when the segment is complete.  The invariant says which   *)
(* pages are exempt meanwhile: those of the segment being loaded, unless   *)
(* the segment keeps W, and that segment passed the check of               *)
(* load_elf_into.                                                          *)
(***************************************************************************)
EXTENDS Loader, TLAPS

Filling == {"copy_to_user", "zero_user", "protect_range"}
Segment == page_range(map_start(plan[n]), map_end(plan[n]))

WXInv ==
    /\ pc \notin Filling \union {"panic"} => \A p \in Pages : WriteOrExecute(p)
    /\ pc \in Filling \union {"map_anonymous"} => ~({"W", "X"} \subseteq plan[n].flags)
    /\ pc \in Filling =>
          /\ \A p \in Pages \ Segment : WriteOrExecute(p)
          /\ "W" \in plan[n].flags => \A p \in Pages : WriteOrExecute(p)

\* A panic leaves nothing to show.
LEMMA PanicWX == ASSUME NEW why, panic(why) PROVE WXInv'
BY DEF panic, WXInv, Filling

\* A store changes no permission: only the dirty bit is added (copy_to_user and
\* zero_user of RiscvLoader).
LEMMA StoreWX ==
    ASSUME NEW va, NEW len, NEW byte, pages' = store(va, len, byte),
           NEW p \in Pages, WriteOrExecute(p)
    PROVE  WriteOrExecute(p)'
BY DEF store, WriteOrExecute, Pages

LEMMA StepWX == WXInv /\ [Next]_vars => WXInv'
<1> SUFFICES ASSUME WXInv, [Next]_vars PROVE WXInv'
    OBVIOUS
<1>1. CASE find_file
    BY <1>1, PanicWX DEF find_file, WXInv, Filling, WriteOrExecute, Pages
<1>2. CASE new_user_addr_space
    BY <1>2 DEF new_user_addr_space, WXInv, Filling, WriteOrExecute, Pages
<1>3. CASE oom
    BY <1>3, PanicWX DEF oom
<1>4. CASE parse_header
    BY <1>4, PanicWX DEF parse_header, WXInv, Filling, WriteOrExecute, Pages
<1>5. CASE plan_header
    BY <1>5, PanicWX DEF plan_header, WXInv, Filling, WriteOrExecute, Pages
<1>6. CASE plan_done
    BY <1>6, PanicWX DEF plan_done, WXInv, Filling, WriteOrExecute, Pages
<1>7. CASE begin_segment
    BY <1>7, PanicWX DEF begin_segment, WXInv, Filling, WriteOrExecute, Pages
<1>8. CASE map_anonymous
    <2>1. CASE panic("AlreadyMapped")
        BY <2>1, PanicWX
    <2>2. CASE ~panic("AlreadyMapped")
        <3>1. /\ pc = "map_anonymous" /\ pc' = "copy_to_user" /\ UNCHANGED <<plan, n>>
              /\ pages' = [p \in Pages |->
                             IF p \in Segment
                             THEN [flags |-> load_flags(plan[n]), bytes |-> Fresh] ELSE pages[p]]
            BY <1>8, <2>2 DEF map_anonymous, map_pages, Segment
        <3>2. Segment' = Segment
            BY <3>1 DEF Segment, page_range, map_start, map_end, align_up, align_down, Pages
        <3>3. ~({"W", "X"} \subseteq plan[n].flags)
            BY <3>1 DEF WXInv, Filling
        <3>4. \A p \in Pages : WriteOrExecute(p)
            BY <3>1 DEF WXInv, Filling
        <3>5. \A p \in Pages \ Segment : WriteOrExecute(p)'
            BY <3>1, <3>4 DEF WriteOrExecute, Pages
        <3>6. "W" \in plan[n].flags => \A p \in Pages : WriteOrExecute(p)'
            BY <3>1, <3>3, <3>4 DEF WriteOrExecute, Pages, load_flags
        <3> QED
            BY <3>1, <3>2, <3>3, <3>5, <3>6 DEF WXInv, Filling, Pages
    <2> QED
        BY <2>1, <2>2
<1>9. CASE copy_to_user
    <2>1. CASE panic("store fault")
        BY <2>1, PanicWX
    <2>2. CASE ~panic("store fault")
        <3>1. /\ pc = "copy_to_user" /\ pc' = "zero_user" /\ UNCHANGED <<plan, n>>
              /\ \E byte : pages' = store(plan[n].vaddr, Len(plan[n].data), byte)
            BY <1>9, <2>2 DEF copy_to_user
        <3>2. Segment' = Segment
            BY <3>1 DEF Segment, page_range, map_start, map_end, align_up, align_down, Pages
        <3>3. \A p \in Pages : WriteOrExecute(p) => WriteOrExecute(p)'
            BY <3>1, StoreWX
        <3> QED
            BY <3>1, <3>2, <3>3 DEF WXInv, Filling, Pages
    <2> QED
        BY <2>1, <2>2
<1>10. CASE zero_user
    <2>1. CASE panic("store fault")
        BY <2>1, PanicWX
    <2>2. CASE ~panic("store fault")
        <3>1. /\ pc = "zero_user" /\ pc' = "protect_range" /\ UNCHANGED <<plan, n>>
              /\ \E zero : pages' = store(bss_start(plan[n]), bss_len(plan[n]), zero)
            BY <1>10, <2>2 DEF zero_user
        <3>2. Segment' = Segment
            BY <3>1 DEF Segment, page_range, map_start, map_end, align_up, align_down, Pages
        <3>3. \A p \in Pages : WriteOrExecute(p) => WriteOrExecute(p)'
            BY <3>1, StoreWX
        <3> QED
            BY <3>1, <3>2, <3>3 DEF WXInv, Filling, Pages
    <2> QED
        BY <2>1, <2>2
<1>11. CASE protect_range
    <2> DEFINE s == plan[n]
    <2>1. /\ pc = "protect_range" /\ pc' = "load"
          /\ pages' = IF s.flags = load_flags(s) THEN pages
                      ELSE [p \in Pages |->
                              IF p \in Segment
                              THEN [flags |-> (pages[p].flags \ {"R", "W", "X"}) \union s.flags,
                                    bytes |-> pages[p].bytes]
                              ELSE pages[p]]
        BY <1>11 DEF protect_range, Segment
    <2>2. /\ ~({"W", "X"} \subseteq s.flags)
          /\ \A p \in Pages \ Segment : WriteOrExecute(p)
          /\ "W" \in s.flags => \A p \in Pages : WriteOrExecute(p)
        BY <2>1 DEF WXInv, Filling
    <2>3. CASE s.flags = load_flags(s)
        <3>1. "W" \in s.flags
            BY <2>3 DEF load_flags
        <3> QED
            BY <2>1, <2>2, <2>3, <3>1 DEF WXInv, Filling, WriteOrExecute, Pages
    <2>4. CASE s.flags # load_flags(s)
        <3>1. \A p \in Pages : WriteOrExecute(p)'
            BY <2>1, <2>2, <2>4 DEF WriteOrExecute, Pages
        <3> QED
            BY <2>1, <3>1 DEF WXInv, Filling, Pages
    <2> QED
        BY <2>3, <2>4
<1>12. CASE finalize_image
    BY <1>12 DEF finalize_image, WXInv, Filling, WriteOrExecute, Pages
<1>13. CASE default_stack
    <2>1. CASE panic("AlreadyMapped")
        BY <2>1, PanicWX
    <2>2. CASE ~panic("AlreadyMapped")
        <3> DEFINE ps == page_range(stack_start, user_end)
        <3>1. /\ pc = "stack" /\ pc' = "user"
              /\ pages' = [p \in Pages |->
                             IF p \in ps THEN [flags |-> {"R", "W"}, bytes |-> Fresh]
                             ELSE pages[p]]
            BY <1>13, <2>2 DEF default_stack, map_pages
        <3>2. \A p \in Pages : WriteOrExecute(p)
            BY <3>1 DEF WXInv, Filling
        <3> HIDE DEF ps
        <3>3. \A p \in Pages : WriteOrExecute(p)'
            BY <3>1, <3>2 DEF WriteOrExecute, Pages
        <3> QED
            BY <3>1, <3>3 DEF WXInv, Filling, Pages
    <2> QED
        BY <2>1, <2>2
<1>14. CASE UNCHANGED vars
    BY <1>14 DEF vars, WXInv, Filling, Segment, WriteOrExecute, Pages, page_range,
                 map_start, map_end, align_up, align_down
<1> QED
    BY <1>1, <1>2, <1>3, <1>4, <1>5, <1>6, <1>7, <1>8, <1>9, <1>10, <1>11, <1>12, <1>13, <1>14
       DEF Next, Done

\* When a process starts, no page of it is both writable and executable: the
\* check of load_elf_into and the final protect_range are enough, whatever
\* segments share (proc/elf/mod.rs:229, :270).
THEOREM NoPageWX == Spec => []NothingWX
<1>1. Init => WXInv
    BY DEF Init, WXInv, Filling, WriteOrExecute, Unmapped, Pages
<1>2. WXInv => NothingWX
    BY DEF WXInv, NothingWX, Filling
<1> QED
    BY <1>1, <1>2, StepWX, PTL DEF Spec
=============================================================================
