------------------------------ MODULE PageTable ------------------------------
(***************************************************************************)
(* kernel/src/arch/riscv/mmu.rs, PageTableWalker: map, map_range,          *)
(* update_mapping, copy_kernel_mappings and virt_to_phys, with the calls   *)
(* the kernel makes of them: setup_late and iomap map kernel ranges,       *)
(* new_user_addr_space copies them into the table of the user process,     *)
(* map_anonymous and protect_range edit the process's pages.               *)
(*                                                                         *)
(* Addresses are page numbers.  RAM is a set of frames, each seen as a     *)
(* page table; a frame nothing was written to holds Garbage.  Frames come  *)
(* from the bump frame allocator (see BumpFrameAllocator), so `gfa_ptr` is *)
(* the next frame it grants.  Every loop is modelled one step per          *)
(* iteration.  `level` is ghost state: the level of each page table.       *)
(***************************************************************************)
EXTENDS Naturals, Sequences

CONSTANTS PAGE_LEVELS,  \* depth of the tree (3 for sv39)
          W,            \* entries per table (512)
          PageSize,     \* level -> pages mapped by an entry of that level
          Frames,       \* number of RAM frames
          Garbage,      \* content of RAM before its first write
          KernelMaps,   \* calls of map_range: [va, pa, n, level, flags]
          UserMaps,     \* calls of map_anonymous: [va, n, flags]
          Protects      \* calls of protect_range: [va, n, flags]

Level == 0..(PAGE_LEVELS - 1)
NotTable == PAGE_LEVELS
Index == 0..(W - 1)
Frame == 0..(Frames - 1)
VA == 0..(PageSize[PAGE_LEVELS] - 1)

Flag == {"V", "R", "W", "X", "U", "G", "A", "D"}
RWXUG == {"R", "W", "X", "U", "G"}
KERNEL == {"R", "W", "X", "A", "D", "G"}
MMIO == {"R", "W", "A", "D", "G"}
UserFlags(f) == f \cup {"U", "A"}

Entry == [flags : SUBSET Flag, ppn : Nat]
Table == [Index -> Entry]

ASSUME ConstantsAssumption ==
    /\ PAGE_LEVELS \in Nat \ {0} /\ W \in Nat \ {0} /\ Frames \in Nat \ {0}
    /\ PageSize \in [0..PAGE_LEVELS -> Nat] /\ PageSize[0] = 1
    /\ \A l \in Level : PageSize[l + 1] = W * PageSize[l]
    /\ Garbage \in Table

VARIABLES mem,          \* frame -> its content
          level,        \* frame -> level of the table it holds, or NotTable
          gfa_ptr,      \* next frame the allocator grants
          uroot,        \* root table of the user process, 0 (the kernel's root) if none
          pc,           \* "idle" | "loop" | "walk" | "zero" | "find" | "halt"
          op,           \* running loop: "range" | "copy" | "protect"
          root,         \* root table of the running walker
          page,         \* page being mapped: [va, pa, level, flags]
          n,            \* pages left
          stack,        \* calls of the recursive copy: [table, base, i], innermost last
          lvl, table,   \* position of the walk
          result

vars == <<mem, level, gfa_ptr, uroot, pc, op, root, page, n, stack, lvl, table, result>>
cursor == <<lvl, table>>
call == <<op, root, page, n, stack>>

kroot == 0      \* the first frame the allocator grants

Empty == [flags |-> {}, ppn |-> 0]
NoPage == [va |-> 0, pa |-> 0, level |-> 0, flags |-> {}]
ZeroTable == [i \in Index |-> Empty]

is_valid(e) == "V" \in e.flags
is_leaf(e) == e.flags \cap {"R", "W", "X"} # {}
is_user(e) == "U" \in e.flags
is_table(e) == is_valid(e) /\ ~is_leaf(e)
write_flags(e, f) == [e EXCEPT !.flags = (@ \ RWXUG) \cup f]

vpn(va, l) == (va \div PageSize[l]) % W

\* setup_late up to the new root table.
Init ==
    /\ mem = [f \in Frame |-> IF f = kroot THEN ZeroTable ELSE Garbage]
    /\ level = [f \in Frame |-> IF f = kroot THEN PAGE_LEVELS - 1 ELSE NotTable]
    /\ gfa_ptr = 1 /\ uroot = kroot
    /\ pc = "idle" /\ op = "none" /\ root = kroot /\ page = NoPage /\ n = 0 /\ stack = <<>>
    /\ lvl = 0 /\ table = kroot /\ result = "none"

return ==
    /\ pc' = "idle" /\ op' = "none" /\ root' = kroot /\ page' = NoPage /\ n' = 0 /\ stack' = <<>>
    /\ lvl' = 0 /\ table' = kroot /\ result' = "Ok"

\* Err(e): setup_late, iomap and exec all panic on it.
fail(e) == pc' = "halt" /\ result' = e /\ UNCHANGED <<call, cursor>>

-----------------------------------------------------------------------------
(* Where the walk for va stops: at an entry that is not valid or is a leaf,*)
(* or at level 0.  While a new table is linked and not yet cleared, the    *)
(* entry that links it counts as empty.                                    *)
entry(f, i) ==
    IF pc = "zero" /\ f = table /\ i = vpn(page.va, lvl) THEN Empty ELSE mem[f][i]

pte(rt, va) ==
    LET walk[l \in Level, f \in Frame] ==
          LET e == entry(f, vpn(va, l)) IN
          IF l > 0 /\ is_table(e) THEN walk[l - 1, e.ppn]
          ELSE [table |-> f, level |-> l, entry |-> e]
    IN walk[PAGE_LEVELS - 1, rt]

Unmapped == [pa |-> 0, flags |-> {}]

virt_to_phys(rt, va) ==
    LET p == pte(rt, va) IN
    IF is_valid(p.entry) /\ is_leaf(p.entry)
    THEN [pa |-> p.entry.ppn + (va % PageSize[p.level]), flags |-> p.entry.flags]
    ELSE Unmapped

-----------------------------------------------------------------------------
(* The calls.  MAPPER and GFA are locked for the whole call.               *)

map_range(m) ==
    /\ pc = "idle" /\ uroot = kroot      \* drivers are initialised before exec
    /\ pc' = "loop" /\ op' = "range" /\ root' = kroot /\ n' = m.n
    /\ page' = [va |-> m.va, pa |-> m.pa, level |-> m.level, flags |-> m.flags]
    /\ UNCHANGED <<mem, level, gfa_ptr, uroot, stack, cursor, result>>

\* Mutant: the last frame is past the end of RAM.
oom_off_by_one(k) == gfa_ptr + k > Frames + 1

\* gfa.alloc(k).expect("oom")
oom(k) == gfa_ptr + k > Frames
halt ==
    /\ pc' = "halt"
    /\ UNCHANGED <<mem, level, gfa_ptr, uroot, call, cursor, result>>

\* Mutant: one frame is allocated for the n pages.
map_anonymous_one_frame(m) ==
    /\ pc = "idle" /\ uroot # kroot
    /\ IF oom(1) THEN halt
       ELSE /\ gfa_ptr' = gfa_ptr + 1
            /\ pc' = "loop" /\ op' = "range" /\ root' = uroot /\ n' = m.n
            /\ page' = [va |-> m.va, pa |-> gfa_ptr, level |-> 0, flags |-> UserFlags(m.flags)]
            /\ UNCHANGED <<mem, level, uroot, stack, cursor, result>>

map_anonymous(m) ==
    /\ pc = "idle" /\ uroot # kroot
    /\ IF oom(m.n) THEN halt
       ELSE /\ gfa_ptr' = gfa_ptr + m.n
            /\ pc' = "loop" /\ op' = "range" /\ root' = uroot /\ n' = m.n
            /\ page' = [va |-> m.va, pa |-> gfa_ptr, level |-> 0, flags |-> UserFlags(m.flags)]
            /\ UNCHANGED <<mem, level, uroot, stack, cursor, result>>

protect_range(m) ==
    /\ pc = "idle" /\ uroot # kroot
    /\ pc' = "loop" /\ op' = "protect" /\ root' = uroot /\ n' = m.n
    /\ page' = [va |-> m.va, pa |-> 0, level |-> 0, flags |-> UserFlags(m.flags)]
    /\ UNCHANGED <<mem, level, gfa_ptr, uroot, stack, cursor, result>>

new_user_addr_space ==
    /\ pc = "idle" /\ uroot = kroot
    /\ IF oom(1) THEN halt
       ELSE /\ gfa_ptr' = gfa_ptr + 1
            /\ mem' = [mem EXCEPT ![gfa_ptr] = ZeroTable]
            /\ level' = [level EXCEPT ![gfa_ptr] = PAGE_LEVELS - 1]
            /\ pc' = "loop" /\ op' = "copy" /\ root' = gfa_ptr
            /\ stack' = <<[table |-> kroot, base |-> 0, i |-> 0]>>
            /\ UNCHANGED <<uroot, page, n, cursor, result>>

-----------------------------------------------------------------------------
(* One iteration of the loops.                                             *)

from_root == lvl' = PAGE_LEVELS - 1 /\ table' = root

range_next ==
    /\ pc = "loop" /\ op = "range"
    /\ IF n = 0 THEN return ELSE pc' = "walk" /\ from_root /\ UNCHANGED <<call, result>>
    /\ UNCHANGED <<mem, level, gfa_ptr, uroot>>

(* _copy_kernel_mappings_recursive, one entry of the innermost table per   *)
(* step: entries that are not valid or are for the user are filtered out,  *)
(* a leaf is mapped, another table is entered.                             *)
top == stack[Len(stack)]
copy_level == PAGE_LEVELS - Len(stack)
copy_entry == mem[top.table][top.i]
\* Mutant: the recursion looks at every second entry.
next_entry_skipping == [stack EXCEPT ![Len(stack)].i = IF @ + 2 > W THEN W ELSE @ + 2]

\* Mutant: the loop over the entries does not advance.
next_entry_stuck == stack

next_entry == [stack EXCEPT ![Len(stack)].i = @ + 1]
copy_vaddr == top.base + top.i * PageSize[copy_level]

copying == pc = "loop" /\ op = "copy"
filtered == ~is_valid(copy_entry) \/ is_user(copy_entry)

copy_return ==
    /\ copying /\ top.i = W
    /\ IF Len(stack) = 1 THEN return /\ uroot' = root
       ELSE /\ stack' = SubSeq(stack, 1, Len(stack) - 1)
            /\ UNCHANGED <<uroot, pc, op, root, page, n, cursor, result>>
    /\ UNCHANGED <<mem, level, gfa_ptr>>

copy_skip ==
    /\ copying /\ top.i < W /\ filtered
    /\ stack' = next_entry
    /\ UNCHANGED <<mem, level, gfa_ptr, uroot, pc, op, root, page, n, cursor, result>>

copy_leaf ==
    /\ copying /\ top.i < W /\ ~filtered /\ is_leaf(copy_entry)
    /\ page' = [va |-> copy_vaddr, pa |-> copy_entry.ppn, level |-> copy_level,
                flags |-> copy_entry.flags]
    /\ stack' = next_entry
    /\ pc' = "walk" /\ from_root
    /\ UNCHANGED <<mem, level, gfa_ptr, uroot, op, root, n, result>>

copy_table ==
    /\ copying /\ top.i < W /\ ~filtered /\ ~is_leaf(copy_entry)
    /\ IF copy_level = 0 THEN fail("CorruptedPageTable")
       ELSE /\ stack' = Append(next_entry, [table |-> copy_entry.ppn, base |-> copy_vaddr, i |-> 0])
            /\ UNCHANGED <<pc, op, root, page, n, cursor, result>>
    /\ UNCHANGED <<mem, level, gfa_ptr, uroot>>

(* update_mapping: find the entry of the page with get_pte_ptr and replace *)
(* its flags.                                                              *)
here == vpn(page.va, lvl)

protect_next ==
    /\ pc = "loop" /\ op = "protect"
    /\ IF n = 0 THEN return ELSE pc' = "find" /\ from_root /\ UNCHANGED <<call, result>>
    /\ UNCHANGED <<mem, level, gfa_ptr, uroot>>

find_down ==
    /\ pc = "find" /\ lvl > 0 /\ is_table(mem[table][here])
    /\ table' = mem[table][here].ppn /\ lvl' = lvl - 1
    /\ UNCHANGED <<mem, level, gfa_ptr, uroot, pc, call, result>>

find_none ==
    /\ pc = "find" /\ ~is_valid(mem[table][here])
    /\ fail("CorruptedPageTable")
    /\ UNCHANGED <<mem, level, gfa_ptr, uroot>>

find_leaf ==
    /\ pc = "find" /\ is_valid(mem[table][here]) /\ (lvl = 0 \/ is_leaf(mem[table][here]))
    /\ mem' = [mem EXCEPT ![table][here] = write_flags(@, page.flags)]
    /\ page' = [page EXCEPT !.va = @ + 1] /\ n' = n - 1
    /\ pc' = "loop"
    /\ UNCHANGED <<level, gfa_ptr, uroot, op, root, stack, cursor, result>>

(* map: descend to the level of the page, adding tables on the way ...     *)
descending == pc = "walk" /\ lvl > page.level

walk_down ==
    /\ descending /\ is_valid(mem[table][here])
    /\ table' = mem[table][here].ppn /\ lvl' = lvl - 1
    /\ UNCHANGED <<mem, level, gfa_ptr, uroot, pc, call, result>>

walk_oom ==
    /\ descending /\ ~is_valid(mem[table][here])
    /\ oom(1)
    /\ fail("AllocationFailed")
    /\ UNCHANGED <<mem, level, gfa_ptr, uroot>>

\* Mutant: the frame stays available.
walk_link_reused ==
    /\ descending /\ ~is_valid(mem[table][here])
    /\ ~oom(1)
    /\ mem' = [mem EXCEPT ![table][here] = [flags |-> {"V"}, ppn |-> gfa_ptr]]
    /\ pc' = "zero"
    /\ UNCHANGED <<level, gfa_ptr, uroot, call, cursor, result>>

\* The entry is made valid before the new table is cleared.
walk_link ==
    /\ descending /\ ~is_valid(mem[table][here])
    /\ ~oom(1)
    /\ gfa_ptr' = gfa_ptr + 1
    /\ mem' = [mem EXCEPT ![table][here] = [flags |-> {"V"}, ppn |-> gfa_ptr]]
    /\ pc' = "zero"
    /\ UNCHANGED <<level, uroot, call, cursor, result>>

\* Mutant: the new table is used as it is.
walk_zero_missing ==
    /\ pc = "zero"
    /\ level' = [level EXCEPT ![mem[table][here].ppn] = lvl - 1]
    /\ table' = mem[table][here].ppn
    /\ lvl' = lvl - 1 /\ pc' = "walk"
    /\ UNCHANGED <<mem, gfa_ptr, uroot, call, result>>

walk_zero ==
    /\ pc = "zero"
    /\ LET f == mem[table][here].ppn IN
       /\ mem' = [mem EXCEPT ![f] = ZeroTable]
       /\ level' = [level EXCEPT ![f] = lvl - 1]
       /\ table' = f
    /\ lvl' = lvl - 1 /\ pc' = "walk"
    /\ UNCHANGED <<gfa_ptr, uroot, call, result>>

(* ... and fill in the leaf entry.                                         *)
leaf_flags == page.flags \cup {"V"}
\* Mutant: the bits the MMU sets are not compared.
taken_but_for_ad ==
    is_valid(mem[table][here]) /\ mem[table][here].flags \ {"A", "D"} # leaf_flags \ {"A", "D"}

taken == is_valid(mem[table][here]) /\ mem[table][here].flags # leaf_flags

leaf_conflict ==
    /\ pc = "walk" /\ lvl = page.level
    /\ taken
    /\ fail("AlreadyMapped")
    /\ UNCHANGED <<mem, level, gfa_ptr, uroot>>

leaf_write ==
    /\ pc = "walk" /\ lvl = page.level
    /\ ~taken
    /\ mem' = [mem EXCEPT ![table][here] = [write_flags(@, leaf_flags) EXCEPT !.ppn = page.pa]]
    /\ IF op = "range"
       THEN /\ page' = [page EXCEPT !.va = @ + PageSize[page.level], !.pa = @ + PageSize[page.level]]
            /\ n' = n - 1
       ELSE UNCHANGED <<page, n>>
    /\ pc' = "loop"
    /\ UNCHANGED <<level, gfa_ptr, uroot, op, root, stack, cursor, result>>

Slot == {s \in Frame \X Index : level[s[1]] # NotTable}

(* The MMU, on a store to a user page (between calls: copy_to_user and     *)
(* zero_user), sets the accessed and dirty bits of the entry.              *)
mmu_store(s) ==
    /\ pc = "idle" /\ uroot # kroot
    /\ {"V", "W", "U"} \subseteq mem[s[1]][s[2]].flags
    /\ mem' = [mem EXCEPT ![s[1]][s[2]].flags = @ \cup {"A", "D"}]
    /\ UNCHANGED <<level, gfa_ptr, uroot, pc, call, cursor, result>>

halted == pc = "halt" /\ UNCHANGED vars

Step ==
    \/ range_next \/ protect_next \/ find_down \/ find_none \/ find_leaf
    \/ copy_return \/ copy_skip \/ copy_leaf \/ copy_table
    \/ walk_down \/ walk_oom \/ walk_link \/ walk_zero
    \/ leaf_conflict \/ leaf_write

Next ==
    \/ \E m \in KernelMaps : map_range(m)
    \/ \E m \in UserMaps : map_anonymous(m)
    \/ \E m \in Protects : protect_range(m)
    \/ new_user_addr_space
    \/ Step
    \/ \E s \in Slot : mmu_store(s)
    \/ halted

Spec == Init /\ [][Next]_vars
FairSpec == Spec /\ WF_vars(Step)

-----------------------------------------------------------------------------
(* Types of the tables, of the allocator and of the loop state.            *)
TypeOK ==
    /\ mem \in [Frame -> Table] /\ level \in [Frame -> 0..NotTable]
    /\ gfa_ptr \in 1..Frames
    /\ uroot \in Frame /\ root \in Frame /\ table \in Frame /\ lvl \in Level
    /\ pc \in {"idle", "loop", "walk", "zero", "find", "halt"}
    /\ op \in {"none", "range", "copy", "protect"}
    /\ page \in [va : Nat, pa : Nat, level : Level, flags : SUBSET Flag]
    /\ n \in Nat /\ stack \in Seq([table : Frame, base : Nat, i : 0..W])
    /\ result \in {"none", "Ok", "AllocationFailed", "AlreadyMapped", "CorruptedPageTable"}

at(s) == entry(s[1], s[2])

(* "The resulting pointer points to properly initialized memory": a walk   *)
(* only visits cleared tables of the level it expects, and every valid     *)
(* non-leaf entry links a cleared table one level down.  The one exception *)
(* is the entry a running map has just linked and is about to clear.       *)
TablesInitialised ==
    /\ pc \in {"walk", "zero", "find"} => level[table] = lvl
    /\ \A s \in Slot : is_table(at(s)) =>
         level[s[1]] > 0 /\ at(s).ppn \in Frame /\ level[at(s).ppn] = level[s[1]] - 1

(* No table is shared: neither by two entries nor by the kernel and the    *)
(* process, so that editing one address space never edits the other.       *)
TablesFormTree ==
    \A s \in Slot : is_table(at(s)) =>
        /\ at(s).ppn \notin {kroot, uroot, root}
        /\ \A t \in Slot : is_table(at(t)) /\ at(t).ppn = at(s).ppn => s = t

(* A page the user can access is never a page table, and no two user       *)
(* mappings share a frame.                                                 *)
UserPagesPrivate ==
    \A s \in Slot : is_valid(at(s)) /\ is_user(at(s)) =>
        /\ at(s).ppn < gfa_ptr /\ level[at(s).ppn] = NotTable
        /\ \A t \in Slot :
             is_valid(at(t)) /\ is_user(at(t)) /\ at(t).ppn = at(s).ppn => s = t

(* Once something was stored to a user page, the page keeps its frame: a   *)
(* later segment that touches the same page cannot replace what was loaded.*)
DirtyPagesPinned ==
    [][\A va \in VA :
         LET m == virt_to_phys(uroot, va) IN
         m # Unmapped /\ {"U", "D"} \subseteq m.flags =>
            virt_to_phys(uroot, va)' # Unmapped /\ virt_to_phys(uroot, va)'.pa = m.pa]_vars

AS == INSTANCE AddressSpace WITH
        Blocks <- UNION {{[base |-> b, size |-> PageSize[l]] : b \in {v \in VA : v % PageSize[l] = 0}}
                            : l \in Level},
        kspace <- [v \in VA |-> virt_to_phys(kroot, v)],
        uspace <- [v \in VA |-> IF uroot = kroot THEN Unmapped ELSE virt_to_phys(uroot, v)],
        created <- uroot # kroot

(* Seen through virt_to_phys, the tables are two functions from pages to   *)
(* frames: each call changes one page (or large page) at a time, an error  *)
(* changes nothing more, and the process starts with all of the kernel's   *)
(* mappings at once.                                                       *)
ImplementsAddressSpace == AS!Spec

(* Every call returns or halts the kernel.                                 *)
CallsReturn == pc \in {"loop", "walk", "zero", "find"} ~> pc \in {"idle", "halt"}
=============================================================================
