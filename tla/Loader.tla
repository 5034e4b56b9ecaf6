------------------------------- MODULE Loader --------------------------------
(***************************************************************************)
(* The end of kmain: find the file "init" in the initial ramdisk           *)
(* (initrd.rs, crates/cpio), create an address space, load the ELF file    *)
(* into it (proc/elf/mod.rs with arch/riscv/mm/elf.rs), map the stack and  *)
(* enter user mode.  Every error ends in a panic of the kernel.            *)
(*                                                                         *)
(* `pages` maps the pages of the user range to their leaf entry and their  *)
(* contents.  A byte of memory is 0, Stale (left by an earlier owner of    *)
(* the frame, frames are not cleared) or the file offset it was copied     *)
(* from.                                                                   *)
(***************************************************************************)
EXTENDS Cpio, Elf, Integers, FiniteSets

CONSTANTS Archives,     \* archives the boot loader may hand over
          PAGE_SIZE,
          UserPages,    \* number of pages of the user range
          StackPages,   \* the stack is the last pages of it
          MaxSegments   \* length of seg_buf and policy.max_segments

VARIABLES archive, it,  \* the ramdisk and the iterator over it
          pc,
          elf,          \* the file being loaded
          n,            \* program header or segment being worked on
          plan,         \* seg_buf
          pages,
          reason        \* why the kernel panicked

vars == <<archive, it, pc, elf, n, plan, pages, reason>>

Stale == -1
Unmapped == [flags |-> {"unmapped"}, bytes |-> <<>>]
NoFile == [len |-> 0, phdrs |-> <<>>]
Pages == 0..(UserPages - 1)
Fresh == [b \in 0..(PAGE_SIZE - 1) |-> Stale]

\* LoadSegment::default()
DefaultSegment == [vaddr |-> 0, mem |-> 0, data |-> <<>>, flags |-> {}]

Init ==
    /\ archive \in Archives
    /\ it = new_iter
    /\ pc = "find_file"
    /\ elf = NoFile
    /\ n = 0
    /\ plan = [i \in 0..(MaxSegments - 1) |-> DefaultSegment]
    /\ pages = [p \in Pages |-> Unmapped]
    /\ reason = "none"

panic(why) ==
    /\ pc' = "panic" /\ reason' = why
    /\ UNCHANGED <<archive, it, elf, n, plan, pages>>

\* --- cpio::find_file, Initrd::find_file, kmain ---------------------------

find_file ==
    LET r == next(archive, it) IN
    /\ pc = "find_file"
    /\ \/ /\ r.item = "Ok" /\ r.entry.name # "init"
          /\ it' = r.it
          /\ UNCHANGED <<archive, pc, elf, n, plan, pages, reason>>
       \/ /\ r.item = "Ok" /\ r.entry.name = "init"
          /\ it' = r.it /\ elf' = r.entry.data
          /\ pc' = "new_user_addr_space"
          /\ UNCHANGED <<archive, n, plan, pages, reason>>
       \/ r.item # "Ok" /\ panic("init not found")

\* --- exec ----------------------------------------------------------------

\* The user half of a new address space is empty.
new_user_addr_space ==
    /\ pc = "new_user_addr_space"
    /\ pc' = "parse"
    /\ UNCHANGED <<archive, it, elf, n, plan, pages, reason>>

\* --- build_load_plan -----------------------------------------------------

parse_header ==
    /\ pc = "parse"
    /\ \/ /\ parse(elf) = "Ok"
          /\ pc' = "build_load_plan"
          /\ UNCHANGED <<archive, it, elf, n, plan, pages, reason>>
       \/ parse(elf) # "Ok" /\ panic(parse(elf))

is_power_of_two(x) == \E k \in 0..16 : x = 2^k

\* Mutant: the size in memory is not compared with the size in the file.
segment_checks_size(f, ph, i) ==
    << check(i < MaxSegments, "TooManySegments") >>
    \o segment_range(f, ph)
    \o << check(is_power_of_two(ph.align) /\ ph.vaddr % ph.align = 0, "Misaligned") >>

segment_checks(f, ph, i) ==
    << check(i < MaxSegments, "TooManySegments") >>
    \o segment_range(f, ph)
    \o << check(is_power_of_two(ph.align) /\ ph.vaddr % ph.align = 0, "Misaligned"),
          check(ph.memsz >= ph.filesz, "OutOfBounds") >>

load_segment(ph) ==
    [vaddr |-> ph.vaddr, mem |-> ph.memsz, data |-> segment_data(ph), flags |-> ph.flags]

\* One iteration over the program headers.
plan_header ==
    LET ph == program_header(elf, n)
        err == IF is_load(ph)
               THEN first_error(header_range(elf, n) \o segment_checks(elf, ph, n))
               ELSE first_error(header_range(elf, n))
    IN /\ pc = "build_load_plan" /\ n < phnum(elf)
       /\ \/ /\ err = "Ok"
             /\ plan' = IF is_load(ph) THEN [plan EXCEPT ![n] = load_segment(ph)] ELSE plan
             /\ n' = n + 1
             /\ UNCHANGED <<archive, it, pc, elf, pages, reason>>
          \/ err # "Ok" /\ panic(err)

\* The slice of ph_buf that becomes the plan is as long as the header table,
\* which may be longer than ph_buf.
plan_done ==
    /\ pc = "build_load_plan" /\ n = phnum(elf)
    /\ \/ /\ phnum(elf) <= MaxSegments
          /\ n' = 0 /\ pc' = "load"
          /\ UNCHANGED <<archive, it, elf, plan, pages, reason>>
       \/ phnum(elf) > MaxSegments /\ panic("slice index")

\* --- load_elf_into -------------------------------------------------------

align_down(a) == (a \div PAGE_SIZE) * PAGE_SIZE
align_up(a) == align_down(a + PAGE_SIZE - 1)

\* Mutant: a segment that ends with a page takes the next one too.
map_end_next(s) == align_down(s.vaddr + s.mem) + PAGE_SIZE

map_start(s) == align_down(s.vaddr)
map_end(s) == align_up(s.vaddr + s.mem)
load_flags(s) == s.flags \union {"W"}

page_range(start, end) == {p \in Pages : start <= p * PAGE_SIZE /\ p * PAGE_SIZE < end}

\* VirtAddr + usize and align_up: the sums must be addresses.
end_overflows(s) == s.vaddr + s.mem + PAGE_SIZE - 1 > USIZE_MAX

\* enforce W^X, round to pages, then map
begin_segment ==
    LET s == plan[n]
        wx == {"W", "X"} \subseteq s.flags
    IN /\ pc = "load" /\ n < phnum(elf)
       /\ \/ /\ ~wx /\ ~end_overflows(s)
             /\ pc' = "map_anonymous"
             /\ UNCHANGED <<archive, it, elf, n, plan, pages, reason>>
          \/ wx /\ panic("Unsupported")
          \/ ~wx /\ end_overflows(s) /\ panic("overflow")

\* PageTableWalker::map refuses an entry that is valid with other flags.
refused(ps, flags) == \E p \in ps : pages[p] # Unmapped /\ pages[p].flags # flags

\* RiscvLoader::map_anonymous; `to` is where the caller goes on.
map_pages(ps, flags, to) ==
    \/ /\ ~refused(ps, flags)
       /\ pages' = [p \in Pages |-> IF p \in ps THEN [flags |-> flags, bytes |-> Fresh]
                                    ELSE pages[p]]
       /\ pc' = to
       /\ UNCHANGED <<archive, it, elf, n, plan, reason>>
    \/ refused(ps, flags) /\ panic("AlreadyMapped")

map_anonymous ==
    LET s == plan[n] IN
    /\ pc = "map_anonymous"
    /\ map_pages(page_range(map_start(s), map_end(s)), load_flags(s), "copy_to_user")

\* Frames or page tables run out, in any of the calls that allocate them.
oom ==
    /\ \/ pc \in {"new_user_addr_space", "stack"}
       \/ pc = "map_anonymous" /\ map_start(plan[n]) # map_end(plan[n])
    /\ panic("oom")

\* The MMU on stores to the addresses va .. va + len - 1: a page that is not
\* readable and writable faults (W without R is a reserved encoding), any
\* other becomes dirty.
stored(va, len) == page_range(align_down(va), IF len = 0 THEN align_down(va) ELSE va + len)
store_faults(va, len) ==
    \E p \in stored(va, len) : ~({"R", "W"} \subseteq pages[p].flags)
\* byte says what is stored at each address.
store(va, len, byte) ==
    [p \in Pages |->
        IF p \notin stored(va, len) THEN pages[p]
        ELSE [flags |-> pages[p].flags \union {"D"},
              bytes |-> [b \in DOMAIN pages[p].bytes |->
                           LET a == p * PAGE_SIZE + b IN
                           IF va <= a /\ a < va + len THEN byte[a] ELSE pages[p].bytes[b]]]]

copy_to_user ==
    LET s == plan[n]
        byte == [a \in s.vaddr..(s.vaddr + Len(s.data) - 1) |-> s.data[a - s.vaddr + 1]]
    IN /\ pc = "copy_to_user"
       /\ \/ /\ ~store_faults(s.vaddr, Len(s.data))
             /\ pages' = store(s.vaddr, Len(s.data), byte)
             /\ pc' = "zero_user"
             /\ UNCHANGED <<archive, it, elf, n, plan, reason>>
          \/ store_faults(s.vaddr, Len(s.data)) /\ panic("store fault")

bss_start(s) == s.vaddr + Len(s.data)

\* Mutant: only the page that holds the last byte of file data is cleared.
bss_len_page(s) == IF s.mem = Len(s.data) THEN 0 ELSE align_up(bss_start(s)) - bss_start(s)

bss_len(s) == s.mem - Len(s.data)

zero_user ==
    LET s == plan[n]
        zero == [a \in bss_start(s)..(bss_start(s) + bss_len(s) - 1) |-> 0]
    IN /\ pc = "zero_user"
       /\ \/ /\ ~store_faults(bss_start(s), bss_len(s))
             /\ pages' = store(bss_start(s), bss_len(s), zero)
             /\ pc' = "protect_range"
             /\ UNCHANGED <<archive, it, elf, n, plan, reason>>
          \/ store_faults(bss_start(s), bss_len(s)) /\ panic("store fault")

\* update_mapping keeps the dirty bit.
protect_range ==
    LET s == plan[n]
        ps == page_range(map_start(s), map_end(s))
    IN /\ pc = "protect_range"
       /\ pages' = IF s.flags = load_flags(s) THEN pages
                   ELSE [p \in Pages |->
                           IF p \in ps
                           THEN [flags |-> (pages[p].flags \ {"R", "W", "X"}) \union s.flags,
                                 bytes |-> pages[p].bytes]
                           ELSE pages[p]]
       /\ n' = n + 1
       /\ pc' = "load"
       /\ UNCHANGED <<archive, it, elf, plan, reason>>

finalize_image ==
    /\ pc = "load" /\ n = phnum(elf)
    /\ pc' = "stack"
    /\ UNCHANGED <<archive, it, elf, n, plan, pages, reason>>

user_end == UserPages * PAGE_SIZE
stack_start == user_end - StackPages * PAGE_SIZE

default_stack ==
    /\ pc = "stack"
    /\ map_pages(page_range(stack_start, user_end), {"R", "W"}, "user")

Done ==
    /\ pc \in {"user", "panic"}
    /\ UNCHANGED vars

Next ==
    \/ find_file \/ new_user_addr_space \/ oom
    \/ parse_header \/ plan_header \/ plan_done
    \/ begin_segment \/ map_anonymous \/ copy_to_user \/ zero_user \/ protect_range
    \/ finalize_image \/ default_stack
    \/ Done

Spec == Init /\ [][Next]_vars
(***************************************************************************)
(* Properties                                                              *)
(***************************************************************************)

\* Types.  A planned segment holds no more file data than memory, so that the
\* subtraction in load_elf_into cannot underflow (proc/elf/mod.rs:264), and a
\* leaf entry has the bytes of its page.
TypeOK ==
    /\ n \in 0..phnum(elf)
    /\ \A i \in DOMAIN plan : Len(plan[i].data) <= plan[i].mem
    /\ \A p \in Pages :
          pages[p] = Unmapped
          \/ /\ pages[p].flags \subseteq {"R", "W", "X", "D"}
             /\ DOMAIN pages[p].bytes = 0..(PAGE_SIZE - 1)

WellFormed(e) == e.magic /\ e.hex /\ e.namesize > 0 /\ e.nul /\ e.utf8

\* The entry find_file should return: the first one called init, complete,
\* before the trailer and before anything malformed.
InitEntries ==
    {k \in DOMAIN archive.entries :
        /\ archive.entries[k].name = "init"
        /\ position(archive)[k + 1] <= archive.len
        /\ \A j \in 1..k : WellFormed(archive.entries[j])
        /\ \A j \in 1..(k - 1) : archive.entries[j].name \notin {"init", TRAILER}}

\* What exec gets is the data of the first entry called init, and the kernel
\* gives up on the ramdisk only when there is none (crates/cpio/src/lib.rs:190).
FindsInit ==
    /\ elf # NoFile => \E k \in InitEntries : elf = archive.entries[k].data
    /\ reason = "init not found" => InitEntries = {}

Loads(f) == {i \in 0..(phnum(f) - 1) : is_load(program_header(f, i))}
Byte(a) == pages[a \div PAGE_SIZE].bytes[a % PAGE_SIZE]
Permissions(p) == pages[p].flags \intersect {"R", "W", "X"}
StackRange == (UserPages - StackPages)..(UserPages - 1)

WriteOrExecute(p) == ~({"W", "X"} \subseteq pages[p].flags)

\* Pages are mapped writable to be filled, executable ones too; when the process
\* starts no page is both (proc/elf/mod.rs:229, :245, :270).
NothingWX == pc = "user" => \A p \in Pages : WriteOrExecute(p)

\* When the process starts, every byte of every PT_LOAD segment holds its byte
\* of the file or zero and has exactly the permissions of its segment, however
\* the segments share pages, and the stack can be written
\* (proc/elf/mod.rs:225).
LoadedExactly ==
    pc = "user" =>
        /\ \A i \in Loads(elf) :
              LET ph == program_header(elf, i) IN
              \A k \in 0..(ph.memsz - 1) :
                 /\ Byte(ph.vaddr + k) = IF k < ph.filesz THEN ph.offset + k ELSE 0
                 /\ Permissions((ph.vaddr + k) \div PAGE_SIZE) = ph.flags
        /\ \A p \in StackRange : Permissions(p) = {"R", "W"}
        /\ NothingWX

\* Pages a segment occupies; one without memory that starts inside a page
\* still takes that page.
PagesOf(ph) ==
    {(ph.vaddr + k) \div PAGE_SIZE : k \in 0..(ph.memsz - 1)}
    \union (IF ph.vaddr % PAGE_SIZE = 0 THEN {} ELSE {ph.vaddr \div PAGE_SIZE})

LoadableFile(f) ==
    /\ f.len >= EHSIZE /\ f.magic /\ f.class64 /\ f.lsb /\ f.ehsize = EHSIZE
    /\ f.phdrs # <<>> => /\ f.phentsize = PHENTSIZE
                         /\ f.phoff + PHENTSIZE * Len(f.phdrs) <= f.len

LoadableSegment(f, ph) ==
    /\ ph.offset + ph.filesz <= f.len /\ ph.filesz <= ph.memsz
    /\ \E k \in 0..16 : ph.align = 2^k /\ ph.vaddr % ph.align = 0
    /\ ph.memsz > 0 => "R" \in ph.flags
    /\ ~({"W", "X"} \subseteq ph.flags)
    /\ align_up(ph.vaddr + ph.memsz) <= USIZE_MAX

TooMany == {"TooManySegments", "slice index"}

\* A file is refused for a reason: it is malformed, a segment is writable and
\* executable, cannot be written while it is loaded or leaves the address range,
\* or two segments or a segment and the stack meet in a page
\* (proc/elf/mod.rs:142, :216).  SegmentsCapped is about the number of segments.
RefusalsJustified ==
    reason \notin {"none", "oom", "init not found"} \union TooMany =>
        ~ /\ LoadableFile(elf)
          /\ \A i \in Loads(elf) : LoadableSegment(elf, program_header(elf, i))
          /\ \A i \in Loads(elf) :
                LET ph == program_header(elf, i) IN
                /\ PagesOf(ph) \intersect StackRange = {}
                /\ \A j \in Loads(elf) \ {i} :
                      PagesOf(ph) \intersect PagesOf(program_header(elf, j)) = {}

-----------------------------------------------------------------------------
(* What comments of the code say and the code does not do.                 *)

\* proc/elf/mod.rs:139, :302: the limit on segments counts PT_LOAD headers: a
\* file is refused for their number only if it has more than the limit.
SegmentsCapped == reason \in TooMany => Cardinality(Loads(elf)) > MaxSegments
=============================================================================
