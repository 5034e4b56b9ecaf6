--------------------------------- MODULE Elf ---------------------------------
(***************************************************************************)
(* crates/elf/src/lib.rs: validation of an ELF file and its program        *)
(* headers.                                                                *)
(*                                                                         *)
(* A file is a record of the header fields the kernel looks at, its length *)
(* and its program headers.  Its byte at offset o is written as o itself;  *)
(* offset 0 is the magic number, so no segment contains a byte 0 and 0 can *)
(* stand for a zeroed byte.  A sum that leaves usize panics: the kernel is *)
(* built with overflow checks.                                             *)
(***************************************************************************)
EXTENDS Checked

CONSTANT USIZE_MAX

EHSIZE == 64
PHENTSIZE == 56

\* get_range: `off + len` is computed before the bounds are checked.
get_range(f, off, len) ==
    << check(off + len <= USIZE_MAX, "overflow"),
       check(off + len <= f.len, "OutOfBounds") >>

\* Elf64::parse
parse(f) ==
    first_error(
        << check(f.len >= EHSIZE, "TooSmall"),
           check(f.magic, "BadMagic"),
           check(f.class64, "NotElf64"),
           check(f.lsb, "NotLittleEndian"),
           check(f.ehsize = EHSIZE, "BadHeaderSize"),
           check(f.phdrs = <<>> \/ f.phentsize = PHENTSIZE, "BadPhEntSize") >>
        \o IF f.phdrs = <<>> THEN <<>>
           ELSE get_range(f, f.phoff, f.phentsize * Len(f.phdrs)))

\* ProgramHeaderIter: the i-th item, i counted from 0.
phnum(f) == Len(f.phdrs)
program_header(f, i) == f.phdrs[i + 1]
header_range(f, i) == get_range(f, f.phoff + i * f.phentsize, f.phentsize)

is_load(ph) == ph.type = "LOAD"

\* segment_data
segment_range(f, ph) == get_range(f, ph.offset, ph.filesz)
segment_data(ph) == [j \in 1..ph.filesz |-> ph.offset + j - 1]
=============================================================================
