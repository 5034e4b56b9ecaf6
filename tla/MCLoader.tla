------------------------------ MODULE MCLoader -------------------------------
(* Pages of four bytes, a user range of four pages with a stack of one, and *)
(* room for three program headers.                                          *)
EXTENDS Loader

load(vaddr, memsz, filesz, offset, align, flags) ==
    [type |-> "LOAD", vaddr |-> vaddr, memsz |-> memsz, filesz |-> filesz,
     offset |-> offset, align |-> align, flags |-> flags]

R == {"R"}
RW == {"R", "W"}
RX == {"R", "X"}

Note == [load(0, 0, 0, 0, 0, {}) EXCEPT !.type = "NOTE"]

Headers ==
    { Note,
      load(0, 4, 4, 300, 4, RX),              \* text, one page
      load(4, 6, 3, 304, 4, RW),              \* data and bss over two pages
      load(2, 3, 2, 302, 2, R),               \* starts and ends inside a page
      load(8, 4, 0, 0, 8, RW),                \* bss only
      load(10, 2, 2, 305, 2, RW),             \* second half of that page
      load(4, 0, 0, 0, 4, RW),                \* no memory
      load(6, 0, 0, 0, 2, RW),                \* no memory, inside a page
      load(6, 2, 1, 300, 1, RW),
      load(12, 1, 1, 300, 4, RW),             \* in the stack
      load(0, 4, 4, 300, 4, {"R", "W", "X"}),
      load(0, 1, 1, 300, 4, {"X"}),           \* not readable
      load(0, 2, 0, 300, 4, {"W"}),
      load(8, 4, 4, 300, 0, R), load(8, 4, 4, 300, 6, R), load(4, 4, 4, 300, 8, R),
      load(8, 2, 3, 300, 4, R),               \* more file than memory
      load(8, 4, 4, 305, 4, R),               \* ends after the file
      load(8, 4, 4, USIZE_MAX - 1, 4, R),     \* file data ends after the address range
      load(4, USIZE_MAX - 6, 1, 300, 4, R) }  \* so does the segment, rounded up

file(phdrs) == [len |-> 308, magic |-> TRUE, class64 |-> TRUE, lsb |-> TRUE, ehsize |-> 64,
                phentsize |-> 56, phoff |-> 64, phdrs |-> phdrs]

Small == << load(0, 4, 4, 300, 4, RX), Note, load(4, 6, 3, 304, 4, RW) >>
Other == << load(4, 6, 3, 304, 4, RW) >>

Files ==
    {file(h) : h \in UNION {[1..k -> Headers] : k \in 0..3}}
    \union {file(Small \o <<h>>) : h \in Headers}
    \union {[file(Small) EXCEPT !.len = 63], [file(Small) EXCEPT !.len = 231],
            [file(Small) EXCEPT !.magic = FALSE], [file(Small) EXCEPT !.class64 = FALSE],
            [file(Small) EXCEPT !.lsb = FALSE], [file(Small) EXCEPT !.ehsize = 52],
            [file(Small) EXCEPT !.phentsize = 32], [file(<<>>) EXCEPT !.phentsize = 0],
            [file(Small) EXCEPT !.phoff = USIZE_MAX]}

entry(name, namesize, data) ==
    [name |-> name, namesize |-> namesize, filesize |-> data.len, data |-> data,
     magic |-> TRUE, hex |-> TRUE, nul |-> TRUE, utf8 |-> TRUE]

Trailer == entry(TRAILER, 11, [len |-> 0])
Motd(len) == entry("motd", 5, [len |-> len])
InitFile(f) == entry("init", 5, f)

total(es) == position([entries |-> es])[Len(es) + 1]

Broken(e) == {[e EXCEPT !.magic = FALSE], [e EXCEPT !.hex = FALSE], [e EXCEPT !.nul = FALSE],
              [e EXCEPT !.utf8 = FALSE], [e EXCEPT !.namesize = 0]}

EntryLists ==
    LET small == InitFile(file(Small))
        other == InitFile(file(Other))
        E == {Motd(0), Motd(7), small, other, Trailer} \union Broken(Motd(6)) \union Broken(small)
    IN UNION {[1..k -> E] : k \in 0..3}

\* Every list of entries whole; some also cut short.
MCArchives ==
    {[entries |-> << InitFile(f), Trailer >>,
      len |-> total(<< InitFile(f), Trailer >>)] : f \in Files}
    \union {[entries |-> es, len |-> total(es)] : es \in EntryLists}
    \union {[entries |-> es, len |-> l] :
               es \in {<< Motd(7), InitFile(file(Small)), Trailer >>},
               l \in 0..total(<< Motd(7), InitFile(file(Small)), Trailer >>)}
=============================================================================
