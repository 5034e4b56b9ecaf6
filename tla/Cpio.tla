-------------------------------- MODULE Cpio ---------------------------------
(***************************************************************************)
(* crates/cpio/src/lib.rs: the iterator over a "newc" archive.             *)
(*                                                                         *)
(* An archive is [entries, len]: the entries its writer put one after the  *)
(* other, and the number of bytes the kernel was given, which may cut the  *)
(* last ones short.  Of an entry the parser sees its sizes, whether its    *)
(* header and its name are well formed, its name and its data.  Offsets    *)
(* and sizes are the real ones; sizes are 32-bit fields, so the checked    *)
(* additions of the 64-bit code cannot overflow.                           *)
(***************************************************************************)
EXTENDS Checked

HDR_LEN == 110
TRAILER == "TRAILER!!!"

NoEntry == [name |-> "", namesize |-> 0, filesize |-> 0, data |-> <<>>,
            magic |-> FALSE, hex |-> FALSE, nul |-> FALSE, utf8 |-> FALSE]

Padded(n) == n + ((4 - (n % 4)) % 4)

\* Where the format puts the header of entry k: header with name, and data,
\* each padded to four bytes.
position(a) ==
    LET pos[k \in 1..(Len(a.entries) + 1)] ==
            IF k = 1 THEN 0
            ELSE pos[k - 1] + Padded(HDR_LEN + a.entries[k - 1].namesize)
                            + Padded(a.entries[k - 1].filesize)
    IN pos

\* What the parser finds at an offset.
header_at(a, off) ==
    LET K == {k \in DOMAIN a.entries : position(a)[k] = off}
    IN IF K = {} THEN NoEntry ELSE a.entries[CHOOSE k \in K : TRUE]

new_iter == [off |-> 0, done |-> FALSE]

\* read_exact succeeds, and advances, when the bytes up to `end` are there.
read_exact(a, end) == end <= a.len

\* Mutant: an aligned offset is moved to the next multiple of four.
align_up_4_always(x) == (x \div 4) * 4 + 4

align_up_4(x) == ((x + 3) \div 4) * 4

(* NewcIter::next.  A failing check leaves the offset where the last read  *)
(* or alignment that succeeded put it.                                     *)
next_checks(a, it) ==
    LET h == header_at(a, it.off)
        name_start == it.off + HDR_LEN
        name_end == name_start + h.namesize
        data_start == align_up_4(name_end)
        data_end == data_start + h.filesize
        at(off, ok, err) == [off |-> off, ok |-> ok, err |-> err]
    IN << at(it.off, read_exact(a, name_start), "UnexpectedEof"),
          at(name_start, h.magic, "BadMagic"),
          at(name_start, h.hex, "BadHex"),
          at(name_start, read_exact(a, name_end), "UnexpectedEof"),
          at(name_end, h.namesize > 0 /\ h.nul, "BadUtf8"),
          at(name_end, h.utf8, "BadUtf8"),
          at(name_end, data_start <= a.len, "UnexpectedEof"),
          at(data_start, read_exact(a, data_end), "UnexpectedEof"),
          at(data_end, align_up_4(data_end) <= a.len, "UnexpectedEof"),
          at(align_up_4(data_end), h.name # TRAILER, "End") >>

\* The item returned ("Ok", "None" or an error), the entry, and the iterator after it.
next(a, it) ==
    LET checks == next_checks(a, it)
        i == first_failing(checks)
    IN CASE it.done -> [item |-> "None", entry |-> NoEntry, it |-> it]
         [] ~it.done /\ i = 0 ->
              [item |-> "Ok", entry |-> header_at(a, it.off),
               it |-> [off |-> checks[Len(checks)].off, done |-> FALSE]]
         [] OTHER ->
              [item |-> IF checks[i].err = "End" THEN "None" ELSE checks[i].err,
               entry |-> NoEntry,
               it |-> [off |-> checks[i].off, done |-> checks[i].err = "End"]]
=============================================================================
