----------------------------- MODULE MCPageTable -----------------------------
(* Three levels of two entries.  The kernel maps a device range that needs *)
(* two tables and a large page of the direct map; the process maps pages   *)
(* that overlap.  RAM is short enough to run out in a copy and in a map.   *)
EXTENDS PageTable

MCPageSize == [l \in 0..3 |-> 2^l]

\* Stale memory that looks like page table entries.
MCGarbage == [i \in {0, 1} |-> [flags |-> {"V"}, ppn |-> i]]

MCKernelMaps ==
    {[va |-> 5, pa |-> 30, n |-> 2, level |-> 0, flags |-> MMIO],
     [va |-> 2, pa |-> 0, n |-> 1, level |-> 1, flags |-> KERNEL]}

MCUserMaps ==
    {[va |-> 0, n |-> 2, flags |-> {"R", "W"}],
     [va |-> 1, n |-> 1, flags |-> {"R", "W"}],
     [va |-> 0, n |-> 1, flags |-> {"R", "W", "X"}]}

MCProtects == {[va |-> 0, n |-> 2, flags |-> {"R"}], [va |-> 0, n |-> 1, flags |-> {"R", "X"}]}
=============================================================================
