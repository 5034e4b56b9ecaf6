---------------------------- MODULE MCVirtioBlk -----------------------------
(* Queues that end with no, one and two descriptors left over, that hold a  *)
(* single request, that hold none, and that do not exist.                   *)
EXTENDS VirtioBlk

MCSizes == {0, 2, 3, 4, 7, 8, 11}

=============================================================================
