---------------------------- MODULE FrameRequests ----------------------------
(***************************************************************************)
(* What the bump frame allocator is built with and asked for.              *)
(***************************************************************************)
EXTENDS Naturals

CONSTANTS N,            \* page size in bytes, the const generic N
          UsizeMax,     \* largest usize
          Regions,      \* [start, end] pairs new is called with
          Counts        \* page counts asked for; count * N fits a usize

ASSUME RequestsAssumption ==
    /\ N \in Nat \ {0} /\ UsizeMax \in Nat
    /\ Regions \subseteq [start : 0..UsizeMax, end : 0..UsizeMax]
    /\ \A r \in Regions : r.start <= r.end      \* assert of new
    /\ Counts \subseteq Nat
    /\ \A n \in Counts : n * N <= UsizeMax
=============================================================================
