------------------------- MODULE MCBitmapAllocator -------------------------
(* BitmapAllocator on a region of eight 4-byte pages, of which the         *)
(* descriptors use two, and on regions that init rejects or that are empty.*)
EXTENDS BitmapAllocator

MCRegions == {[start |-> 8, end |-> 40],
              [start |-> 8, end |-> 8],
              [start |-> 9, end |-> 40],
              [start |-> 8, end |-> 39]}
=============================================================================
