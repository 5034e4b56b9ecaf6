---------------------------- MODULE AddressSpace ----------------------------
(***************************************************************************)
(* What the page table code promises: two address spaces, the kernel's and *)
(* the user process's, as plain functions from page numbers to mappings.   *)
(* No tables, no walks, no partial results.                                *)
(***************************************************************************)
EXTENDS Naturals

CONSTANTS VA,           \* virtual page numbers
          Blocks,       \* [base, size]: the pages one leaf entry can map
          RWXUG,        \* the flags update_mapping replaces
          Unmapped

VARIABLES kspace,       \* kernel address space: page -> Unmapped or [pa, flags]
          uspace,       \* address space of the user process
          created       \* the user process has an address space

vars == <<kspace, uspace, created>>

Init ==
    /\ kspace = [v \in VA |-> Unmapped]
    /\ uspace = kspace
    /\ created = FALSE

Pages(b) == b.base..(b.base + b.size - 1)

\* t is s with the block b mapped to consecutive frames, and nothing else
\* changed.  The block was unmapped, or mapped with the very same flags.
MapsBlock(s, t, b) ==
    LET m == t[b.base] IN
    /\ m # Unmapped
    /\ \/ \A v \in Pages(b) : s[v] = Unmapped
       \/ \A v \in Pages(b) : s[v] # Unmapped /\ s[v].flags = m.flags
    /\ t = [v \in VA |-> IF v \in Pages(b)
                         THEN [pa |-> m.pa + (v - b.base), flags |-> m.flags] ELSE s[v]]

MapKernel(b) ==
    /\ ~created
    /\ MapsBlock(kspace, kspace', b)
    /\ UNCHANGED <<uspace, created>>

MapUser(b) ==
    /\ created
    /\ MapsBlock(uspace, uspace', b)
    /\ UNCHANGED <<kspace, created>>

\* The process starts with every mapping of the kernel.
Fork ==
    /\ ~created /\ created' = TRUE
    /\ uspace' = kspace
    /\ UNCHANGED kspace

(* update_mapping replaces the flags of a page that software controls, a  *)
(* store through the MMU adds A and D; both keep the frame.                *)
Reflag(v) ==
    LET old == uspace[v]
        new == uspace'[v]
    IN /\ created /\ old # Unmapped /\ new # Unmapped
       /\ old.flags \ RWXUG \subseteq new.flags
       /\ uspace' = [uspace EXCEPT ![v].flags = new.flags]
       /\ UNCHANGED <<kspace, created>>

Next ==
    \/ \E b \in Blocks : MapKernel(b) \/ MapUser(b)
    \/ Fork
    \/ \E v \in VA : Reflag(v)

Spec == Init /\ [][Next]_vars
=============================================================================
