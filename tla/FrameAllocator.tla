--------------------------- MODULE FrameAllocator ---------------------------
(***************************************************************************)
(* What the trait mm::allocator::FrameAllocator promises to its callers,   *)
(* independently of how an allocator keeps its books.                      *)
(*                                                                         *)
(* A chunk is a run of contiguous pages; `held` is the set of chunks whose *)
(* Frame some caller still has.  A Frame is neither Clone nor Copy, so a   *)
(* chunk is held by one caller and is given back at most once.             *)
(***************************************************************************)
EXTENDS Naturals

CONSTANT Counts         \* page counts the callers ask for

VARIABLES pages,        \* number of pages managed, 0 before initialisation
          held,         \* chunks [first, count] held by callers
          reply         \* what the last completed operation answered

vars == <<pages, held, reply>>

NoReply == [op |-> "none"]

\* The chunks do not share a page.
Apart(c, d) == c.first + c.count <= d.first \/ d.first + d.count <= c.first

\* The run of n pages from s is managed and nobody holds a page of it.
Fits(s, n) ==
    /\ s + n <= pages
    /\ \A c \in held : Apart([first |-> s, count |-> n], c)

Init ==
    /\ pages = 0
    /\ held = {}
    /\ reply = NoReply

Setup ==
    /\ pages = 0
    /\ pages' \in Nat
    /\ UNCHANGED <<held, reply>>

(* alloc(n) answers Some(frame) with a run nobody holds ... *)
Grant(n) ==
    /\ \E s \in 0..pages :
        /\ Fits(s, n)
        /\ held' = held \cup {[first |-> s, count |-> n]}
        /\ reply' = [op |-> "some", first |-> s, count |-> n]
    /\ UNCHANGED pages

(* ... and None only "if no countiguous section of the specified size can  *)
(* be allocated".                                                          *)
Refuse(n) ==
    /\ \A s \in 0..pages : ~Fits(s, n)
    /\ reply' = [op |-> "null", count |-> n]
    /\ UNCHANGED <<pages, held>>

(* free(frame) gives back that chunk, whole, and nothing else.             *)
Release(c) ==
    /\ c \in held
    /\ held' = held \ {c}
    /\ reply' = NoReply
    /\ UNCHANGED pages

Next ==
    \/ Setup
    \/ \E n \in Counts : Grant(n) \/ Refuse(n)
    \/ \E c \in held : Release(c)

Spec == Init /\ [][Next]_vars
=============================================================================
