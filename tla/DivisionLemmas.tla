--------------------------- MODULE DivisionLemmas ---------------------------
(* Facts about integer division, which converts addresses to page numbers. *)
EXTENDS Naturals, TLAPS

(* What integer division computes.                                         *)
LEMMA DivBounds ==
    ASSUME NEW a \in Nat, NEW n \in Nat, n # 0
    PROVE  /\ a \div n \in Nat
           /\ (a \div n) * n <= a
           /\ a < (a \div n) * n + n
  OBVIOUS

(* Dividing the size of p pages by the page size gives p again: page       *)
(* number to byte offset and back.                                         *)
LEMMA MulDiv ==
    ASSUME NEW p \in Nat, NEW n \in Nat, n # 0
    PROVE  (p * n) \div n = p
  <1> DEFINE q == (p * n) \div n
  <1>1. p * n \in Nat
    OBVIOUS
  <1>2. q \in Nat /\ q * n <= p * n /\ p * n < q * n + n
    BY <1>1, DivBounds
  <1> QED
    BY <1>2

(* The whole pages in a bytes: p pages fit iff p is at most the quotient.  *)
LEMMA PagesFit ==
    ASSUME NEW a \in Nat, NEW n \in Nat, n # 0, NEW p \in Nat
    PROVE  p * n <= a <=> p <= a \div n
  <1> DEFINE q == a \div n
  <1>1. q \in Nat /\ q * n <= a /\ a < q * n + n
    BY DivBounds
  <1> HIDE DEF q
  <1>2. p * n \in Nat /\ q * n \in Nat
    BY <1>1
  <1>3. ASSUME p <= q PROVE p * n <= a
    <2>1. p * n <= q * n
      BY <1>1, <1>3
    <2> QED
      BY <1>1, <1>2, <2>1
  <1>4. ASSUME q < p PROVE a < p * n
    <2>1. (q + 1) * n <= p * n
      BY <1>1, <1>4
    <2> QED
      BY <1>1, <1>2, <2>1
  <1> QED
    BY <1>1, <1>2, <1>3, <1>4 DEF q
=============================================================================
