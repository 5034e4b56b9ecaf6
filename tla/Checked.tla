------------------------------ MODULE Checked --------------------------------
(***************************************************************************)
(* Validation with `?` and early returns: a function makes its checks in   *)
(* order and returns the error of the first that fails.  A check is a      *)
(* record [ok, err]; the caller may add fields that describe where the     *)
(* failing function stopped.                                               *)
(***************************************************************************)
EXTENDS Naturals, Sequences, SequencesExt

check(ok, err) == [ok |-> ok, err |-> err]

\* Index of the first check that fails, 0 if none does.
first_failing(checks) == SelectInSeq(checks, LAMBDA c : ~c.ok)

first_error(checks) ==
    LET i == first_failing(checks) IN IF i = 0 THEN "Ok" ELSE checks[i].err
=============================================================================
