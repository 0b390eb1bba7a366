----------------------------- MODULE MCDispatch -----------------------------
(***************************************************************************)
(* Instances of Dispatch for TLC.                                          *)
(***************************************************************************)
EXTENDS Dispatch, TLC

CONSTANTS brief, review

\* The review depends on the brief.
Chain == [t \in Tasks |-> IF t = review THEN {brief} \cap Tasks ELSE {}]

CallSymmetry == Permutations(Calls)
=============================================================================
