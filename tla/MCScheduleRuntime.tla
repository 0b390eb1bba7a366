------------------------- MODULE MCScheduleRuntime -------------------------
(***************************************************************************)
(* Instances of ScheduleRuntime for TLC.                                   *)
(***************************************************************************)
EXTENDS ScheduleRuntime, TLC

CONSTANTS s1

OneScope == [k \in Keys |-> s1]

AttemptSymmetry == Permutations(Attempts) \union Permutations(Actors)
=============================================================================
