--------------------------- MODULE MCJointCutover ---------------------------
(***************************************************************************)
(* Instances of JointCutover for TLC.                                      *)
(***************************************************************************)
EXTENDS JointCutover, TLC

CONSTANTS k1, s1, s2, i1, i2, i3

\* A trigger per scope.
TwoScopes == [k \in Keys |-> IF k = k1 THEN s1 ELSE s2]

\* An identity per scope, and a third that shares the first scope.
ScopePerIdentity == [i \in Identities |-> IF i = i2 THEN s2 ELSE s1]

Request(asked, dispositions) == [routes |-> asked, dispositions |-> dispositions]

\* There and back, with a disposition for the trigger or without; a batch that
\* moves one of its scopes only; two identities of one scope.
ThereAndBack ==
  { Request(i1 :> "target" @@ i2 :> "legacy", << >>),
    Request(i1 :> "target", k1 :> "carry_over"),
    Request(i1 :> "disabled", << >>),
    Request(i3 :> "legacy", << >>),
    Request(i3 :> "target" @@ i2 :> "target", << >>) }

ProcessSymmetry ==
  Permutations(Attempts) \union Permutations(Actors) \union Permutations(Coordinators)
    \union Permutations(Batches)
=============================================================================
