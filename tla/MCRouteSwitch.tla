--------------------------- MODULE MCRouteSwitch ---------------------------
(***************************************************************************)
(* Instances of RouteSwitch for TLC: two routes to two accounts, so that a *)
(* route can come back (A, B, A) and a session can be on the other one.    *)
(***************************************************************************)
EXTENDS RouteSwitch, TLC

CONSTANTS routeA, routeB, paper, live

TargetA == [id |-> routeA, account |-> paper]
TargetB == [id |-> routeB, account |-> live]

BothTargets == {TargetA, TargetB}

ProcessSymmetry ==
  Permutations(Submitters) \union Permutations(Operators) \union Permutations(Cycles)
=============================================================================
