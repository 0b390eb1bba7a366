--------------------------- MODULE ApprovalChain ---------------------------
(***************************************************************************)
(* What the Chief - Risk - Boss - Trader chain promises, whatever process  *)
(* drives it and wherever that process dies: at most one revision of a     *)
(* cycle is ever executed, it is executed under a clearance (a passed      *)
(* review and an approval of that review), the clearance can be replaced   *)
(* only while nothing has been submitted under it, and nothing at all      *)
(* happens to a closed cycle.                                              *)
(***************************************************************************)
EXTENDS Naturals

CONSTANT Orders

VARIABLES
  cleared,     \* the revision cleared for execution, 0 for none
  submitted,   \* the intents submitted, [rev, order]
  closed

chainVars == <<cleared, submitted, closed>>

Init == cleared = 0 /\ submitted = {} /\ closed = FALSE

\* A clearance is given, moved to another revision, or withdrawn.
Clear ==
  /\ ~closed /\ submitted = {}
  /\ cleared' \in Nat
  /\ UNCHANGED <<submitted, closed>>

Submit ==
  /\ ~closed /\ cleared # 0
  /\ \E orders \in SUBSET Orders :
       submitted' = submitted \union {[rev |-> cleared, order |-> o] : o \in orders}
  /\ UNCHANGED <<cleared, closed>>

Close ==
  /\ ~closed
  /\ closed' = TRUE
  /\ UNCHANGED <<cleared, submitted>>

Next == Clear \/ Submit \/ Close

Spec == Init /\ [][Next]_chainVars
=============================================================================
