--------------------------- MODULE WriteAuthority ---------------------------
(***************************************************************************)
(* What the route registry and the switch protocol promise about the       *)
(* account: orders go out only while submissions are open, each intent     *)
(* goes out at most once in all generations, and the authority moves to    *)
(* the next generation only while submissions are closed and no order of   *)
(* an earlier one is still working.                                        *)
(***************************************************************************)
EXTENDS Naturals

CONSTANT Intents

VARIABLES
  generation,
  open,         \* submissions are open
  sent,         \* intents ever handed to the broker
  working       \* intents the broker may still act on

authorityVars == <<generation, open, sent, working>>

Init == generation = 0 /\ open = TRUE /\ sent = {} /\ working = {}

Send(i) ==
  /\ open /\ generation > 0
  /\ i \notin sent
  /\ sent' = sent \union {i}
  /\ working' = working \union {i}
  /\ UNCHANGED <<generation, open>>

Settle(i) ==
  /\ i \in working
  /\ working' = working \ {i}
  /\ UNCHANGED <<generation, open, sent>>

CloseOrOpen ==
  /\ generation > 0
  /\ open' = ~open
  /\ UNCHANGED <<generation, sent, working>>

\* The first route is installed while submissions are open and nothing was
\* ever sent; a later one replaces a closed and drained route.
Advance ==
  /\ IF generation = 0 THEN open ELSE ~open
  /\ working = {}
  /\ generation' = generation + 1
  /\ open' \in {open, TRUE}
  /\ UNCHANGED <<sent, working>>

Next ==
  \/ \E i \in Intents : Send(i) \/ Settle(i)
  \/ CloseOrOpen
  \/ Advance

Spec == Init /\ [][Next]_authorityVars
=============================================================================
