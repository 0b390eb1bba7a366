---------------------------- MODULE RouteSwitch ----------------------------
(***************************************************************************)
(* The trade-route authority: the registry (execution/route_registry.py),  *)
(* the switch protocol (execution/route_switch.py), the cross-process lock *)
(* (execution/route_arbitration.py), the write grant of a process          *)
(* (execution/broker_write_guard.py), the binding of an authorization to a *)
(* route (execution/authorization.py) and the broker's submission gate     *)
(* (broker/ibkr.py).                                                       *)
(*                                                                         *)
(* Submitters are the processes that trade, operators the processes that   *)
(* switch routes.  Every registry operation that changes authority runs    *)
(* under the authority lock in one transaction and is one action, enabled  *)
(* while nobody else holds the lock; plain reads take no lock.  A          *)
(* submission holds the lock from its checks to its receipt, in several    *)
(* steps.  An authority's environment is a function of its account.        *)
(***************************************************************************)
EXTENDS Naturals, FiniteSets

CONSTANTS
  Submitters,
  Operators,
  Cycles,        \* decision cycles, each with one authorization
  NumOrders,     \* orders of a cycle
  Targets,       \* [id, account]: the routes there are
  Simulation,    \* the target of the no-network transport
  RecoverLive,   \* an operator may recover a switch that is still running
  ReadsFail,     \* a lone read of the registry (try_read_state) may fail in passing
  MaxGeneration, \* bound: no switch is begun beyond this generation
  MaxIssued      \* bound: issuances counted

TargetType == [id : {t.id : t \in Targets}, account : {t.account : t \in Targets}]

ASSUME RouteAssumption ==
  /\ Targets \subseteq TargetType /\ Simulation \in Targets
  /\ NumOrders \in Nat \ {0}
  /\ RecoverLive \in BOOLEAN /\ ReadsFail \in BOOLEAN
  /\ MaxGeneration \in Nat /\ MaxIssued \in Nat

Free == "free"          \* the lock without a holder
None == "none"          \* no grant, no cycle, no token
ASSUME NamesAssumption ==
  Free \notin Submitters /\ None \notin Cycles /\ None \notin Operators

Accounts == {t.account : t \in Targets}

Orders == 1..NumOrders

Intents == [cycle : Cycles, order : Orders]

VARIABLES
  route,     \* trade_route_state: [id, account, gen], gen 0 for no row
  freeze,    \* trade_route_freeze: [on, from, issued, token]
  issuance,  \* trade_route_issuance: [counter, last]
  receipts,  \* trade_submit_receipts: Intents -> status
  lock,      \* the submitter inside its submission gate
  sub,       \* the submitters
  op,        \* the operators' switch attempts
  orders     \* the broker: Intents -> [status, gen, auth, account]

vars == <<route, freeze, issuance, receipts, lock, sub, op, orders>>

registry == <<route, freeze, issuance>>

NoAuthority == [gen |-> 0, id |-> None, account |-> None]

Idle == [ pc |-> "idle", grant |-> NoAuthority, session |-> None,
          cycle |-> None, auth |-> 0, seen |-> NoAuthority, next |-> 1, sent |-> {} ]

NoAttempt == [pc |-> "idle", target |-> Simulation, from |-> 0]

NoOrder == [status |-> "none", gen |-> 0, auth |-> 0, account |-> None]

Init ==
  /\ route = NoAuthority
  /\ freeze = [on |-> FALSE, from |-> 0, issued |-> 0, token |-> None]
  /\ issuance = [counter |-> 0, last |-> None]
  /\ receipts = [i \in Intents |-> "none"]
  /\ lock = Free
  /\ sub = [s \in Submitters |-> Idle]
  /\ op = [o \in Operators |-> NoAttempt]
  /\ orders = [i \in Intents |-> NoOrder]

Settled == {"none", "filled", "cancelled"}

\* Mutant: a receipt of unknown outcome does not hold the drain up.
BlockingWhenSubmitted(i) == receipts[i] = "submitted"

\* A receipt that blocks the drain: reserved, or not seen to be terminal.
Blocking(i) == receipts[i] \notin Settled

-----------------------------------------------------------------------------
(* Registry operations, as what they require and make of the registry. *)

Installed == route.gen > 0

Authority(target, gen) == [gen |-> gen, id |-> target.id, account |-> target.account]

Install(target) ==
  /\ lock = Free
  /\ ~Installed
  /\ route' = Authority(target, 1)
  /\ UNCHANGED <<freeze, issuance, receipts, lock, sub, op, orders>>

\* The compare-and-set of a generation bump.
SwitchRoute(expected, target) ==
  /\ route.gen = expected
  /\ route' = Authority(target, expected + 1)

Opened == [freeze EXCEPT !.on = FALSE, !.token = None]

Owns(token) == freeze.on /\ freeze.token = token

\* A signed authorization is counted once, however often it is bound again.
Counted(cycle) ==
  IF issuance.last = cycle
    THEN issuance
    ELSE [counter |-> issuance.counter + 1, last |-> cycle]

-----------------------------------------------------------------------------
(* A process that trades. *)

Go(s, pc) == sub' = [sub EXCEPT ![s].pc = pc]

\* A grant names the authority read from the registry; the account is the
\* process's own configuration.  The guard's own lock keeps a new grant, or a
\* revocation, out of the submission gate and nowhere else.
GrantWrite(s, account) ==
  /\ Installed /\ lock # s
  /\ sub' = [sub EXCEPT ![s].grant = [route EXCEPT !.account = account]]
  /\ UNCHANGED <<registry, receipts, lock, op, orders>>

RevokeGrant(s) ==
  /\ sub[s].grant # NoAuthority /\ lock # s
  /\ sub' = [sub EXCEPT ![s].grant = NoAuthority]
  /\ UNCHANGED <<registry, receipts, lock, op, orders>>

\* Binding an approved cycle's authorization: the freeze, then the route, then
\* the count, three transactions apart.  Without a route to read it stays
\* unbound, is not counted, and the batch is refused (Leave).
Bind(s, cycle) ==
  /\ sub[s].pc = "idle"
  /\ ~freeze.on
  /\ sub' = [sub EXCEPT ![s] = [@ EXCEPT !.pc = "bind", !.cycle = cycle, !.next = 1]]
  /\ UNCHANGED <<registry, receipts, lock, op, orders>>

BindRoute(s) ==
  /\ sub[s].pc = "bind"
  /\ Installed
  /\ sub' = [sub EXCEPT ![s] = [@ EXCEPT !.pc = "record", !.auth = route.gen]]
  /\ UNCHANGED <<registry, receipts, lock, op, orders>>

RecordIssuance(s) ==
  /\ sub[s].pc = "record"
  /\ lock = Free
  /\ issuance' = Counted(sub[s].cycle)
  /\ issuance'.counter <= MaxIssued
  /\ Go(s, "validate")
  /\ UNCHANGED <<route, freeze, receipts, lock, op, orders>>

\* The authorization is bound, to the route that is active now.  A registry
\* that cannot be read is no route to compare with, and skips that comparison.
Valid(s) == sub[s].auth # 0 /\ (ReadsFail \/ sub[s].auth = route.gen)

\* The broker's session then reports an account of its own.
Validate(s, account) ==
  /\ sub[s].pc = "validate"
  /\ Valid(s)
  /\ sub' = [sub EXCEPT ![s] = [@ EXCEPT !.pc = "submit", !.session = account]]
  /\ UNCHANGED <<registry, receipts, lock, op, orders>>

\* Mutant: a grant is good for its route, whatever the generation.
GrantHoldsByRoute(s) ==
  /\ Installed /\ ~freeze.on
  /\ sub[s].grant.id = route.id /\ sub[s].grant.account = route.account
  /\ sub[s].session = route.account

\* The grant names the active authority, and with it the session's account.
\* Here a registry that cannot be read refuses the order (Leave).
GrantHolds(s) ==
  /\ Installed /\ ~freeze.on
  /\ sub[s].grant = route
  /\ sub[s].session = route.account

Current(s) == [cycle |-> sub[s].cycle, order |-> sub[s].next]

\* Into the submission gate: grant and authority are checked under the lock,
\* and the authority seen there is the one the submission goes on with.
EnterGate(s) ==
  /\ sub[s].pc = "submit" /\ sub[s].next <= NumOrders
  /\ lock = Free
  /\ GrantHolds(s)
  /\ lock' = s
  /\ sub' = [sub EXCEPT ![s] = [@ EXCEPT !.pc = "gate", !.seen = route]]
  /\ UNCHANGED <<registry, receipts, op, orders>>

\* Mutant: an intent that has a receipt may be sent again.
ReservableAgain(s) ==
  /\ ~freeze.on
  /\ route = sub[s].seen

\* The registry still says what the gate saw, and the intent has no receipt.
Reservable(s) ==
  /\ ~freeze.on
  /\ route = sub[s].seen
  /\ receipts[Current(s)] = "none"

\* Mutant: the receipt is first written with the broker's answer.
ReserveInMemory(s) ==
  /\ sub[s].pc = "gate"
  /\ Valid(s) /\ Reservable(s)
  /\ Go(s, "reserved")
  /\ UNCHANGED <<registry, receipts, lock, op, orders>>

\* The execution check validates the authorization once more, inside the gate;
\* a receipt of unknown outcome is committed before the order is sent.
Reserve(s) ==
  /\ sub[s].pc = "gate"
  /\ Valid(s) /\ Reservable(s)
  /\ receipts' = [receipts EXCEPT ![Current(s)] = "unknown"]
  /\ Go(s, "reserved")
  /\ UNCHANGED <<registry, lock, op, orders>>

Placed(s) ==
  [orders EXCEPT ![Current(s)] =
     [ status |-> "working", gen |-> sub[s].grant.gen, auth |-> sub[s].auth,
       account |-> sub[s].seen.account ]]

PlaceOrder(s) ==
  /\ sub[s].pc = "reserved"
  /\ orders' = Placed(s)
  /\ Go(s, "placed")
  /\ UNCHANGED <<registry, receipts, lock, op>>

\* Mutant: the broker's own word for the status is stored.
ReportedVerbatim(i) == orders[i].status

\* What the broker reports of an order becomes its receipt.
Reported(i) ==
  IF orders[i].status = "working" THEN "submitted" ELSE orders[i].status

NextOrder(s, placed) ==
  sub' = [sub EXCEPT ![s].pc = "submit", ![s].seen = NoAuthority,
                     ![s].next = @ + 1, ![s].sent = @ \union placed]

RecordResult(s) ==
  /\ sub[s].pc = "placed"
  /\ receipts' = [receipts EXCEPT ![Current(s)] = Reported(Current(s))]
  /\ lock' = Free
  /\ NextOrder(s, {Current(s)})
  /\ UNCHANGED <<registry, op, orders>>

\* An order fails and the batch goes on: the execution check or the contract
\* rejects it before the receipt, or the broker call raises after it, with or
\* without the order accepted.
OrderFails(s) ==
  /\ sub[s].pc \in {"gate", "reserved"}
  /\ \/ orders' = orders
     \/ sub[s].pc = "reserved" /\ orders' = Placed(s)
  /\ lock' = Free
  /\ NextOrder(s, {})
  /\ UNCHANGED <<registry, receipts, op>>

\* After the batch has waited, each order's status is read once more and its
\* receipt updated, without the lock.
Poll(s, i) ==
  /\ sub[s].pc = "submit" /\ sub[s].next > NumOrders
  /\ i \in sub[s].sent
  /\ receipts' = [receipts EXCEPT ![i] = Reported(i)]
  /\ sub' = [sub EXCEPT ![s].sent = @ \ {i}]
  /\ UNCHANGED <<registry, lock, op, orders>>

\* The batch is over: finished, or refused at any of its checks (no grant, a
\* frozen or moved authority, another account, a duplicate intent, the lock
\* timed out, a different account echoed), which leaves the receipts alone.
Leave(s) ==
  /\ sub[s].pc \in {"bind", "record", "validate", "submit", "gate", "placed"}
  /\ sub' = [sub EXCEPT ![s] = [Idle EXCEPT !.grant = sub[s].grant]]
  /\ lock' = IF lock = s THEN Free ELSE lock
  /\ UNCHANGED <<registry, receipts, op, orders>>

\* The process dies: its memory is gone and the system releases its lock.
Crash(s) ==
  /\ sub[s] # Idle
  /\ sub' = [sub EXCEPT ![s] = Idle]
  /\ lock' = IF lock = s THEN Free ELSE lock
  /\ UNCHANGED <<registry, receipts, op, orders>>

\* The broker fills, cancels or rejects a working order whenever it likes.
Settle(i) ==
  /\ orders[i].status = "working"
  /\ \E status \in {"filled", "cancelled"} :
       orders' = [orders EXCEPT ![i].status = status]
  /\ UNCHANGED <<registry, receipts, lock, sub, op>>

-----------------------------------------------------------------------------
(* A switch attempt: freeze, drain, bump, open (perform_switch). *)

InFlight(o) == op[o].pc \in {"receipts", "issuance", "bump", "open"}

Step(o, pc) == op' = [op EXCEPT ![o].pc = pc]

\* The operator states the generation it believes current.
Decide(o, target) ==
  /\ op[o].pc = "idle"
  /\ Installed /\ route.gen < MaxGeneration
  /\ op' = [op EXCEPT ![o] = [pc |-> "begin", target |-> target, from |-> route.gen]]
  /\ UNCHANGED <<registry, receipts, lock, sub, orders>>

\* A stale claim is refused before anything is frozen.
Begin(o) ==
  /\ op[o].pc = "begin"
  /\ IF route.gen = op[o].from THEN Step(o, "freeze") ELSE op' = [op EXCEPT ![o] = NoAttempt]
  /\ UNCHANGED <<registry, receipts, lock, sub, orders>>

\* Mutant: a second operator replaces the freeze of the first.
FreezableAgain(o) == route.gen = op[o].from

\* freeze_submissions: refused while another attempt is frozen or when the
\* route moved; a refusal never touches the other attempt's freeze.
Freezable(o) == ~freeze.on /\ route.gen = op[o].from

Freeze(o) ==
  /\ op[o].pc = "freeze"
  /\ lock = Free
  /\ IF Freezable(o)
       THEN /\ freeze' = [ on |-> TRUE, from |-> route.gen,
                           issued |-> issuance.counter, token |-> o ]
            /\ Step(o, "receipts")
       ELSE /\ op' = [op EXCEPT ![o] = NoAttempt]
            /\ freeze' = freeze
  /\ UNCHANGED <<route, issuance, receipts, lock, sub, orders>>

\* The drain reads the receipts, then the freeze with the issuance counter.
DrainReceipts(o) ==
  /\ op[o].pc = "receipts"
  /\ Step(o, IF \E i \in Intents : Blocking(i) THEN "abort" ELSE "issuance")
  /\ UNCHANGED <<registry, receipts, lock, sub, orders>>

DrainIssuance(o) ==
  /\ op[o].pc = "issuance"
  /\ Step(o, IF freeze.token = o /\ issuance.counter <= freeze.issued THEN "bump" ELSE "abort")
  /\ UNCHANGED <<registry, receipts, lock, sub, orders>>

Bump(o) ==
  /\ op[o].pc = "bump"
  /\ lock = Free
  /\ IF route.gen = op[o].from
       THEN SwitchRoute(op[o].from, op[o].target) /\ Step(o, "open")
       ELSE route' = route /\ Step(o, "abort")
  /\ UNCHANGED <<freeze, issuance, receipts, lock, sub, orders>>

Open(o) ==
  /\ op[o].pc = "open"
  /\ lock = Free
  /\ IF Owns(o)
       THEN freeze' = Opened /\ op' = [op EXCEPT ![o] = NoAttempt]
       ELSE freeze' = freeze /\ Step(o, "abort")
  /\ UNCHANGED <<route, issuance, receipts, lock, sub, orders>>

\* An exception in any step: the drain finds the lifecycle blocking or cannot
\* read, or an operation times out on the lock.
StepFails(o) ==
  /\ InFlight(o)
  /\ Step(o, "abort")
  /\ UNCHANGED <<registry, receipts, lock, sub, orders>>

\* Mutant: the abort path always releases the freeze.
ReopensAlways(o) == TRUE

\* Only a generation that did not move lets the attempt reopen what it froze.
Reopens(o) == route.gen = op[o].from

Abort(o) ==
  /\ op[o].pc = "abort"
  /\ IF Reopens(o) THEN Step(o, "release") ELSE op' = [op EXCEPT ![o] = NoAttempt]
  /\ UNCHANGED <<registry, receipts, lock, sub, orders>>

\* abort_freeze; a failure leaves submissions closed until a recovery.
Release(o) ==
  /\ op[o].pc = "release"
  /\ lock = Free
  /\ freeze' \in {freeze} \union (IF Owns(o) THEN {Opened} ELSE {})
  /\ op' = [op EXCEPT ![o] = NoAttempt]
  /\ UNCHANGED <<route, issuance, receipts, lock, sub, orders>>

CrashSwitch(o) ==
  /\ op[o].pc # "idle"
  /\ op' = [op EXCEPT ![o] = NoAttempt]
  /\ UNCHANGED <<registry, receipts, lock, sub, orders>>

-----------------------------------------------------------------------------
(* Recovery: the registry reports the token of the freeze to anybody. *)

Recoverable == freeze.on /\ (RecoverLive \/ op[freeze.token].pc = "idle")

\* open_after_recovery and abort_after_recovery, on whatever generation is current.
Recover ==
  /\ lock = Free
  /\ Recoverable
  /\ freeze' = Opened
  /\ UNCHANGED <<route, issuance, receipts, lock, sub, op, orders>>

Drained == ~(\E i \in Intents : Blocking(i)) /\ issuance.counter <= freeze.issued

\* restore_stopped_simulation, under the lock from its drain to its opening: it
\* bumps unless an earlier try already did, then opens unless the target's
\* proof no longer holds.
RestoreSimulation ==
  /\ lock = Free
  /\ Recoverable
  /\ Drained
  /\ IF route.gen = freeze.from
       THEN SwitchRoute(freeze.from, Simulation)
       ELSE route = Authority(Simulation, freeze.from + 1) /\ route' = route
  /\ route'.gen <= MaxGeneration
  /\ freeze' \in {freeze, Opened}
  /\ UNCHANGED <<issuance, receipts, lock, sub, op, orders>>

Next ==
  \/ \E target \in Targets : Install(target)
  \/ \E s \in Submitters :
       \/ \E account \in Accounts : GrantWrite(s, account) \/ Validate(s, account)
       \/ \E cycle \in Cycles : Bind(s, cycle)
       \/ RevokeGrant(s) \/ BindRoute(s) \/ RecordIssuance(s)
       \/ EnterGate(s) \/ Reserve(s) \/ PlaceOrder(s) \/ RecordResult(s) \/ OrderFails(s)
       \/ \E i \in Intents : Poll(s, i)
       \/ Leave(s) \/ Crash(s)
  \/ \E i \in Intents : Settle(i)
  \/ \E o \in Operators :
       \/ \E target \in Targets : Decide(o, target)
       \/ Begin(o) \/ Freeze(o) \/ DrainReceipts(o) \/ DrainIssuance(o) \/ Bump(o) \/ Open(o)
       \/ StepFails(o) \/ Abort(o) \/ Release(o) \/ CrashSwitch(o)
  \/ Recover
  \/ RestoreSimulation

Spec == Init /\ [][Next]_vars

-----------------------------------------------------------------------------
(* Types. *)

AuthorityType ==
  [gen : Nat, id : {t.id : t \in Targets} \union {None}, account : Accounts \union {None}]

SubmitterType ==
  [ pc      : {"idle", "bind", "record", "validate", "submit", "gate", "reserved", "placed"},
    grant   : AuthorityType,
    session : Accounts \union {None},
    cycle   : Cycles \union {None},
    auth    : Nat,
    seen    : AuthorityType,
    next    : Nat,
    sent    : SUBSET Intents ]

AttemptType ==
  [ pc     : {"idle", "begin", "freeze", "receipts", "issuance", "bump", "open",
              "abort", "release"},
    target : Targets,
    from   : Nat ]

\* The types of the registry, of the processes and of the broker's orders.
TypeOK ==
  /\ route \in AuthorityType
  /\ freeze \in [ on : BOOLEAN, from : Nat, issued : Nat, token : Operators \union {None} ]
  /\ issuance \in [counter : Nat, last : Cycles \union {None}]
  /\ receipts \in [Intents -> Settled \union {"unknown", "submitted"}]
  /\ lock \in Submitters \union {Free}
  /\ sub \in [Submitters -> SubmitterType]
  /\ op \in [Operators -> AttemptType]
  /\ orders \in [Intents -> [ status : {"none", "working", "filled", "cancelled"},
                              gen : Nat, auth : Nat, account : Accounts \union {None} ]]

-----------------------------------------------------------------------------
(* Safety. *)

\* An order that is working at the broker was sent under the grant of the
\* generation that is active and to the account of that authority: no switch,
\* A to B to A, crash, failed read or second process leaves an order of an
\* earlier authority behind.
WorkingOrdersAreCurrent ==
  \A i \in Intents :
    orders[i].status = "working" =>
      /\ orders[i].gen = route.gen
      /\ orders[i].account = route.account

\* What the comments say of the authorization, and the code does not keep where
\* the registry cannot be read while it is validated: an order works on an
\* authorization issued under the generation that is active (authorization.py:
\* "that generation must still be active").
AuthorizationsAreCurrent ==
  \A i \in Intents : orders[i].status = "working" => orders[i].auth = route.gen

\* Whatever dies in between, an order that may still be working has a receipt
\* that blocks the drain.
WorkingOrdersBlock ==
  \A i \in Intents : orders[i].status = "working" => Blocking(i)

\* What the drain inspected does not change before the generation moves: once
\* an attempt is past the receipts nothing is reserved, sent or working.
DrainHolds ==
  \A o \in Operators :
    op[o].pc \in {"issuance", "bump"} =>
      \A i \in Intents : receipts[i] \in Settled /\ orders[i].status # "working"

\* Between its freeze and its opening an attempt holds the only freeze, and
\* the generation is the one it froze, plus one once it has bumped.
FreezeHeld ==
  \A o \in Operators :
    InFlight(o) =>
      /\ Owns(o)
      /\ route.gen = freeze.from + (IF op[o].pc = "open" THEN 1 ELSE 0)

\* An attempt reopens what it froze only under the generation it froze.
AbortKeepsGeneration ==
  [][ \A o \in Operators : Release(o) /\ freeze.on /\ ~freeze'.on => route.gen = freeze.from ]_vars

\* The registry and the protocol implement the authority they promise.
Authorization ==
  INSTANCE WriteAuthority WITH
    generation <- route.gen,
    open       <- ~freeze.on,
    sent       <- {i \in Intents : orders[i].status # "none"},
    working    <- {i \in Intents : orders[i].status = "working"}

AuthoritySpec == Authorization!Spec
=============================================================================
