------------------------- MODULE RouteSwitchProofs -------------------------
(***************************************************************************)
(* Theorems about RouteSwitch, for any number of processes, operators,     *)
(* cycles, orders, routes and generations.                                 *)
(*                                                                         *)
(* Inside its submission gate a process holds the lock, so nothing moves   *)
(* the authority it checked; outside the gate nothing it remembers is      *)
(* trusted.  A switch sees no blocking receipt while its freeze keeps      *)
(* everybody from reserving one, so nothing works when the route moves.    *)
(* What concerns switches assumes that recovery spares a living attempt:   *)
(* with RecoverLive another attempt may run on what it has lost.  What     *)
(* concerns the generation of an authorization assumes that reads of the   *)
(* registry do not fail: with ReadsFail nothing compares it.               *)
(***************************************************************************)
EXTENDS RouteSwitch, TLAPS

\* What a process carries through its submission gate.
SubOK(s) ==
  /\ sub[s].pc # "idle" => sub[s].cycle \in Cycles
  /\ sub[s].next # 0
  /\ \A i \in sub[s].sent : orders[i].status # "none"
  /\ sub[s].pc \in {"gate", "reserved", "placed"} =>
       lock = s /\ ~freeze.on /\ sub[s].next <= NumOrders
  /\ sub[s].pc \in {"gate", "reserved"} =>
       Installed /\ sub[s].grant = route /\ sub[s].seen = route
  /\ sub[s].pc = "reserved" =>
       /\ ReadsFail \/ sub[s].auth = route.gen
       /\ receipts[Current(s)] = "unknown" /\ orders[Current(s)].status = "none"
  /\ sub[s].pc = "placed" => orders[Current(s)].status # "none"

\* An order that was sent has a receipt, and one that works a blocking one.
OrderOK(i) ==
  /\ orders[i].status # "none" => receipts[i] # "none"
  /\ orders[i].status = "working" => Blocking(i)

\* Only an installed authority is frozen or replaced.
FreezeOK ==
  /\ freeze.on => Installed
  /\ \A o \in Operators : op[o].pc # "idle" => op[o].from # 0

\* The invariant of the processes that trade; it needs no operator to behave.
Gated ==
  /\ TypeOK
  /\ \A s \in Submitters : SubOK(s)
  /\ \A i \in Intents : OrderOK(i)
  /\ FreezeOK

-----------------------------------------------------------------------------

FreezeType == [ on : BOOLEAN, from : Nat, issued : Nat, token : Operators \union {None} ]

IssuanceType == [counter : Nat, last : Cycles \union {None}]

ReceiptType == Settled \union {"unknown", "submitted"}

OrderType ==
  [ status : {"none", "working", "filled", "cancelled"},
    gen : Nat, auth : Nat, account : Accounts \union {None} ]

LEMMA Types ==
  TypeOK <=>
    /\ route \in AuthorityType /\ freeze \in FreezeType /\ issuance \in IssuanceType
    /\ receipts \in [Intents -> ReceiptType]
    /\ lock \in Submitters \union {Free}
    /\ sub \in [Submitters -> SubmitterType]
    /\ op \in [Operators -> AttemptType]
    /\ orders \in [Intents -> OrderType]
BY DEF TypeOK, FreezeType, IssuanceType, ReceiptType, OrderType

LEMMA StartTypes ==
  /\ NoAuthority \in AuthorityType /\ Idle \in SubmitterType /\ NoAttempt \in AttemptType
  /\ NoOrder \in OrderType
  /\ Idle.pc = "idle" /\ Idle.next = 1 /\ Idle.sent = {} /\ NoOrder.status = "none"
  /\ NoAttempt.pc = "idle" /\ NoAuthority.gen = 0
BY RouteAssumption
DEF NoAuthority, AuthorityType, Idle, SubmitterType, NoAttempt, AttemptType, NoOrder, OrderType

LEMMA InitGated == Init => Gated
<1> SUFFICES ASSUME Init PROVE Gated
  OBVIOUS
<1>1. TypeOK
  BY StartTypes, Types DEF Init, FreezeType, IssuanceType, ReceiptType, Settled
<1>2. \A s \in Submitters : sub[s] = Idle
  BY DEF Init
<1>3. \A s \in Submitters : SubOK(s)
  BY <1>2, StartTypes DEF SubOK
<1>4. \A i \in Intents : OrderOK(i)
  BY StartTypes DEF Init, OrderOK
<1>5. FreezeOK
  BY StartTypes DEF Init, FreezeOK
<1> QED BY <1>1, <1>3, <1>4, <1>5 DEF Gated

LEMMA SubSets ==
  ASSUME Gated, NEW s \in Submitters, NEW r \in SubmitterType, sub' = [sub EXCEPT ![s] = r]
  PROVE  /\ sub' \in [Submitters -> SubmitterType] /\ sub'[s] = r
         /\ \A d \in Submitters \ {s} : sub'[d] = sub[d]
BY DEF Gated, TypeOK

\* A step in the memory of one process; the lock it may give back.
LEMMA MemoryStep ==
  ASSUME Gated, NEW s \in Submitters, NEW r \in SubmitterType, sub' = [sub EXCEPT ![s] = r],
         SubOK(s)', issuance' \in IssuanceType,
         lock' = lock \/ (lock = s /\ lock' = Free) \/ (lock = Free /\ lock' = s),
         UNCHANGED <<route, freeze, receipts, op, orders>>
  PROVE  Gated'
<1>1. /\ sub' \in [Submitters -> SubmitterType] /\ sub'[s] = r
      /\ \A d \in Submitters \ {s} : sub'[d] = sub[d]
  BY SubSets
<1>2. TypeOK'
  BY <1>1, Types DEF Gated, TypeOK, IssuanceType
<1>3. ASSUME NEW d \in Submitters PROVE SubOK(d)'
  <2>1. CASE d = s
    BY <2>1
  <2>2. CASE d # s
    <3>1. lock = d => lock' = d
      BY <2>2, NamesAssumption
    <3> QED BY <1>1, <2>2, <3>1 DEF Gated, SubOK, Current, Installed
  <2> QED BY <2>1, <2>2
<1>4. \A i \in Intents : OrderOK(i)'
  BY DEF Gated, OrderOK, Blocking
<1> QED BY <1>2, <1>3, <1>4 DEF Gated, FreezeOK, Installed

LEMMA SubFacts ==
  ASSUME Gated, NEW s \in Submitters
  PROVE  /\ sub \in [Submitters -> SubmitterType] /\ sub[s] \in SubmitterType /\ SubOK(s)
         /\ route \in AuthorityType /\ route.gen \in Nat
         /\ issuance \in IssuanceType /\ freeze \in FreezeType
BY Types DEF Gated, AuthorityType

LEMMA GrantWriteGated ==
  ASSUME Gated, NEW s \in Submitters, NEW account \in Accounts, GrantWrite(s, account)
  PROVE  Gated'
<1>1. sub \in [Submitters -> SubmitterType] /\ sub[s] \in SubmitterType /\ SubOK(s) /\ route \in AuthorityType
  BY SubFacts
<1> DEFINE g == [route EXCEPT !.account = account]
           r == [sub[s] EXCEPT !.grant = g]
<1>2. g \in AuthorityType
  BY <1>1 DEF AuthorityType
<1>3. sub' = [sub EXCEPT ![s] = r]
  BY <1>1 DEF GrantWrite
<1> HIDE DEF g
<1>4. /\ r \in SubmitterType /\ r.pc = sub[s].pc /\ r.cycle = sub[s].cycle /\ r.next = sub[s].next
      /\ r.sent = sub[s].sent
  BY <1>1, <1>2 DEF SubmitterType
<1> HIDE DEF r
<1>5. lock # s /\ UNCHANGED <<route, freeze, issuance, receipts, lock, op, orders>>
  BY DEF GrantWrite, registry
<1>6. SubOK(s)'
  <2>1. sub'[s] = r
    BY <1>3, <1>4, SubSets
  <2> QED BY <1>1, <1>4, <1>5, <2>1 DEF SubOK
<1> QED BY <1>3, <1>4, <1>5, <1>6, SubFacts, MemoryStep

LEMMA RevokeGrantGated ==
  ASSUME Gated, NEW s \in Submitters, RevokeGrant(s)
  PROVE  Gated'
<1>1. sub \in [Submitters -> SubmitterType] /\ sub[s] \in SubmitterType /\ SubOK(s)
  BY SubFacts
<1> DEFINE r == [sub[s] EXCEPT !.grant = NoAuthority]
<1>2. sub' = [sub EXCEPT ![s] = r]
  BY <1>1 DEF RevokeGrant
<1>3. /\ r \in SubmitterType /\ r.pc = sub[s].pc /\ r.cycle = sub[s].cycle /\ r.next = sub[s].next
      /\ r.sent = sub[s].sent
  BY <1>1, StartTypes DEF SubmitterType
<1> HIDE DEF r
<1>4. lock # s /\ UNCHANGED <<route, freeze, issuance, receipts, lock, op, orders>>
  BY DEF RevokeGrant, registry
<1>5. SubOK(s)'
  <2>1. sub'[s] = r
    BY <1>2, <1>3, SubSets
  <2> QED BY <1>1, <1>3, <1>4, <2>1 DEF SubOK
<1> QED BY <1>2, <1>3, <1>4, <1>5, SubFacts, MemoryStep

\* Outside the gate a process is bound to nothing but its cycle and its orders.
LEMMA Outside ==
  ASSUME Gated, NEW s \in Submitters, NEW r \in SubmitterType, sub' = [sub EXCEPT ![s] = r],
         r.pc \in {"idle", "bind", "record", "validate", "submit"},
         r.pc # "idle" => r.cycle \in Cycles, r.next # 0,
         \A i \in r.sent : orders'[i].status # "none"
  PROVE  SubOK(s)'
<1>1. sub'[s] = r
  BY SubSets
<1> QED BY <1>1 DEF SubOK

LEMMA BindGated ==
  ASSUME Gated, NEW s \in Submitters, NEW cycle \in Cycles, Bind(s, cycle)
  PROVE  Gated'
<1>1. sub \in [Submitters -> SubmitterType] /\ sub[s] \in SubmitterType /\ SubOK(s)
  BY SubFacts
<1> DEFINE r == [sub[s] EXCEPT !.pc = "bind", !.cycle = cycle, !.next = 1]
<1>2. sub' = [sub EXCEPT ![s] = r]
  BY DEF Bind
<1>3. /\ r \in SubmitterType /\ r.pc = "bind" /\ r.cycle = cycle /\ r.next = 1
      /\ r.sent = sub[s].sent
  BY <1>1 DEF SubmitterType
<1> HIDE DEF r
<1>4. UNCHANGED <<route, freeze, issuance, receipts, lock, op, orders>>
  BY DEF Bind, registry
<1>5. SubOK(s)'
  BY <1>1, <1>2, <1>3, <1>4, Outside DEF SubOK
<1> QED BY <1>2, <1>3, <1>4, <1>5, SubFacts, MemoryStep

LEMMA BindRouteGated ==
  ASSUME Gated, NEW s \in Submitters, BindRoute(s)
  PROVE  Gated'
<1>1. /\ sub \in [Submitters -> SubmitterType] /\ sub[s] \in SubmitterType /\ SubOK(s)
      /\ route.gen \in Nat
  BY SubFacts
<1> DEFINE r == [sub[s] EXCEPT !.pc = "record", !.auth = route.gen]
<1>2. sub' = [sub EXCEPT ![s] = r] /\ sub[s].pc = "bind"
  BY DEF BindRoute
<1>3. /\ r \in SubmitterType /\ r.pc = "record" /\ r.cycle = sub[s].cycle /\ r.next = sub[s].next
      /\ r.sent = sub[s].sent
  BY <1>1 DEF SubmitterType
<1> HIDE DEF r
<1>4. UNCHANGED <<route, freeze, issuance, receipts, lock, op, orders>>
  BY DEF BindRoute, registry
<1>5. SubOK(s)'
  BY <1>1, <1>2, <1>3, <1>4, Outside DEF SubOK
<1> QED BY <1>2, <1>3, <1>4, <1>5, SubFacts, MemoryStep

\* A process goes on: only its place changes.
LEMMA Goes ==
  ASSUME Gated, NEW s \in Submitters,
         NEW pc \in {"idle", "bind", "record", "validate", "submit", "gate", "reserved", "placed"},
         Go(s, pc)
  PROVE  \E r \in SubmitterType :
           /\ sub' = [sub EXCEPT ![s] = r] /\ sub'[s] = r
           /\ r.pc = pc /\ r.grant = sub[s].grant /\ r.cycle = sub[s].cycle /\ r.auth = sub[s].auth
           /\ r.seen = sub[s].seen /\ r.next = sub[s].next /\ r.sent = sub[s].sent
<1>1. sub \in [Submitters -> SubmitterType] /\ sub[s] \in SubmitterType
  BY SubFacts
<1> DEFINE r == [sub[s] EXCEPT !.pc = pc]
<1>2. sub' = [sub EXCEPT ![s] = r]
  BY <1>1 DEF Go
<1>3. /\ r \in SubmitterType
      /\ r.pc = pc /\ r.grant = sub[s].grant /\ r.cycle = sub[s].cycle /\ r.auth = sub[s].auth
      /\ r.seen = sub[s].seen /\ r.next = sub[s].next /\ r.sent = sub[s].sent
  BY <1>1 DEF SubmitterType
<1> HIDE DEF r
<1> QED BY <1>2, <1>3, SubSets

LEMMA RecordIssuanceGated ==
  ASSUME Gated, NEW s \in Submitters, RecordIssuance(s)
  PROVE  Gated'
<1>1. sub[s] \in SubmitterType /\ SubOK(s) /\ issuance \in IssuanceType
  BY SubFacts
<1>2. /\ sub[s].pc = "record" /\ issuance' = Counted(sub[s].cycle)
      /\ UNCHANGED <<route, freeze, receipts, lock, op, orders>> /\ Go(s, "validate")
  BY DEF RecordIssuance
<1>3. issuance' \in IssuanceType
  BY <1>1, <1>2 DEF IssuanceType, Counted, SubmitterType
<1>4. PICK r \in SubmitterType :
        /\ sub' = [sub EXCEPT ![s] = r] /\ sub'[s] = r
        /\ r.pc = "validate" /\ r.cycle = sub[s].cycle
        /\ r.next = sub[s].next /\ r.sent = sub[s].sent
  BY <1>2, Goes
<1>5. SubOK(s)'
  BY <1>1, <1>2, <1>4, Outside DEF SubOK
<1> QED BY <1>2, <1>3, <1>4, <1>5, MemoryStep

LEMMA ValidateGated ==
  ASSUME Gated, NEW s \in Submitters, NEW account \in Accounts, Validate(s, account)
  PROVE  Gated'
<1>1. sub \in [Submitters -> SubmitterType] /\ sub[s] \in SubmitterType /\ SubOK(s)
  BY SubFacts
<1> DEFINE r == [sub[s] EXCEPT !.pc = "submit", !.session = account]
<1>2. sub' = [sub EXCEPT ![s] = r] /\ sub[s].pc = "validate"
  BY DEF Validate
<1>3. /\ r \in SubmitterType /\ r.pc = "submit" /\ r.cycle = sub[s].cycle /\ r.next = sub[s].next
      /\ r.sent = sub[s].sent
  BY <1>1 DEF SubmitterType
<1> HIDE DEF r
<1>4. UNCHANGED <<route, freeze, issuance, receipts, lock, op, orders>>
  BY DEF Validate, registry
<1>5. SubOK(s)'
  BY <1>1, <1>2, <1>3, <1>4, Outside DEF SubOK
<1> QED BY <1>2, <1>3, <1>4, <1>5, SubFacts, MemoryStep

LEMMA EnterGateGated ==
  ASSUME Gated, NEW s \in Submitters, EnterGate(s)
  PROVE  Gated'
<1>1. /\ sub \in [Submitters -> SubmitterType] /\ sub[s] \in SubmitterType /\ SubOK(s)
      /\ route \in AuthorityType
  BY SubFacts
<1> DEFINE r == [sub[s] EXCEPT !.pc = "gate", !.seen = route]
<1>2. /\ sub' = [sub EXCEPT ![s] = r] /\ sub[s].pc = "submit" /\ sub[s].next <= NumOrders
      /\ lock = Free /\ lock' = s /\ ~freeze.on /\ Installed /\ sub[s].grant = route
      /\ UNCHANGED <<route, freeze, issuance, receipts, op, orders>>
  BY DEF EnterGate, GrantHolds, registry
<1>3. /\ r \in SubmitterType /\ r.pc = "gate" /\ r.cycle = sub[s].cycle /\ r.next = sub[s].next
      /\ r.sent = sub[s].sent /\ r.grant = sub[s].grant /\ r.seen = route
  BY <1>1 DEF SubmitterType
<1> HIDE DEF r
<1>4. SubOK(s)'
  <2>1. sub'[s] = r
    BY <1>2, <1>3, SubSets
  <2> QED BY <1>1, <1>2, <1>3, <2>1 DEF SubOK, Installed
<1> QED BY <1>2, <1>3, <1>4, SubFacts, MemoryStep

\* The batch is left, or the process dies: what remains is a process outside.
LEMMA LeaveGated ==
  ASSUME Gated, NEW s \in Submitters, Leave(s) \/ Crash(s)
  PROVE  Gated'
<1>1. /\ sub \in [Submitters -> SubmitterType] /\ sub[s] \in SubmitterType
      /\ sub[s].grant \in AuthorityType
  BY SubFacts DEF SubmitterType
<1>2. /\ lock' = lock \/ (lock = s /\ lock' = Free)
      /\ UNCHANGED <<route, freeze, issuance, receipts, op, orders>>
  BY DEF Leave, Crash, registry
<1>3. ASSUME NEW g \in AuthorityType, sub' = [sub EXCEPT ![s] = [Idle EXCEPT !.grant = g]]
      PROVE  Gated'
  <2> DEFINE r == [Idle EXCEPT !.grant = g]
  <2>1. r \in SubmitterType /\ r.pc = "idle" /\ r.next = 1 /\ r.sent = {}
    BY StartTypes DEF SubmitterType
  <2>2. sub' = [sub EXCEPT ![s] = r]
    BY <1>3
  <2> HIDE DEF r
  <2>3. sub'[s] = r
    BY <2>1, <2>2, SubSets
  <2>4. SubOK(s)'
    BY <2>1, <2>3 DEF SubOK
  <2> QED BY <1>2, <2>1, <2>2, <2>4, SubFacts, MemoryStep
<1>4. CASE Leave(s)
  BY <1>1, <1>3, <1>4 DEF Leave
<1>5. CASE Crash(s)
  <2>1. Idle = [Idle EXCEPT !.grant = NoAuthority]
    BY DEF Idle
  <2>2. sub' = [sub EXCEPT ![s] = [Idle EXCEPT !.grant = NoAuthority]]
    BY <1>5, <2>1 DEF Crash
  <2> QED BY <1>3, <2>2, StartTypes
<1> QED BY <1>4, <1>5

\* The sender of an order is in the gate with a receipt of unknown outcome.
LEMMA Inside ==
  ASSUME Gated, NEW s \in Submitters, sub[s].pc \in {"gate", "reserved", "placed"}
  PROVE  /\ Current(s) \in Intents /\ lock = s
         /\ \A d \in Submitters : d # s => sub[d].pc \notin {"gate", "reserved", "placed"}
<1>1. sub[s] \in SubmitterType /\ SubOK(s)
  BY SubFacts
<1>2. sub[s].next \in Nat /\ sub[s].next # 0 /\ sub[s].next <= NumOrders /\ sub[s].cycle \in Cycles
      /\ lock = s
  BY <1>1 DEF SubOK, SubmitterType
<1>3. Current(s) \in Intents
  BY <1>2, RouteAssumption DEF Current, Intents, Orders
<1>4. ASSUME NEW d \in Submitters, d # s PROVE sub[d].pc \notin {"gate", "reserved", "placed"}
  <2>1. SubOK(d)
    BY SubFacts
  <2> QED BY <1>2, <1>4, <2>1 DEF SubOK
<1> QED BY <1>2, <1>3, <1>4

\* A step on one order by its sender: its receipt, the order, the sender's place.
LEMMA OrderStep ==
  ASSUME Gated, NEW s \in Submitters, sub[s].pc \in {"gate", "reserved", "placed"},
         NEW r \in SubmitterType, sub' = [sub EXCEPT ![s] = r], SubOK(s)',
         NEW i \in Intents, i = Current(s),
         NEW receipt \in ReceiptType, receipts' = [receipts EXCEPT ![i] = receipt],
         NEW order \in OrderType, orders' = [orders EXCEPT ![i] = order],
         orders[i].status # "none" => order.status # "none",
         OrderOK(i)',
         lock' = s \/ lock' = Free,
         UNCHANGED <<route, freeze, issuance, op>>
  PROVE  Gated'
<1>1. /\ sub' \in [Submitters -> SubmitterType]
      /\ \A d \in Submitters \ {s} : sub'[d] = sub[d]
  BY SubSets
<1>2. /\ receipts' \in [Intents -> ReceiptType] /\ orders' \in [Intents -> OrderType]
      /\ orders'[i] = order /\ receipts'[i] = receipt
      /\ \A j \in Intents : j # i => orders'[j] = orders[j] /\ receipts'[j] = receipts[j]
  BY Types DEF Gated
<1>3. TypeOK'
  BY <1>1, <1>2, Types DEF Gated, TypeOK, IssuanceType, ReceiptType, OrderType
<1>4. ASSUME NEW d \in Submitters PROVE SubOK(d)'
  <2>1. CASE d = s
    BY <2>1
  <2>2. CASE d # s
    <3>1. sub'[d] = sub[d] /\ sub[d].pc \notin {"gate", "reserved", "placed"} /\ SubOK(d)
          /\ sub[d].sent \subseteq Intents
      BY <1>1, <2>2, Inside, SubFacts DEF SubmitterType
    <3>2. \A j \in sub[d].sent : orders'[j].status # "none"
      BY <1>2, <3>1 DEF SubOK
    <3> QED BY <3>1, <3>2 DEF SubOK
  <2> QED BY <2>1, <2>2
<1>5. ASSUME NEW j \in Intents PROVE OrderOK(j)'
  BY <1>2 DEF Gated, OrderOK, Blocking
<1> QED BY <1>3, <1>4, <1>5 DEF Gated, FreezeOK, Installed

LEMMA ReserveGated ==
  ASSUME Gated, NEW s \in Submitters, Reserve(s)
  PROVE  Gated'
<1>0. PICK i \in Intents : i = Current(s)
  BY Inside DEF Reserve
<1>1. /\ sub[s].pc = "gate" /\ Valid(s) /\ Reservable(s) /\ Go(s, "reserved")
      /\ receipts' = [receipts EXCEPT ![i] = "unknown"]
      /\ UNCHANGED <<route, freeze, issuance, lock, op, orders>>
  BY <1>0 DEF Reserve, registry
<1>2. /\ lock = s /\ sub[s] \in SubmitterType /\ SubOK(s) /\ OrderOK(i)
  BY <1>1, Inside, SubFacts DEF Gated
<1>3. PICK r \in SubmitterType :
        /\ sub' = [sub EXCEPT ![s] = r] /\ sub'[s] = r
        /\ r.pc = "reserved" /\ r.grant = sub[s].grant /\ r.cycle = sub[s].cycle /\ r.auth = sub[s].auth
        /\ r.seen = sub[s].seen /\ r.next = sub[s].next /\ r.sent = sub[s].sent
  BY <1>1, Goes
<1>4. receipts \in [Intents -> ReceiptType] /\ orders \in [Intents -> OrderType] /\ orders[i] \in OrderType
  BY <1>2, Types DEF Gated
<1>5. receipts'[i] = "unknown" /\ orders[i].status = "none" /\ orders' = [orders EXCEPT ![i] = orders[i]]
  BY <1>0, <1>1, <1>2, <1>4 DEF Reservable, OrderOK
<1>6. Current(s)' = i
  BY <1>0, <1>3 DEF Current
<1>7. SubOK(s)'
  BY <1>1, <1>2, <1>3, <1>5, <1>6 DEF SubOK, Valid, Installed
<1>8. OrderOK(i)'
  BY <1>1, <1>5 DEF OrderOK, Blocking, Settled
<1>9. "unknown" \in ReceiptType
  BY DEF ReceiptType
<1> QED
  BY <1>0, <1>1, <1>2, <1>3, <1>4, <1>5, <1>7, <1>8, <1>9, OrderStep

LEMMA SentOrder ==
  ASSUME Gated, NEW s \in Submitters, sub[s].pc = "reserved"
  PROVE  \E order \in OrderType :
           /\ Placed(s) = [orders EXCEPT ![Current(s)] = order]
           /\ order.status = "working"
           /\ order.gen = sub[s].grant.gen /\ order.auth = sub[s].auth
           /\ order.account = sub[s].seen.account
<1> DEFINE order == [ status |-> "working", gen |-> sub[s].grant.gen, auth |-> sub[s].auth,
                      account |-> sub[s].seen.account ]
<1>1. sub[s].grant \in AuthorityType /\ sub[s].seen \in AuthorityType /\ sub[s].auth \in Nat
  BY SubFacts DEF SubmitterType
<1>2. order \in OrderType
  BY <1>1 DEF OrderType, AuthorityType
<1> QED BY <1>2 DEF Placed

LEMMA PlaceOrderGated ==
  ASSUME Gated, NEW s \in Submitters, PlaceOrder(s)
  PROVE  Gated'
<1>0. PICK i \in Intents : i = Current(s)
  BY Inside DEF PlaceOrder
<1>1. /\ sub[s].pc = "reserved" /\ Go(s, "placed") /\ orders' = Placed(s)
      /\ UNCHANGED <<route, freeze, issuance, receipts, lock, op>>
  BY DEF PlaceOrder, registry
<1>2. /\ lock = s /\ SubOK(s)
  BY <1>1, Inside, SubFacts
<1>3. PICK r \in SubmitterType :
        /\ sub' = [sub EXCEPT ![s] = r] /\ sub'[s] = r
        /\ r.pc = "placed" /\ r.cycle = sub[s].cycle /\ r.next = sub[s].next /\ r.sent = sub[s].sent
  BY <1>1, Goes
<1>4. receipts \in [Intents -> ReceiptType] /\ orders \in [Intents -> OrderType]
      /\ receipts[i] \in ReceiptType /\ receipts' = [receipts EXCEPT ![i] = receipts[i]]
  BY <1>1, <1>2, Types DEF Gated
<1>5. PICK order \in OrderType : orders' = [orders EXCEPT ![i] = order] /\ order.status = "working"
  BY <1>0, <1>1, SentOrder
<1>6. Current(s)' = i /\ receipts[i] = "unknown"
  BY <1>0, <1>1, <1>2, <1>3 DEF Current, SubOK
<1>7. /\ orders'[i] = order
      /\ \A j \in sub[s].sent : orders[j].status # "none" /\ orders'[j].status # "none"
  BY <1>2, <1>4, <1>5, SubFacts DEF SubOK, SubmitterType
<1>8. SubOK(s)'
  BY <1>1, <1>2, <1>3, <1>5, <1>6, <1>7 DEF SubOK
<1>9. OrderOK(i)'
  BY <1>1, <1>6 DEF OrderOK, Blocking, Settled
<1> QED BY <1>0, <1>1, <1>2, <1>3, <1>4, <1>5, <1>8, <1>9, OrderStep

LEMMA NextOrderSub ==
  ASSUME Gated, NEW s \in Submitters, NEW placed \in SUBSET Intents, NextOrder(s, placed)
  PROVE  \E r \in SubmitterType :
           /\ sub' = [sub EXCEPT ![s] = r] /\ sub'[s] = r
           /\ r.pc = "submit" /\ r.cycle = sub[s].cycle /\ r.next = sub[s].next + 1
           /\ r.sent = sub[s].sent \union placed
<1>1. /\ sub \in [Submitters -> SubmitterType] /\ sub[s] \in SubmitterType
  BY SubFacts
<1>2. /\ sub[s].sent \union placed \in SUBSET Intents /\ sub[s].next + 1 \in Nat
      /\ NoAuthority \in AuthorityType
  BY <1>1, StartTypes DEF SubmitterType
<1> DEFINE sent == sub[s].sent \union placed
           next == sub[s].next + 1
           r == [sub[s] EXCEPT !.pc = "submit", !.seen = NoAuthority, !.next = next, !.sent = sent]
<1>3. sub' = [sub EXCEPT ![s] = r]
  BY DEF NextOrder
<1> HIDE DEF sent, next
<1>4. r \in SubmitterType
  BY <1>1, <1>2 DEF SubmitterType, sent, next
<1>5. r.pc = "submit" /\ r.cycle = sub[s].cycle /\ r.next = next /\ r.sent = sent
  BY <1>1 DEF SubmitterType
<1> HIDE DEF r
<1>6. sub'[s] = r
  BY <1>3, <1>4, SubSets
<1> QED BY <1>3, <1>4, <1>5, <1>6 DEF sent, next

LEMMA RecordResultGated ==
  ASSUME Gated, NEW s \in Submitters, RecordResult(s)
  PROVE  Gated'
<1>0. PICK i \in Intents : i = Current(s)
  BY Inside DEF RecordResult
<1>1. /\ sub[s].pc = "placed" /\ NextOrder(s, {i})
      /\ receipts' = [receipts EXCEPT ![i] = Reported(i)] /\ lock' = Free
      /\ UNCHANGED <<route, freeze, issuance, op, orders>>
  BY <1>0 DEF RecordResult, registry
<1>2. /\ SubOK(s) /\ sub[s] \in SubmitterType /\ orders[i].status # "none"
  BY <1>0, <1>1, SubFacts DEF SubOK
<1>3. PICK r \in SubmitterType :
        /\ sub' = [sub EXCEPT ![s] = r] /\ sub'[s] = r
        /\ r.pc = "submit" /\ r.cycle = sub[s].cycle /\ r.next = sub[s].next + 1
        /\ r.sent = sub[s].sent \union {i}
  BY <1>1, NextOrderSub
<1>4. /\ receipts \in [Intents -> ReceiptType] /\ orders \in [Intents -> OrderType]
      /\ orders[i] \in OrderType /\ orders' = [orders EXCEPT ![i] = orders[i]]
  BY <1>1, Types DEF Gated
<1>5. Reported(i) \in ReceiptType /\ receipts'[i] = Reported(i) /\ orders'[i] = orders[i]
  BY <1>1, <1>4 DEF Reported, ReceiptType, OrderType, Settled
<1>6. SubOK(s)'
  <2>1. r.cycle \in Cycles /\ r.next # 0
    BY <1>1, <1>2, <1>3 DEF SubOK, SubmitterType
  <2>2. \A j \in r.sent : orders'[j].status # "none"
    BY <1>1, <1>2, <1>3 DEF SubOK
  <2> QED BY <1>3, <2>1, <2>2 DEF SubOK
<1>7. OrderOK(i)'
  BY <1>2, <1>5 DEF OrderOK, Blocking, Settled, Reported
<1> QED BY <1>0, <1>1, <1>3, <1>4, <1>5, <1>6, <1>7, OrderStep

LEMMA OrderFailsGated ==
  ASSUME Gated, NEW s \in Submitters, OrderFails(s)
  PROVE  Gated'
<1>0. PICK i \in Intents : i = Current(s)
  BY Inside DEF OrderFails
<1>1. /\ sub[s].pc \in {"gate", "reserved"} /\ NextOrder(s, {}) /\ lock' = Free
      /\ orders' = orders \/ (sub[s].pc = "reserved" /\ orders' = Placed(s))
      /\ UNCHANGED <<route, freeze, issuance, receipts, op>>
  BY DEF OrderFails, registry
<1>2. /\ SubOK(s) /\ sub[s] \in SubmitterType /\ OrderOK(i)
  BY SubFacts DEF Gated
<1>3. PICK r \in SubmitterType :
        /\ sub' = [sub EXCEPT ![s] = r] /\ sub'[s] = r
        /\ r.pc = "submit" /\ r.cycle = sub[s].cycle /\ r.next = sub[s].next + 1
        /\ r.sent = sub[s].sent \union {}
  BY <1>1, NextOrderSub
<1>4. /\ receipts \in [Intents -> ReceiptType] /\ orders \in [Intents -> OrderType]
      /\ orders[i] \in OrderType /\ receipts[i] \in ReceiptType
      /\ receipts' = [receipts EXCEPT ![i] = receipts[i]] /\ sub[s].sent \subseteq Intents
  BY <1>1, <1>2, Types DEF Gated, SubmitterType
<1>5. \E order \in OrderType :
        /\ orders' = [orders EXCEPT ![i] = order]
        /\ order = orders[i] \/ (order.status = "working" /\ sub[s].pc = "reserved")
  BY <1>0, <1>1, <1>4, SentOrder
<1>6. PICK order \in OrderType :
        /\ orders' = [orders EXCEPT ![i] = order]
        /\ order = orders[i] \/ (order.status = "working" /\ sub[s].pc = "reserved")
  BY <1>5
<1>7. /\ orders'[i] = order
      /\ orders[i].status # "none" => order.status # "none"
      /\ \A j \in sub[s].sent : orders[j].status # "none" /\ orders'[j].status # "none"
  BY <1>2, <1>4, <1>6 DEF SubOK
<1>8. SubOK(s)'
  <2>1. r.cycle \in Cycles /\ r.next # 0
    BY <1>1, <1>2, <1>3 DEF SubOK, SubmitterType
  <2> QED BY <1>3, <1>7, <2>1 DEF SubOK
<1>9. OrderOK(i)'
  BY <1>0, <1>1, <1>2, <1>6, <1>7 DEF OrderOK, Blocking, Settled, SubOK
<1> QED BY <1>0, <1>1, <1>3, <1>4, <1>6, <1>7, <1>8, <1>9, OrderStep

LEMMA PollGated ==
  ASSUME Gated, NEW s \in Submitters, NEW i \in Intents, Poll(s, i)
  PROVE  Gated'
<1>1. /\ sub[s].pc = "submit" /\ i \in sub[s].sent
      /\ receipts' = [receipts EXCEPT ![i] = Reported(i)]
      /\ UNCHANGED <<route, freeze, issuance, lock, op, orders>>
  BY DEF Poll, registry
<1>2. /\ SubOK(s) /\ sub[s] \in SubmitterType /\ orders[i].status # "none"
  BY <1>1, SubFacts DEF SubOK
<1> DEFINE r == [sub[s] EXCEPT !.sent = sub[s].sent \ {i}]
<1>3. sub' = [sub EXCEPT ![s] = r]
  BY <1>2, SubFacts DEF Poll
<1>4. /\ r \in SubmitterType /\ r.pc = "submit" /\ r.cycle = sub[s].cycle /\ r.next = sub[s].next
      /\ r.sent \subseteq sub[s].sent
  BY <1>1, <1>2 DEF SubmitterType
<1> HIDE DEF r
<1>5. /\ sub' \in [Submitters -> SubmitterType] /\ sub'[s] = r
      /\ \A d \in Submitters \ {s} : sub'[d] = sub[d]
  BY <1>3, <1>4, SubSets
<1>6. /\ receipts \in [Intents -> ReceiptType] /\ orders \in [Intents -> OrderType] /\ orders[i] \in OrderType
  BY Types DEF Gated
<1>7. /\ Reported(i) \in ReceiptType
      /\ receipts' \in [Intents -> ReceiptType] /\ receipts'[i] = Reported(i)
      /\ \A j \in Intents : j # i => receipts'[j] = receipts[j]
  BY <1>1, <1>6 DEF Reported, ReceiptType, OrderType, Settled
<1>8. TypeOK'
  BY <1>1, <1>5, <1>7, Types DEF Gated, TypeOK, ReceiptType
<1>9. ASSUME NEW d \in Submitters PROVE SubOK(d)'
  <2>1. CASE d = s
    BY <1>1, <1>2, <1>4, <1>5, <2>1 DEF SubOK
  <2>2. CASE d # s
    <3>1. sub'[d] = sub[d] /\ SubOK(d) /\ sub[d] \in SubmitterType
      BY <1>5, <2>2, SubFacts
    <3>2. sub[d].pc = "reserved" => receipts'[Current(d)] = receipts[Current(d)]
      <4>1. sub[d].pc = "reserved" => Current(d) \in Intents /\ orders[Current(d)].status = "none"
        BY <3>1, Inside DEF SubOK
      <4> QED BY <1>2, <1>7, <4>1
    <3>3. Current(d)' = Current(d)
      BY <3>1 DEF Current
    <3> QED BY <1>1, <3>1, <3>2, <3>3 DEF SubOK, Installed
  <2> QED BY <2>1, <2>2
<1>10. ASSUME NEW j \in Intents PROVE OrderOK(j)'
  <2>1. CASE j = i
    BY <1>1, <1>2, <1>7, <2>1 DEF OrderOK, Blocking, Settled, Reported
  <2>2. CASE j # i
    BY <1>1, <1>7, <2>2 DEF Gated, OrderOK, Blocking
  <2> QED BY <2>1, <2>2
<1> QED BY <1>1, <1>8, <1>9, <1>10 DEF Gated, FreezeOK, Installed

LEMMA SettleGated ==
  ASSUME Gated, NEW i \in Intents, Settle(i)
  PROVE  Gated'
<1>1. PICK status \in {"filled", "cancelled"} : orders' = [orders EXCEPT ![i].status = status]
  BY DEF Settle
<1>2. orders[i].status = "working" /\ UNCHANGED <<route, freeze, issuance, receipts, lock, sub, op>>
  BY DEF Settle, registry
<1>3. orders \in [Intents -> OrderType] /\ orders[i] \in OrderType
  BY Types DEF Gated
<1> DEFINE order == [orders[i] EXCEPT !.status = status]
<1>4. orders' = [orders EXCEPT ![i] = order] /\ order \in OrderType /\ order.status = status
  BY <1>1, <1>3 DEF OrderType
<1> HIDE DEF order
<1>5. /\ orders' \in [Intents -> OrderType] /\ orders'[i].status = status
      /\ \A j \in Intents : j # i => orders'[j] = orders[j]
  BY <1>3, <1>4
<1>6. TypeOK'
  BY <1>2, <1>5, Types DEF Gated, TypeOK, OrderType
<1>7. ASSUME NEW d \in Submitters PROVE SubOK(d)'
  <2>1. SubOK(d) /\ sub[d] \in SubmitterType
    BY SubFacts
  <2>2. sub[d].pc \in {"gate", "reserved", "placed"} => Current(d) \in Intents
    BY Inside
  <2>3. Current(d)' = Current(d)
    BY <1>2 DEF Current
  <2>4. sub[d].pc = "reserved" => orders'[Current(d)].status = "none"
    BY <1>2, <1>5, <2>1, <2>2 DEF SubOK
  <2>5. sub[d].pc = "placed" => orders'[Current(d)].status # "none"
    BY <1>2, <1>5, <2>1, <2>2 DEF SubOK
  <2>6. \A j \in sub[d].sent : orders'[j].status # "none"
    BY <1>2, <1>5, <2>1 DEF SubOK, SubmitterType
  <2> QED BY <1>2, <2>1, <2>3, <2>4, <2>5, <2>6 DEF SubOK, Installed
<1>8. ASSUME NEW j \in Intents PROVE OrderOK(j)'
  BY <1>2, <1>5 DEF Gated, OrderOK, Blocking
<1> QED BY <1>2, <1>6, <1>7, <1>8 DEF Gated, FreezeOK, Installed

\* A step in the memory of an operator.
LEMMA OperatorStep ==
  ASSUME Gated, NEW o \in Operators, NEW a \in AttemptType, op' = [op EXCEPT ![o] = a],
         a.pc # "idle" => a.from # 0,
         UNCHANGED <<route, freeze, issuance, receipts, lock, sub, orders>>
  PROVE  Gated'
<1>1. /\ op' \in [Operators -> AttemptType] /\ op'[o] = a
      /\ \A d \in Operators : d # o => op'[d] = op[d]
  BY Types DEF Gated
<1>2. TypeOK'
  BY <1>1, Types DEF Gated, TypeOK
<1>3. \A s \in Submitters : SubOK(s)'
  BY DEF Gated, SubOK, Current, Installed
<1>4. \A i \in Intents : OrderOK(i)'
  BY DEF Gated, OrderOK, Blocking
<1>5. FreezeOK'
  BY <1>1 DEF Gated, FreezeOK, Installed
<1> QED BY <1>2, <1>3, <1>4, <1>5 DEF Gated

\* The authority or its freeze changes: nobody is inside a submission gate.
LEMMA AuthorityStep ==
  ASSUME Gated, lock = Free, route' \in AuthorityType, freeze' \in FreezeType,
         op' \in [Operators -> AttemptType], FreezeOK',
         UNCHANGED <<issuance, receipts, lock, sub, orders>>
  PROVE  Gated'
<1>1. TypeOK'
  BY Types DEF Gated, TypeOK, FreezeType
<1>2. ASSUME NEW s \in Submitters PROVE SubOK(s)'
  <2>1. sub[s].pc \notin {"gate", "reserved", "placed"} /\ SubOK(s)
    BY Inside, SubFacts, NamesAssumption
  <2> QED BY <2>1 DEF SubOK
<1>3. \A i \in Intents : OrderOK(i)'
  BY DEF Gated, OrderOK, Blocking
<1> QED BY <1>1, <1>2, <1>3 DEF Gated

LEMMA OperatorFacts ==
  ASSUME Gated
  PROVE  /\ route \in AuthorityType /\ route.gen \in Nat /\ freeze \in FreezeType /\ FreezeOK
         /\ op \in [Operators -> AttemptType]
         /\ \A o \in Operators : op[o] \in AttemptType /\ op[o].from \in Nat /\ op[o].target \in Targets
         /\ issuance \in IssuanceType /\ issuance.counter \in Nat
BY Types DEF Gated, AuthorityType, AttemptType, IssuanceType

\* An attempt goes on: only its place changes.
LEMMA Steps ==
  ASSUME Gated, NEW o \in Operators,
         NEW pc \in {"idle", "begin", "freeze", "receipts", "issuance", "bump", "open", "abort", "release"},
         Step(o, pc)
  PROVE  \E a \in AttemptType :
           op' = [op EXCEPT ![o] = a] /\ a.pc = pc /\ a.from = op[o].from /\ a.target = op[o].target
<1>1. op \in [Operators -> AttemptType] /\ op[o] \in AttemptType
  BY OperatorFacts
<1> DEFINE a == [op[o] EXCEPT !.pc = pc]
<1>2. op' = [op EXCEPT ![o] = a]
  BY <1>1 DEF Step
<1>3. a \in AttemptType /\ a.pc = pc /\ a.from = op[o].from /\ a.target = op[o].target
  BY <1>1 DEF AttemptType
<1> QED BY <1>2, <1>3

LEMMA NewAuthority ==
  ASSUME NEW target \in Targets, NEW gen \in Nat
  PROVE  Authority(target, gen) \in AuthorityType /\ Authority(target, gen).gen = gen
BY RouteAssumption DEF Authority, AuthorityType, Accounts

\* Freezing and opening as types.
LEMMA FreezeTypes ==
  ASSUME Gated
  PROVE  /\ Opened \in FreezeType /\ ~Opened.on /\ Opened.token = None
         /\ Opened.from = freeze.from
         /\ \A o \in Operators :
              LET f == [on |-> TRUE, from |-> route.gen, issued |-> issuance.counter, token |-> o]
              IN  f \in FreezeType /\ f.on /\ f.token = o /\ f.from = route.gen
<1>1. freeze \in FreezeType /\ route.gen \in Nat /\ issuance.counter \in Nat
  BY OperatorFacts
<1>2. /\ Opened \in FreezeType /\ ~Opened.on /\ Opened.token = None /\ Opened.from = freeze.from
  BY <1>1 DEF Opened, FreezeType
<1> QED BY <1>1, <1>2 DEF FreezeType

LEMMA InstallGated ==
  ASSUME Gated, NEW target \in Targets, Install(target)
  PROVE  Gated'
<1>1. /\ lock = Free /\ route' = Authority(target, 1)
      /\ UNCHANGED <<freeze, issuance, receipts, lock, sub, op, orders>>
  BY DEF Install
<1>2. route' \in AuthorityType /\ route'.gen = 1
  BY <1>1, NewAuthority
<1>3. FreezeOK'
  BY <1>1, <1>2, OperatorFacts DEF FreezeOK, Installed
<1> QED BY <1>1, <1>2, <1>3, OperatorFacts, AuthorityStep

LEMMA DecideGated ==
  ASSUME Gated, NEW o \in Operators, NEW target \in Targets, Decide(o, target)
  PROVE  Gated'
<1> DEFINE a == [pc |-> "begin", target |-> target, from |-> route.gen]
<1>1. /\ Installed /\ op' = [op EXCEPT ![o] = a]
      /\ UNCHANGED <<route, freeze, issuance, receipts, lock, sub, orders>>
  BY DEF Decide, registry
<1>2. a \in AttemptType /\ a.from = route.gen
  BY OperatorFacts DEF AttemptType
<1>3. a.from # 0
  BY <1>1, <1>2, OperatorFacts DEF Installed
<1> HIDE DEF a
<1> QED BY <1>1, <1>2, <1>3, OperatorStep

\* Steps of an attempt that leave the registry alone.
LEMMA AttemptGated ==
  ASSUME Gated, NEW o \in Operators,
         \/ Begin(o) \/ DrainReceipts(o) \/ DrainIssuance(o) \/ StepFails(o) \/ Abort(o)
         \/ CrashSwitch(o)
  PROVE  Gated'
<1>1. /\ op[o].pc # "idle"
      /\ UNCHANGED <<route, freeze, issuance, receipts, lock, sub, orders>>
      /\ \/ op' = [op EXCEPT ![o] = NoAttempt]
         \/ \E pc \in {"freeze", "abort", "issuance", "bump", "release"} : Step(o, pc)
  BY DEF Begin, DrainReceipts, DrainIssuance, StepFails, Abort, CrashSwitch, registry, InFlight
<1>2. op[o].from # 0
  BY <1>1, OperatorFacts DEF FreezeOK
<1>3. CASE op' = [op EXCEPT ![o] = NoAttempt]
  BY <1>1, <1>3, StartTypes, OperatorStep
<1>4. ASSUME NEW pc \in {"freeze", "abort", "issuance", "bump", "release"}, Step(o, pc)
      PROVE  Gated'
  BY <1>1, <1>2, <1>4, Steps, OperatorStep
<1> QED BY <1>1, <1>3, <1>4

LEMMA OpSets ==
  ASSUME Gated, NEW o \in Operators, NEW a \in AttemptType, op' = [op EXCEPT ![o] = a]
  PROVE  /\ op' \in [Operators -> AttemptType] /\ op'[o] = a
         /\ \A d \in Operators : d # o => op'[d] = op[d]
BY OperatorFacts

LEMMA FreezeGated ==
  ASSUME Gated, NEW o \in Operators, Freeze(o)
  PROVE  Gated'
<1>1. /\ lock = Free /\ UNCHANGED <<route, issuance, receipts, lock, sub, orders>>
      /\ op[o].pc = "freeze"
  BY DEF Freeze
<1>2. CASE Freezable(o)
  <2>1. /\ freeze' = [on |-> TRUE, from |-> route.gen, issued |-> issuance.counter, token |-> o]
        /\ Step(o, "receipts") /\ route.gen = op[o].from
    BY <1>2 DEF Freeze, Freezable
  <2>2. PICK a \in AttemptType : op' = [op EXCEPT ![o] = a] /\ a.pc = "receipts" /\ a.from = op[o].from
    BY <2>1, Steps
  <2>3. freeze' \in FreezeType
    BY <2>1, FreezeTypes
  <2>4. op[o].from # 0
    BY <1>1, OperatorFacts DEF FreezeOK
  <2>5. FreezeOK'
    BY <1>1, <2>1, <2>2, <2>4, OpSets, OperatorFacts DEF FreezeOK, Installed
  <2> QED BY <1>1, <2>2, <2>3, <2>5, OpSets, OperatorFacts, AuthorityStep
<1>3. CASE ~Freezable(o)
  <2>1. op' = [op EXCEPT ![o] = NoAttempt] /\ freeze' = freeze
    BY <1>3 DEF Freeze
  <2> QED BY <1>1, <2>1, StartTypes, OperatorStep
<1> QED BY <1>2, <1>3

LEMMA BumpGated ==
  ASSUME Gated, NEW o \in Operators, Bump(o)
  PROVE  Gated'
<1>1. /\ lock = Free /\ UNCHANGED <<freeze, issuance, receipts, lock, sub, orders>>
      /\ op[o].pc = "bump"
  BY DEF Bump
<1>2. op[o].from # 0 /\ op[o].from \in Nat /\ op[o].target \in Targets
  BY <1>1, OperatorFacts DEF FreezeOK
<1>3. CASE route.gen = op[o].from
  <2>1. route' = Authority(op[o].target, op[o].from + 1) /\ Step(o, "open")
    BY <1>3 DEF Bump, SwitchRoute
  <2>2. route' \in AuthorityType /\ route'.gen = op[o].from + 1
    BY <1>2, <2>1, NewAuthority
  <2>3. PICK a \in AttemptType : op' = [op EXCEPT ![o] = a] /\ a.pc = "open" /\ a.from = op[o].from
    BY <2>1, Steps
  <2>4. FreezeOK'
    BY <1>1, <1>2, <2>2, <2>3, OpSets, OperatorFacts DEF FreezeOK, Installed
  <2> QED BY <1>1, <2>2, <2>3, <2>4, OpSets, OperatorFacts, AuthorityStep
<1>4. CASE route.gen # op[o].from
  <2>1. route' = route /\ Step(o, "abort")
    BY <1>4 DEF Bump
  <2> QED BY <1>1, <1>2, <2>1, Steps, OperatorStep
<1> QED BY <1>3, <1>4

\* The freeze is opened: by its attempt, by an abort, or by a recovery.
LEMMA OpeningGated ==
  ASSUME Gated, lock = Free, freeze' = Opened,
         \/ op' = op
         \/ \E o \in Operators : op' = [op EXCEPT ![o] = NoAttempt],
         UNCHANGED <<route, issuance, receipts, lock, sub, orders>>
  PROVE  Gated'
<1>1. freeze' \in FreezeType /\ ~freeze'.on
  BY FreezeTypes
<1>2. /\ op' \in [Operators -> AttemptType]
      /\ \A d \in Operators : op'[d] = op[d] \/ op'[d].pc = "idle"
  BY StartTypes, OpSets, OperatorFacts
<1>3. FreezeOK'
  BY <1>1, <1>2, OperatorFacts DEF FreezeOK
<1> QED BY <1>1, <1>2, <1>3, OperatorFacts, AuthorityStep

LEMMA OpenGated ==
  ASSUME Gated, NEW o \in Operators, Open(o)
  PROVE  Gated'
<1>1. /\ lock = Free /\ UNCHANGED <<route, issuance, receipts, lock, sub, orders>>
      /\ op[o].pc = "open"
  BY DEF Open
<1>2. CASE Owns(o)
  BY <1>1, <1>2, OpeningGated DEF Open
<1>3. CASE ~Owns(o)
  <2>1. freeze' = freeze /\ Step(o, "abort")
    BY <1>3 DEF Open
  <2>2. op[o].from # 0
    BY <1>1, OperatorFacts DEF FreezeOK
  <2> QED BY <1>1, <2>1, <2>2, Steps, OperatorStep
<1> QED BY <1>2, <1>3

LEMMA ReleaseGated ==
  ASSUME Gated, NEW o \in Operators, Release(o)
  PROVE  Gated'
<1>1. /\ lock = Free /\ UNCHANGED <<route, issuance, receipts, lock, sub, orders>>
      /\ op' = [op EXCEPT ![o] = NoAttempt] /\ (freeze' = freeze \/ freeze' = Opened)
  BY DEF Release
<1>2. CASE freeze' = freeze
  BY <1>1, <1>2, StartTypes, OperatorStep
<1> QED BY <1>1, <1>2, OpeningGated

LEMMA RecoverGated ==
  ASSUME Gated, Recover
  PROVE  Gated'
BY OpeningGated DEF Recover

LEMMA RestoreSimulationGated ==
  ASSUME Gated, RestoreSimulation
  PROVE  Gated'
<1>1. /\ lock = Free /\ freeze.on /\ (freeze' = freeze \/ freeze' = Opened)
      /\ UNCHANGED <<issuance, receipts, lock, sub, op, orders>>
  BY DEF RestoreSimulation, Recoverable
<1>2. /\ \/ route' = Authority(Simulation, freeze.from + 1)
         \/ route' = route
      /\ freeze.from \in Nat
  BY OperatorFacts DEF RestoreSimulation, SwitchRoute, FreezeType
<1>3. route' \in AuthorityType /\ route'.gen # 0
  BY <1>1, <1>2, NewAuthority, OperatorFacts, RouteAssumption DEF FreezeOK, Installed
<1>4. freeze' \in FreezeType
  BY <1>1, FreezeTypes, OperatorFacts
<1>5. FreezeOK'
  BY <1>1, <1>3, OperatorFacts DEF FreezeOK, Installed, AuthorityType
<1> QED BY <1>1, <1>3, <1>4, <1>5, OperatorFacts, AuthorityStep

\* Every step keeps the invariant of the processes that trade.
LEMMA GatedStep == Gated /\ [Next]_vars => Gated'
<1> SUFFICES ASSUME Gated, [Next]_vars PROVE Gated'
  OBVIOUS
<1>1. ASSUME NEW target \in Targets, Install(target) PROVE Gated'
  BY <1>1, InstallGated
<1>2. ASSUME NEW s \in Submitters, NEW account \in Accounts, GrantWrite(s, account) \/ Validate(s, account)
      PROVE  Gated'
  BY <1>2, GrantWriteGated, ValidateGated
<1>3. ASSUME NEW s \in Submitters, NEW cycle \in Cycles, Bind(s, cycle) PROVE Gated'
  BY <1>3, BindGated
<1>4. ASSUME NEW s \in Submitters,
             RevokeGrant(s) \/ BindRoute(s) \/ RecordIssuance(s) \/ EnterGate(s) \/ Leave(s) \/ Crash(s)
      PROVE  Gated'
  BY <1>4, RevokeGrantGated, BindRouteGated, RecordIssuanceGated, EnterGateGated, LeaveGated
<1>5. ASSUME NEW s \in Submitters, Reserve(s) \/ PlaceOrder(s) \/ RecordResult(s) \/ OrderFails(s)
      PROVE  Gated'
  BY <1>5, ReserveGated, PlaceOrderGated, RecordResultGated, OrderFailsGated
<1>6. ASSUME NEW s \in Submitters, NEW i \in Intents, Poll(s, i) PROVE Gated'
  BY <1>6, PollGated
<1>7. ASSUME NEW i \in Intents, Settle(i) PROVE Gated'
  BY <1>7, SettleGated
<1>8. ASSUME NEW o \in Operators, NEW target \in Targets, Decide(o, target) PROVE Gated'
  BY <1>8, DecideGated
<1>9. ASSUME NEW o \in Operators,
             \/ Begin(o) \/ DrainReceipts(o) \/ DrainIssuance(o) \/ StepFails(o) \/ Abort(o)
             \/ CrashSwitch(o)
      PROVE  Gated'
  BY <1>9, AttemptGated
<1>10. ASSUME NEW o \in Operators, Freeze(o) \/ Bump(o) \/ Open(o) \/ Release(o) PROVE Gated'
  BY <1>10, FreezeGated, BumpGated, OpenGated, ReleaseGated
<1>11. CASE Recover \/ RestoreSimulation
  BY <1>11, RecoverGated, RestoreSimulationGated
<1>12. CASE UNCHANGED vars
  <2>1. TypeOK'
    BY <1>12 DEF Gated, TypeOK, vars
  <2>2. \A s \in Submitters : SubOK(s)'
    BY <1>12 DEF Gated, SubOK, vars, Current, Installed
  <2>3. (\A i \in Intents : OrderOK(i)') /\ FreezeOK'
    BY <1>12 DEF Gated, OrderOK, Blocking, FreezeOK, Installed, vars
  <2> QED BY <2>1, <2>2, <2>3 DEF Gated
<1> QED
  BY <1>1, <1>2, <1>3, <1>4, <1>5, <1>6, <1>7, <1>8, <1>9, <1>10, <1>11, <1>12 DEF Next

\* The gate's invariant holds whatever the operators do.
THEOREM GateInvariance == Spec => []Gated
<1> QED BY InitGated, GatedStep, PTL DEF Spec

\* The registry, the processes and the broker's orders keep their types.
THEOREM RouteTypeCorrect == Spec => []TypeOK
<1>1. Gated => TypeOK
  BY DEF Gated
<1> QED BY <1>1, GateInvariance, PTL

\* An order that may still be working has a receipt that blocks the drain,
\* whichever process dies wherever.
THEOREM OrdersBlock == Spec => []WorkingOrdersBlock
<1>1. Gated => WorkingOrdersBlock
  BY DEF Gated, OrderOK, WorkingOrdersBlock
<1> QED BY <1>1, GateInvariance, PTL

-----------------------------------------------------------------------------
(***************************************************************************)
(* The switch.  From here on recovery spares a living attempt.             *)
(***************************************************************************)

\* The receipts that a drained attempt saw are still so.
Drainless == \A i \in Intents : receipts[i] \in Settled /\ orders[i].status # "working"

\* What an attempt may rely on: the freeze while it holds one, the generation it
\* froze, and after its drain the silence it saw.
AttemptOK(o) ==
  /\ InFlight(o) =>
       /\ Owns(o) /\ op[o].from = freeze.from
       /\ route.gen = freeze.from + (IF op[o].pc = "open" THEN 1 ELSE 0)
  /\ op[o].pc \in {"abort", "release"} /\ Owns(o) => op[o].from = freeze.from
  /\ op[o].pc = "release" /\ Owns(o) => route.gen = freeze.from
  /\ op[o].pc \in {"issuance", "bump"} => Drainless

\* A working order is one of the authority that is active, and on an
\* authorization for it if the comparison is never skipped.
CurrentOK(i) ==
  orders[i].status = "working" =>
    /\ Installed /\ orders[i].gen = route.gen /\ orders[i].account = route.account
    /\ ReadsFail \/ orders[i].auth = route.gen

Switched ==
  /\ Gated
  /\ \A o \in Operators : AttemptOK(o)
  /\ \A i \in Intents : CurrentOK(i)

LEMMA InitSwitched == Init => Switched
<1> SUFFICES ASSUME Init PROVE Switched
  OBVIOUS
<1>1. \A o \in Operators : op[o].pc = "idle"
  BY StartTypes DEF Init
<1>2. \A i \in Intents : orders[i].status = "none"
  BY StartTypes DEF Init
<1> QED BY <1>1, <1>2, InitGated DEF Switched, AttemptOK, CurrentOK, InFlight

\* A step of a process or the broker leaves registry and attempts alone, breaks
\* no silence under a freeze, and sends only under the active authority.
LEMMA TradeStep ==
  ASSUME Switched, Gated', UNCHANGED <<route, freeze, op>>,
         freeze.on => \A i \in Intents :
           receipts[i] \in Settled /\ orders[i].status # "working" =>
             receipts'[i] \in Settled /\ orders'[i].status # "working",
         \A i \in Intents : orders'[i].status = "working" =>
           \/ orders'[i] = orders[i]
           \/ /\ Installed /\ orders'[i].gen = route.gen /\ orders'[i].account = route.account
              /\ ReadsFail \/ orders'[i].auth = route.gen
  PROVE  Switched'
<1>1. ASSUME NEW o \in Operators PROVE AttemptOK(o)'
  <2>1. AttemptOK(o)
    BY DEF Switched
  <2>2. op[o].pc \in {"issuance", "bump"} => Drainless'
    <3>1. op[o].pc \in {"issuance", "bump"} => freeze.on /\ Drainless
      BY <2>1 DEF AttemptOK, InFlight, Owns
    <3> QED BY <3>1 DEF Drainless
  <2> QED BY <2>1, <2>2 DEF AttemptOK, InFlight, Owns
<1>2. ASSUME NEW i \in Intents PROVE CurrentOK(i)'
  BY DEF Switched, CurrentOK, Installed
<1> QED BY <1>1, <1>2 DEF Switched

\* What a process sends out of its gate is an order of the active authority.
LEMMA SendsCurrent ==
  ASSUME Gated, NEW s \in Submitters, sub[s].pc = "reserved"
  PROVE  /\ ~freeze.on /\ Installed
         /\ \A i \in Intents :
              \/ Placed(s)[i] = orders[i]
              \/ /\ i = Current(s) /\ orders[i].status = "none"
                 /\ Placed(s)[i].status = "working"
                 /\ Placed(s)[i].gen = route.gen /\ Placed(s)[i].account = route.account
                 /\ ReadsFail \/ Placed(s)[i].auth = route.gen
<1>1. SubOK(s) /\ Current(s) \in Intents /\ orders \in [Intents -> OrderType]
  BY Inside, SubFacts, Types DEF Gated
<1>2. PICK order \in OrderType :
        /\ Placed(s) = [orders EXCEPT ![Current(s)] = order]
        /\ order.status = "working"
        /\ order.gen = sub[s].grant.gen /\ order.auth = sub[s].auth
        /\ order.account = sub[s].seen.account
  BY SentOrder
<1>3. /\ ~freeze.on /\ Installed /\ order.gen = route.gen /\ order.account = route.account
      /\ ReadsFail \/ order.auth = route.gen
      /\ orders[Current(s)].status = "none"
  BY <1>1, <1>2 DEF SubOK
<1> QED BY <1>1, <1>2, <1>3

\* Steps of a process that concern neither receipts nor orders.
LEMMA MemorySwitched ==
  ASSUME Switched, Gated', UNCHANGED <<route, freeze, receipts, op, orders>>
  PROVE  Switched'
BY TradeStep DEF Settled

LEMMA ReceiptSwitched ==
  ASSUME Switched, Gated', NEW s \in Submitters, NEW i \in Intents,
         Reserve(s) \/ RecordResult(s) \/ Poll(s, i)
  PROVE  Switched'
<1>1. /\ UNCHANGED <<route, freeze, op, orders>>
      /\ Gated
  BY DEF Reserve, RecordResult, Poll, registry, Switched
<1>2. ASSUME Reserve(s) \/ RecordResult(s) PROVE ~freeze.on
  BY <1>1, <1>2, SubFacts DEF Reserve, RecordResult, SubOK
<1>3. ASSUME Poll(s, i), NEW j \in Intents, receipts[j] \in Settled, orders[j].status # "working"
      PROVE  receipts'[j] \in Settled
  <2>1. /\ receipts' = [receipts EXCEPT ![i] = Reported(i)]
        /\ receipts \in [Intents -> ReceiptType] /\ orders[j] \in OrderType
    BY <1>1, <1>3, Types DEF Poll, Gated
  <2>2. j = i => Reported(i) \in Settled
    BY <1>3, <2>1 DEF Reported, OrderType, Settled
  <2> QED BY <1>3, <2>1, <2>2
<1> QED BY <1>1, <1>2, <1>3, TradeStep

LEMMA SendSwitched ==
  ASSUME Switched, Gated', NEW s \in Submitters, PlaceOrder(s) \/ OrderFails(s)
  PROVE  Switched'
<1>1. /\ Gated /\ UNCHANGED <<route, freeze, receipts, op>>
      /\ orders' = orders \/ (sub[s].pc = "reserved" /\ orders' = Placed(s))
  BY DEF PlaceOrder, OrderFails, registry, Switched
<1>2. CASE orders' = orders
  BY <1>1, <1>2, MemorySwitched
<1>3. CASE sub[s].pc = "reserved" /\ orders' = Placed(s)
  BY <1>1, <1>3, SendsCurrent, TradeStep
<1> QED BY <1>1, <1>2, <1>3

LEMMA SettleSwitched ==
  ASSUME Switched, Gated', NEW i \in Intents, Settle(i)
  PROVE  Switched'
<1>1. PICK status \in {"filled", "cancelled"} : orders' = [orders EXCEPT ![i].status = status]
  BY DEF Settle
<1>2. orders \in [Intents -> OrderType] /\ orders[i] \in OrderType
  BY Types DEF Gated, Switched
<1>3. orders'[i].status # "working" /\ \A j \in Intents : j # i => orders'[j] = orders[j]
  BY <1>1, <1>2 DEF OrderType
<1>4. UNCHANGED <<route, freeze, receipts, op>>
  BY DEF Settle, registry
<1> QED BY <1>3, <1>4, TradeStep

-----------------------------------------------------------------------------

\* A step of one attempt that leaves the registry, receipts and orders alone.
LEMMA AttemptStep ==
  ASSUME Switched, Gated', NEW o \in Operators, NEW a \in AttemptType, op' = [op EXCEPT ![o] = a],
         AttemptOK(o)', UNCHANGED <<route, freeze, receipts, orders>>
  PROVE  Switched'
<1>1. \A d \in Operators : d # o => op'[d] = op[d]
  BY OpSets DEF Switched
<1>2. ASSUME NEW d \in Operators PROVE AttemptOK(d)'
  BY <1>1 DEF Switched, AttemptOK, InFlight, Owns, Drainless
<1>3. ASSUME NEW i \in Intents PROVE CurrentOK(i)'
  BY DEF Switched, CurrentOK, Installed
<1> QED BY <1>2, <1>3 DEF Switched

\* An attempt that is not in flight relies on nothing.
LEMMA AtRest ==
  ASSUME NEW o \in Operators, op[o].pc \in {"idle", "begin", "freeze"}
  PROVE  AttemptOK(o)
BY DEF AttemptOK, InFlight

\* An attempt begins, or is over.
LEMMA QuietSwitched ==
  ASSUME Switched, Gated', NEW o \in Operators,
         \/ Begin(o) \/ CrashSwitch(o)
         \/ \E target \in Targets : Decide(o, target)
  PROVE  Switched'
<1>1. /\ Gated /\ UNCHANGED <<route, freeze, receipts, orders>>
      /\ \/ op' = [op EXCEPT ![o] = NoAttempt]
         \/ Step(o, "freeze")
         \/ \E target \in Targets :
              op' = [op EXCEPT ![o] = [pc |-> "begin", target |-> target, from |-> route.gen]]
  BY DEF Begin, CrashSwitch, Decide, registry, Switched
<1>2. PICK a \in AttemptType :
        op' = [op EXCEPT ![o] = a] /\ a.pc \in {"idle", "begin", "freeze"}
  <2>1. CASE op' = [op EXCEPT ![o] = NoAttempt]
    BY <2>1, StartTypes
  <2>2. CASE Step(o, "freeze")
    BY <1>1, <2>2, Steps
  <2>3. ASSUME NEW target \in Targets,
               op' = [op EXCEPT ![o] = [pc |-> "begin", target |-> target, from |-> route.gen]]
        PROVE  \E a \in AttemptType :
                 op' = [op EXCEPT ![o] = a] /\ a.pc \in {"idle", "begin", "freeze"}
    <3>1. [pc |-> "begin", target |-> target, from |-> route.gen] \in AttemptType
      BY <1>1, OperatorFacts DEF AttemptType
    <3> QED BY <2>3, <3>1
  <2> QED BY <1>1, <2>1, <2>2, <2>3
<1>3. op'[o] = a
  BY <1>1, <1>2, OpSets
<1>4. AttemptOK(o)'
  BY <1>2, <1>3 DEF AttemptOK, InFlight
<1> QED BY <1>1, <1>2, <1>4, AttemptStep

\* An attempt reads receipts and counter, fails, or decides how to end.
LEMMA DrainSwitched ==
  ASSUME Switched, Gated', NEW o \in Operators,
         DrainReceipts(o) \/ DrainIssuance(o) \/ StepFails(o) \/ Abort(o)
  PROVE  Switched'
<1>1. /\ Gated /\ AttemptOK(o) /\ UNCHANGED <<route, freeze, receipts, orders>>
  BY DEF DrainReceipts, DrainIssuance, StepFails, Abort, registry, Switched
<1>2. ASSUME NEW pc \in {"issuance", "bump", "abort", "release"}, Step(o, pc),
             pc \in {"issuance", "bump"} => InFlight(o) /\ op[o].pc # "open" /\ Drainless,
             pc = "abort" => InFlight(o),
             pc = "release" => op[o].pc = "abort" /\ route.gen = op[o].from
      PROVE  Switched'
  <2>1. PICK a \in AttemptType : op' = [op EXCEPT ![o] = a] /\ a.pc = pc /\ a.from = op[o].from
    BY <1>1, <1>2, Steps
  <2>2. op'[o] = a
    BY <1>1, <2>1, OpSets
  <2>3. AttemptOK(o)'
    BY <1>1, <1>2, <2>1, <2>2, OperatorFacts DEF AttemptOK, InFlight, Owns, Drainless, FreezeType
  <2> QED BY <1>1, <2>1, <2>3, AttemptStep
<1>3. CASE DrainReceipts(o)
  <2>1. (~ \E i \in Intents : Blocking(i)) => Drainless
    BY <1>1 DEF Gated, OrderOK, Blocking, Drainless
  <2> QED BY <1>2, <1>3, <2>1 DEF DrainReceipts, InFlight
<1>4. CASE DrainIssuance(o)
  BY <1>1, <1>2, <1>4 DEF DrainIssuance, InFlight, AttemptOK
<1>5. CASE StepFails(o)
  BY <1>2, <1>5 DEF StepFails
<1>6. CASE Abort(o)
  <2>1. CASE Reopens(o)
    BY <1>2, <1>6, <2>1 DEF Abort, Reopens
  <2>2. CASE ~Reopens(o)
    <3>1. op' = [op EXCEPT ![o] = NoAttempt]
      BY <1>6, <2>2 DEF Abort
    <3>2. AttemptOK(o)'
      BY <1>1, <3>1, OpSets, StartTypes DEF AttemptOK, InFlight
    <3> QED BY <1>1, <3>1, <3>2, StartTypes, AttemptStep
  <2> QED BY <2>1, <2>2
<1> QED BY <1>3, <1>4, <1>5, <1>6

\* Nothing that a switch may have seen working remains when no receipt blocks.
LEMMA NothingWorks ==
  ASSUME Gated, ~ \E i \in Intents : Blocking(i)
  PROVE  \A i \in Intents : orders[i].status # "working"
BY DEF Gated, OrderOK

LEMMA FreezeSwitched ==
  ASSUME Switched, Gated', NEW o \in Operators, Freeze(o)
  PROVE  Switched'
<1>1. /\ Gated /\ AttemptOK(o) /\ op[o].pc = "freeze"
      /\ UNCHANGED <<route, receipts, orders>>
  BY DEF Freeze, Switched
<1>2. CASE Freezable(o)
  <2> DEFINE f == [on |-> TRUE, from |-> route.gen, issued |-> issuance.counter, token |-> o]
  <2>1. /\ freeze' = f /\ Step(o, "receipts") /\ route.gen = op[o].from /\ ~freeze.on
    BY <1>2 DEF Freeze, Freezable
  <2>2. f \in FreezeType /\ f.on /\ f.token = o /\ f.from = route.gen
    BY <1>1, FreezeTypes
  <2> HIDE DEF f
  <2>3. PICK a \in AttemptType : op' = [op EXCEPT ![o] = a] /\ a.pc = "receipts" /\ a.from = op[o].from
    BY <1>1, <2>1, Steps
  <2>4. op'[o] = a /\ \A d \in Operators : d # o => op'[d] = op[d]
    BY <1>1, <2>3, OpSets
  <2>5. AttemptOK(o)'
    BY <1>1, <2>1, <2>2, <2>3, <2>4, OperatorFacts DEF AttemptOK, InFlight, Owns
  <2>6. ASSUME NEW d \in Operators, d # o PROVE AttemptOK(d)'
    <3>1. AttemptOK(d) /\ ~Owns(d) /\ ~Owns(d)'
      BY <2>1, <2>2, <2>6 DEF Switched, Owns
    <3>2. ~InFlight(d) /\ op'[d] = op[d]
      BY <2>4, <2>6, <3>1 DEF AttemptOK
    <3> QED BY <3>1, <3>2 DEF AttemptOK, InFlight
  <2>7. ASSUME NEW i \in Intents PROVE CurrentOK(i)'
    BY <1>1 DEF Switched, CurrentOK, Installed
  <2> QED BY <2>5, <2>6, <2>7 DEF Switched
<1>3. CASE ~Freezable(o)
  <2>1. op' = [op EXCEPT ![o] = NoAttempt] /\ freeze' = freeze
    BY <1>3 DEF Freeze
  <2>2. AttemptOK(o)'
    BY <1>1, <2>1, OpSets, StartTypes DEF AttemptOK, InFlight
  <2> QED BY <1>1, <2>1, <2>2, StartTypes, AttemptStep
<1> QED BY <1>2, <1>3

LEMMA BumpSwitched ==
  ASSUME Switched, Gated', NEW o \in Operators, Bump(o)
  PROVE  Switched'
<1>1. /\ Gated /\ AttemptOK(o) /\ op[o].pc = "bump"
      /\ UNCHANGED <<freeze, receipts, orders>>
  BY DEF Bump, Switched
<1>2. /\ Owns(o) /\ op[o].from = freeze.from /\ route.gen = freeze.from /\ Drainless
      /\ op[o].from \in Nat /\ op[o].target \in Targets
  BY <1>1, OperatorFacts DEF AttemptOK, InFlight
<1>3. /\ route' = Authority(op[o].target, op[o].from + 1) /\ Step(o, "open")
  BY <1>2 DEF Bump, SwitchRoute
<1>4. route'.gen = op[o].from + 1
  BY <1>2, <1>3, NewAuthority
<1>5. PICK a \in AttemptType : op' = [op EXCEPT ![o] = a] /\ a.pc = "open" /\ a.from = op[o].from
  BY <1>1, <1>3, Steps
<1>6. op'[o] = a /\ \A d \in Operators : d # o => op'[d] = op[d]
  BY <1>1, <1>5, OpSets
<1>7. AttemptOK(o)'
  BY <1>1, <1>2, <1>4, <1>5, <1>6 DEF AttemptOK, InFlight, Owns
<1>8. ASSUME NEW d \in Operators, d # o PROVE AttemptOK(d)'
  <2>1. AttemptOK(d) /\ ~Owns(d) /\ ~Owns(d)'
    BY <1>1, <1>2, <1>8 DEF Switched, Owns
  <2>2. ~InFlight(d) /\ op'[d] = op[d]
    BY <1>6, <1>8, <2>1 DEF AttemptOK
  <2> QED BY <2>1, <2>2 DEF AttemptOK, InFlight
<1>9. ASSUME NEW i \in Intents PROVE CurrentOK(i)'
  BY <1>1, <1>2 DEF Drainless, CurrentOK
<1> QED BY <1>7, <1>8, <1>9 DEF Switched

\* The freeze ends while no attempt but that of o, now over, relies on it.
LEMMA OpeningSwitched ==
  ASSUME Switched, Gated', freeze' = Opened, UNCHANGED <<route, receipts, orders>>,
         \A d \in Operators : op'[d].pc = "idle" \/ (op'[d] = op[d] /\ ~InFlight(d))
  PROVE  Switched'
<1>1. Gated /\ ~freeze'.on
  BY FreezeTypes DEF Switched
<1>2. ASSUME NEW d \in Operators PROVE AttemptOK(d)'
  <2>1. ~InFlight(d)' /\ ~Owns(d)'
    BY <1>1 DEF InFlight, Owns
  <2> QED BY <2>1 DEF AttemptOK, InFlight
<1>3. ASSUME NEW i \in Intents PROVE CurrentOK(i)'
  BY DEF Switched, CurrentOK, Installed
<1> QED BY <1>2, <1>3 DEF Switched

\* Only the attempt that owns the freeze can be in flight.
LEMMA OneInFlight ==
  ASSUME Switched, NEW d \in Operators, InFlight(d)
  PROVE  freeze.on /\ freeze.token = d
BY DEF Switched, AttemptOK, Owns

LEMMA OpenSwitched ==
  ASSUME Switched, Gated', NEW o \in Operators, Open(o)
  PROVE  Switched'
<1>1. /\ Gated /\ AttemptOK(o) /\ op[o].pc = "open" /\ Owns(o)
      /\ UNCHANGED <<route, receipts, orders>>
  BY DEF Open, Switched, AttemptOK, InFlight
<1>2. freeze' = Opened /\ op' = [op EXCEPT ![o] = NoAttempt]
  BY <1>1 DEF Open
<1>3. op'[o] = NoAttempt /\ \A d \in Operators : d # o => op'[d] = op[d]
  BY <1>1, <1>2, OpSets, StartTypes
<1>4. \A d \in Operators : d # o => ~InFlight(d)
  BY <1>1, OneInFlight DEF Owns
<1> QED BY <1>1, <1>2, <1>3, <1>4, StartTypes, OpeningSwitched

LEMMA ReleaseSwitched ==
  ASSUME Switched, Gated', NEW o \in Operators, Release(o)
  PROVE  Switched'
<1>1. /\ Gated /\ op[o].pc = "release" /\ UNCHANGED <<route, receipts, orders>>
      /\ op' = [op EXCEPT ![o] = NoAttempt]
      /\ freeze' = freeze \/ (Owns(o) /\ freeze' = Opened)
  BY DEF Release, Switched
<1>2. op'[o] = NoAttempt /\ \A d \in Operators : d # o => op'[d] = op[d]
  BY <1>1, OpSets, StartTypes
<1>3. CASE freeze' = freeze
  <2>1. AttemptOK(o)'
    BY <1>2, StartTypes DEF AttemptOK, InFlight
  <2> QED BY <1>1, <1>3, <2>1, StartTypes, AttemptStep
<1>4. CASE Owns(o) /\ freeze' = Opened
  <2>1. \A d \in Operators : d # o => ~InFlight(d)
    BY <1>4, OneInFlight DEF Owns
  <2> QED BY <1>1, <1>2, <1>4, <2>1, StartTypes, OpeningSwitched
<1> QED BY <1>1, <1>3, <1>4

\* Recovery finds no attempt in flight, and none that owns the freeze.
LEMMA Deserted ==
  ASSUME Switched, RecoverLive = FALSE, Recoverable
  PROVE  \A d \in Operators : ~InFlight(d) /\ (Owns(d) => op[d].pc = "idle")
<1>1. ASSUME NEW d \in Operators PROVE Owns(d) => op[d].pc = "idle"
  BY DEF Recoverable, Owns
<1>2. ASSUME NEW d \in Operators, InFlight(d) PROVE FALSE
  BY <1>1, <1>2, OneInFlight DEF Owns, InFlight
<1> QED BY <1>1, <1>2

LEMMA RecoverSwitched ==
  ASSUME Switched, Gated', RecoverLive = FALSE, Recover
  PROVE  Switched'
<1>1. Recoverable /\ freeze' = Opened /\ UNCHANGED <<route, receipts, op, orders>>
  BY DEF Recover
<1> QED BY <1>1, Deserted, OpeningSwitched

LEMMA RestoreSimulationSwitched ==
  ASSUME Switched, Gated', RecoverLive = FALSE, RestoreSimulation
  PROVE  Switched'
<1>1. /\ Gated /\ Recoverable /\ (freeze' = freeze \/ freeze' = Opened)
      /\ UNCHANGED <<receipts, op, orders>> /\ ~ \E i \in Intents : Blocking(i)
  BY DEF RestoreSimulation, Drained, Switched
<1>2. \A i \in Intents : orders[i].status # "working"
  BY <1>1, NothingWorks
<1>3. ASSUME NEW i \in Intents PROVE CurrentOK(i)'
  BY <1>1, <1>2 DEF CurrentOK
<1>4. ASSUME NEW d \in Operators PROVE AttemptOK(d)'
  <2>1. ~InFlight(d) /\ (Owns(d) => op[d].pc = "idle")
    BY <1>1, Deserted
  <2>2. Owns(d)' => Owns(d)
    BY <1>1, FreezeTypes DEF Owns
  <2> QED BY <1>1, <2>1, <2>2 DEF AttemptOK, InFlight
<1> QED BY <1>3, <1>4 DEF Switched

LEMMA InstallSwitched ==
  ASSUME Switched, Gated', NEW target \in Targets, Install(target)
  PROVE  Switched'
<1>1. /\ Gated /\ ~Installed /\ ~freeze.on /\ UNCHANGED <<freeze, receipts, op, orders>>
  BY OperatorFacts DEF Install, Switched, FreezeOK
<1>2. ASSUME NEW i \in Intents PROVE CurrentOK(i)'
  BY <1>1 DEF Switched, CurrentOK
<1>3. ASSUME NEW d \in Operators PROVE AttemptOK(d)'
  <2>1. ~Owns(d) /\ ~InFlight(d)
    BY <1>1, OneInFlight DEF Owns
  <2> QED BY <1>1, <2>1 DEF AttemptOK, InFlight, Owns
<1> QED BY <1>2, <1>3 DEF Switched

\* Every step keeps what a switch relies on, if recovery spares living attempts.
LEMMA SwitchedStep ==
  ASSUME RecoverLive = FALSE
  PROVE  Switched /\ [Next]_vars => Switched'
<1> SUFFICES ASSUME Switched, [Next]_vars PROVE Switched'
  OBVIOUS
<1>0. Gated'
  BY GatedStep DEF Switched
<1>1. ASSUME NEW target \in Targets, Install(target) PROVE Switched'
  BY <1>0, <1>1, InstallSwitched
<1>2. ASSUME NEW s \in Submitters,
             \/ \E account \in Accounts : GrantWrite(s, account) \/ Validate(s, account)
             \/ \E cycle \in Cycles : Bind(s, cycle)
             \/ RevokeGrant(s) \/ BindRoute(s) \/ RecordIssuance(s) \/ EnterGate(s) \/ Leave(s) \/ Crash(s)
      PROVE  Switched'
  <2>1. UNCHANGED <<route, freeze, receipts, op, orders>>
    BY <1>2 DEF GrantWrite, Validate, Bind, RevokeGrant, BindRoute, RecordIssuance, EnterGate,
                Leave, Crash, registry
  <2> QED BY <1>0, <2>1, MemorySwitched
<1>3. ASSUME NEW s \in Submitters, Reserve(s) \/ RecordResult(s) PROVE Switched'
  <2>1. Current(s) \in Intents
    BY <1>3, Inside DEF Reserve, RecordResult, Switched
  <2> QED BY <1>0, <1>3, <2>1, ReceiptSwitched
<1>4. ASSUME NEW s \in Submitters, NEW i \in Intents, Poll(s, i) PROVE Switched'
  BY <1>0, <1>4, ReceiptSwitched
<1>5. ASSUME NEW s \in Submitters, PlaceOrder(s) \/ OrderFails(s) PROVE Switched'
  BY <1>0, <1>5, SendSwitched
<1>6. ASSUME NEW i \in Intents, Settle(i) PROVE Switched'
  BY <1>0, <1>6, SettleSwitched
<1>7. ASSUME NEW o \in Operators,
             \/ \E target \in Targets : Decide(o, target)
             \/ Begin(o) \/ CrashSwitch(o)
      PROVE  Switched'
  BY <1>0, <1>7, QuietSwitched
<1>8. ASSUME NEW o \in Operators, DrainReceipts(o) \/ DrainIssuance(o) \/ StepFails(o) \/ Abort(o)
      PROVE  Switched'
  BY <1>0, <1>8, DrainSwitched
<1>9. ASSUME NEW o \in Operators, Freeze(o) \/ Bump(o) \/ Open(o) \/ Release(o) PROVE Switched'
  BY <1>0, <1>9, FreezeSwitched, BumpSwitched, OpenSwitched, ReleaseSwitched
<1>10. CASE Recover \/ RestoreSimulation
  BY <1>0, <1>10, RecoverSwitched, RestoreSimulationSwitched
<1>11. CASE UNCHANGED vars
  BY <1>0, <1>11, MemorySwitched DEF vars
<1> QED
  BY <1>1, <1>2, <1>3, <1>4, <1>5, <1>6, <1>7, <1>8, <1>9, <1>10, <1>11 DEF Next

\* What switches rely on holds, if recovery spares living attempts.
THEOREM SwitchInvariance ==
  ASSUME RecoverLive = FALSE
  PROVE  Spec => []Switched
<1>1. Switched /\ [Next]_vars => Switched'
  BY SwitchedStep
<1> QED BY <1>1, InitSwitched, PTL DEF Spec

\* No interleaving of traders, switches, crashes, recoveries and failed reads
\* leaves an order working under a grant that is no longer the active
\* authority's, or in another account.
THEOREM OrdersAreCurrent ==
  ASSUME RecoverLive = FALSE
  PROVE  Spec => []WorkingOrdersAreCurrent
<1>1. Switched => WorkingOrdersAreCurrent
  BY DEF Switched, CurrentOK, WorkingOrdersAreCurrent
<1> QED BY <1>1, SwitchInvariance, PTL

\* If reads of the registry do not fail, no order works on an authorization of
\* another generation: only a failed read lets one past the comparison.
THEOREM AuthorizationsAreCurrentIfRead ==
  ASSUME RecoverLive = FALSE, ReadsFail = FALSE
  PROVE  Spec => []AuthorizationsAreCurrent
<1>1. Switched => AuthorizationsAreCurrent
  BY DEF Switched, CurrentOK, AuthorizationsAreCurrent
<1> QED BY <1>1, SwitchInvariance, PTL

\* What the drain inspected is still so when the generation moves.
THEOREM DrainsHold ==
  ASSUME RecoverLive = FALSE
  PROVE  Spec => []DrainHolds
<1>1. Switched => DrainHolds
  BY DEF Switched, AttemptOK, Drainless, DrainHolds
<1> QED BY <1>1, SwitchInvariance, PTL

\* One attempt at a time holds the freeze, from its freeze to its opening.
THEOREM FreezesAreHeld ==
  ASSUME RecoverLive = FALSE
  PROVE  Spec => []FreezeHeld
<1>1. Switched => FreezeHeld
  BY DEF Switched, AttemptOK, FreezeHeld
<1> QED BY <1>1, SwitchInvariance, PTL

\* An aborted attempt reopens submissions only in the generation it froze.
THEOREM AbortsKeepGeneration ==
  ASSUME RecoverLive = FALSE
  PROVE  Spec => AbortKeepsGeneration
<1>1. Switched /\ [Next]_vars =>
        [\A o \in Operators : Release(o) /\ freeze.on /\ ~freeze'.on => route.gen = freeze.from]_vars
  <2>1. ASSUME Switched, NEW o \in Operators, Release(o), freeze.on, ~freeze'.on
        PROVE  route.gen = freeze.from
    <3>1. op[o].pc = "release" /\ (freeze' = freeze \/ Owns(o)) /\ AttemptOK(o)
      BY <2>1 DEF Release, Switched
    <3> QED BY <2>1, <3>1 DEF AttemptOK
  <2> QED BY <2>1
<1> QED BY <1>1, SwitchInvariance, PTL DEF Spec, AbortKeepsGeneration

-----------------------------------------------------------------------------
(* The registry and the protocol implement WriteAuthority. *)

SentOrders == {i \in Intents : orders[i].status # "none"}

WorkingOrders == {i \in Intents : orders[i].status = "working"}

LEMMA InitAuthority == Init => Authorization!Init
BY StartTypes DEF Init, Authorization!Init

\* What a step of a process or the broker is to the authority, when it touches
\* no order.
LEMMA SameAuthority ==
  ASSUME UNCHANGED <<route, freeze, orders>>
  PROVE  UNCHANGED Authorization!authorityVars
BY DEF Authorization!authorityVars

LEMMA SendImplements ==
  ASSUME Switched, NEW s \in Submitters, sub[s].pc = "reserved", orders' = Placed(s),
         UNCHANGED <<route, freeze>>
  PROVE  \E i \in Intents : Authorization!Send(i)
<1>1. PICK i \in Intents : i = Current(s)
  BY Inside DEF Switched
<1>2. /\ ~freeze.on /\ route.gen > 0
      /\ orders[i].status = "none" /\ orders'[i].status = "working"
      /\ \A j \in Intents : j # i => orders'[j] = orders[j]
  <2>1. orders[i].status = "none"
    BY <1>1, SubFacts DEF SubOK, Switched
  <2>2. Gated /\ orders \in [Intents -> OrderType]
    BY Types DEF Switched, Gated
  <2>3. PICK order \in OrderType : Placed(s) = [orders EXCEPT ![i] = order] /\ order.status = "working"
    BY <1>1, <2>2, SentOrder
  <2> QED BY <2>1, <2>2, <2>3, SendsCurrent DEF Installed
<1>3. SentOrders' = SentOrders \union {i} /\ WorkingOrders' = WorkingOrders \union {i}
      /\ i \notin SentOrders
  BY <1>2 DEF SentOrders, WorkingOrders
<1> QED BY <1>1, <1>2, <1>3 DEF Authorization!Send, SentOrders, WorkingOrders

LEMMA SettleImplements ==
  ASSUME Switched, NEW i \in Intents, Settle(i)
  PROVE  Authorization!Settle(i)
<1>1. PICK status \in {"filled", "cancelled"} : orders' = [orders EXCEPT ![i].status = status]
  BY DEF Settle
<1>2. orders \in [Intents -> OrderType] /\ orders[i] \in OrderType /\ orders[i].status = "working"
      /\ UNCHANGED <<route, freeze>>
  BY Types DEF Gated, Switched, Settle, registry
<1>3. orders'[i].status = status /\ \A j \in Intents : j # i => orders'[j] = orders[j]
  BY <1>1, <1>2 DEF OrderType
<1>4. SentOrders' = SentOrders /\ WorkingOrders' = WorkingOrders \ {i} /\ i \in WorkingOrders
  BY <1>2, <1>3 DEF SentOrders, WorkingOrders
<1> QED BY <1>2, <1>4 DEF Authorization!Settle, SentOrders, WorkingOrders

\* Freezing and opening.
LEMMA GateImplements ==
  ASSUME Switched, Installed, freeze'.on <=> ~freeze.on, UNCHANGED <<route, orders>>
  PROVE  Authorization!CloseOrOpen
<1>1. route.gen > 0
  BY DEF Installed
<1> QED BY <1>1 DEF Authorization!CloseOrOpen

LEMMA OpeningImplements ==
  ASSUME Switched, UNCHANGED <<route, orders>>, freeze.on, freeze' = Opened
  PROVE  Authorization!CloseOrOpen
<1>1. ~freeze'.on /\ Installed
  BY FreezeTypes, OperatorFacts DEF Switched, FreezeOK
<1> QED BY <1>1, GateImplements

\* The next authority: the first, a switch's, or a recovery's.
LEMMA AdvanceImplements ==
  ASSUME Switched, UNCHANGED orders, route'.gen = route.gen + 1,
         \A i \in Intents : orders[i].status # "working",
         route.gen = 0 => ~freeze.on, route.gen # 0 => freeze.on,
         freeze' = freeze \/ freeze' = Opened
  PROVE  Authorization!Advance
<1>1. ~Opened.on /\ freeze.on \in BOOLEAN
  BY FreezeTypes, OperatorFacts DEF Switched, FreezeType
<1>2. WorkingOrders = {} /\ WorkingOrders' = {}
  BY DEF WorkingOrders
<1>3. (~freeze'.on) \in {~freeze.on, TRUE}
  BY <1>1
<1> QED BY <1>2, <1>3 DEF Authorization!Advance, WorkingOrders

LEMMA StepImplements ==
  ASSUME RecoverLive = FALSE
  PROVE  Switched /\ [Next]_vars => [Authorization!Next]_(Authorization!authorityVars)
<1> SUFFICES ASSUME Switched, [Next]_vars
             PROVE  [Authorization!Next]_(Authorization!authorityVars)
  OBVIOUS
<1>0. Gated
  BY DEF Switched
<1>1. ASSUME UNCHANGED <<route, freeze, orders>> PROVE [Authorization!Next]_(Authorization!authorityVars)
  BY <1>1, SameAuthority
<1>2. ASSUME Authorization!CloseOrOpen \/ Authorization!Advance
      PROVE  [Authorization!Next]_(Authorization!authorityVars)
  BY <1>2 DEF Authorization!Next
<1>3. ASSUME NEW target \in Targets, Install(target)
      PROVE  [Authorization!Next]_(Authorization!authorityVars)
  <2>1. route'.gen = 1 /\ route.gen = 0 /\ ~freeze.on /\ UNCHANGED <<freeze, orders>>
    BY <1>0, <1>3, NewAuthority, OperatorFacts DEF Install, Installed, FreezeOK
  <2>2. \A i \in Intents : orders[i].status # "working"
    BY <2>1 DEF Switched, CurrentOK, Installed
  <2> QED BY <1>2, <2>1, <2>2, AdvanceImplements
<1>4. ASSUME NEW s \in Submitters,
             \/ \E account \in Accounts : GrantWrite(s, account) \/ Validate(s, account)
             \/ \E cycle \in Cycles : Bind(s, cycle)
             \/ RevokeGrant(s) \/ BindRoute(s) \/ RecordIssuance(s) \/ EnterGate(s) \/ Leave(s) \/ Crash(s)
             \/ Reserve(s) \/ RecordResult(s)
             \/ \E i \in Intents : Poll(s, i)
      PROVE  [Authorization!Next]_(Authorization!authorityVars)
  <2>1. UNCHANGED <<route, freeze, orders>>
    BY <1>4 DEF GrantWrite, Validate, Bind, RevokeGrant, BindRoute, RecordIssuance, EnterGate,
                Leave, Crash, Reserve, RecordResult, Poll, registry
  <2> QED BY <1>1, <2>1
<1>5. ASSUME NEW s \in Submitters, PlaceOrder(s) \/ OrderFails(s)
      PROVE  [Authorization!Next]_(Authorization!authorityVars)
  <2>1. /\ UNCHANGED <<route, freeze>>
        /\ orders' = orders \/ (sub[s].pc = "reserved" /\ orders' = Placed(s))
    BY <1>5 DEF PlaceOrder, OrderFails, registry
  <2>2. CASE sub[s].pc = "reserved" /\ orders' = Placed(s)
    <3>1. \E i \in Intents : Authorization!Send(i)
      BY <2>1, <2>2, SendImplements
    <3> QED BY <3>1 DEF Authorization!Next
  <2> QED BY <1>1, <2>1, <2>2
<1>6. ASSUME NEW i \in Intents, Settle(i) PROVE [Authorization!Next]_(Authorization!authorityVars)
  BY <1>6, SettleImplements DEF Authorization!Next
<1>7. ASSUME NEW o \in Operators,
             \/ \E target \in Targets : Decide(o, target)
             \/ Begin(o) \/ DrainReceipts(o) \/ DrainIssuance(o) \/ StepFails(o) \/ Abort(o) \/ CrashSwitch(o)
      PROVE  [Authorization!Next]_(Authorization!authorityVars)
  <2>1. UNCHANGED <<route, freeze, orders>>
    BY <1>7 DEF Decide, Begin, DrainReceipts, DrainIssuance, StepFails, Abort, CrashSwitch, registry
  <2> QED BY <1>1, <2>1
<1>8. ASSUME NEW o \in Operators, Freeze(o) PROVE [Authorization!Next]_(Authorization!authorityVars)
  <2>1. UNCHANGED <<route, orders>> /\ op[o].pc = "freeze"
    BY <1>8 DEF Freeze
  <2>2. CASE Freezable(o)
    <3>1. ~freeze.on /\ freeze'.on /\ route.gen = op[o].from
      BY <1>8, <2>2, <1>0, FreezeTypes DEF Freeze, Freezable
    <3>2. Installed
      BY <1>0, <2>1, <3>1, OperatorFacts DEF FreezeOK, Installed
    <3> QED BY <1>2, <2>1, <3>1, <3>2, GateImplements
  <2>3. CASE ~Freezable(o)
    BY <1>1, <1>8, <2>1, <2>3 DEF Freeze
  <2> QED BY <2>2, <2>3
<1>9. ASSUME NEW o \in Operators, Bump(o) PROVE [Authorization!Next]_(Authorization!authorityVars)
  <2>1. /\ AttemptOK(o) /\ op[o].pc = "bump" /\ UNCHANGED <<freeze, orders>>
        /\ op[o].from \in Nat /\ op[o].from # 0 /\ op[o].target \in Targets
    BY <1>0, <1>9, OperatorFacts DEF Bump, Switched, FreezeOK
  <2>2. /\ route.gen = op[o].from /\ freeze.on
        /\ \A i \in Intents : orders[i].status # "working"
    BY <2>1 DEF AttemptOK, InFlight, Owns, Drainless
  <2>3. route'.gen = route.gen + 1
    BY <1>9, <2>1, <2>2, NewAuthority DEF Bump, SwitchRoute
  <2> QED BY <1>2, <2>1, <2>2, <2>3, AdvanceImplements
<1>10. ASSUME NEW o \in Operators, Open(o) \/ Release(o)
       PROVE  [Authorization!Next]_(Authorization!authorityVars)
  <2>1. UNCHANGED <<route, orders>> /\ (freeze' = freeze \/ (freeze.on /\ freeze' = Opened))
    BY <1>10 DEF Open, Release, Owns
  <2> QED BY <1>1, <1>2, <2>1, OpeningImplements
<1>11. CASE Recover
  <2>1. UNCHANGED <<route, orders>> /\ freeze.on /\ freeze' = Opened
    BY <1>11 DEF Recover, Recoverable
  <2> QED BY <1>2, <2>1, OpeningImplements
<1>12. CASE RestoreSimulation
  <2>1. /\ freeze.on /\ (freeze' = freeze \/ freeze' = Opened) /\ UNCHANGED orders
        /\ \A i \in Intents : orders[i].status # "working"
        /\ freeze.from \in Nat /\ Installed
    BY <1>0, <1>12, NothingWorks, OperatorFacts
    DEF RestoreSimulation, Recoverable, Drained, FreezeType, FreezeOK
  <2>2. CASE route.gen = freeze.from
    <3>1. route'.gen = route.gen + 1
      BY <1>12, <2>1, <2>2, NewAuthority, RouteAssumption DEF RestoreSimulation, SwitchRoute
    <3> QED BY <1>2, <2>1, <3>1, AdvanceImplements DEF Installed
  <2>3. CASE route.gen # freeze.from
    <3>1. route' = route
      BY <1>12, <2>3 DEF RestoreSimulation
    <3> QED BY <1>1, <1>2, <2>1, <3>1, OpeningImplements
  <2> QED BY <2>2, <2>3
<1>13. CASE UNCHANGED vars
  BY <1>1, <1>13 DEF vars
<1> QED
  BY <1>3, <1>4, <1>5, <1>6, <1>7, <1>8, <1>9, <1>10, <1>11, <1>12, <1>13 DEF Next

\* Registry, lock, gate and switch implement the write authority: orders go out
\* only while submissions are open, each intent at most once, and the authority
\* moves only while submissions are closed and nothing works.
THEOREM ImplementsAuthority ==
  ASSUME RecoverLive = FALSE
  PROVE  Spec => AuthoritySpec
<1>1. Switched /\ [Next]_vars => [Authorization!Next]_(Authorization!authorityVars)
  BY StepImplements
<1> QED
  BY <1>1, InitAuthority, SwitchInvariance, PTL DEF Spec, AuthoritySpec, Authorization!Spec
=============================================================================
