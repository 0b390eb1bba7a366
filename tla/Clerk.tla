------------------------------- MODULE Clerk -------------------------------
(***************************************************************************)
(* The daily reconciliation of the trade ledger: execution/clerk.py and    *)
(* the command `ats journal reconcile`, both over trader/reconcile.py.     *)
(*                                                                         *)
(* A run reads the broker twice without any transaction, records the       *)
(* executions it read (fills), reads the rows of the ledger (trades), and  *)
(* then writes those rows in one transaction, by what it read.  Between    *)
(* its steps the market moves, the trader saves rows, other runs write,    *)
(* the day ends, and the run may die.  A clerk run has a row of its own    *)
(* for its window, the day; the standalone command has none.               *)
(*                                                                         *)
(* An execution is one share of an order: Qty of them fill it.             *)
(***************************************************************************)
EXTENDS Naturals, FiniteSets

CONSTANTS
  Orders,     \* intents that reach the broker, each placed once
  Clerks,     \* processes of `ats clerk run`
  Journals,   \* processes of `ats journal reconcile`
  SameId,     \* groups of orders of one symbol that got one order_id: TWS was
              \* restarted in between, and began its sequence again
  Qty         \* the quantity of every order

ASSUME ClerkAssumption ==
  /\ IsFiniteSet(Orders)
  /\ SameId \subseteq SUBSET Orders
  /\ \A g, h \in SameId : g = h \/ g \intersect h = {}
  /\ Clerks \intersect Journals = {}
  /\ Qty \in Nat \ {0}

VARIABLES
  book,     \* the broker's orders: [done, live]
  shown,    \* the executions the broker still returns
  trades,   \* rows of trades: [status, filled, basis, age]
  fills,    \* rows of fills, by exec_id
  window,   \* today's row of clerk_runs: "completed", or "open" (none, running, failed)
  runs      \* the processes

vars == <<book, shown, trades, fills, window, runs>>

Procs == Clerks \union Journals

Execs == Orders \X (1 .. Qty)

\* The orders that cannot be told from this one by order_id and symbol.
Namesakes(o) == {o} \union UNION {group \in SameId : o \in group}

\* The broker's terminal states, as _map_status has them (a rejection, too,
\* is "cancelled" here: the ledger treats the two alike).
Ended == {"filled", "cancelled"}

Statuses == Ended \union {"none", "submitted", "partial", "expired", "error"}

\* No report of any order.
Nothing == [o \in Orders |-> "none"]

NoTrade == [status |-> "none", filled |-> 0, basis |-> "none", age |-> 0]

Idle == [pc |-> "idle", today |-> FALSE,
         got |-> {}, to |-> [o \in Orders |-> o], reports |-> Nothing, open |-> {}]

Init ==
  /\ book = [o \in Orders |-> [done |-> 0, live |-> "none"]]
  /\ shown = {}
  /\ trades = [o \in Orders |-> NoTrade]
  /\ fills = {}
  /\ window = "open"
  /\ runs = [p \in Procs |-> Idle]

-----------------------------------------------------------------------------
(* The market, the trader and the calendar. *)

\* The order reaches the broker; its row is saved later (persist).
Place(o) ==
  /\ book[o].live = "none" /\ trades[o].status = "none"
  /\ book' = [book EXCEPT ![o].live = "working"]
  /\ UNCHANGED <<shown, trades, fills, window, runs>>

Execute(o) ==
  /\ book[o].live = "working" /\ book[o].done < Qty
  /\ book' = [book EXCEPT ![o].done = @ + 1]
  /\ shown' = shown \union {<<o, book[o].done + 1>>}
  /\ UNCHANGED <<trades, fills, window, runs>>

\* What is left of the order is cancelled, or a DAY order meets the close.
Withdraw(o) ==
  /\ book[o].live = "working" /\ book[o].done < Qty
  /\ book' = [book EXCEPT ![o].live = "withdrawn"]
  /\ UNCHANGED <<shown, trades, fills, window, runs>>

\* Mutant: the broker's own word for the state is taken over unmapped.
BrokerStatusVerbatim(o) ==
  IF book[o].done = Qty THEN "filled" ELSE book[o].live

\* The status of the broker's order; it calls a partly filled one submitted.
BrokerStatus(o) ==
  CASE book[o].done = Qty -> "filled"
    [] book[o].done < Qty /\ book[o].live = "withdrawn" -> "cancelled"
    [] OTHER -> "submitted"

\* The trader saves the status its poll saw, and the order's identities; or an
\* error, whether or not the order reached the broker, and none of them.
Save(o) ==
  /\ trades[o].status = "none"
  /\ \E s \in {"error"} \union (IF book[o].live = "none" THEN {} ELSE {BrokerStatus(o)}) :
       trades' = [trades EXCEPT ![o].status = s]
  /\ UNCHANGED <<book, shown, fills, window, runs>>

\* The performance snapshot and the decision graph record fills as well,
\* and leave their attribution to the next reconciliation.
CollectFills ==
  /\ ~ shown \subseteq fills
  /\ fills' = fills \union shown
  /\ UNCHANGED <<book, shown, trades, window, runs>>

\* Another day: another window, and the broker returns the executions of the
\* days before no more, unless it is set to keep them.
NextDay ==
  /\ shown' \in {{}, shown}
  /\ trades' = [o \in Orders |->
                  [trades[o] EXCEPT !.age = IF trades[o].status # "none" /\ @ < 2 THEN @ + 1 ELSE @]]
  /\ window' = "open"
  /\ runs' = [p \in Procs |-> [runs[p] EXCEPT !.today = FALSE]]
  /\ UNCHANGED <<book, fills>>

-----------------------------------------------------------------------------
(* One run. *)

Moves(p, pc) == runs' = [runs EXCEPT ![p].pc = pc]

\* Reconciliation is over; what it read is no longer used.
Returns(p) == runs' = [runs EXCEPT ![p] = [Idle EXCEPT !.pc = "finish", !.today = runs[p].today]]

\* The run is over: completed, or failed, which leaves its window open.
Ends(p, status) ==
  /\ window' = IF runs[p].today THEN status ELSE window
  /\ runs' = [runs EXCEPT ![p] = Idle]

\* A window that is completed is not run again.  The look at its row and
\* the write of it (Register) are two statements.  A dry run completes its
\* window too, and writes as little as one that finds no broker.
Begin(p) ==
  /\ p \in Clerks /\ runs[p].pc = "idle" /\ window # "completed"
  /\ runs' = [runs EXCEPT ![p] = [Idle EXCEPT !.pc = "register", !.today = TRUE]]
  /\ UNCHANGED <<book, shown, trades, fills, window>>

Register(p) ==
  /\ runs[p].pc = "register"
  /\ window' = IF runs[p].today THEN "open" ELSE window
  /\ Moves(p, "fills")
  /\ UNCHANGED <<book, shown, trades, fills>>

\* The standalone command goes to the broker at once.  (Its dry run writes
\* nothing at all.)
Start(p) ==
  /\ p \in Journals /\ runs[p].pc = "idle"
  /\ runs' = [runs EXCEPT ![p] = [Idle EXCEPT !.pc = "fills"]]
  /\ UNCHANGED <<book, shown, trades, fills, window>>

ReadFills(p) ==
  /\ runs[p].pc = "fills"
  /\ runs' = [runs EXCEPT ![p].pc = "orders", ![p].got = shown]
  /\ UNCHANGED <<book, shown, trades, fills, window>>

\* completed_orders: orders of the session, the working ones among them.
ReadOrders(p) ==
  /\ runs[p].pc = "orders"
  /\ \E seen \in SUBSET {o \in Orders : book[o].live # "none"} :
       runs' = [runs EXCEPT ![p].pc = "record",
                            ![p].reports = [o \in Orders |-> IF o \in seen THEN BrokerStatus(o) ELSE "none"]]
  /\ UNCHANGED <<book, shown, trades, fills, window>>

\* The broker cannot be reached: an entry in the summary, not a failure.
BrokerUnavailable(p) ==
  /\ runs[p].pc \in {"fills", "orders"}
  /\ Returns(p)
  /\ UNCHANGED <<book, shown, trades, fills, window>>

\* The order has a row, and the row has its order_ref and ids.
Known(o) == trades[o].status \notin {"none", "error"}

\* The row an order's executions go to (_match): its own by order_ref; for want
\* of that a namesake's, if their days are near enough; else none.
Matches(o) ==
  {o} \union IF Known(o) THEN {} ELSE {n \in Namesakes(o) : Known(n)}

\* The order whose report a row goes by: its own; failing that any namesake's
\* that was reported, of whatever day.
Reporting(p, o) ==
  LET reported == {n \in Namesakes(o) : runs[p].reports[n] # "none"}
  IN IF o \in reported \/ reported = {} THEN {o} ELSE reported

\* upsert_fills, a transaction of its own; then the rows are read, and with
\* them is settled what the run goes by: the executions that have a row, the
\* reports on rows that may still change, the rows in flight.
RecordFills(p) ==
  /\ runs[p].pc = "record"
  /\ fills' = fills \union runs[p].got
  /\ \E to, from \in [Orders -> Orders] :
       /\ \A o \in Orders : to[o] \in Matches(o) /\ from[o] \in Reporting(p, o)
       /\ runs' = [runs EXCEPT
            ![p].pc = "apply",
            ![p].to = to,
            ![p].got = {e \in @ : Known(to[e[1]])},
            ![p].reports = [o \in Orders |-> IF trades[o].status \in {"submitted", "partial"}
                                               THEN @[from[o]] ELSE "none"],
            ![p].open = {o \in Orders : trades[o].status = "submitted"}]
  /\ UNCHANGED <<book, shown, trades, window>>

\* The shares that the executions which go to a row add up to.
Shares(p, o) == Cardinality({e \in runs[p].got : runs[p].to[e[1]] = o})

\* Mutant: the executions are added to what is booked already.
BookedOnTop(p, o, row) ==
  IF Shares(p, o) > 0
    THEN [row EXCEPT !.filled = @ + Shares(p, o), !.basis = "broker",
                     !.status = IF row.filled + Shares(p, o) >= Qty THEN "filled" ELSE "partial"]
    ELSE row

\* Mutant: an execution is taken for the whole order.
BookedBySight(p, o, row) ==
  IF Shares(p, o) > 0
    THEN [row EXCEPT !.filled = Shares(p, o), !.basis = "broker", !.status = "filled"]
    ELSE row

\* 1. The executions replace the quantity and the status of their order.
Booked(p, o, row) ==
  IF Shares(p, o) > 0
    THEN [row EXCEPT !.filled = Shares(p, o), !.basis = "broker",
                     !.status = IF Shares(p, o) >= Qty THEN "filled" ELSE "partial"]
    ELSE row

\* 2. So does a reported status, terminal or not, of a row that was not.
Resolved(p, o, row) ==
  IF runs[p].reports[o] # "none"
    THEN [row EXCEPT !.status = runs[p].reports[o], !.basis = "broker"]
    ELSE row

\* Mutant: only the orders of one day are looked at.
ExpiresThatDay(p, o) == o \in runs[p].open /\ trades[o].age = 1

\* 3. A row that was in flight when it was read and is older than a day expires.
Expires(p, o) == o \in runs[p].open /\ trades[o].age = 2

Inferred(p, o, row) ==
  IF Expires(p, o) THEN [row EXCEPT !.status = "expired", !.basis = "inferred"] ELSE row

\* A row after the first of these statements.
Written(p, o, statements) ==
  LET booked   == IF statements >= 1 THEN Booked(p, o, trades[o]) ELSE trades[o]
      resolved == IF statements >= 2 THEN Resolved(p, o, booked) ELSE booked
  IN IF statements = 3 THEN Inferred(p, o, resolved) ELSE resolved

\* All of it is one transaction, by rows that were read before it.
Apply(p) ==
  /\ runs[p].pc = "apply"
  /\ trades' = [o \in Orders |-> Written(p, o, 3)]
  /\ Returns(p)
  /\ UNCHANGED <<book, shown, fills, window>>

\* The step raises (a locked database).  The clerk does not roll back what it
\* has written till then, statement by statement over the rows, and commits it
\* with its other steps, which are run all the same and leave this state alone.
\* The standalone command ends, and with it the transaction.
StepRaises(p) ==
  /\ runs[p].pc \in {"record", "apply"}
  /\ \/ trades' = trades
     \/ /\ p \in Clerks /\ runs[p].pc = "apply"
        /\ \E done \in [Orders -> 0 .. 3] :
             /\ \A o, n \in Orders : done[o] <= done[n] + 1
             /\ trades' = [o \in Orders |-> Written(p, o, done[o])]
  /\ Ends(p, "open")
  /\ UNCHANGED <<book, shown, fills>>

\* One of the other steps may raise.
Finish(p) ==
  /\ runs[p].pc = "finish"
  /\ Ends(p, "completed") \/ Ends(p, "open")
  /\ UNCHANGED <<book, shown, trades, fills>>

\* Death, or a guard that refuses the rest: the window stays open.
Die(p) ==
  /\ runs[p].pc # "idle"
  /\ runs' = [runs EXCEPT ![p] = Idle]
  /\ UNCHANGED <<book, shown, trades, fills, window>>

-----------------------------------------------------------------------------
RunStep(p) ==
  \/ Register(p)
  \/ ReadFills(p) \/ ReadOrders(p) \/ BrokerUnavailable(p)
  \/ RecordFills(p) \/ Apply(p) \/ StepRaises(p)
  \/ Finish(p) \/ Die(p)

Next ==
  \/ \E o \in Orders : Place(o) \/ Execute(o) \/ Withdraw(o) \/ Save(o)
  \/ CollectFills \/ NextDay
  \/ \E p \in Procs : Begin(p) \/ Start(p) \/ RunStep(p)

Spec == Init /\ [][Next]_vars

\* Days pass, the clerk is run again and again, a run goes on, and neither
\* the broker's absence nor a death meets the same step of it for ever.
FairSpec ==
  /\ Spec
  /\ WF_vars(NextDay)
  /\ \A p \in Clerks :
       /\ WF_vars(Begin(p))
       /\ WF_vars(RunStep(p))
       /\ SF_vars(Register(p))
       /\ SF_vars(ReadFills(p))
       /\ SF_vars(ReadOrders(p))
       /\ SF_vars(RecordFills(p))
       /\ SF_vars(Apply(p))

-----------------------------------------------------------------------------
(* Properties. *)

TradeType == [status : Statuses, filled : Nat, basis : {"none", "broker", "inferred"}, age : 0 .. 2]

RunType ==
  [pc : {"idle", "register", "fills", "orders", "record", "apply", "finish"},
   today : BOOLEAN, got : SUBSET Execs, to : [Orders -> Orders],
   reports : [Orders -> Ended \union {"none", "submitted"}], open : SUBSET Orders]

\* Every row and every run has its type.
TypeOK ==
  /\ book \in [Orders -> [done : 0 .. Qty, live : {"none", "working", "withdrawn"}]]
  /\ shown \subseteq Execs /\ fills \subseteq Execs
  /\ trades \in [Orders -> TradeType]
  /\ window \in {"open", "completed"}
  /\ runs \in [Procs -> RunType]

\* However often the same executions are returned, by whichever runs at once
\* and after whichever death or half-done step, a row is booked with no more
\* than the ledger has recorded of its order, or of the orders that cannot be
\* told from it (reconcile: idempotent, no double booking).
NoDoubleBooking ==
  \A o \in Orders : trades[o].filled <= Cardinality({e \in fills : e[1] \in Namesakes(o)})

\* What has been executed of an order and its namesakes.
Executed(o) == {e \in Execs : e[1] \in Namesakes(o) /\ e[2] <= book[e[1]].done}

\* A terminal status that claims the broker for its basis is the broker's word
\* on an order of that order_id and symbol, however old what the run read has
\* become; an inference says that it is one (reconcile: terminal_basis).
BasisHolds ==
  \A o \in Orders :
    /\ trades[o].status = "filled" => Qty <= Cardinality(Executed(o))
    /\ trades[o].status = "cancelled" => \E n \in Namesakes(o) : book[n].live = "withdrawn"
    /\ trades[o].status = "expired" <=> trades[o].basis = "inferred"

\* No order stays in flight in the ledger: a later day's run settles it, even
\* if the broker was away, the run died, or the window was completed by a run
\* that saw nothing (reconcile and the rule that a window is reused).
OrdersSettle ==
  \A o \in Orders : trades[o].status = "submitted" ~> trades[o].status # "submitted"

\* What the docstring calls not optional, and the code leaves out where it
\* resolves rows by reports: an order is reported cancelled if it was, and not
\* because one of another session was (reconcile: "an unscoped join will
\* eventually match a completely unrelated order from another day").
CancellationIsOwn ==
  \A o \in Orders : trades[o].status = "cancelled" => book[o].live = "withdrawn"

\* Both terminal statuses of the broker are its word on that very order, where
\* no order_id is given twice.
BasisIsOwn ==
  /\ \A o \in Orders : trades[o].status = "filled" => book[o].done = Qty
  /\ CancellationIsOwn

\* What the documents say and the code does not keep: an order is inferred
\* to have expired only for want of evidence from the broker.
InferenceYields ==
  \A o \in Orders : trades[o].status = "expired" => trades[o].filled = 0
=============================================================================
