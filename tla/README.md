# A verification of the trading agents' decision, execution and workflow protocols

This directory holds TLA+ models of `auto_stock_trading_agents`, the TLC
configurations that check them and the TLAPS proofs about them.  Paths are
relative to the repository; the Python package is `src/ats`.  `PROJECT.json` is
the index: components, runs, mutants, the line-by-line map, findings, hazards and
theorems.

## 1. The system

A portfolio is managed by a pipeline of language-model agents.  What the agents
conclude is outside a model checker's reach; what surrounds them is not: an audit
store that must be able to explain every order, a graph of nodes that is
checkpointed and resumed by several processes, a human approval that arrives by
callback, a registry that decides which broker account may be written to, a
dispatcher and a ledger that decide which process may run and publish which
scheduled work, a daily reconciliation of the trade ledger with the broker, and
a durable queue that feeds the data the agents read.

| component | state | operations | modelled in |
|---|---|---|---|
| decision audit store (`decision/repository.py`, `decision/state.py`) | SQLite tables: cycle status, revisions, risk reviews, approvals, transition events | create a cycle, append a revision, record a review or an approval (both INSERT OR IGNORE on an identity), transition with an idempotency key, admit a callback | `DecisionAudit` |
| decision graph (`graph/chief.py`, `graph/chief_state.py`) | the checkpointed `ChiefDecisionState` | nine nodes and their conditional edges, the approval interrupt, resume | `ChiefCycle` |
| trade executor (`trader/execute.py`), simulated broker (`execution/simulation.py`), price binding (`data/execution_prices.py`) | saved trades, submission receipts, orders at the broker | authorization check, price check, submission loop | `ChiefCycle` |
| approval channels and webhook (`runtime/server.py`, `channel/feishu_*.py`) | cards and links in the Boss's hands | send a card, receive a tap, admit it, resume the graph | `ChiefCycle` |
| execution authorization (`execution/authorization.py`) | none of its own; derived from the audit store, bound to a route | derive, check freshness, bind to the active route | `DecisionAudit`, `ChiefCycle`, `RouteSwitch` |
| route registry (`execution/route_registry.py`), authority lock (`execution/route_arbitration.py`) | active route and generation, freeze, issuance counter, submission receipts; a cross-process `flock` | install, freeze, compare-and-set bump, open, abort, count an issuance, reserve and settle a receipt | `RouteSwitch`, `WriteAuthority` |
| route switch (`execution/route_switch.py`) | an attempt in a process, its token | perform_switch, its failure paths, recovery, restoring the simulation | `RouteSwitch`, `WriteAuthority` |
| write guard (`execution/broker_write_guard.py`), IBKR writes (`broker/ibkr.py`) | a process's write grant, its session, the lock held through a batch | grant, revoke, check, submission gate, place, record, poll | `RouteSwitch` |
| persistent data queue (`data/persistent_queue.py`) | task rows with leases and attempts, worker runs with a child process and a heartbeat thread | enqueue, claim (with reaping), heartbeat, finish, cancel, run_one, the lease check before a write | `PersistentQueue` |
| schedule runtime and ownership (`workflow/schedule_runtime.py`) | who owns a scope, in which generation; claims of logical triggers with their leases | claim, resume, publish under the guard, complete, fail, finalize, freeze, hand over, switch a whole workflow | `ScheduleRuntime` |
| joint cutover (`workflow/joint_cutover.py`) | a journal of batches over routes (one database) and schedule owners (another) | prepare, execute, resume, the barrier that keeps a scope closed | `JointCutover` |
| workflow dispatcher (`workflow/dispatcher.py`, `workflow/triggers.py`, `workflow/store.py`) | trigger, run and attempt rows; threads of a pool; what a call remembers | claim a trigger under a lease, execute the plan, time out, retry, take over, write off, reuse, compensate, supersede | `Dispatch` |
| clerk and reconciliation (`execution/clerk.py`, `trader/reconcile.py`) | rows of trades and fills, the window of a clerk run | run a window, read the broker, record, attribute, book, resolve, expire | `Clerk` |
| data refresh (`data/refresh.py`) | projections with vintages | refresh and publish | not modelled, see section 9 |
| research analysts, providers, CLI, reports, cutover tooling | | | not modelled, see section 9 |

**How they interact.**  A CLI run or a webhook process drives the graph.  Each
graph node writes to the audit store in transactions of its own; its output is
checkpointed only when it ends.  At the approval interrupt the process sends a
card (or asks at the terminal) and returns; a tap on the card reaches
`runtime/server.py`, which asks the audit store whether to admit it and resumes
the graph in another process.  The trader derives an authorization from the audit
store, binds it to the active route, and hands orders to the broker, which
consults the write grant of its process, the route registry and the authority
lock.  Operators switch routes in processes of their own.  Independently,
producers enqueue data work, workers claim it under a lease and run it in child
processes, and a newly published projection may supersede what a waiting cycle
had frozen.  Schedules (cron, the CLI, events) bring logical triggers to the
dispatcher; every task attempt claims its trigger in the schedule ledger and
publishes only under that claim, while operators or the joint coordinator hand
the scopes over from the legacy processes to the dispatcher and back.  Once a day
the clerk reads the broker and settles the rows the trader left in flight.

**Which behaviours are hard.**  Deaths between two transactions of one node and
the replay that follows; duplicate, late and cross-round callbacks; the three
loops back to the risk gate; authority that is checked in one transaction and
used in another while an operator freezes, drains and bumps; A to B to A; orders
whose fate nobody saw; leases that lapse under a run that is still going on; work
that runs outside every transaction while its scope is handed over; a publication
that spans two databases; timed-out threads that go on; two coordinators working
off the same journal; reconciliation by rows that were read before the booking.
`PROJECT.json` lists each under "hazards" at its line, with the properties that
would catch it, or the reason why none does.

**What makes each part correct.**

* Audit store and graph: every order at the broker can be traced to one revision
  that was reviewed and approved; once an order is out nothing else is slipped
  behind it; a closed cycle is final; the loop is bounded; every run returns.
* Route authority: a working order was sent under the authority that is active
  now; an order that may be working blocks the drain; what was drained does not
  change before the bump; the freeze belongs to one attempt.
* Schedule ledger: one attempt at most may publish for a trigger; its results come
  from one lease; an unfinished claim belongs to whoever owns the scope now.
* Joint cutover: it does to the ledger only what an operator may do, and the owner
  of a scope that may run follows its routes.
* Dispatcher: what is reported complete is backed by projections of every task;
  the first result of a run stands; a dispatch returns.
* Clerk: nothing is booked twice, a status is worth the basis it claims, and no
  order stays in flight for ever.
* Data queue: a task is settled once, by its last attempt, and every task is
  settled.

## 2. The modules

    ApprovalChain      what the decision chain promises           (abstract)
      ^ refined by
    ChiefCycle         the graph, its processes, the Boss, the broker
      EXTENDS DecisionAudit   the audit store: operators on one record `db`
    ChiefCycleProofs   theorems about ChiefCycle: types, traceability
    ChiefChainProofs   the rest of them, the refinement included

    WriteAuthority     what the route authority promises          (abstract)
      ^ refined by
    RouteSwitch        registry, lock, grants, gate, switch, recovery
    RouteSwitchProofs         theorems about RouteSwitch, the refinement included

    ScheduleRuntime    the schedule ledger, attempts, operators
    ScheduleRuntimeProofs     theorems about ScheduleRuntime
      ^ refined by
    JointCutover       EXTENDS ScheduleRuntime with journal, routes, coordinators
    JointCutoverProofs        the refinement, what follows from it, routes and owners

    Dispatch           trigger, run, attempts, threads, calls
    DispatchProofs            theorems about Dispatch

    PersistentQueue    the queue, the worker runs and their children, time
    PersistentQueueProofs     theorems about PersistentQueue

    Clerk              the clerk's windows and reconciliation, next to the market
    ClerkProofs               theorems about Clerk

    MCChiefCycle, MCRouteSwitch, MCPersistentQueue, MCScheduleRuntime,
    MCJointCutover, MCDispatch                        instances for TLC

Clerk needs no definitions for its constants and is run as it is.

### DecisionAudit and ChiefCycle

`DecisionAudit` has no variables: the store is a record and every repository
method is an operator from a store to a store (`AppendRevision`, `RecordReview`,
`RecordApproval`, `Transition`) or to an answer (`ValidateCallback`,
`EffectiveReview`, `Authorized`).  `current_revision_no` is the length of the
sequence of revisions, and a decision hash is the content itself.

`ChiefCycle` has one action per graph node.  A node's writes are a sequence of
stores; `Perform` is the disjunction of `Complete` (all writes made, the next
checkpoint written) and `Die` (some prefix of the writes made, the checkpoint
unchanged, no process driving).  An exception in a node is a death: the
checkpoint is the same.  A replay is simply the node's action taken again, which
is why idempotency keys matter.  Besides the nodes there are `AskBoss` and
`Suspend` (the interrupt, with the channel's card), `Return`, `Callback` (a tap,
any number of times, on any card ever sent), and two actions of the world:
`SnapshotAges` and `ResearchMoves`.

`cfg` is the invocation: deciding or not, executing or not, dry run, automatic
approval, the channel, the transport.

Deliberate abstractions: the mirror into the legacy tables, the journal and the
reports are left out; a per-entry save loop is one write; reviews are ordered by
the number of their round (the code orders by `created_at` and then by the text
of the id, which agrees below ten rounds, and `max_risk_rounds` is 3); the broker's
later fills are not modelled; the trader's authorization may be refused by the
environment at any time (`TraderRefuses`: changed research dependencies, missing
prices); a failure to write the approval row, which the code swallows, is one of
the outcomes of recording it.

### RouteSwitch

Registry operations under the authority lock are one action each, enabled while
nobody holds the lock.  A submission holds the lock over several actions
(`EnterGate`, `Reserve`, `PlaceOrder`, `RecordResult` or `OrderFails`, `Poll`,
`Leave`), each of which the process may die before or after.  Reads without the
lock (`BindRoute`, `Validate`) are actions too, so a whole switch can happen
between any two.  A switch attempt walks `begin, freeze, receipts, issuance,
bump, open`; any step may fail (`StepFails`) into `abort` and `release`, and its
process may die anywhere.  `Recover` and `RestoreSimulation` are the operator's
recovery entry points.  The environment of an authority is a function of its
account; the history table has no reader and no state here; `expected_generation`
is always supplied; the token of a freeze is the operator.  `ReadsFail` says
whether a lone read of the registry may fail in passing (a locked database): where
a failed read refuses, it is a stop like any other, and where `try_read_state`
makes a None of it, `Valid` goes without the comparison.  An order carries the
generation of its grant and that of its authorization, which then may differ.  `execute.place_orders`
does not reach IBKR while `AUTO_EXECUTION_ENABLED` is false; the write path is
modelled as the code has it, since the guard exists for the day it does.

### PersistentQueue

A run is one call of `run_one`, under a worker id nobody else has.  Queue
operations are single SQLite transactions and single actions: `Claim` (which
reaps every lapsed lease first), `ClaimNothing` (a claim that finds nothing has
reaped all the same), `Finish`, `Cancel`, `Enqueue`.  `HeartbeatFails` is the
heartbeat thread finding the lease gone; a successful heartbeat changes nothing.
The child process is a separate actor (`CheckLease`, `Persist`, `ChildExits`) and
goes on when its run dies.  There is no clock: `Lapse` may happen to any lease
whatever its holder is doing, because a machine can be suspended, and
`BackoffEnds` makes a waiting task ready.  `Forget` reuses the name of a dead run
that no row mentions, so that two names stand for unboundedly many runs, two at a
time.  Priorities are not modelled: any claimable task may be claimed, which also
covers callers that name a task.

### ScheduleRuntime

An attempt is one call of `execute`.  `Claim` (or a resumption) is one
transaction; the work itself is outside every transaction; `publication_guard`
holds the write lock of the ledger (`writer`) while the writer commits to Memory,
which is another database, so that "let through", "written" and "ledger
committed" are separate steps and a death fits between any two.  A failure is two
autocommitted statements, the status and the history event, and two steps.  The
operations of operators (`freeze`, `hand_over`, `owner_switch`) are one
transaction each.  `fenced` is the set of scopes that the joint coordinator
closes; it is part of this module because every entry asks for it, and moves
freely here: `JointCutover` says how.  The assertion of the fence and the commit
that follows it are one step; `expected_triggers`, `compare` and `observe` only
read.

### JointCutover

One variable for the journal, one for the routes, and the ledger's.  `execute` is
a program of many transactions over the two databases, walked by a coordinator
(`job`) that carries what it read before; a gate may refuse at any point, a run
may stop after any transaction, and anybody may run the batch again while the
first run is only slow.  A request is a map from identities, the members, to
routes: each member has a route of its own, several identities may share a scope,
the schedules are those of the members' scopes, and all of them get the one owner
that `ToOwner` computes as `_validate` demands it.  Of the six boundaries the model
has the one that schedules go by; members of the others are moved in the same
transaction and decide nothing here.  The module covers a workflow that moves with
this protocol only; the light path and the drills are in ScheduleRuntime.

### Dispatch

A call is one `TriggerService.dispatch`.  Its lease may be taken over at any time,
by another call that then works on the same rows, and a call that lost it goes on.
An attempt runs on a thread of the pool that survives the timeout which wrote its
attempt off.  Attempt rows are found by their number, and two calls may come to
share one.  Row statuses that nothing tells apart (failed, blocked, missing,
stale, cancelled) are one, "ended".  Of the schedule ledger a thread sees the
claim of its task; that the ledger itself keeps its word is ScheduleRuntime, and
no scope is handed over here.  A read scope that is closed when the call begins
ends its task unrestored, as attempt 1 (`CloseRead`); one that closes later is a
`Block` like any other.  The fence of `save_task_projection_envelope` applies to
stores of a task scope and envelopes with an attempt, which every adapter of a
Dispatcher has, so `Fence` has no other case.  `Compensate` reopens an incomplete run,
`SupersedeEvent` is the calendar replacing the event version.

### Clerk

An order's quantity is a number of shares, one execution each.  The broker
(`Place`, `Execute`, `Withdraw`) is external and moves at any time, also between
`get_fills` and `completed_orders` of one run.  `shown` is what the broker still
returns, which a new day may empty.  A run carries what it read; `RecordFills` is
`upsert_fills` and the reading of the rows that follows it, `Apply` the single
transaction of attribution, booking, resolution and expiry.  The three statements
of that transaction are operators from a row to a row (`Booked`, `Resolved`,
`Inferred`); `Written` composes them in the order of the code, and a step that
raises (`StepRaises`) leaves a prefix of them, which the clerk commits and the
standalone command does not.

`SameId` groups the orders of one symbol that got the same order_id because TWS was
restarted in between.  An execution goes to the row that has its order_ref or
perm_id; if its order has no row with one, to a namesake's, whose day may be near
enough (`Matches`).  A report resolves its own row; a row without one goes by any
namesake's, whatever its day (`Reporting`).  `CollectFills` stands for the
other writers of fills.  A window row that says running, failed or is missing is
"open": nothing tells them apart.  A dry run completes its window and writes
nothing else, as does one that finds no broker, so it is not an action of its own.

## 3. The runs

| run | checks | distinct states |
|---|---|---|
| `ChiefCycle_safety` | type invariant; `OrdersTraceable`, `AcceptedStaysCurrent`, `ApprovalAnswersReview`, `InterruptIsReviewed`, `EndIsTerminal`; `ClosedIsFinal`; refinement of `ApprovalChain`; `RunReturns` | 159,770 |
| `RouteSwitch_safety` | type invariant; `WorkingOrdersAreCurrent`, `WorkingOrdersBlock`, `DrainHolds`, `FreezeHeld`; `AbortKeepsGeneration`; refinement of `WriteAuthority` | 1,754,423 |
| `PersistentQueue_safety` | type invariant; `NeverStranded`, `OutcomeOfLastAttempt`; `SettledIsFinal`; `TaskSettles` | 615,792 |
| `ScheduleRuntime_safety` | type invariant; `UnfinishedIsCurrent`, `PublishedOnce`, `WriterIsCurrent`, `OneHolder`; `SettledStays` | 2.0 million |
| `JointCutover_safety` | type invariant; `ReleasedFollows`; refinement of ScheduleRuntime | 767,361 |
| `Dispatch_safety` | type invariant; `CompleteIsBacked`, `DependenciesFirst`, `SupersededStays`; `FirstResultStands` | 2.6 million |
| `Dispatch_returns` | `DispatchReturns` | 34,440 |
| `Clerk_safety` | type invariant; `NoDoubleBooking`, `BasisHolds`; `OrdersSettle` | 239,609 |
| `ChiefCycle_old_card`, `ChiefCycle_side_effects`, `ScheduleRuntime_live`, `Clerk_expiry` | one documented statement each, violated (section 6) | |

Every property of a passing run comes with a mutant: a plausible bug in one
mapped definition that the run catches.  The mutants stand next to the
definitions they replace, under a comment that begins with "Mutant".

**What the passing runs show.**  `OrdersTraceable` is the audit promise itself:
wherever processes die and however often cards are tapped, an order that the
broker accepted joins to a passed review and to an approval of the same revision.
`AcceptedStaysCurrent` excludes a later revision or review behind an order that
is out.  The refinement of `ApprovalChain` states both as a protocol: at most one
revision is executed per cycle, the clearance can be replaced only while nothing
has been submitted, nothing happens after closing.  For the routes,
`WorkingOrdersAreCurrent` says that no interleaving of two trading processes, two
operators, crashes, recoveries and failed reads leaves an order working under the
grant of an earlier authority or in another account (its authorization is another
matter: section 6), and `DrainHolds` that what the drain looked at is still so at the bump.
For the queue, `OutcomeOfLastAttempt` together with `SettledIsFinal` says a run
that was presumed dead can come back at any point and still not settle a task that
another run has taken.  For the schedule ledger, `OneHolder` and `PublishedOnce`
say that no mix of hand-overs, resumptions, switches and deaths between the two
databases lets two leases publish for one trigger.  The refinement of JointCutover
carries that over to a migration in progress.  `ReleasedFollows` adds that
the dispatcher owns no released scope without a target route, whatever mixture of
routes the batches ask for.  For the dispatcher,
`CompleteIsBacked` ties what is reported to what was published, whoever was late,
and `DependenciesFirst` keeps the order of publications when one call takes over
what another began.  For the clerk, a row is booked by what the ledger has recorded
of its order_id and symbol, however many runs book at once, and says no other than
an order of these came to.

**Bounds.**

* ChiefCycle: three contents (the original order and two later ones), two orders
  per revision (so that a batch can fail in the middle), three rounds (the
  configured `max_risk_rounds`), all the invocations in `MCChiefCycle`.  Retries
  by callback are unbounded.
* RouteSwitch: two routes to two accounts, two trading processes, two operators,
  one cycle with one order; `MaxGeneration` 2 and `MaxIssued` 2 bound the counters
  in the guards of `Decide`, `RestoreSimulation` and `RecordIssuance`.  Two
  operators are what the freeze has to tell apart, two traders what the lock has to
  exclude.  The way A to B to A needs a third generation: the theorems cover it.
* PersistentQueue: two tasks, two simultaneous runs (the original and the one that
  takes over, again and again), two attempts (so that there is a retry and a last
  attempt), a good outcome and a failure (the other good outcomes take the same
  path).
* ScheduleRuntime: one trigger in one scope, two attempts, two actors, three
  generations, two freezes.  A trigger is never touched on account of another one;
  two attempts are a worker and the one that takes over; three generations are
  there and back; the second freeze is one that fails or comes after the first.
* JointCutover: two scopes, one trigger, one attempt, two batches and two
  coordinators, three generations and three freezes.  There are three identities,
  two of which share a scope; the requests go there and back, overlap, mix routes,
  pin a disposition or leave it out.
* Dispatch: `_safety` has two calls, so that a lease can be taken over, and two
  tasks of which one depends on the other, so that what one call began the other
  finishes; one try and two attempt numbers, so that the attempt of the second call
  runs next to the timed-out thread of the first.  The trigger is an event, whose
  version may be replaced.  `_returns` has one call and the two tasks, two tries,
  on a pool of one thread, so that a timed-out thread keeps the next task and the
  retry waiting; a compensation; and both schedules and events.
* Clerk: one order of two shares, so that there are partial fills, and one clerk and
  one standalone reconciliation, so that two runs carry different reads.  Orders
  that have ids of their own do not interact.  Those that were given one order_id
  do (`SameId`), and two of them with two runs are more states than a run may take:
  they are left to the theorems, which hold for every `SameId`.

**Deadlock** is checked for ChiefCycle, RouteSwitch, PersistentQueue and Clerk.
`Rest` in ChiefCycle is the step of a system in which no process drives the graph
and nothing is pending, which is where the program normally is.  The runs of
ScheduleRuntime, JointCutover and Dispatch turn it off: attempts, calls and
batches are finitely many and may all have ended.

## 4. Fairness

* `ChiefCycle!FairSpec` is weak fairness of `GraphStep`: a process that is driving
  the graph takes its next step; for `AskBoss` this means a person at the terminal
  answers.  Nothing is assumed of callbacks, of the snapshot's age or of research.
  `RunReturns` then rests on the round counter alone.
* `PersistentQueue!FairSpec`: the worker is invoked again and again
  (`docs/data/STRUCTURED_DATA_OPERATIONS.md`: the managed environment processes
  queued tasks); a live run goes on, because its wait for the child has a timeout;
  the lease of a dead run lapses and a backoff ends, because time passes.  Nothing
  is assumed of children (an orphan may never end), of heartbeats, of crashes or
  of cancellation.
* `Dispatch!FairSpec` is weak fairness of the loop of a call that executes a plan:
  the process goes on.  Nothing is assumed of adapters or of threads: they may
  hang for ever.  `DispatchReturns` rests on the timeouts and the bound on tries.
* `Clerk!FairSpec`: days pass, the clerk is run again (daily, docs/ARCHITECTURE.md:475),
  a run goes on, and no step is met for ever by the broker's
  absence or a death (strong fairness of each of the run's steps).  `OrdersSettle`
  needs that much, since a run that never reaches the broker settles nothing.
* RouteSwitch, ScheduleRuntime and JointCutover have no liveness property: after a
  crash of a switch, of a worker or of a coordinator the scope stays closed until
  a person recovers, by design.

## 5. Proofs

Eight proof modules hold for every value of the constants.  They assume what the
modules assume of their constants (`ConstantsAssumption`, `QueueAssumption`,
`RouteAssumption` and so on); where a theorem assumes more it says so, in its
statement: `RecoverLive = FALSE` for switches of routes, with `ReadsFail = FALSE`
for `AuthorizationsAreCurrentIfRead`; at most two overlapping runs for
`TwoRunsFollow`, and for `TwoRunsAgree` also `Unmixed`; no reused order_id for
`OwnBasisStands`; and, for the theorems of the form
`Spec /\ [][~Event]_vars => ...`, that one kind of step never happens.  Theorems
that exclude the cause of a finding do not say the system is safe: they say that
this cause alone makes it unsafe.

**ChiefCycleProofs**: `TypeCorrect` and `Traceable` (`OrdersTraceable`).  Orders
are traceable because the trader submits only under `Authorized`, and reviews and
approvals are never deleted (`Grows`).  `RoundReviewed` (a graph at
`persist_decision` with orders has a verdict of this round unless its inputs were
invalidated) is what type correctness needs: `persist_decision` writes the
checkpointed verdict into the review row.  `SafeStep` captures what a step must
satisfy, with one lemma per action.

**ChiefChainProofs**: the invariants `InterruptIsReviewed`,
`ApprovalAnswersReview`, `EndIsTerminal`, `AcceptedStaysCurrent`, the action
property `ClosedIsFinal`, and the refinement of `ApprovalChain`
(`ImplementsChain`), for any number of contents, orders, rounds and invocations.
They hold for one reason: a process that dies leaves some prefix of a node's
writes in the store while the checkpoint stays where it was, and what that prefix
can be is known from the checkpoint.  `ChainInv` says it.  `AtNode` is what the
store may hold at each node: at `persist_decision` a review row of this round can
only come from an earlier try of the same node, so it carries the verdict that
the try at hand is about to write; at `boss_review` the cycle is pending approval
under a passed review.  `RowsAgree` relates the rows: an approval answers a passed
review of its own round, and a terminal key in the journal means a terminal
status, so that the idempotency key never swallows a close that is still to be
made.  `Sound` is their conjunction and is proved of every prefix of every node
(`Perform`, one lemma per node).  `AcceptedStaysCurrent` and the refinement rest on
`ClearedTakesNoCallback`: an authorized cycle has, under the one channel its
invocation records approvals on, the approval of the round that was answered, so
`validate_callback` calls every further tap handled and the trader is not driven
twice.  `EffectsAtMostOnce` is proved on the way: the side effects of closing a
cycle never happen twice.  That they happen is what finding 2 refutes.
`OnlyOldTapsMislead` bounds finding 1: as long as nobody taps a card of an earlier
round while the graph waits for the answer to another (`OldTap`), every approval was
given on the card of the revision and round it is recorded for.  Its invariant,
`CardInv`, says of the cards that are out that they are of an earlier round or the
current one, and of a verdict on its way that it answers the current one; the
operations of the store and the moves of the checkpoint that keep it are the lemmas
`OperationsUnanswered` and `PerformQuiet`.

**RouteSwitchProofs**: `RouteTypeCorrect` and `OrdersBlock` without any
assumption, from the invariant `Gated`: inside its submission gate a process holds
the lock, so nothing moves what it checked there.  With `RecoverLive = FALSE`,
`OrdersAreCurrent`, `DrainsHold`, `FreezesAreHeld`, `AbortsKeepGeneration` and the
refinement `ImplementsAuthority`, from `Switched`: an attempt in flight owns the
freeze, under a freeze nobody reserves a receipt, and so what its drain found
settled stays settled until the route moves.  The assumption is needed: an
operator who recovers a switch that is still running reopens submissions under it.
`OrdersAreCurrent` is about the grant and the account and holds whatever reads fail,
because every read the gate makes of them refuses when it fails.
`AuthorizationsAreCurrentIfRead` says the same of the authorization if none does,
and so bounds what a failed read can do.

**ScheduleRuntimeProofs**: the six properties of the run.  `OneHolder` is not
inductive; the invariant adds that an engaged attempt works in a generation not
ahead of the claim's, and in the claim's own only while nobody was told to take it
up (`EngagedClaimed`), and that one attempt at most does (`SoleEngaged`).
`OnlyLateErrorsVoid` bounds finding 3: as long as no attempt records its error
after another one has taken its trigger up (`LateError`), a switch of the workflow
spares every live attempt.  The invariant is that the last event of a trigger
somebody holds is not an error; a claim and a publication clear it, and only
`RecordError` sets it.

**JointCutoverProofs**: `Implements` (every step of the coordinator, whatever it
carries from earlier transactions, is a step of ScheduleRuntime or a stutter),
`JTypeCorrect`, and by the refinement `CutoverKeepsOneHolder`.  Then what the
refinement cannot give because the ledger knows no routes: that the owner of a
released scope follows its routes.  A scope is settled when no prepared batch keeps
it closed, or the one that does has been found moved and is about to be released; of
a settled scope owner and routes agree (`SettledAgree`), in the sense of `Agrees`:
the dispatcher owns it only with a target route, and if no batch mixes routes and no
identities share a scope (`Unmixed`), exactly with one.  To keep this through a
hand-over one has to know that where there is a token to hand over, the routes of
whoever may do it are in force (`InForce`, `TokensAgree`): the batch would still find
them as it wrote them.  The order in which the routes of the batches move (`Order`: a
batch that is prepared is the only one of its scopes, and every batch pins the route
generations it found) decides whose routes those are.  Only one step can break
`TokensAgree`, a freeze of a settled scope while a run whose routes are not in force
any more may still hand it over (`LateFreeze`).  `OnlyLateFreezesMislead` is the
theorem for any number of overlapping runs without such a step.  `TwoRunsFollow` and
`TwoRunsAgree` need no such hypothesis: a run becomes late only by another one
releasing its batch, so of two runs one at most is late, and a `LateFreeze` takes two
late ones, or a third that is releasing.

**DispatchProofs**: `TypeCorrect`, `CompleteHasProjections`, `PublishedInOrder`,
`SupersededEndsSo`, `ResultStands`.  Whatever cites a projection cites one that the
claim of its task refers to, and references are never taken back (`Kept`): a step
has to answer only for what it changes.

**PersistentQueueProofs**: `QueueTypeCorrect`, `Unstranded`, `LastAttempt` and
`Final`.  `Finish` records what the run carries, so the invariant adds that a run
carries only what its own child reported (`ReportBacked`), that the run a row is
leased to is the one of the row's current attempt (`HolderMatches`), and
`RunShape`.

**ClerkProofs**: `ClerkTypeCorrect`, `BookedOnce`, `BasisStands`, `OwnBasisStands`.  A run writes by
what it read long before; what saves it is that evidence does not expire: an
execution that was returned has happened, a terminal report stays true.
`Evidence` says so of all that is shown, recorded or carried, and `RecordedFirst`
that a run about to book has recorded what it books.  Both go by the namesakes of an
order, so that the theorems hold whichever order_ids were given twice; a step that
raises writes a prefix of what `Apply` writes, and each prefix keeps them.
`ExecsCount` bounds the executions of an order by an injection into an interval.
`OwnBasisStands` bounds what a reused id can do: without any, a row says what its own order
came to.

**Only model-checked**: liveness (`RunReturns`, `TaskSettles`, `DispatchReturns`,
`OrdersSettle`), which TLAPS does not do.  Every invariant, action property and
refinement that a passing run checks is also a theorem, `ReleasedFollows` for the
two overlapping runs the instance has, and the route
properties under `RecoverLive = FALSE` like the instance.

## 6. Findings

Each is a statement of the repository, checked as a property of the model and
violated by what the code does; `PROJECT.json` quotes the lines.

1. `ChiefCycle_old_card`: a card carries no review round and the bot's link not
   even a revision, so the message of an earlier round is taken as the fresh
   approval of a later one.  Nothing else does it: `OnlyOldTapsMislead`.
2. `ChiefCycle_side_effects`: a death between the terminal transition and its side
   effects loses them, because the replay sees the transition already made.  The
   other half of "exactly once" holds: they never happen twice
   (`EffectsAtMostOnce`).
3. `ScheduleRuntime_live`: `execute` records a failure in two statements; an
   attempt that resumes the failed claim in between is taken for dead by a switch
   of the workflow, because the late event is then the last of its history, and
   its claim is voided under it.  It is the only way: `OnlyLateErrorsVoid`.
4. `Clerk_expiry`: reconciliation expires rows by what it read before its own
   booking, so an order that executions were booked to a moment ago is overwritten
   as expired, by inference.

Behaviours that the models have and no run states:

* The check of an authorization against the active route is skipped when the
  registry cannot be read at that moment (`authorization.py` 189,
  `route_registry.py` 214-219), so an authorization of an earlier generation passes,
  although the comment above it (183-184) says that generation must still be active.
  It is the only way (`AuthorizationsAreCurrentIfRead`), and the order is under the
  current grant and in the current account all the same.
* A joint batch may route one identity to the target and another to legacy; all its
  schedules then stay with legacy (`joint_cutover.py` 221-230), and the coordinator
  releases a scope whose route and owner disagree.  The deployment command
  (`read_deployment.py`) cannot ask for such a batch, callers of the coordinator
  can.  `TwoRunsAgree` holds without such batches, `TwoRunsFollow` with them.
* A row that the broker's answer does not show by order_ref or perm_id is resolved
  by any report of the same order_id and symbol (`reconcile.py` 227-236), also of
  another session's order, although the docstring (26-28) calls the scoping by
  session date not optional: a working order may be recorded as cancelled, on the
  broker's basis.  `BasisStands` proves what is left, for every `SameId`; it takes a
  reused id (`OwnBasisStands`).
* The link of the group bot names a thread only: a tap on an old message may
  execute a revision it never showed (a case of finding 1).
* A death between the approval and the execution leaves a cycle that answers every
  further callback as handled and never finishes.
* An authorization can be counted between the drain's look at the issuance counter
  and the bump, and the switch is not void.  No order gets through:
  the authorization carries the old generation and is refused, and where a failed
  read lets it pass, the order is under the new grant (`WorkingOrdersAreCurrent`).
* Recovering a switch that is still running reopens submissions under it and
  breaks `DrainHolds`; hence `RecoverLive = FALSE`, the operator's care.
* A data lease is checked before a network fetch and not again before the writes.
* A worker of the dispatcher that lost its lease may still write the result of the
  run first; run and trigger may then disagree (incomplete and complete), which no
  reader reconciles.  A timed-out attempt that published all the same leaves its
  run incomplete until a compensation reuses the projection.
* Identities that share a scope also share its owner: two batches, one after the
  other, that move them to different routes leave the owner to the later one, and a
  late run of the earlier batch may take the scope back, since the hand-over
  (`joint_cutover.py` 638-645) does not compare the generation it was asked for.
* A read scope that is closed when a call takes over ends its task as attempt 1,
  leaves a running attempt of it running, and makes the run incomplete although a
  projection may be there.
* Dispositions of a joint batch are pinned at prepare and not validated against
  the claims of the day it is executed: a claim that appears in between can make
  the batch impossible to complete, and its scopes stay closed.
* The clerk: while IBKR reports a live order as submitted, `partial` is
  overwritten in the same run; a row that stays partial never expires; the booked
  quantity is the sum of the executions the broker returned this time and may fall
  when it returns fewer; an expired row is corrected by a later fill and not by a
  later cancellation; a dry run marks its window completed, so the real run of the
  day is skipped; a fill that was recorded, not attributed (a death, or the
  performance step's own recording) and is no longer returned is attributed by
  nobody, and no gap is registered for it either, because `last_reconcile_at` has
  moved past it.

## 7. Hazards without a property

They have no promise in the code to check, and `PROJECT.json` says so of each: a
thread that died after its approval; a receipt of an order that fills late stays
submitted; recovery of a switch that is still running.  Changed research at execution
is a refusal the environment may make at any time.  By design a resume that returns to
the interrupt sends no second card, and a switch whose process died waits for a person.

`ReleasedFollows` is checked with two coordinators and fails with three (and four
generations): a freeze and a hand-over that are both late, of two runs that stopped in
different places, undo what the third completed, because `joint_cutover.py` looks at
the state of the scope (576-578, 627-645) in another transaction than it changes it.
Three people running one batch at once is beyond what the tool is meant for.
`TwoRunsFollow` and `TwoRunsAgree` prove the properties for two, and
`OnlyLateFreezesMislead` names the step that breaks them for more.

## 8. Plan

Done: DecisionAudit, ChiefCycle, ApprovalChain, RouteSwitch, WriteAuthority,
PersistentQueue, ScheduleRuntime, JointCutover, Dispatch, Clerk, with proofs for
all of them and all three refinements proved.  Left, in this order:

1. The clerk's gaps and ledger exceptions (`execution/ledger.py`), with repeated
   attempts of one intent.
2. `DataRefresh` over the queue, so that `ResearchMoves` and the dependency check
   of the executor become the model's own.
3. The dispatcher daemon: scans, cool-downs, and the Chief snapshot gate.

## 9. Not modelled

* What the agents conclude, and how: any proposal may come out of the Chief.
* Network reads, parsing, prices as numbers: normalization may yield another
  content, a rejection or no change.  Most of the package is of this kind (data
  providers, parsers, products, reports), which is why the map covers a small part
  of its lines.
* Data refresh, the dispatcher daemon, ledger exceptions: section 8.
* `workflow/ownership.py` (which process a schedule is routed to) and
  `workflow/dispatch_claims.py` (retired, `run_owned_workflow` no longer calls it).
* `cancel_all`, the prohibition modes of shadow and isolated runs, route drills,
  live authorisation files and the evidence side of the cutover tooling: they read
  the state modelled here for human sign-off.
* Argument parsing, printing, reports, the journal, configuration.
* Signatures and tokens of callbacks.
