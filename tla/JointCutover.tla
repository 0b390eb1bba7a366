---------------------------- MODULE JointCutover ----------------------------
(***************************************************************************)
(* The joint coordinator (workflow/joint_cutover.py) on top of the         *)
(* schedule ledger: a batch moves the scoped routes, which are rows of the *)
(* cutover database, and the owners of the same scopes, which are rows of  *)
(* the schedule ledger.  The two databases commit separately; the journal  *)
(* of the batch keeps its scopes closed until both have moved.             *)
(*                                                                         *)
(* execute is a program of many transactions that may stop after any of    *)
(* them (a gate refuses, an authority drifted, the process dies) and be    *)
(* run again by anybody, also while the first run is only slow.  What it   *)
(* read before a transaction it carries in job.                            *)
(*                                                                         *)
(* A route belongs to an identity (a consumer with its contract and its    *)
(* window), a schedule to the scope of the identity; several identities    *)
(* share a scope, and the members of a batch may have different routes.    *)
(*                                                                         *)
(* The workflow is one that moves with this protocol only, in production:  *)
(* the light path and the drills are in ScheduleRuntime.                   *)
(***************************************************************************)
EXTENDS ScheduleRuntime

CONSTANTS
  Batches,
  NoBatch,
  Coordinators,
  Identities,
  ScopeOfIdentity,
  Requests,     \* what a batch may ask for: [routes, dispositions]
  NoScope

RouteNames == {"legacy", "target", "disabled"}

ASSUME JointAssumption ==
  /\ NoBatch \notin Batches /\ NoScope \notin Rows
  /\ {"legacy", "dispatcher"} \subseteq Owners
  /\ ScopeOfIdentity \in [Identities -> Scopes]
  /\ \A r \in Requests :
       /\ \E M \in (SUBSET Identities) \ {{}} : r.routes \in [M -> RouteNames]
       /\ \E D \in SUBSET Keys : r.dispositions \in [D -> Kinds]

VARIABLES
  ops,        \* joint_cutover_operations with the pinned requests
  routes,     \* scoped_cutover_routes of the schedule boundary, by identity
  frozenBy,   \* the batch in the reason of the freeze of a scope
  job         \* the runs of execute

joint == <<ops, routes, frozenBy, job>>

jvars == <<vars, joint>>

Nobody == [pc |-> "idle", batch |-> NoBatch, todo |-> {}, scope |-> NoScope, token |-> 0]

NoOp == [state |-> "none"]

JInit ==
  /\ Init
  /\ ~isolated
  /\ \A s \in Scopes : owners[s].owner = "legacy" /\ owners[s].generation = 1
  /\ ops = [b \in Batches |-> NoOp]
  /\ routes = [i \in Identities |-> [route |-> "legacy", generation |-> 0]]
  /\ frozenBy = [s \in Scopes |-> NoBatch]
  /\ job = [c \in Coordinators |-> Nobody]

-----------------------------------------------------------------------------

IdentitiesOf(s) == {i \in Identities : ScopeOfIdentity[i] = s}

Members(request) == DOMAIN request.routes

\* The scopes of the schedules: those of the members, neither more nor fewer.
ScopesOf(request) == {ScopeOfIdentity[i] : i \in Members(request)}

Covering(s, journal) ==
  {b \in Batches : journal[b].state # "none" /\ s \in ScopesOf(journal[b].request)}

\* assert_schedule_open: an uncommitted batch of the scope, or a batch of the
\* scope with a member, of this scope or another, whose route is disabled now.
Closed(journal, table) ==
  {s \in Scopes : \E b \in Covering(s, journal) :
     \/ journal[b].state = "prepared"
     \/ \E i \in Members(journal[b].request) : table[i].route = "disabled"}

\* Mutants: the owner is called what a route is called; one target is enough.
RouteAsOwner(request) == request.routes[CHOOSE i \in Members(request) : TRUE]

OwnerByAny(request) ==
  IF \E i \in Members(request) : request.routes[i] = "target" THEN "dispatcher" ELSE "legacy"

\* The owner that every schedule of the batch gets.
ToOwner(request) ==
  IF \A i \in Members(request) : request.routes[i] = "target" THEN "dispatcher" ELSE "legacy"

\* The ledger as the batch expects it, before and after its own hand-over.
Before(b, s) == owners[s].generation = ops[b].generation[s] /\ owners[s].owner = ops[b].from[s]

AfterOwner(b, s) ==
  owners[s].generation = ops[b].generation[s] + 1 /\ owners[s].owner = ToOwner(ops[b].request)

After(b, s) == AfterOwner(b, s) /\ owners[s].token = 0

RouteBefore(b, i) == routes[i].generation = ops[b].routeGeneration[i]

RouteAfter(b, i) ==
  /\ routes[i].generation = ops[b].routeGeneration[i] + 1
  /\ routes[i].route = ops[b].request.routes[i]

Begin(c, b, scopes) ==
  job' = [job EXCEPT ![c] = [ pc |-> "freeze", batch |-> b, todo |-> scopes, scope |-> NoScope,
                              token |-> 0 ]]

Overlaps(request) ==
  \E b \in Batches :
    ops[b].state = "prepared" /\ ScopesOf(ops[b].request) \cap ScopesOf(request) # {}

\* The journal pins the request and the generations it was written for.
Prepare(c, b, request) ==
  /\ job[c].pc = "idle" /\ ops[b].state = "none"
  /\ ~Overlaps(request)
  /\ \A s \in ScopesOf(request) : owners[s].generation # 0 /\ owners[s].token = 0
  /\ ops' = [ops EXCEPT ![b] =
       [ state |-> "prepared", request |-> request,
         from |-> [s \in ScopesOf(request) |-> owners[s].owner],
         generation |-> [s \in ScopesOf(request) |-> owners[s].generation],
         routeGeneration |-> [i \in Members(request) |-> routes[i].generation] ]]
  /\ fenced' = Closed(ops', routes)
  /\ Begin(c, b, ScopesOf(request))
  /\ UNCHANGED <<isolated, ledger, work, routes, frozenBy>>

\* The identical request again: every authority is where it was, or where the
\* batch has already taken it.
Resume(c, b) ==
  /\ job[c].pc = "idle" /\ ops[b].state = "prepared"
  /\ \A i \in Members(ops[b].request) : RouteBefore(b, i) \/ RouteAfter(b, i)
  /\ \A s \in ScopesOf(ops[b].request) : Before(b, s) \/ AfterOwner(b, s)
  /\ Begin(c, b, ScopesOf(ops[b].request))
  /\ UNCHANGED <<vars, ops, routes, frozenBy>>

\* A gate refuses, an authority drifted, an exception, a death.
Stop(c) ==
  /\ job[c].pc # "idle"
  /\ job' = [job EXCEPT ![c] = Nobody]
  /\ UNCHANGED <<vars, ops, routes, frozenBy>>

Done(c, s, pc) ==
  job' = [job EXCEPT ![c] = [ pc |-> pc, batch |-> job[c].batch, todo |-> job[c].todo \ {s},
                              scope |-> NoScope, token |-> 0 ]]

Chosen(c, s, pc) ==
  job' = [job EXCEPT ![c] = [ pc |-> pc, batch |-> job[c].batch, todo |-> job[c].todo,
                              scope |-> s, token |-> owners[s].token ]]

\* The state of a scope is read before it is frozen: done already, frozen by an
\* earlier run of this batch, or to be frozen.  Anything else is drift.
ReadForFreeze(c, s) ==
  LET b == job[c].batch IN
  /\ job[c].pc = "freeze" /\ s \in job[c].todo
  /\ \/ After(b, s) /\ Done(c, s, "freeze")
     \/ Before(b, s) /\ owners[s].token # 0 /\ frozenBy[s] = b /\ Done(c, s, "freeze")
     \/ Before(b, s) /\ owners[s].token = 0 /\ Chosen(c, s, "freezing")
  /\ UNCHANGED <<vars, ops, routes, frozenBy>>

\* Mutant: a scope that was frozen since it was read is frozen again.
FreezeAgain(c) ==
  LET s == job[c].scope IN
  /\ job[c].pc = "freezing" /\ Unlocked /\ tokens < MaxFreezes
  /\ tokens' = tokens + 1
  /\ owners' = [owners EXCEPT ![s].token = tokens + 1]
  /\ frozenBy' = [frozenBy EXCEPT ![s] = job[c].batch]
  /\ Done(c, s, "freeze")
  /\ UNCHANGED <<isolated, claims, history, results, writer, work, fenced, ops, routes>>

FreezeScope(c) ==
  LET s == job[c].scope IN
  /\ job[c].pc = "freezing"
  /\ Freeze(s)
  /\ frozenBy' = [frozenBy EXCEPT ![s] = job[c].batch]
  /\ Done(c, s, "freeze")
  /\ UNCHANGED <<ops, routes>>

\* All routes of the batch move in one transaction of the cutover database.
WriteRoutes(c) ==
  LET b == job[c].batch  M == Members(ops[b].request) IN
  /\ job[c].pc = "freeze" /\ job[c].todo = {}
  /\ \A i \in M : RouteBefore(b, i) \/ RouteAfter(b, i)
  /\ routes' = [i \in Identities |->
       IF i \in M
         THEN [route |-> ops[b].request.routes[i], generation |-> ops[b].routeGeneration[i] + 1]
         ELSE routes[i]]
  /\ fenced' = Closed(ops, routes')
  /\ job' = [job EXCEPT ![c].pc = "handover", ![c].todo = ScopesOf(ops[b].request)]
  /\ UNCHANGED <<isolated, ledger, work, ops, frozenBy>>

\* The token that is handed over is whatever the scope is frozen with now.
ReadForHandover(c, s) ==
  LET b == job[c].batch IN
  /\ job[c].pc = "handover" /\ s \in job[c].todo
  /\ \/ After(b, s) /\ Done(c, s, "handover")
     \/ ~After(b, s) /\ Chosen(c, s, "handing")
  /\ UNCHANGED <<vars, ops, routes, frozenBy>>

Pinned(request, s) ==
  [k \in DOMAIN request.dispositions \cap KeysOf(s) |-> request.dispositions[k]]

HandOverScope(c) ==
  LET b == job[c].batch  s == job[c].scope IN
  /\ job[c].pc = "handing"
  /\ Handover(s, job[c].token, ToOwner(ops[b].request), Pinned(ops[b].request, s))
  /\ Done(c, s, "handover")
  /\ UNCHANGED <<ops, routes, frozenBy>>

\* The ledger is read inside the transaction of the cutover database that
\* releases the batch, and may still move before that commits.
Releasable(b) == \A s \in ScopesOf(ops[b].request) : After(b, s)

ReadForRelease(c) ==
  /\ job[c].pc = "handover" /\ job[c].todo = {}
  /\ Releasable(job[c].batch)
  /\ job' = [job EXCEPT ![c].pc = "releasing"]
  /\ UNCHANGED <<vars, ops, routes, frozenBy>>

Release(c) ==
  LET b == job[c].batch IN
  /\ job[c].pc = "releasing"
  /\ \A i \in Members(ops[b].request) : RouteAfter(b, i)
  /\ ops' = [ops EXCEPT ![b].state = "committed"]
  /\ fenced' = Closed(ops', routes)
  /\ job' = [job EXCEPT ![c] = Nobody]
  /\ UNCHANGED <<isolated, ledger, work, routes, frozenBy>>

CoordinatorStep ==
  \E c \in Coordinators :
    \/ \E b \in Batches, r \in Requests : Prepare(c, b, r)
    \/ \E b \in Batches : Resume(c, b)
    \/ Stop(c)
    \/ \E s \in Scopes : ReadForFreeze(c, s) \/ ReadForHandover(c, s)
    \/ FreezeScope(c) \/ WriteRoutes(c) \/ HandOverScope(c)
    \/ ReadForRelease(c) \/ Release(c)

JNext ==
  \/ AttemptStep /\ UNCHANGED joint
  \/ CoordinatorStep

JSpec == JInit /\ [][JNext]_jvars

-----------------------------------------------------------------------------
(* Properties. *)

\* A batch with its pinned request.
OpType(r) ==
  [ state : {"prepared", "committed"}, request : {r}, from : [ScopesOf(r) -> Owners],
    generation : [ScopesOf(r) -> Nat], routeGeneration : [Members(r) -> Nat] ]

JobType ==
  [ pc : {"idle", "freeze", "freezing", "handover", "handing", "releasing"},
    batch : Batches \union {NoBatch}, todo : SUBSET Scopes, scope : Scopes \union {NoScope},
    token : Nat ]

\* Types; and the fence is what the journal and the routes say.
JTypeOK ==
  /\ TypeOK
  /\ fenced = Closed(ops, routes)
  /\ ops = [b \in Batches |-> ops[b]]
  /\ \A b \in Batches : ops[b] # NoOp => \E r \in Requests : ops[b] \in OpType(r)
  /\ routes \in [Identities -> [route : RouteNames, generation : Nat]]
  /\ frozenBy \in [Scopes -> Batches \union {NoBatch}]
  /\ job \in [Coordinators -> JobType]

Pending(s) == \E b \in Covering(s, ops) : ops[b].state = "prepared"

\* The dispatcher owns no scope without a target route: whatever mixture of
\* routes a batch asks for, whichever identities share the scope, whichever
\* steps of two runs of execute were made and whatever they had read before,
\* once no batch keeps a scope closed.  (Not so for three: a freeze and a
\* hand-over that are both late can undo each other; see the README.)
ReleasedFollows ==
  \A s \in Scopes : ~Pending(s) /\ owners[s].owner = "dispatcher" =>
    \E i \in IdentitiesOf(s) : routes[i].route = "target"

\* No half migration is ever runnable: a route is the target where the
\* dispatcher owns the scope and nowhere else, once no batch keeps it closed.
\* True of batches that are all target or not at all, as "owner and schedule
\* route disagree" in _validate seems to demand; not of those it lets through.
ReleasedAgree ==
  \A s \in Scopes : \A i \in IdentitiesOf(s) :
    ~Pending(s) => (routes[i].route = "target" <=> owners[s].owner = "dispatcher")

\* The coordinator is a caller of the ledger: every step of a run of execute,
\* whatever it carries from earlier, is a step of ScheduleRuntime.
RuntimeSpec == Spec
=============================================================================
