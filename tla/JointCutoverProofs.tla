------------------------- MODULE JointCutoverProofs -------------------------
(***************************************************************************)
(* JointCutover implements ScheduleRuntime, for every number of            *)
(* coordinators, batches and scopes: whatever a run of execute carries     *)
(* from earlier transactions, what it does to the ledger is what an        *)
(* operator may do.  So all that is proved of the ledger holds during a    *)
(* joint cutover as well.                                                  *)
(*                                                                         *)
(* And the owner of a scope that no batch keeps closed follows its routes: *)
(* for at most two overlapping runs of execute always, and for any number  *)
(* of them unless a late freeze meets a hand-over that is later.  Whatever *)
(* the batches ask for, the dispatcher owns no scope without a target      *)
(* route; if none is mixed and no two identities share a scope, it owns    *)
(* every scope with one.                                                   *)
(***************************************************************************)
EXTENDS JointCutover, ScheduleRuntimeProofs

\* A run of execute works on a batch that is in the journal, and on a scope.
JobShape ==
  \A c \in Coordinators :
    /\ job[c].pc # "idle" => job[c].batch \in Batches /\ ops[job[c].batch] # NoOp
    /\ job[c].pc \in {"freezing", "handing"} => job[c].scope \in Scopes

JInv == IInv /\ JTypeOK /\ JobShape

\* What JTypeOK says of the tables and of the runs of execute.
JTables ==
  /\ fenced = Closed(ops, routes)
  /\ ops = [b \in Batches |-> ops[b]]
  /\ \A b \in Batches : ops[b] # NoOp => \E r \in Requests : ops[b] \in OpType(r)
  /\ routes \in [Identities -> [route : RouteNames, generation : Nat]]
  /\ frozenBy \in [Scopes -> Batches \union {NoBatch}]
  /\ job \in [Coordinators -> JobType]

LEMMA JInvParts == JInv <=> IInv /\ JTables /\ JobShape
BY DEF JInv, JTypeOK, JTables, IInv

LEMMA JInitInv == JInit => Init /\ JInv
<1> SUFFICES ASSUME JInit PROVE Init /\ JInv
  OBVIOUS
<1>1. Init /\ IInv
  BY InitInv DEF JInit
<1>2. \A b \in Batches : ops[b] = NoOp /\ ops[b].state = "none"
  BY DEF JInit, NoOp
<1>3. /\ ops = [b \in Batches |-> ops[b]]
      /\ routes \in [Identities -> [route : RouteNames, generation : Nat]]
      /\ frozenBy \in [Scopes -> Batches \union {NoBatch}]
      /\ job \in [Coordinators -> JobType] /\ JobShape
  BY DEF JInit, RouteNames, JobType, JobShape, Nobody
<1>4. fenced = Closed(ops, routes)
  BY <1>2 DEF JInit, Init, Closed, Covering
<1> QED BY <1>1, <1>2, <1>3, <1>4, JInvParts DEF JTables

\* A request names identities, and the schedules of their scopes.
LEMMA RequestShape ==
  ASSUME NEW r \in Requests
  PROVE  /\ Members(r) \subseteq Identities /\ ScopesOf(r) \subseteq Scopes
         /\ \A i \in Members(r) : r.routes[i] \in RouteNames /\ ScopeOfIdentity[i] \in ScopesOf(r)
BY JointAssumption DEF Members, ScopesOf

\* What is known of a batch that is in the journal.
LEMMA BatchKnown ==
  ASSUME JInv, NEW c \in Coordinators, job[c].pc # "idle"
  PROVE  /\ job[c].batch \in Batches
         /\ \E r \in Requests : ops[job[c].batch] \in OpType(r)
         /\ ops[job[c].batch].request \in Requests
         /\ ScopesOf(ops[job[c].batch].request) \subseteq Scopes
<1>1. job[c].batch \in Batches /\ ops[job[c].batch] # NoOp
  BY DEF JInv, JobShape
<1>2. PICK r \in Requests : ops[job[c].batch] \in OpType(r)
  BY <1>1, JInvParts DEF JTables
<1>3. ops[job[c].batch].request = r
  BY <1>2 DEF OpType
<1> QED BY <1>1, <1>2, <1>3, RequestShape

\* The pinned dispositions of a scope are dispositions.
LEMMA PinnedKinds ==
  ASSUME NEW r \in Requests, NEW s \in Scopes, Covers(Pinned(r, s), s)
  PROVE  Pinned(r, s) \in [UnfinishedOf(s) -> Kinds]
<1>1. PICK D \in SUBSET Keys : r.dispositions \in [D -> Kinds]
  BY JointAssumption
<1>2. Pinned(r, s) = [k \in D \cap KeysOf(s) |-> r.dispositions[k]]
  BY <1>1 DEF Pinned
<1>3. D \cap KeysOf(s) = UnfinishedOf(s)
  BY <1>2 DEF Covers
<1> QED BY <1>1, <1>2, <1>3

\* What a run of execute does to the ledger, an operator may do.
LEMMA RuntimeStep == JInv /\ [JNext]_jvars => [Next]_vars
<1> SUFFICES ASSUME JInv, JNext PROVE [Next]_vars
  BY DEF jvars
<1>1. CASE AttemptStep
  BY <1>1 DEF Next
<1>2. ASSUME NEW c \in Coordinators,
             \/ \E b \in Batches : Resume(c, b)
             \/ Stop(c) \/ ReadForRelease(c)
             \/ \E s \in Scopes : ReadForFreeze(c, s) \/ ReadForHandover(c, s)
      PROVE  UNCHANGED vars
  BY <1>2 DEF Resume, Stop, ReadForRelease, ReadForFreeze, ReadForHandover
<1>3. \A journal, table : Closed(journal, table) \in SUBSET Scopes
  BY DEF Closed
<1>4. ASSUME NEW c \in Coordinators,
             (\E b \in Batches, r \in Requests : Prepare(c, b, r)) \/ WriteRoutes(c) \/ Release(c)
      PROVE  Next
  <2>1. CASE \E b \in Batches, r \in Requests : Prepare(c, b, r)
    BY <1>3, <2>1 DEF Prepare, FenceMoves, Next
  <2>2. CASE WriteRoutes(c)
    BY <1>3, <2>2 DEF WriteRoutes, FenceMoves, Next
  <2>3. CASE Release(c)
    BY <1>3, <2>3 DEF Release, FenceMoves, Next
  <2> QED BY <1>4, <2>1, <2>2, <2>3
<1>5. ASSUME NEW c \in Coordinators, FreezeScope(c)
      PROVE  Next
  <2>1. job[c].scope \in Scopes /\ Freeze(job[c].scope)
    BY <1>5 DEF FreezeScope, JInv, JobShape
  <2> QED BY <2>1 DEF Next, OperatorStep
<1>6. ASSUME NEW c \in Coordinators, HandOverScope(c)
      PROVE  Next
  <2> DEFINE s == job[c].scope
             r == ops[job[c].batch].request
  <2>1. s \in Scopes /\ r \in Requests /\ Handover(s, job[c].token, ToOwner(r), Pinned(r, s))
    BY <1>6, BatchKnown DEF HandOverScope, JInv, JobShape
  <2>2. ToOwner(r) \in Owners
    BY JointAssumption DEF ToOwner
  <2>3. job[c].token = owners[s].token /\ Covers(Pinned(r, s), s)
    BY <2>1 DEF Handover
  <2>4. Pinned(r, s) \in [UnfinishedOf(s) -> Kinds]
    BY <2>1, <2>3, PinnedKinds
  <2> HIDE DEF s, r
  <2> QED BY <2>1, <2>2, <2>3, <2>4 DEF Next, OperatorStep
<1> QED BY <1>1, <1>2, <1>4, <1>5, <1>6 DEF JNext, CoordinatorStep

-----------------------------------------------------------------------------
(* The tables of the coordinator. *)

\* An attempt touches no table of the coordinator, nor the fence.
LEMMA AttemptJoint == ASSUME JInv, AttemptStep, UNCHANGED joint PROVE JTables' /\ JobShape'
<1>1. UNCHANGED fenced
  BY DEF AttemptStep, Arrive, Claim, Skip, Refuse, Refused, EnterGuard, WriteResult, WriteReport,
         CommitPublication, RollBackPublication, Reuse, Complete, Raise, MarkFailed, RecordError,
         Crash, BeginFinalize, Finalize, ledger
<1> QED BY <1>1, JInvParts DEF joint, JTables, JobShape, Closed, Covering, JInv

\* A run goes on, or ends, and the tables stay.
LEMMA JobMoves ==
  ASSUME JInv, NEW c \in Coordinators, NEW j \in JobType,
         job' = [job EXCEPT ![c] = j],
         UNCHANGED <<fenced, ops, routes>>,
         frozenBy' \in [Scopes -> Batches \union {NoBatch}],
         j.pc # "idle" => j.batch \in Batches /\ ops[j.batch] # NoOp,
         j.pc \in {"freezing", "handing"} => j.scope \in Scopes
  PROVE  JTables' /\ JobShape'
<1>1. job \in [Coordinators -> JobType]
  BY JInvParts DEF JTables
<1>2. /\ job' \in [Coordinators -> JobType] /\ job'[c] = j
      /\ \A d \in Coordinators \ {c} : job'[d] = job[d]
  BY <1>1
<1>3. JTables'
  BY <1>2, JInvParts DEF JTables, Closed, Covering
<1>4. JobShape'
  BY <1>2 DEF JInv, JobShape
<1> QED BY <1>3, <1>4

LEMMA ReadsJoint ==
  ASSUME JInv, NEW c \in Coordinators, NEW s \in Scopes,
         ReadForFreeze(c, s) \/ ReadForHandover(c, s) \/ FreezeScope(c) \/ HandOverScope(c)
  PROVE  JTables' /\ JobShape'
<1>1. /\ job[c] \in JobType /\ job[c].pc # "idle"
      /\ job[c].batch \in Batches /\ ops[job[c].batch] # NoOp
      /\ job[c].pc \in {"freezing", "handing"} => job[c].scope \in Scopes
      /\ frozenBy \in [Scopes -> Batches \union {NoBatch}]
  BY JInvParts DEF JTables, JobShape, ReadForFreeze, ReadForHandover, FreezeScope, HandOverScope
<1>2. \A u \in Scopes : owners[u].token \in Nat
  BY DEF JInv, IInv, TypeOK, OwnerType, Rows
<1>3. UNCHANGED <<fenced, ops, routes>> /\ frozenBy' \in [Scopes -> Batches \union {NoBatch}]
  BY <1>1 DEF ReadForFreeze, ReadForHandover, FreezeScope, HandOverScope, Freeze, Handover, vars
<1>4. \A u \in Scopes, pc \in {"freeze", "handover"} : Done(c, u, pc) => JTables' /\ JobShape'
  <2> SUFFICES ASSUME NEW u \in Scopes, NEW pc \in {"freeze", "handover"}, Done(c, u, pc)
               PROVE  JTables' /\ JobShape'
    OBVIOUS
  <2> DEFINE j == [ pc |-> pc, batch |-> job[c].batch, todo |-> job[c].todo \ {u},
                    scope |-> NoScope, token |-> 0 ]
  <2>1. j \in JobType
    BY <1>1 DEF JobType
  <2>2. job' = [job EXCEPT ![c] = j]
    BY DEF Done
  <2>3. j.batch = job[c].batch /\ j.pc = pc
    OBVIOUS
  <2> HIDE DEF j
  <2> QED BY <1>1, <1>3, <2>1, <2>2, <2>3, JobMoves
<1>5. \A pc \in {"freezing", "handing"} : Chosen(c, s, pc) => JTables' /\ JobShape'
  <2> SUFFICES ASSUME NEW pc \in {"freezing", "handing"}, Chosen(c, s, pc)
               PROVE  JTables' /\ JobShape'
    OBVIOUS
  <2> DEFINE j == [ pc |-> pc, batch |-> job[c].batch, todo |-> job[c].todo,
                    scope |-> s, token |-> owners[s].token ]
  <2>1. j \in JobType
    BY <1>1, <1>2 DEF JobType
  <2>2. job' = [job EXCEPT ![c] = j]
    BY DEF Chosen
  <2>3. j.batch = job[c].batch /\ j.scope = s
    OBVIOUS
  <2> HIDE DEF j
  <2> QED BY <1>1, <1>3, <2>1, <2>2, <2>3, JobMoves
<1> QED BY <1>1, <1>4, <1>5 DEF ReadForFreeze, ReadForHandover, FreezeScope, HandOverScope

LEMMA RunsJoint ==
  ASSUME JInv, NEW c \in Coordinators,
         (\E b \in Batches : Resume(c, b)) \/ Stop(c) \/ ReadForRelease(c)
  PROVE  JTables' /\ JobShape'
<1>1. frozenBy \in [Scopes -> Batches \union {NoBatch}] /\ job \in [Coordinators -> JobType]
  BY JInvParts DEF JTables
<1>2. ASSUME NEW b \in Batches, Resume(c, b) PROVE JTables' /\ JobShape'
  <2> DEFINE j == [ pc |-> "freeze", batch |-> b, todo |-> ScopesOf(ops[b].request),
                    scope |-> NoScope, token |-> 0 ]
  <2>1. ops[b] # NoOp
    BY <1>2 DEF Resume, NoOp
  <2>2. PICK r \in Requests : ops[b] \in OpType(r)
    BY <2>1, JInvParts DEF JTables
  <2>3. ScopesOf(ops[b].request) \subseteq Scopes
    BY <2>2, RequestShape DEF OpType
  <2>4. j \in JobType /\ j.pc = "freeze" /\ j.batch = b
    BY <2>3 DEF JobType
  <2>5. job' = [job EXCEPT ![c] = j] /\ UNCHANGED <<fenced, ops, routes>> /\ frozenBy' = frozenBy
    BY <1>2 DEF Resume, Begin, vars
  <2> HIDE DEF j
  <2> QED BY <1>1, <2>1, <2>4, <2>5, JobMoves
<1>3. CASE Stop(c)
  <2>1. Nobody \in JobType /\ Nobody.pc = "idle"
    BY DEF Nobody, JobType
  <2>2. job' = [job EXCEPT ![c] = Nobody] /\ UNCHANGED <<fenced, ops, routes>> /\ frozenBy' = frozenBy
    BY <1>3 DEF Stop, vars
  <2> QED BY <1>1, <2>1, <2>2, JobMoves
<1>4. CASE ReadForRelease(c)
  <2>1. /\ UNCHANGED <<fenced, ops, routes>> /\ frozenBy' = frozenBy
        /\ job' = [job EXCEPT ![c].pc = "releasing"] /\ job[c].pc # "idle"
    BY <1>4 DEF ReadForRelease, vars
  <2>2. /\ job' \in [Coordinators -> JobType]
        /\ \A d \in Coordinators :
             /\ job'[d].batch = job[d].batch /\ job'[d].scope = job[d].scope
             /\ job'[d].pc = job[d].pc \/ (d = c /\ job'[d].pc = "releasing")
    BY <1>1, <2>1 DEF JobType
  <2>3. JTables'
    BY <2>1, <2>2, JInvParts DEF JTables, Closed, Covering
  <2>4. JobShape'
    BY <2>1, <2>2 DEF JInv, JobShape
  <2> QED BY <2>3, <2>4
<1> QED BY <1>2, <1>3, <1>4

LEMMA PrepareJoint ==
  ASSUME JInv, NEW c \in Coordinators, NEW b \in Batches, NEW r \in Requests, Prepare(c, b, r)
  PROVE  JTables' /\ JobShape'
<1> DEFINE op == [ state |-> "prepared", request |-> r,
                   from |-> [s \in ScopesOf(r) |-> owners[s].owner],
                   generation |-> [s \in ScopesOf(r) |-> owners[s].generation],
                   routeGeneration |-> [i \in Members(r) |-> routes[i].generation] ]
           j == [ pc |-> "freeze", batch |-> b, todo |-> ScopesOf(r), scope |-> NoScope, token |-> 0 ]
<1>1. ScopesOf(r) \subseteq Scopes /\ Members(r) \subseteq Identities
  BY RequestShape
<1>2. /\ \A s \in ScopesOf(r) : owners[s].owner \in Owners /\ owners[s].generation \in Nat
      /\ \A i \in Members(r) : routes[i].generation \in Nat
  BY <1>1, JInvParts DEF IInv, TypeOK, OwnerType, Rows, JTables
<1>3. op \in OpType(r) /\ op.state = "prepared"
  BY <1>2 DEF OpType
<1>4. j \in JobType /\ j.pc = "freeze" /\ j.batch = b
  BY <1>1 DEF JobType
<1>5. /\ ops' = [ops EXCEPT ![b] = op] /\ job' = [job EXCEPT ![c] = j]
      /\ fenced' = Closed(ops', routes) /\ UNCHANGED <<routes, frozenBy>>
  BY DEF Prepare, Begin
<1> HIDE DEF op, j
<1>6. /\ ops' = [e \in Batches |-> ops'[e]] /\ ops'[b] = op
      /\ \A e \in Batches \ {b} : ops'[e] = ops[e]
  BY <1>5, JInvParts DEF JTables
<1>7. op # NoOp
  <2>1. NoOp.state = "none"
    BY DEF NoOp
  <2> QED BY <1>3, <2>1
<1>8. /\ job' \in [Coordinators -> JobType] /\ job'[c] = j
      /\ \A d \in Coordinators \ {c} : job'[d] = job[d]
  BY <1>4, <1>5, JInvParts DEF JTables
<1>9. JTables'
  <2>1. fenced' = Closed(ops', routes')
    BY <1>5
  <2>2. \A e \in Batches : ops'[e] # NoOp => \E q \in Requests : ops'[e] \in OpType(q)
    BY <1>3, <1>6, JInvParts DEF JTables
  <2> QED BY <1>5, <1>6, <1>8, <2>1, <2>2, JInvParts DEF JTables
<1>10. JobShape'
  BY <1>4, <1>6, <1>7, <1>8 DEF JInv, JobShape
<1> QED BY <1>9, <1>10

LEMMA WriteRoutesJoint ==
  ASSUME JInv, NEW c \in Coordinators, WriteRoutes(c)
  PROVE  JTables' /\ JobShape'
<1> DEFINE b == job[c].batch
           M == Members(ops[b].request)
           S == ScopesOf(ops[b].request)
<1>1. job[c].pc = "freeze" /\ UNCHANGED <<ops, frozenBy>> /\ fenced' = Closed(ops, routes')
  BY DEF WriteRoutes
<1>2. PICK r \in Requests : ops[b] \in OpType(r)
  BY <1>1, BatchKnown
<1>3. /\ S \subseteq Scopes /\ \A i \in M : ops[b].request.routes[i] \in RouteNames
      /\ \A i \in M : ops[b].routeGeneration[i] \in Nat
  BY <1>2, RequestShape DEF OpType
<1>4. routes' \in [Identities -> [route : RouteNames, generation : Nat]]
  <2>1. \A i \in M : ops[b].routeGeneration[i] + 1 \in Nat
    BY <1>3
  <2>2. routes \in [Identities -> [route : RouteNames, generation : Nat]]
    BY JInvParts DEF JTables
  <2> QED BY <1>3, <2>1, <2>2 DEF WriteRoutes
<1>5. /\ job \in [Coordinators -> JobType]
      /\ job' = [job EXCEPT ![c].pc = "handover", ![c].todo = S]
  BY JInvParts DEF JTables, WriteRoutes
<1> HIDE DEF S, M, b
<1>6. /\ job' \in [Coordinators -> JobType]
      /\ \A d \in Coordinators :
           /\ job'[d].batch = job[d].batch /\ job'[d].scope = job[d].scope
           /\ job'[d].pc = job[d].pc \/ (d = c /\ job'[d].pc = "handover")
  <2> DEFINE j == [job[c] EXCEPT !.pc = "handover", !.todo = S]
  <2>1. job' = [job EXCEPT ![c] = j]
    BY <1>5, Zenon
  <2>2. job[c] \in JobType
    BY <1>5
  <2>3. j \in JobType /\ j.pc = "handover" /\ j.batch = job[c].batch /\ j.scope = job[c].scope
    BY <1>3, <2>2 DEF JobType
  <2> HIDE DEF j
  <2> QED BY <1>5, <2>1, <2>3
<1>7. JTables'
  <2>1. fenced' = Closed(ops', routes')
    BY <1>1
  <2> QED BY <1>1, <1>4, <1>6, <2>1, JInvParts DEF JTables
<1>8. JobShape'
  BY <1>1, <1>6 DEF JInv, JobShape
<1> QED BY <1>7, <1>8

LEMMA ReleaseJoint ==
  ASSUME JInv, NEW c \in Coordinators, Release(c)
  PROVE  JTables' /\ JobShape'
<1> DEFINE b == job[c].batch
<1>1. job[c].pc = "releasing" /\ UNCHANGED <<routes, frozenBy>> /\ fenced' = Closed(ops', routes)
      /\ ops' = [ops EXCEPT ![b].state = "committed"] /\ job' = [job EXCEPT ![c] = Nobody]
  BY DEF Release
<1>2. b \in Batches /\ \E r \in Requests : ops[b] \in OpType(r)
  BY <1>1, BatchKnown
<1> HIDE DEF b
<1>3. PICK r \in Requests : ops[b] \in OpType(r)
  BY <1>2
<1>4. /\ ops' = [e \in Batches |-> ops'[e]] /\ ops'[b] = [ops[b] EXCEPT !.state = "committed"]
      /\ \A e \in Batches \ {b} : ops'[e] = ops[e]
  BY <1>1, <1>2, JInvParts DEF JTables
<1>5. ops'[b] \in OpType(r) /\ ops'[b].state = "committed"
  <2> SUFFICES ASSUME NEW op \in OpType(r)
               PROVE  /\ [op EXCEPT !.state = "committed"] \in OpType(r)
                      /\ [op EXCEPT !.state = "committed"].state = "committed"
    BY <1>3, <1>4
  <2> QED BY DEF OpType
<1>6. NoOp.state = "none"
  BY DEF NoOp
<1>7. Nobody \in JobType /\ Nobody.pc = "idle"
  BY DEF Nobody, JobType
<1>8. /\ job' \in [Coordinators -> JobType] /\ job'[c] = Nobody
      /\ \A d \in Coordinators \ {c} : job'[d] = job[d]
  BY <1>1, <1>7, JInvParts DEF JTables
<1>9. JTables'
  <2>1. fenced' = Closed(ops', routes')
    BY <1>1
  <2>2. \A e \in Batches : ops'[e] # NoOp => \E q \in Requests : ops'[e] \in OpType(q)
    BY <1>4, <1>5, JInvParts DEF JTables
  <2> QED BY <1>1, <1>4, <1>8, <2>1, <2>2, JInvParts DEF JTables
<1>10. JobShape'
  <2>1. ops'[b] # NoOp
    BY <1>5, <1>6
  <2> QED BY <1>4, <1>7, <1>8, <2>1 DEF JInv, JobShape
<1> QED BY <1>9, <1>10

LEMMA JStepInv == JInv /\ [JNext]_jvars => JInv'
<1> SUFFICES ASSUME JInv, [JNext]_jvars PROVE JInv'
  OBVIOUS
<1>1. IInv'
  BY RuntimeStep, StepInv DEF JInv
<1>2. JTables' /\ JobShape'
  <2>1. CASE AttemptStep /\ UNCHANGED joint
    BY <2>1, AttemptJoint
  <2>2. CASE CoordinatorStep
    <3> PICK c \in Coordinators :
          \/ \E b \in Batches, r \in Requests : Prepare(c, b, r)
          \/ \E b \in Batches : Resume(c, b)
          \/ Stop(c)
          \/ \E s \in Scopes : ReadForFreeze(c, s) \/ ReadForHandover(c, s)
          \/ FreezeScope(c) \/ WriteRoutes(c) \/ HandOverScope(c)
          \/ ReadForRelease(c) \/ Release(c)
      BY <2>2 DEF CoordinatorStep
    <3>1. CASE \E b \in Batches, r \in Requests : Prepare(c, b, r)
      BY <3>1, PrepareJoint
    <3>2. CASE (\E b \in Batches : Resume(c, b)) \/ Stop(c) \/ ReadForRelease(c)
      BY <3>2, RunsJoint
    <3>3. CASE \E s \in Scopes : ReadForFreeze(c, s) \/ ReadForHandover(c, s)
      BY <3>3, ReadsJoint
    <3>4. CASE FreezeScope(c) \/ HandOverScope(c)
      <4>1. job[c].scope \in Scopes
        BY <3>4 DEF FreezeScope, HandOverScope, JInv, JobShape
      <4> QED BY <3>4, <4>1, ReadsJoint
    <3>5. CASE WriteRoutes(c) \/ Release(c)
      BY <3>5, WriteRoutesJoint, ReleaseJoint
    <3> QED BY <3>1, <3>2, <3>3, <3>4, <3>5
  <2>3. CASE UNCHANGED jvars
    BY <2>3, JInvParts DEF jvars, vars, joint, JTables, JobShape, Closed, Covering, JInv
  <2> QED BY <2>1, <2>2, <2>3 DEF JNext
<1> QED BY <1>1, <1>2 DEF JInv, JTypeOK, JTables, IInv

\* The inductive invariant of the coordinator and the ledger together.
THEOREM JInvariance == JSpec => []JInv
<1>1. JInit => JInv
  BY JInitInv
<1>2. JInv /\ [JNext]_jvars => JInv'
  BY JStepInv
<1> QED BY <1>1, <1>2, PTL DEF JSpec

-----------------------------------------------------------------------------

\* Types of the coordinator's tables; and the fence always says what the journal
\* and the routes say, whichever runs of execute stopped where.
THEOREM JTypeCorrect == JSpec => []JTypeOK
<1>1. JInv => JTypeOK
  BY DEF JInv
<1> QED BY <1>1, JInvariance, PTL

\* The joint coordinator, with the attempts, implements the schedule ledger.
THEOREM Implements == JSpec => RuntimeSpec
<1>1. JInit => Init
  BY JInitInv
<1>2. JInv /\ [JNext]_jvars => [Next]_vars
  BY RuntimeStep
<1> QED BY <1>1, <1>2, JInvariance, PTL DEF JSpec, RuntimeSpec, Spec

\* So, in the middle of a joint cutover too, a trigger is held by one attempt and
\* its results come from one lease.
THEOREM CutoverKeepsOneHolder == JSpec => [](OneHolder /\ PublishedOnce)
BY Implements, OneHolderHolds, OneLeasePublishes, PTL DEF RuntimeSpec
-----------------------------------------------------------------------------
(* The owner and the route of a scope agree.                               *)
(*                                                                         *)
(* ReleasedAgree is not inductive.  A scope is settled when no batch keeps *)
(* it closed, or the one that does has been found moved by a run that is   *)
(* about to release it.  The owner of a settled scope moves only by the    *)
(* hand-over of a run that is late, and that run does no harm if the route *)
(* of its batch is still in force wherever there is a token to hand over.  *)

\* A scope has a row from the start, so no claim creates one.
Seeded == \A s \in Scopes : owners[s].generation # 0

\* A run of execute stays within its batch.
JobScopes ==
  \A c \in Coordinators : job[c].pc # "idle" =>
    /\ job[c].todo \subseteq ScopesOf(ops[job[c].batch].request)
    /\ job[c].pc \in {"freezing", "handing"} => job[c].scope \in job[c].todo

\* At most one prepared batch keeps a scope closed.
OnePrepared ==
  \A s \in Scopes : \A b, e \in Covering(s, ops) :
    ops[b].state = "prepared" /\ ops[e].state = "prepared" => b = e

\* The batches that move the route of an identity.
Moving(i, journal) == {b \in Batches : journal[b].state # "none" /\ i \in Members(journal[b].request)}

\* The generations of a route tell which batch it waits for, and a committed
\* batch is behind it for good.
RouteOrder ==
  \A i \in Identities : \A b \in Moving(i, ops) :
    /\ ops[b].state = "prepared" => RouteBefore(b, i) \/ RouteAfter(b, i)
    /\ ops[b].state = "committed" =>
         /\ routes[i].generation > ops[b].routeGeneration[i]
         /\ \A e \in Moving(i, ops) :
              ops[e].state = "prepared" => ops[e].routeGeneration[i] > ops[b].routeGeneration[i]

\* Owners are handed over, and batches released, after their routes.
RoutesMoved ==
  \A c \in Coordinators :
    job[c].pc \in {"handover", "handing", "releasing"} /\ ops[job[c].batch].state = "prepared"
      => \A i \in Members(ops[job[c].batch].request) : RouteAfter(job[c].batch, i)

Order == Seeded /\ JobScopes /\ OnePrepared /\ RouteOrder /\ RoutesMoved

Settled(s) ==
  \A b \in Covering(s, ops) : ops[b].state = "prepared" =>
    \E e \in Coordinators : job[e].pc = "releasing" /\ job[e].batch = b

\* No batch is target for some of its members and not for others, and no two
\* identities share a scope.
Unmixed ==
  /\ \A i, j \in Identities : ScopeOfIdentity[i] = ScopeOfIdentity[j] => i = j
  /\ \A r \in Requests : \A i, j \in Members(r) :
       r.routes[i] = "target" <=> r.routes[j] = "target"

AgreesWith(owner, table, s) ==
  /\ owner = "dispatcher" => \E i \in IdentitiesOf(s) : table[i].route = "target"
  /\ Unmixed =>
       \A i \in IdentitiesOf(s) : table[i].route = "target" <=> owner = "dispatcher"

Agrees(s) == AgreesWith(owners[s].owner, routes, s)

SettledAgree == \A s \in Scopes : Settled(s) => Agrees(s)

HandsOver(c, s) == job[c].pc \in {"handover", "handing"} /\ s \in job[c].todo

\* The routes that a batch has asked for in a scope are those in force.
InForce(b, s) ==
  \A i \in Members(ops[b].request) \cap IdentitiesOf(s) : RouteAfter(b, i)

\* Where there is a token to hand over, the routes of whoever may do it are in force.
TokensAgree ==
  \A s \in Scopes, c \in Coordinators :
    Settled(s) /\ owners[s].token # 0 /\ HandsOver(c, s) => InForce(job[c].batch, s)

Agreement == SettledAgree /\ TokensAgree

\* A freeze so late that its scope is settled meets a hand-over of the scope
\* that is later still: its routes are not in force any more.
LateFreeze ==
  \E c, d \in Coordinators :
    /\ FreezeScope(d) /\ Settled(job[d].scope)
    /\ HandsOver(c, job[d].scope) /\ ~InForce(job[c].batch, job[d].scope)

LEMMA CoveringKnown ==
  ASSUME JInv, NEW s \in Scopes, NEW b \in Covering(s, ops)
  PROVE  /\ b \in Batches /\ \E r \in Requests : ops[b] \in OpType(r)
         /\ s \in ScopesOf(ops[b].request)
         /\ ops[b].state \in {"prepared", "committed"}
<1>1. b \in Batches /\ ops[b].state # "none" /\ s \in ScopesOf(ops[b].request)
  BY DEF Covering
<1>2. ops[b] # NoOp
  BY <1>1 DEF NoOp
<1>3. PICK r \in Requests : ops[b] \in OpType(r)
  BY <1>1, <1>2, JInvParts DEF JTables
<1> QED BY <1>1, <1>3 DEF OpType

\* A batch that moves an identity covers its scope.
LEMMA MovingKnown ==
  ASSUME JInv, NEW i \in Identities, NEW b \in Moving(i, ops)
  PROVE  /\ b \in Batches /\ i \in Members(ops[b].request)
         /\ ops[b].state \in {"prepared", "committed"}
         /\ ops[b].routeGeneration[i] \in Nat
         /\ ScopeOfIdentity[i] \in Scopes /\ b \in Covering(ScopeOfIdentity[i], ops)
<1>1. b \in Batches /\ ops[b].state # "none" /\ i \in Members(ops[b].request)
  BY DEF Moving
<1>2. ops[b] # NoOp
  BY <1>1 DEF NoOp
<1>3. PICK r \in Requests : ops[b] \in OpType(r)
  BY <1>1, <1>2, JInvParts DEF JTables
<1>4. /\ ops[b].request = r /\ ops[b].state \in {"prepared", "committed"}
      /\ ops[b].routeGeneration \in [Members(r) -> Nat]
  BY <1>3 DEF OpType
<1>5. ScopeOfIdentity[i] \in ScopesOf(r) /\ ScopesOf(r) \subseteq Scopes
  BY <1>1, <1>4, RequestShape
<1> QED BY <1>1, <1>4, <1>5 DEF Covering

\* One of the prepared batches at most moves an identity.
LEMMA OneMoves ==
  ASSUME JInv, OnePrepared, NEW i \in Identities,
         NEW b \in Moving(i, ops), NEW e \in Moving(i, ops),
         ops[b].state = "prepared", ops[e].state = "prepared"
  PROVE  b = e
BY MovingKnown DEF OnePrepared

\* The batch of a run is in the journal and covers the scopes of the run.
LEMMA BatchCovers ==
  ASSUME JInv, NEW c \in Coordinators, job[c].pc # "idle"
  PROVE  /\ ops[job[c].batch].state \in {"prepared", "committed"}
         /\ \A s \in ScopesOf(ops[job[c].batch].request) :
              s \in Scopes /\ job[c].batch \in Covering(s, ops)
         /\ \A i \in Members(ops[job[c].batch].request) :
              i \in Identities /\ job[c].batch \in Moving(i, ops)
<1>1. PICK r \in Requests : ops[job[c].batch] \in OpType(r)
  BY BatchKnown
<1>2. ops[job[c].batch].state \in {"prepared", "committed"}
  BY <1>1 DEF OpType
<1>3. Members(ops[job[c].batch].request) \subseteq Identities
  BY BatchKnown, RequestShape
<1> QED BY <1>2, <1>3, BatchKnown DEF Covering, Moving

\* The owner a request asks for agrees with its routes.
LEMMA AskedAgrees ==
  ASSUME NEW r \in Requests, NEW s \in ScopesOf(r), NEW table,
         \A i \in Members(r) \cap IdentitiesOf(s) : table[i].route = r.routes[i]
  PROVE  AgreesWith(ToOwner(r), table, s)
<1>1. PICK i \in Members(r) : ScopeOfIdentity[i] = s
  BY DEF ScopesOf
<1>2. i \in IdentitiesOf(s) /\ table[i].route = r.routes[i]
  BY <1>1, RequestShape DEF IdentitiesOf
<1>3. ToOwner(r) = "dispatcher" <=> \A j \in Members(r) : r.routes[j] = "target"
  BY DEF ToOwner
<1>4. ASSUME Unmixed, NEW j \in IdentitiesOf(s)
      PROVE  table[j].route = "target" <=> ToOwner(r) = "dispatcher"
  <2>1. j = i
    BY <1>1, <1>2, <1>4 DEF Unmixed, IdentitiesOf
  <2>2. \A k \in Members(r) : r.routes[k] = "target" <=> r.routes[i] = "target"
    BY <1>4 DEF Unmixed
  <2> QED BY <1>2, <1>3, <2>1, <2>2
<1> QED BY <1>2, <1>3, <1>4 DEF AgreesWith

\* So it does where the routes of the batch are in force.
LEMMA ForceAgrees ==
  ASSUME JInv, NEW b \in Batches, ops[b] # NoOp, NEW s \in ScopesOf(ops[b].request), InForce(b, s)
  PROVE  AgreesWith(ToOwner(ops[b].request), routes, s)
<1>1. ops[b].request \in Requests
  BY JInvParts DEF JTables, OpType
<1>2. \A i \in Members(ops[b].request) \cap IdentitiesOf(s) :
        routes[i].route = ops[b].request.routes[i]
  BY DEF InForce, RouteAfter
<1> QED BY <1>1, <1>2, AskedAgrees

\* A claim creates the row of a scope on first use, and every scope has one.
LEMMA AttemptOwners ==
  ASSUME JInv, Seeded, AttemptStep, NEW s \in Scopes
  PROVE  owners'[s] = owners[s]
<1>1. CASE UNCHANGED owners
  BY <1>1
<1>2. ASSUME NEW a \in Attempts, Claim(a)
      PROVE  owners'[s] = owners[s]
  <2>1. owners' = [owners EXCEPT ![ScopeFor(a)] = RowOf(ScopeFor(a), work[a].owner)]
    BY <1>2 DEF Claim
  <2>2. RowOf(s, work[a].owner) = owners[s]
    BY DEF RowOf, Seeded
  <2>3. owners \in [Rows -> OwnerType] /\ s \in Rows
    BY DEF JInv, IInv, TypeOK, Rows
  <2> QED BY <2>1, <2>2, <2>3
<1>3. UNCHANGED owners \/ \E a \in Attempts : Claim(a)
  BY DEF AttemptStep, Arrive, Skip, Refuse, Refused, EnterGuard, WriteResult, WriteReport,
         CommitPublication, RollBackPublication, Reuse, Complete, Raise, MarkFailed, RecordError,
         Crash, BeginFinalize, Finalize, ledger
<1> QED BY <1>2, <1>3

\* What a step does to the owner of a scope.
LEMMA OwnerMoves ==
  ASSUME JInv, Seeded, [JNext]_jvars, NEW s \in Scopes
  PROVE  \/ owners'[s] = owners[s]
         \/ \E c \in Coordinators :
              FreezeScope(c) /\ s = job[c].scope
                /\ owners'[s].owner = owners[s].owner /\ owners'[s].generation = owners[s].generation
         \/ \E c \in Coordinators :
              HandOverScope(c) /\ s = job[c].scope
                /\ owners'[s] = [ owner |-> ToOwner(ops[job[c].batch].request),
                                  generation |-> owners[s].generation + 1, token |-> 0 ]
<1>1. s \in DOMAIN owners /\ owners \in [Rows -> OwnerType]
  BY DEF JInv, IInv, TypeOK, Rows
<1>2. CASE AttemptStep
  BY <1>2, AttemptOwners
<1>3. ASSUME NEW c \in Coordinators, FreezeScope(c)
      PROVE  \/ owners'[s] = owners[s]
             \/ /\ s = job[c].scope
                /\ owners'[s].owner = owners[s].owner /\ owners'[s].generation = owners[s].generation
  <2>1. owners' = [owners EXCEPT ![job[c].scope].token = tokens + 1]
    BY <1>3 DEF FreezeScope, Freeze
  <2> QED BY <1>1, <2>1 DEF OwnerType
<1>4. ASSUME NEW c \in Coordinators, HandOverScope(c)
      PROVE  \/ owners'[s] = owners[s]
             \/ /\ s = job[c].scope
                /\ owners'[s] = [ owner |-> ToOwner(ops[job[c].batch].request),
                                  generation |-> owners[s].generation + 1, token |-> 0 ]
  <2>1. owners' = [owners EXCEPT ![job[c].scope] =
                     [ owner |-> ToOwner(ops[job[c].batch].request),
                       generation |-> owners[job[c].scope].generation + 1, token |-> 0 ]]
    BY <1>4 DEF HandOverScope, Handover
  <2> QED BY <1>1, <2>1
<1>5. CASE CoordinatorStep
  <2>1. \/ UNCHANGED owners
        \/ \E c \in Coordinators : FreezeScope(c) \/ HandOverScope(c)
    BY <1>5 DEF CoordinatorStep, Prepare, Resume, Stop, ReadForFreeze, ReadForHandover,
                WriteRoutes, ReadForRelease, Release, vars, ledger
  <2> QED BY <1>3, <1>4, <2>1
<1>6. CASE UNCHANGED jvars
  BY <1>6 DEF jvars, vars, ledger
<1> QED BY <1>2, <1>5, <1>6 DEF JNext

LEMMA SeededStep == ASSUME JInv, Seeded, [JNext]_jvars PROVE Seeded'
<1> SUFFICES ASSUME NEW s \in Scopes PROVE owners'[s].generation # 0
  BY DEF Seeded
<1>1. owners[s].generation # 0 /\ owners[s].generation \in Nat
  BY DEF Seeded, JInv, IInv, TypeOK, OwnerType, Rows
<1>2. \/ owners'[s].generation = owners[s].generation
      \/ owners'[s].generation = owners[s].generation + 1
  <2>1. \/ owners'[s] = owners[s]
        \/ owners'[s].generation = owners[s].generation
        \/ \E c \in Coordinators :
             owners'[s] = [ owner |-> ToOwner(ops[job[c].batch].request),
                            generation |-> owners[s].generation + 1, token |-> 0 ]
    BY OwnerMoves, Zenon
  <2>2. ASSUME NEW to, owners'[s] = [owner |-> to, generation |-> owners[s].generation + 1, token |-> 0]
        PROVE  owners'[s].generation = owners[s].generation + 1
    BY <2>2
  <2> QED BY <2>1, <2>2, Zenon
<1> QED BY <1>1, <1>2

-----------------------------------------------------------------------------
(* Steps of a run that leave the journal and the routes alone. *)

LEMMA JobKeepsOrder ==
  ASSUME JInv, Order, [JNext]_jvars,
         NEW c \in Coordinators, NEW j, job' = [job EXCEPT ![c] = j], UNCHANGED <<ops, routes>>,
         j.pc # "idle" => j.todo \subseteq ScopesOf(ops[j.batch].request),
         j.pc \in {"freezing", "handing"} => j.scope \in j.todo,
         j.pc \in {"handover", "handing", "releasing"} /\ ops[j.batch].state = "prepared"
           => \A i \in Members(ops[j.batch].request) : RouteAfter(j.batch, i)
  PROVE  Order'
<1>1. job'[c] = j /\ \A d \in Coordinators \ {c} : job'[d] = job[d]
  BY JInvParts DEF JTables
<1>2. Seeded'
  BY SeededStep DEF Order
<1>3. JobScopes'
  <2> SUFFICES ASSUME NEW d \in Coordinators, job'[d].pc # "idle"
               PROVE  /\ job'[d].todo \subseteq ScopesOf(ops[job'[d].batch].request)
                      /\ job'[d].pc \in {"freezing", "handing"} => job'[d].scope \in job'[d].todo
    BY DEF JobScopes
  <2>1. CASE d = c
    BY <1>1, <2>1
  <2>2. CASE d # c
    BY <1>1, <2>2 DEF Order, JobScopes
  <2> QED BY <2>1, <2>2
<1>4. OnePrepared' /\ RouteOrder'
  BY DEF Order, OnePrepared, RouteOrder, Covering, Moving, RouteBefore, RouteAfter
<1>5. RoutesMoved'
  <2> SUFFICES ASSUME NEW d \in Coordinators, 
                      job'[d].pc \in {"handover", "handing", "releasing"},
                      ops[job'[d].batch].state = "prepared",
                      NEW i \in Members(ops[job'[d].batch].request)
               PROVE  RouteAfter(job'[d].batch, i)
    BY DEF RoutesMoved, RouteAfter
  <2>1. CASE d = c
    BY <1>1, <2>1
  <2>2. CASE d # c
    BY <1>1, <2>2 DEF Order, RoutesMoved
  <2> QED BY <2>1, <2>2
<1> QED BY <1>2, <1>3, <1>4, <1>5 DEF Order

\* What is settled after such a step was so, or is what the run has just found moved.
LEMMA SettledBefore ==
  ASSUME JInv, NEW c \in Coordinators, NEW j, job' = [job EXCEPT ![c] = j], UNCHANGED ops,
         NEW s \in Scopes, Settled(s)'
  PROVE  \/ Settled(s)
         \/ /\ j.pc = "releasing" /\ ops[j.batch].state = "prepared"
            /\ s \in ScopesOf(ops[j.batch].request)
<1>1. job'[c] = j /\ \A d \in Coordinators \ {c} : job'[d] = job[d]
  BY JInvParts DEF JTables
<1> SUFFICES ASSUME NEW b \in Covering(s, ops), ops[b].state = "prepared",
                    ~\E e \in Coordinators : job[e].pc = "releasing" /\ job[e].batch = b
             PROVE  /\ j.pc = "releasing" /\ ops[j.batch].state = "prepared"
                    /\ s \in ScopesOf(ops[j.batch].request)
  BY DEF Settled
<1>2. PICK e \in Coordinators : job'[e].pc = "releasing" /\ job'[e].batch = b
  BY DEF Settled, Covering
<1>3. e = c
  BY <1>1, <1>2
<1> QED BY <1>1, <1>2, <1>3 DEF Covering

LEMMA JobKeepsAgreement ==
  ASSUME JInv, Order, Agreement,
         NEW c \in Coordinators, NEW j, job' = [job EXCEPT ![c] = j],
         UNCHANGED <<owners, ops, routes>>,
         j.pc \in {"handover", "handing"} =>
           /\ job[c].pc \in {"handover", "handing"}
           /\ j.batch = job[c].batch /\ j.todo \subseteq job[c].todo,
         j.pc = "releasing" =>
           /\ Releasable(j.batch)
           /\ ops[j.batch].state = "prepared"
                => \A i \in Members(ops[j.batch].request) : RouteAfter(j.batch, i),
         j.pc = "releasing" => j.batch \in Batches /\ ops[j.batch] # NoOp
  PROVE  Agreement'
<1>1. job'[c] = j /\ \A d \in Coordinators \ {c} : job'[d] = job[d]
  BY JInvParts DEF JTables
<1>2. ASSUME NEW s \in Scopes, Settled(s)', ~Settled(s)
      PROVE  Agrees(s) /\ owners[s].token = 0
  <2>1. /\ j.pc = "releasing" /\ ops[j.batch].state = "prepared"
        /\ s \in ScopesOf(ops[j.batch].request)
    BY <1>2, SettledBefore
  <2>2. InForce(j.batch, s) /\ After(j.batch, s)
    BY <2>1 DEF Releasable, InForce
  <2>3. AgreesWith(ToOwner(ops[j.batch].request), routes, s)
    BY <2>1, <2>2, ForceAgrees
  <2> QED BY <2>2, <2>3 DEF After, AfterOwner, Agrees
<1>3. SettledAgree'
  <2> SUFFICES ASSUME NEW s \in Scopes, Settled(s)' PROVE Agrees(s)
    BY DEF SettledAgree, Agrees
  <2> QED BY <1>2 DEF Agreement, SettledAgree
<1>4. TokensAgree'
  <2> SUFFICES ASSUME NEW s \in Scopes, NEW d \in Coordinators,
                      Settled(s)', owners[s].token # 0, HandsOver(d, s)'
               PROVE  InForce(job'[d].batch, s)
    BY DEF TokensAgree, InForce, RouteAfter
  <2>1. Settled(s)
    BY <1>2
  <2>2. HandsOver(d, s) /\ job'[d].batch = job[d].batch
    BY <1>1 DEF HandsOver
  <2> QED BY <2>1, <2>2 DEF Agreement, TokensAgree
<1> QED BY <1>3, <1>4 DEF Agreement

LEMMA LedgerKeepsOrder ==
  ASSUME JInv, Order, [JNext]_jvars, NEW c \in Coordinators, FreezeScope(c) \/ HandOverScope(c)
  PROVE  Order'
<1> DEFINE b == job[c].batch
           s == job[c].scope
<1>1. job[c].pc \in {"freezing", "handing"} /\ UNCHANGED <<ops, routes>>
  BY DEF FreezeScope, HandOverScope
<1>2. job[c].todo \subseteq ScopesOf(ops[b].request)
  BY <1>1 DEF Order, JobScopes
<1>3. CASE FreezeScope(c)
  <2> DEFINE j == [pc |-> "freeze", batch |-> b, todo |-> job[c].todo \ {s}, scope |-> NoScope, token |-> 0]
  <2>1. job' = [job EXCEPT ![c] = j]
    BY <1>3 DEF FreezeScope, Done
  <2>2. j.pc = "freeze" /\ j.batch = b /\ j.todo \subseteq ScopesOf(ops[b].request)
    BY <1>2
  <2> HIDE DEF b, s, j
  <2> QED BY <1>1, <2>1, <2>2, JobKeepsOrder
<1>4. CASE HandOverScope(c)
  <2> DEFINE j == [pc |-> "handover", batch |-> b, todo |-> job[c].todo \ {s}, scope |-> NoScope, token |-> 0]
  <2>1. job' = [job EXCEPT ![c] = j]
    BY <1>4 DEF HandOverScope, Done
  <2>2. j.pc = "handover" /\ j.batch = b /\ j.todo \subseteq ScopesOf(ops[b].request)
    BY <1>2
  <2>3. job[c].pc = "handing"
    BY <1>4 DEF HandOverScope
  <2>4. ops[b].state = "prepared" => \A i \in Members(ops[b].request) : RouteAfter(b, i)
    BY <2>3 DEF Order, RoutesMoved
  <2> HIDE DEF b, s, j
  <2> QED BY <1>1, <2>1, <2>2, <2>4, JobKeepsOrder
<1> QED BY <1>3, <1>4

LEMMA FreezeKeepsAgreement ==
  ASSUME JInv, Order, Agreement, [JNext]_jvars, NEW c \in Coordinators, FreezeScope(c), ~LateFreeze
  PROVE  Agreement'
<1> DEFINE s == job[c].scope
           j == [ pc |-> "freeze", batch |-> job[c].batch, todo |-> job[c].todo \ {s},
                  scope |-> NoScope, token |-> 0 ]
<1>1. job' = [job EXCEPT ![c] = j] /\ j.pc = "freeze" /\ UNCHANGED <<ops, routes>>
  BY DEF FreezeScope, Done
<1> HIDE DEF j
<1>2. job'[c] = j /\ \A d \in Coordinators \ {c} : job'[d] = job[d]
  BY <1>1, JInvParts DEF JTables
<1>3. /\ \A u \in Scopes : owners'[u].owner = owners[u].owner
      /\ \A u \in Scopes \ {s} : owners'[u] = owners[u]
  <2>1. owners' = [owners EXCEPT ![s].token = tokens + 1]
    BY DEF FreezeScope, Freeze
  <2>2. owners \in [Rows -> OwnerType] /\ Scopes \subseteq Rows
    BY DEF JInv, IInv, TypeOK, Rows
  <2> HIDE DEF s
  <2> QED BY <2>1, <2>2 DEF OwnerType
<1>4. ASSUME NEW u \in Scopes, Settled(u)' PROVE Settled(u)
  BY <1>1, <1>4, SettledBefore
<1>5. SettledAgree'
  <2> SUFFICES ASSUME NEW u \in Scopes, Settled(u)' PROVE Agrees(u)'
    BY DEF SettledAgree
  <2>1. Agrees(u)
    BY <1>4 DEF Agreement, SettledAgree
  <2> QED BY <1>1, <1>3, <2>1 DEF Agrees
<1>6. TokensAgree'
  <2> SUFFICES ASSUME NEW u \in Scopes, NEW d \in Coordinators,
                      Settled(u)', owners'[u].token # 0, HandsOver(d, u)'
               PROVE  InForce(job[d].batch, u) /\ job'[d].batch = job[d].batch
    BY <1>1 DEF TokensAgree, InForce, RouteAfter
  <2>1. d # c
    BY <1>1, <1>2 DEF HandsOver
  <2>2. Settled(u) /\ HandsOver(d, u) /\ job'[d].batch = job[d].batch
    BY <1>2, <1>4, <2>1 DEF HandsOver
  <2>3. CASE u = s
    BY <2>2, <2>3 DEF LateFreeze
  <2>4. CASE u # s
    BY <1>3, <2>2, <2>4 DEF Agreement, TokensAgree
  <2> QED BY <2>2, <2>3, <2>4
<1> QED BY <1>5, <1>6 DEF Agreement

LEMMA HandoverKeepsAgreement ==
  ASSUME JInv, Order, Agreement, [JNext]_jvars, NEW c \in Coordinators, HandOverScope(c)
  PROVE  Agreement'
<1> DEFINE b == job[c].batch
           s == job[c].scope
           row == [owner |-> ToOwner(ops[b].request), generation |-> owners[s].generation + 1, token |-> 0]
           j == [ pc |-> "handover", batch |-> b, todo |-> job[c].todo \ {s},
                  scope |-> NoScope, token |-> 0 ]
<1>1. job' = [job EXCEPT ![c] = j] /\ UNCHANGED <<ops, routes>>
  BY DEF HandOverScope, Done
<1>2. /\ j.pc = "handover" /\ j.batch = b /\ j.todo \subseteq job[c].todo
      /\ row.owner = ToOwner(ops[b].request) /\ row.token = 0
  OBVIOUS
<1>3. job[c].pc = "handing" /\ owners[s].token # 0 /\ owners' = [owners EXCEPT ![s] = row]
  BY DEF HandOverScope, Handover
<1>4. s \in job[c].todo /\ s \in Scopes /\ owners \in [Rows -> OwnerType] /\ Scopes \subseteq Rows
  BY <1>3 DEF Order, JobScopes, JInv, JobShape, IInv, TypeOK, Rows
<1> HIDE DEF j, b, s, row
<1>5. job'[c] = j /\ \A d \in Coordinators \ {c} : job'[d] = job[d]
  BY <1>1, JInvParts DEF JTables
<1>6. owners'[s] = row /\ \A u \in Scopes \ {s} : owners'[u] = owners[u]
  BY <1>3, <1>4
<1>7. ASSUME NEW u \in Scopes, Settled(u)' PROVE Settled(u)
  BY <1>1, <1>2, <1>7, SettledBefore
<1>8. SettledAgree'
  <2> SUFFICES ASSUME NEW u \in Scopes, Settled(u)' PROVE Agrees(u)'
    BY DEF SettledAgree
  <2>1. Settled(u) /\ Agrees(u)
    BY <1>7 DEF Agreement, SettledAgree
  <2>2. CASE u = s
    <3>1. HandsOver(c, s)
      BY <1>3, <1>4 DEF HandsOver
    <3>2. InForce(b, s)
      BY <1>3, <1>4, <2>1, <2>2, <3>1 DEF Agreement, TokensAgree, b
    <3>3. AgreesWith(ToOwner(ops[b].request), routes, s)
      BY <1>3, <1>4, <3>2, ForceAgrees DEF b, JInv, JobShape, Order, JobScopes
    <3> QED BY <1>1, <1>2, <1>6, <2>2, <3>3 DEF Agrees
  <2>3. CASE u # s
    BY <1>1, <1>6, <2>1, <2>3 DEF Agrees
  <2> QED BY <2>2, <2>3
<1>9. TokensAgree'
  <2> SUFFICES ASSUME NEW u \in Scopes, NEW d \in Coordinators,
                      Settled(u)', owners'[u].token # 0, HandsOver(d, u)'
               PROVE  InForce(job[d].batch, u) /\ job'[d].batch = job[d].batch
    BY <1>1 DEF TokensAgree, InForce, RouteAfter
  <2>1. u # s
    BY <1>2, <1>6
  <2>2. HandsOver(d, u) /\ job'[d].batch = job[d].batch
    BY <1>2, <1>3, <1>5 DEF HandsOver, b
  <2> QED BY <1>6, <1>7, <2>1, <2>2 DEF Agreement, TokensAgree
<1> QED BY <1>8, <1>9 DEF Agreement

LEMMA RunKeeps ==
  ASSUME JInv, Order, Agreement, [JNext]_jvars, NEW c \in Coordinators,
         (\E b \in Batches : Resume(c, b)) \/ Stop(c) \/ ReadForRelease(c)
  PROVE  Order' /\ Agreement'
<1>1. UNCHANGED <<owners, ops, routes>>
  BY DEF Resume, Stop, ReadForRelease, vars, ledger
<1>2. ASSUME NEW b \in Batches, Resume(c, b) PROVE Order' /\ Agreement'
  <2> DEFINE j == [ pc |-> "freeze", batch |-> b, todo |-> ScopesOf(ops[b].request),
                    scope |-> NoScope, token |-> 0 ]
  <2>1. job' = [job EXCEPT ![c] = j]
    BY <1>2 DEF Resume, Begin
  <2>2. j.pc = "freeze" /\ j.batch = b /\ j.todo \subseteq ScopesOf(ops[b].request)
    OBVIOUS
  <2> HIDE DEF j
  <2> QED BY <1>1, <2>1, <2>2, JobKeepsOrder, JobKeepsAgreement
<1>3. CASE Stop(c)
  <2>1. job' = [job EXCEPT ![c] = Nobody]
    BY <1>3 DEF Stop
  <2>2. Nobody.pc = "idle"
    BY DEF Nobody
  <2> QED BY <1>1, <2>1, <2>2, JobKeepsOrder, JobKeepsAgreement
<1>4. CASE ReadForRelease(c)
  <2> DEFINE j == [job[c] EXCEPT !.pc = "releasing"]
  <2>1. job' = [job EXCEPT ![c] = j]
    BY <1>4, Zenon DEF ReadForRelease
  <2>2. job[c].pc = "handover" /\ Releasable(job[c].batch) /\ job[c] \in JobType
    BY <1>4, JInvParts DEF ReadForRelease, JTables
  <2>3. j.pc = "releasing" /\ j.batch = job[c].batch /\ j.todo = job[c].todo
    BY <2>2 DEF JobType
  <2>4. job[c].todo \subseteq ScopesOf(ops[job[c].batch].request)
    BY <2>2 DEF Order, JobScopes
  <2>5. ops[job[c].batch].state = "prepared"
          => \A i \in Members(ops[job[c].batch].request) : RouteAfter(job[c].batch, i)
    BY <2>2 DEF Order, RoutesMoved
  <2>6. job[c].batch \in Batches /\ ops[job[c].batch] # NoOp
    BY <2>2 DEF JInv, JobShape
  <2> HIDE DEF j
  <2>7. Order'
    BY <1>1, <2>1, <2>3, <2>4, <2>5, JobKeepsOrder
  <2>8. Agreement'
    BY <1>1, <2>1, <2>2, <2>3, <2>5, <2>6, JobKeepsAgreement
  <2> QED BY <2>7, <2>8
<1> QED BY <1>2, <1>3, <1>4

LEMMA ReadKeeps ==
  ASSUME JInv, Order, Agreement, [JNext]_jvars, NEW c \in Coordinators, NEW s \in Scopes,
         ReadForFreeze(c, s) \/ ReadForHandover(c, s)
  PROVE  Order' /\ Agreement'
<1> DEFINE b == job[c].batch
<1>1. UNCHANGED <<owners, ops, routes>> /\ s \in job[c].todo /\ job[c].pc \in {"freeze", "handover"}
  BY DEF ReadForFreeze, ReadForHandover, vars, ledger
<1>2. job[c].todo \subseteq ScopesOf(ops[b].request)
  BY <1>1 DEF Order, JobScopes
<1>3. job[c].pc = "handover" /\ ops[b].state = "prepared"
        => \A i \in Members(ops[b].request) : RouteAfter(b, i)
  BY DEF Order, RoutesMoved
<1>4. ASSUME NEW pc \in {"freeze", "handover"}, job[c].pc = pc, Done(c, s, pc)
      PROVE  Order' /\ Agreement'
  <2> DEFINE j == [pc |-> pc, batch |-> b, todo |-> job[c].todo \ {s}, scope |-> NoScope, token |-> 0]
  <2>1. job' = [job EXCEPT ![c] = j]
    BY <1>4 DEF Done
  <2>2. j.pc = pc /\ j.batch = b /\ j.todo \subseteq job[c].todo
    OBVIOUS
  <2> HIDE DEF j
  <2>3. Order'
    BY <1>1, <1>2, <1>3, <1>4, <2>1, <2>2, JobKeepsOrder
  <2>4. Agreement'
    BY <1>1, <1>4, <2>1, <2>2, JobKeepsAgreement
  <2> QED BY <2>3, <2>4
<1>5. ASSUME NEW pc, \/ pc = "freezing" /\ job[c].pc = "freeze"
                     \/ pc = "handing" /\ job[c].pc = "handover",
             Chosen(c, s, pc)
      PROVE  Order' /\ Agreement'
  <2> DEFINE j == [pc |-> pc, batch |-> b, todo |-> job[c].todo, scope |-> s, token |-> owners[s].token]
  <2>1. job' = [job EXCEPT ![c] = j]
    BY <1>5 DEF Chosen
  <2>2. j.pc = pc /\ j.batch = b /\ j.todo = job[c].todo /\ j.scope = s
    OBVIOUS
  <2> HIDE DEF j
  <2>3. Order'
    BY <1>1, <1>2, <1>3, <1>5, <2>1, <2>2, JobKeepsOrder
  <2>4. Agreement'
    BY <1>1, <1>5, <2>1, <2>2, JobKeepsAgreement
  <2> QED BY <2>3, <2>4
<1> QED BY <1>4, <1>5 DEF ReadForFreeze, ReadForHandover

-----------------------------------------------------------------------------
(* Steps that write the journal or the routes. *)

LEMMA PrepareKeeps ==
  ASSUME JInv, Order, Agreement, [JNext]_jvars,
         NEW c \in Coordinators, NEW b \in Batches, NEW r \in Requests, Prepare(c, b, r)
  PROVE  Order' /\ Agreement'
<1> DEFINE op == [ state |-> "prepared", request |-> r,
                   from |-> [s \in ScopesOf(r) |-> owners[s].owner],
                   generation |-> [s \in ScopesOf(r) |-> owners[s].generation],
                   routeGeneration |-> [i \in Members(r) |-> routes[i].generation] ]
           j == [ pc |-> "freeze", batch |-> b, todo |-> ScopesOf(r), scope |-> NoScope, token |-> 0 ]
<1>1. /\ op.state = "prepared" /\ op.request = r
      /\ \A i \in Members(r) : op.routeGeneration[i] = routes[i].generation
      /\ j.pc = "freeze" /\ j.batch = b /\ j.todo = ScopesOf(r)
  OBVIOUS
<1>2. /\ ops' = [ops EXCEPT ![b] = op] /\ job' = [job EXCEPT ![c] = j]
      /\ ops[b].state = "none" /\ ~Overlaps(r) /\ UNCHANGED <<owners, routes>>
  BY DEF Prepare, Begin, ledger
<1> HIDE DEF op, j
<1>3. ops'[b] = op /\ \A e \in Batches \ {b} : ops'[e] = ops[e]
  BY <1>2, JInvParts DEF JTables
<1>4. job'[c] = j /\ \A d \in Coordinators \ {c} : job'[d] = job[d]
  BY <1>2, JInvParts DEF JTables
<1>5. ASSUME NEW d \in Coordinators, job'[d].pc # "idle", d # c
      PROVE  /\ job'[d] = job[d] /\ job[d].batch \in Batches /\ job[d].batch # b
             /\ ops'[job[d].batch] = ops[job[d].batch]
  BY <1>2, <1>3, <1>4, <1>5, BatchCovers, BatchKnown
<1>6. ASSUME NEW s \in Scopes, NEW e \in Covering(s, ops)'
      PROVE  \/ e = b /\ ops'[e] = op /\ s \in ScopesOf(r)
             \/ e # b /\ e \in Covering(s, ops) /\ ops'[e] = ops[e]
  BY <1>1, <1>3 DEF Covering
<1>7. ASSUME NEW s \in Scopes, NEW e \in Covering(s, ops)
      PROVE  e # b /\ e \in Covering(s, ops)' /\ ops'[e] = ops[e]
  BY <1>2, <1>3 DEF Covering
<1>8. ASSUME NEW i \in Identities, NEW e \in Moving(i, ops)'
       PROVE  \/ e = b /\ ops'[e] = op /\ i \in Members(r)
              \/ e # b /\ e \in Moving(i, ops) /\ ops'[e] = ops[e]
  BY <1>1, <1>3 DEF Moving
<1>9. Seeded'
  BY SeededStep DEF Order
<1>10. JobScopes'
  <2> SUFFICES ASSUME NEW d \in Coordinators, job'[d].pc # "idle"
               PROVE  /\ job'[d].todo \subseteq ScopesOf(ops'[job'[d].batch].request)
                      /\ job'[d].pc \in {"freezing", "handing"} => job'[d].scope \in job'[d].todo
    BY DEF JobScopes
  <2>1. CASE d = c
    BY <1>1, <1>3, <1>4, <2>1
  <2>2. CASE d # c
    BY <1>5, <2>2 DEF Order, JobScopes
  <2> QED BY <2>1, <2>2
<1>11. OnePrepared'
  <2> SUFFICES ASSUME NEW s \in Scopes, NEW x \in Covering(s, ops)', NEW y \in Covering(s, ops)',
                      ops'[x].state = "prepared", ops'[y].state = "prepared"
               PROVE  x = y
    BY DEF OnePrepared
  <2>1. ASSUME NEW e \in Covering(s, ops), ops[e].state = "prepared", s \in ScopesOf(r)
        PROVE  FALSE
    BY <1>2, <2>1 DEF Overlaps, Covering
  <2> QED BY <1>6, <2>1 DEF Order, OnePrepared
<1>12. RouteOrder'
  <2> SUFFICES ASSUME NEW i \in Identities, NEW x \in Moving(i, ops)'
               PROVE  /\ ops'[x].state = "prepared" => RouteBefore(x, i)' \/ RouteAfter(x, i)'
                      /\ ops'[x].state = "committed" =>
                           /\ routes'[i].generation > ops'[x].routeGeneration[i]
                           /\ \A e \in Moving(i, ops)' : ops'[e].state = "prepared"
                                => ops'[e].routeGeneration[i] > ops'[x].routeGeneration[i]
    BY DEF RouteOrder
  <2>1. CASE x = b
    BY <1>1, <1>2, <1>8, <2>1 DEF RouteBefore
  <2>2. CASE x # b
    <3>1. x \in Moving(i, ops) /\ ops'[x] = ops[x]
      BY <1>8, <2>2
    <3>2. ops[x].state = "prepared" => RouteBefore(x, i)' \/ RouteAfter(x, i)'
      BY <1>2, <3>1 DEF Order, RouteOrder, RouteBefore, RouteAfter
    <3>3. ASSUME ops[x].state = "committed"
          PROVE  routes[i].generation > ops[x].routeGeneration[i]
      BY <3>1, <3>3 DEF Order, RouteOrder
    <3>4. ASSUME ops[x].state = "committed", NEW e \in Moving(i, ops)', ops'[e].state = "prepared"
          PROVE  ops'[e].routeGeneration[i] > ops[x].routeGeneration[i]
      <4>1. CASE e = b
        BY <1>1, <1>8, <3>3, <3>4, <4>1
      <4>2. CASE e # b
        BY <1>8, <3>1, <3>4, <4>2 DEF Order, RouteOrder
      <4> QED BY <4>1, <4>2
    <3> QED BY <1>2, <3>1, <3>2, <3>3, <3>4
  <2> QED BY <2>1, <2>2
<1>13. RoutesMoved'
  <2> SUFFICES ASSUME NEW d \in Coordinators,
                      job'[d].pc \in {"handover", "handing", "releasing"},
                      ops'[job'[d].batch].state = "prepared",
                      NEW i \in Members(ops'[job'[d].batch].request)
               PROVE  RouteAfter(job[d].batch, i)'
    BY DEF RoutesMoved
  <2>1. d # c /\ job'[d].pc # "idle"
    BY <1>1, <1>4
  <2>2. RouteAfter(job[d].batch, i)
    BY <1>5, <2>1 DEF Order, RoutesMoved
  <2> QED BY <1>2, <1>5, <2>1, <2>2 DEF RouteAfter
<1>14. ASSUME NEW s \in Scopes, Settled(s)' PROVE Settled(s)
  <2> SUFFICES ASSUME NEW e \in Covering(s, ops), ops[e].state = "prepared"
               PROVE  \E d \in Coordinators : job[d].pc = "releasing" /\ job[d].batch = e
    BY DEF Settled
  <2>1. PICK d \in Coordinators : job'[d].pc = "releasing" /\ job'[d].batch = e
    BY <1>7, <1>14 DEF Settled
  <2> QED BY <1>1, <1>4, <2>1
<1>15. SettledAgree'
  BY <1>2, <1>14 DEF Agreement, SettledAgree, Agrees
<1>16. TokensAgree'
  <2> SUFFICES ASSUME NEW s \in Scopes, NEW d \in Coordinators,
                      Settled(s)', owners'[s].token # 0, HandsOver(d, s)'
               PROVE  InForce(job[d].batch, s)'
    BY DEF TokensAgree
  <2>1. d # c /\ job'[d].pc # "idle"
    BY <1>1, <1>4 DEF HandsOver
  <2>2. HandsOver(d, s)
    BY <1>4, <2>1 DEF HandsOver
  <2>3. InForce(job[d].batch, s)
    BY <1>2, <1>14, <2>2 DEF Agreement, TokensAgree
  <2> QED BY <1>2, <1>5, <2>1, <2>3 DEF InForce, RouteAfter
<1> QED BY <1>9, <1>10, <1>11, <1>12, <1>13, <1>15, <1>16 DEF Order, Agreement

LEMMA WriteRoutesKeeps ==
  ASSUME JInv, Order, Agreement, [JNext]_jvars, NEW c \in Coordinators, WriteRoutes(c)
  PROVE  Order' /\ Agreement'
<1> DEFINE b == job[c].batch
           M == Members(ops[b].request)
           S == ScopesOf(ops[b].request)
           moved(i) == [route |-> ops[b].request.routes[i], generation |-> ops[b].routeGeneration[i] + 1]
<1>1. /\ job[c].pc = "freeze" /\ UNCHANGED <<owners, ops>>
      /\ \A i \in M : RouteBefore(b, i) \/ RouteAfter(b, i)
      /\ routes' = [i \in Identities |-> IF i \in M THEN moved(i) ELSE routes[i]]
  BY DEF WriteRoutes, ledger
<1>2. /\ b \in Batches /\ ops[b].state \in {"prepared", "committed"}
      /\ \A s \in S : s \in Scopes /\ b \in Covering(s, ops)
      /\ \A i \in M : i \in Identities /\ b \in Moving(i, ops)
  BY <1>1, BatchCovers, BatchKnown
<1>3. /\ job'[c].pc = "handover" /\ job'[c].batch = b /\ job'[c].todo = S
      /\ \A d \in Coordinators \ {c} : job'[d] = job[d]
  <2> DEFINE j == [job[c] EXCEPT !.pc = "handover", !.todo = S]
  <2>1. job' = [job EXCEPT ![c] = j]
    BY Zenon DEF WriteRoutes
  <2>2. job \in [Coordinators -> JobType] /\ job[c] \in JobType
    BY JInvParts DEF JTables
  <2>3. j.pc = "handover" /\ j.batch = b /\ j.todo = S
    BY <2>2 DEF JobType
  <2> HIDE DEF j, b, M, S
  <2> QED BY <2>1, <2>2, <2>3
<1>4. ASSUME NEW i \in M
      PROVE  /\ routes'[i].generation = ops[b].routeGeneration[i] + 1
             /\ routes'[i].route = ops[b].request.routes[i]
             /\ \A x : x = b => RouteAfter(x, i)'
  <2>1. routes'[i] = moved(i)
    BY <1>1, <1>2
  <2>2. routes'[i].generation = ops[b].routeGeneration[i] + 1 /\ routes'[i].route = ops[b].request.routes[i]
    BY <2>1
  <2>3. ASSUME NEW x, x = b PROVE RouteAfter(x, i)'
    BY <1>1, <2>2, <2>3 DEF RouteAfter
  <2> QED BY <2>2, <2>3
<1>5. ASSUME NEW i \in M, RouteAfter(b, i) PROVE routes'[i] = routes[i]
  <2>1. routes'[i] = moved(i)
    BY <1>1, <1>2
  <2>2. routes[i] \in [route : RouteNames, generation : Nat]
    BY <1>2, JInvParts DEF JTables
  <2> QED BY <1>5, <2>1, <2>2 DEF RouteAfter
<1>6. \A i \in Identities \ M : routes'[i] = routes[i]
  BY <1>1
<1>7. ASSUME NEW i \in M, ops[b].state = "committed" PROVE routes'[i] = routes[i]
  <2>1. routes[i].generation > ops[b].routeGeneration[i]
    BY <1>2, <1>7 DEF Order, RouteOrder
  <2>2. ops[b].routeGeneration[i] \in Nat
    BY <1>2, MovingKnown
  <2>3. ~RouteBefore(b, i)
    BY <2>1, <2>2 DEF RouteBefore
  <2> QED BY <1>1, <1>5, <2>3
<1> HIDE DEF moved
<1>8. Seeded'
  BY SeededStep DEF Order
<1>9. JobScopes'
  <2> SUFFICES ASSUME NEW d \in Coordinators, job'[d].pc # "idle"
               PROVE  /\ job'[d].todo \subseteq ScopesOf(ops[job'[d].batch].request)
                      /\ job'[d].pc \in {"freezing", "handing"} => job'[d].scope \in job'[d].todo
    BY <1>1 DEF JobScopes
  <2>1. CASE d = c
    BY <1>3, <2>1
  <2>2. CASE d # c
    BY <1>3, <2>2 DEF Order, JobScopes
  <2> QED BY <2>1, <2>2
<1>10. OnePrepared'
  BY <1>1 DEF Order, OnePrepared, Covering
<1>11. ASSUME NEW i \in Identities, i \notin M \/ ops[b].state = "committed"
       PROVE  routes'[i] = routes[i]
  BY <1>6, <1>7, <1>11
<1>12. RouteOrder'
  <2> SUFFICES ASSUME NEW i \in Identities, NEW x \in Moving(i, ops)
               PROVE  /\ ops[x].state = "prepared" => RouteBefore(x, i)' \/ RouteAfter(x, i)'
                      /\ ops[x].state = "committed" =>
                           /\ routes'[i].generation > ops[x].routeGeneration[i]
                           /\ \A e \in Moving(i, ops) : ops[e].state = "prepared"
                                => ops[e].routeGeneration[i] > ops[x].routeGeneration[i]
    BY <1>1 DEF RouteOrder, Moving
  <2>1. CASE routes'[i] = routes[i]
    BY <1>1, <2>1 DEF Order, RouteOrder, RouteBefore, RouteAfter
  <2>2. CASE i \in M /\ ops[b].state = "prepared"
    <3>1. b \in Moving(i, ops)
      BY <1>2, <2>2
    <3>2. ops[x].state = "prepared" => x = b
      BY <2>2, <3>1, OneMoves DEF Order
    <3>3. ASSUME ops[x].state = "committed"
          PROVE  /\ routes'[i].generation > ops[x].routeGeneration[i]
                 /\ \A e \in Moving(i, ops) : ops[e].state = "prepared"
                      => ops[e].routeGeneration[i] > ops[x].routeGeneration[i]
      <4>1. ops[b].routeGeneration[i] > ops[x].routeGeneration[i]
        BY <2>2, <3>1, <3>3 DEF Order, RouteOrder
      <4>2. ops[b].routeGeneration[i] \in Nat /\ ops[x].routeGeneration[i] \in Nat
        BY <3>1, MovingKnown
      <4>3. routes'[i].generation = ops[b].routeGeneration[i] + 1
        BY <1>4, <2>2
      <4>4. \A e \in Moving(i, ops) : ops[e].state = "prepared"
              => ops[e].routeGeneration[i] > ops[x].routeGeneration[i]
        BY <3>3 DEF Order, RouteOrder
      <4> QED BY <4>1, <4>2, <4>3, <4>4
    <3> QED BY <1>4, <2>2, <3>2, <3>3
  <2> QED BY <1>2, <1>11, <2>1, <2>2
<1>13. RoutesMoved'
  <2> SUFFICES ASSUME NEW d \in Coordinators,
                      job'[d].pc \in {"handover", "handing", "releasing"},
                      ops[job'[d].batch].state = "prepared",
                      NEW i \in Members(ops[job'[d].batch].request)
               PROVE  RouteAfter(job[d].batch, i)'
    BY <1>1 DEF RoutesMoved
  <2>1. CASE d = c
    BY <1>3, <1>4, <2>1
  <2>2. CASE d # c
    <3>1. job'[d] = job[d] /\ RouteAfter(job[d].batch, i)
      BY <1>3, <2>2 DEF Order, RoutesMoved
    <3>2. i \in Identities /\ job[d].batch \in Moving(i, ops)
      BY <3>1, BatchCovers
    <3>3. CASE routes'[i] = routes[i]
      BY <1>1, <3>1, <3>3 DEF RouteAfter
    <3>4. CASE i \in M /\ ops[b].state = "prepared"
      <4>1. job[d].batch = b
        BY <1>2, <3>1, <3>2, <3>4, OneMoves DEF Order
      <4>2. RouteAfter(b, i)
        BY <3>1, <4>1
      <4> QED BY <1>1, <1>5, <3>1, <3>4, <4>2 DEF RouteAfter
    <3> QED BY <1>2, <1>11, <3>2, <3>3, <3>4
  <2> QED BY <2>1, <2>2
<1>14. ASSUME NEW s \in Scopes, Settled(s)'
       PROVE  Settled(s) /\ \A i \in IdentitiesOf(s) : routes'[i] = routes[i]
  <2>1. Settled(s)
    BY <1>1, <1>3, <1>14 DEF Settled, Covering
  <2>2. ASSUME NEW i \in IdentitiesOf(s), i \in M, ops[b].state = "prepared"
        PROVE  routes'[i] = routes[i]
    <3>1. s \in S
      BY <2>2 DEF ScopesOf, IdentitiesOf
    <3>2. PICK e \in Coordinators : job[e].pc = "releasing" /\ job[e].batch = b
      BY <1>2, <2>1, <2>2, <3>1 DEF Settled
    <3>3. RouteAfter(b, i)
      BY <2>2, <3>2 DEF Order, RoutesMoved
    <3> QED BY <1>5, <2>2, <3>3
  <2> QED BY <1>2, <1>11, <2>1, <2>2 DEF IdentitiesOf
<1>15. SettledAgree'
  BY <1>1, <1>14 DEF Agreement, SettledAgree, Agrees, AgreesWith
<1>16. TokensAgree'
  <2> SUFFICES ASSUME NEW s \in Scopes, NEW d \in Coordinators,
                      Settled(s)', owners'[s].token # 0, HandsOver(d, s)'
               PROVE  InForce(job[d].batch, s)'
    BY DEF TokensAgree
  <2>1. CASE d = c
    BY <1>1, <1>3, <1>4, <2>1 DEF InForce
  <2>2. CASE d # c
    <3>1. HandsOver(d, s) /\ job'[d] = job[d]
      BY <1>3, <2>2 DEF HandsOver
    <3>2. InForce(job[d].batch, s)
      BY <1>1, <1>14, <3>1 DEF Agreement, TokensAgree
    <3> QED BY <1>1, <1>14, <3>1, <3>2 DEF InForce, RouteAfter
  <2> QED BY <2>1, <2>2
<1> QED BY <1>8, <1>9, <1>10, <1>12, <1>13, <1>15, <1>16 DEF Order, Agreement

LEMMA ReleaseKeeps ==
  ASSUME JInv, Order, Agreement, [JNext]_jvars, NEW c \in Coordinators, Release(c)
  PROVE  Order' /\ Agreement'
<1> DEFINE b == job[c].batch
<1>1. /\ job[c].pc = "releasing" /\ UNCHANGED <<owners, routes>>
      /\ \A i \in Members(ops[b].request) : RouteAfter(b, i)
      /\ ops' = [ops EXCEPT ![b].state = "committed"] /\ job' = [job EXCEPT ![c] = Nobody]
  BY DEF Release, ledger
<1>2. b \in Batches /\ \E r \in Requests : ops[b] \in OpType(r)
  BY <1>1, BatchKnown
<1>3. /\ ops'[b].state = "committed" /\ ops'[b].request = ops[b].request
      /\ ops'[b].routeGeneration = ops[b].routeGeneration
      /\ \A e \in Batches \ {b} : ops'[e] = ops[e]
  <2>1. ops'[b] = [ops[b] EXCEPT !.state = "committed"]
        /\ \A e \in Batches \ {b} : ops'[e] = ops[e]
    BY <1>1, <1>2, JInvParts DEF JTables
  <2> HIDE DEF b
  <2> QED BY <1>2, <2>1 DEF OpType
<1>4. /\ job'[c].pc = "idle" /\ \A d \in Coordinators \ {c} : job'[d] = job[d]
  BY <1>1, JInvParts DEF JTables, Nobody
<1> HIDE DEF b
<1>5. ASSUME NEW d \in Coordinators, job'[d].pc # "idle"
      PROVE  d # c /\ job'[d] = job[d] /\ job[d].batch \in Batches
  BY <1>4, <1>5, BatchKnown
<1>6. ASSUME NEW e \in Batches
      PROVE  /\ ops'[e].request = ops[e].request /\ ops'[e].routeGeneration = ops[e].routeGeneration
             /\ ops'[e].state = "prepared" => e # b /\ ops[e].state = "prepared"
             /\ ops'[e].state = "none" <=> ops[e].state = "none"
             /\ ops'[e].state = "committed" => e = b \/ ops[e].state = "committed"
  <2>1. ops[b].state # "none"
    BY <1>2 DEF OpType
  <2> QED BY <1>3, <2>1
<1>7. /\ \A s : Covering(s, ops)' = Covering(s, ops)
      /\ \A i : Moving(i, ops)' = Moving(i, ops)
  BY <1>6 DEF Covering, Moving
<1>8. \A e \in Batches : \A i : RouteAfter(e, i) => RouteAfter(e, i)'
  BY <1>1, <1>6 DEF RouteAfter
<1>9. Seeded'
  BY SeededStep DEF Order
<1>10. JobScopes'
  <2> SUFFICES ASSUME NEW d \in Coordinators, job'[d].pc # "idle"
               PROVE  /\ job'[d].todo \subseteq ScopesOf(ops'[job'[d].batch].request)
                      /\ job'[d].pc \in {"freezing", "handing"} => job'[d].scope \in job'[d].todo
    BY DEF JobScopes
  <2>1. ops'[job[d].batch].request = ops[job[d].batch].request /\ job'[d] = job[d]
    BY <1>5, <1>6
  <2> QED BY <2>1 DEF Order, JobScopes
<1>11. OnePrepared'
  <2> SUFFICES ASSUME NEW s \in Scopes, NEW x \in Covering(s, ops), NEW y \in Covering(s, ops),
                      ops'[x].state = "prepared", ops'[y].state = "prepared"
               PROVE  x = y
    BY <1>7 DEF OnePrepared
  <2> QED BY <1>6 DEF Order, OnePrepared, Covering
<1>12. RouteOrder'
  <2> SUFFICES ASSUME NEW i \in Identities, NEW x \in Moving(i, ops)
               PROVE  /\ ops'[x].state = "prepared" => RouteBefore(x, i)' \/ RouteAfter(x, i)'
                      /\ ops'[x].state = "committed" =>
                           /\ routes[i].generation > ops[x].routeGeneration[i]
                           /\ \A e \in Moving(i, ops) : ops'[e].state = "prepared"
                                => ops[e].routeGeneration[i] > ops[x].routeGeneration[i]
    BY <1>1, <1>6, <1>7 DEF RouteOrder, Moving
  <2>1. x \in Batches /\ ops[x].routeGeneration[i] \in Nat
    BY MovingKnown
  <2>2. ASSUME ops'[x].state = "prepared" PROVE RouteBefore(x, i)' \/ RouteAfter(x, i)'
    <3>1. RouteBefore(x, i) \/ RouteAfter(x, i)
      BY <1>6, <2>1, <2>2 DEF Order, RouteOrder
    <3> QED BY <1>1, <1>6, <2>1, <3>1 DEF RouteBefore, RouteAfter
  <2>3. CASE ops[x].state = "committed"
    <3>1. \A e \in Moving(i, ops) : ops'[e].state = "prepared" => ops[e].state = "prepared"
      BY <1>6 DEF Moving
    <3> QED BY <2>2, <2>3, <3>1 DEF Order, RouteOrder
  <2>4. CASE x = b /\ ops[x].state = "prepared"
    <3>1. routes[i].generation = ops[x].routeGeneration[i] + 1
      BY <1>1, <2>4, MovingKnown DEF RouteAfter
    <3>2. ASSUME NEW e \in Moving(i, ops), ops'[e].state = "prepared" PROVE FALSE
      <4>1. e # b /\ ops[e].state = "prepared"
        BY <1>6, <3>2 DEF Moving
      <4> QED BY <2>4, <4>1, OneMoves DEF Order
    <3> QED BY <2>1, <2>2, <3>1, <3>2
  <2>5. ops[x].state \in {"prepared", "committed"}
    BY MovingKnown
  <2> QED BY <1>6, <2>1, <2>2, <2>3, <2>4, <2>5
<1>13. RoutesMoved'
  <2> SUFFICES ASSUME NEW d \in Coordinators,
                      job'[d].pc \in {"handover", "handing", "releasing"},
                      ops'[job'[d].batch].state = "prepared",
                      NEW i \in Members(ops'[job'[d].batch].request)
               PROVE  RouteAfter(job[d].batch, i)'
    BY DEF RoutesMoved
  <2>1. job'[d] = job[d] /\ job[d].batch \in Batches
    BY <1>5
  <2>2. RouteAfter(job[d].batch, i)
    BY <1>6, <2>1 DEF Order, RoutesMoved
  <2> QED BY <1>8, <2>1, <2>2
<1>14. ASSUME NEW s \in Scopes, Settled(s)' PROVE Settled(s)
  <2> SUFFICES ASSUME NEW x \in Covering(s, ops), ops[x].state = "prepared"
               PROVE  \E e \in Coordinators : job[e].pc = "releasing" /\ job[e].batch = x
    BY DEF Settled
  <2>1. CASE x = b
    BY <1>1, <2>1 DEF b
  <2>2. CASE x # b
    <3>1. x \in Covering(s, ops)' /\ ops'[x].state = "prepared"
      BY <1>3, <1>7, <2>2 DEF Covering
    <3>2. PICK e \in Coordinators : job'[e].pc = "releasing" /\ job'[e].batch = x
      BY <1>14, <3>1 DEF Settled
    <3> QED BY <1>4, <3>2
  <2> QED BY <2>1, <2>2
<1>15. SettledAgree'
  BY <1>1, <1>14 DEF Agreement, SettledAgree, Agrees
<1>16. TokensAgree'
  <2> SUFFICES ASSUME NEW s \in Scopes, NEW d \in Coordinators,
                      Settled(s)', owners'[s].token # 0, HandsOver(d, s)'
               PROVE  InForce(job[d].batch, s)'
    BY DEF TokensAgree
  <2>1. job'[d] = job[d] /\ HandsOver(d, s) /\ job[d].batch \in Batches
    BY <1>5 DEF HandsOver
  <2>2. InForce(job[d].batch, s)
    BY <1>1, <1>14, <2>1 DEF Agreement, TokensAgree
  <2> QED BY <1>6, <1>8, <2>1, <2>2 DEF InForce
<1> QED BY <1>9, <1>10, <1>11, <1>12, <1>13, <1>15, <1>16 DEF Order, Agreement

-----------------------------------------------------------------------------

LEMMA OrderInit == JInit => Order /\ Agreement
<1> SUFFICES ASSUME JInit PROVE Order /\ Agreement
  OBVIOUS
<1>1. /\ \A s : Covering(s, ops) = {}
      /\ \A i : Moving(i, ops) = {}
  BY DEF JInit, Covering, Moving, NoOp
<1>2. \A c \in Coordinators : job[c].pc = "idle"
  BY DEF JInit, Nobody
<1>3. \A s \in Scopes : owners[s].owner = "legacy" /\ owners[s].generation = 1
  BY DEF JInit
<1>4. \A i \in Identities : routes[i].route = "legacy"
  BY DEF JInit
<1> QED BY <1>1, <1>2, <1>3, <1>4
        DEF Order, Seeded, JobScopes, OnePrepared, RouteOrder, RoutesMoved, Agreement, SettledAgree,
            Agrees, AgreesWith, IdentitiesOf, TokensAgree, HandsOver

\* An attempt touches nothing of this.
LEMMA AttemptKeeps ==
  ASSUME JInv, Order, Agreement, [JNext]_jvars, UNCHANGED joint, AttemptStep \/ UNCHANGED vars
  PROVE  Order' /\ Agreement'
<1>1. \A s \in Scopes : owners'[s] = owners[s]
  BY AttemptOwners DEF vars, ledger, Order
<1>2. UNCHANGED <<ops, routes, job>>
  BY DEF joint
<1>3. Order'
  BY <1>1, <1>2 DEF Order, Seeded, JobScopes, OnePrepared, RouteOrder, RoutesMoved, Covering,
                    Moving, RouteBefore, RouteAfter
<1>4. Agreement'
  BY <1>1, <1>2 DEF Agreement, SettledAgree, TokensAgree, Settled, Covering, Agrees, HandsOver,
                    InForce, RouteAfter
<1> QED BY <1>3, <1>4

LEMMA OrderStep ==
  JInv /\ Order /\ Agreement /\ [JNext]_jvars /\ ~LateFreeze => Order' /\ Agreement'
<1> SUFFICES ASSUME JInv, Order, Agreement, [JNext]_jvars, ~LateFreeze PROVE Order' /\ Agreement'
  OBVIOUS
<1>1. CASE (AttemptStep /\ UNCHANGED joint) \/ UNCHANGED jvars
  BY <1>1, AttemptKeeps DEF jvars
<1>2. CASE CoordinatorStep
  <2> PICK c \in Coordinators :
        \/ \E b \in Batches, r \in Requests : Prepare(c, b, r)
        \/ \E b \in Batches : Resume(c, b)
        \/ Stop(c)
        \/ \E s \in Scopes : ReadForFreeze(c, s) \/ ReadForHandover(c, s)
        \/ FreezeScope(c) \/ WriteRoutes(c) \/ HandOverScope(c)
        \/ ReadForRelease(c) \/ Release(c)
    BY <1>2 DEF CoordinatorStep
  <2>1. CASE \E b \in Batches, r \in Requests : Prepare(c, b, r)
    BY <2>1, PrepareKeeps
  <2>2. CASE (\E b \in Batches : Resume(c, b)) \/ Stop(c) \/ ReadForRelease(c)
    BY <2>2, RunKeeps
  <2>3. CASE \E s \in Scopes : ReadForFreeze(c, s) \/ ReadForHandover(c, s)
    BY <2>3, ReadKeeps
  <2>4. CASE FreezeScope(c)
    BY <2>4, LedgerKeepsOrder, FreezeKeepsAgreement
  <2>5. CASE HandOverScope(c)
    BY <2>5, LedgerKeepsOrder, HandoverKeepsAgreement
  <2>6. CASE WriteRoutes(c) \/ Release(c)
    BY <2>6, WriteRoutesKeeps, ReleaseKeeps
  <2> QED BY <2>1, <2>2, <2>3, <2>4, <2>5, <2>6
<1> QED BY <1>1, <1>2 DEF JNext

LEMMA AgreementReleases ==
  JInv /\ Agreement => ReleasedFollows /\ (Unmixed => ReleasedAgree)
<1> SUFFICES ASSUME Agreement, NEW s \in Scopes, ~Pending(s) PROVE Agrees(s)
  BY DEF ReleasedFollows, ReleasedAgree, Agrees, AgreesWith
<1>1. Settled(s)
  BY DEF Pending, Settled
<1> QED BY <1>1 DEF Agreement, SettledAgree

\* However many runs of execute there are, and whatever they read before, the
\* dispatcher owns no released scope without a target route, and without mixed
\* batches and shared scopes route and owner agree, as long as no freeze that is
\* late meets a hand-over that is later.
THEOREM OnlyLateFreezesMislead ==
  JSpec /\ [][~LateFreeze]_jvars => [](ReleasedFollows /\ (Unmixed => ReleasedAgree))
<1>1. JInit => Order /\ Agreement
  BY OrderInit
<1>2. JInv /\ Order /\ Agreement /\ [JNext]_jvars /\ [~LateFreeze]_jvars => Order' /\ Agreement'
  <2>1. JInv /\ Order /\ Agreement /\ UNCHANGED jvars => Order' /\ Agreement'
    BY AttemptKeeps DEF jvars
  <2> QED BY <2>1, OrderStep
<1>3. JInv /\ Agreement => ReleasedFollows /\ (Unmixed => ReleasedAgree)
  BY AgreementReleases
<1> QED BY <1>1, <1>2, <1>3, JInvariance, PTL DEF JSpec

\* A run is late when its batch has been released by another.
Late(c) == job[c].pc # "idle" /\ ops[job[c].batch].state = "committed"

OneLate == \A c, d \in Coordinators : Late(c) /\ Late(d) => c = d

AtMostTwo == \A c, d, e \in Coordinators : c = d \/ d = e \/ c = e

\* Whoever releases a batch is through with it: the others are late.
LEMMA BecomesLate ==
  ASSUME JInv, [JNext]_jvars, NEW c \in Coordinators, Late(c)', ~Late(c)
  PROVE  \E d \in Coordinators : ~Late(d)' /\ d # c
<1>1. job \in [Coordinators -> JobType] /\ ops = [b \in Batches |-> ops[b]]
  BY JInvParts DEF JTables
<1>2. ASSUME NEW d \in Coordinators, Release(d)
      PROVE  ~Late(d)' /\ d # c
  <2>1. job'[d].pc = "idle"
    BY <1>1, <1>2 DEF Release, Nobody
  <2> QED BY <2>1 DEF Late
<1>3. ASSUME UNCHANGED ops,
             NEW d \in Coordinators, NEW j, job' = [job EXCEPT ![d] = j],
             j.pc # "idle" => \/ job[d].pc # "idle" /\ j.batch = job[d].batch
                              \/ ops[j.batch].state = "prepared"
      PROVE  FALSE
  BY <1>1, <1>3 DEF Late
<1>4. ASSUME NEW d \in Coordinators, NEW b \in Batches, NEW r \in Requests, Prepare(d, b, r)
      PROVE  FALSE
  <2> DEFINE op == [ state |-> "prepared", request |-> r,
                     from |-> [s \in ScopesOf(r) |-> owners[s].owner],
                     generation |-> [s \in ScopesOf(r) |-> owners[s].generation],
                     routeGeneration |-> [i \in Members(r) |-> routes[i].generation] ]
             j == [ pc |-> "freeze", batch |-> b, todo |-> ScopesOf(r), scope |-> NoScope, token |-> 0 ]
  <2>1. ops' = [ops EXCEPT ![b] = op] /\ job' = [job EXCEPT ![d] = j]
    BY <1>4 DEF Prepare, Begin
  <2>2. op.state = "prepared" /\ j.batch = b
    OBVIOUS
  <2> HIDE DEF op, j
  <2>3. ops'[b].state = "prepared" /\ \A e \in Batches \ {b} : ops'[e] = ops[e]
    BY <1>1, <2>1, <2>2
  <2>4. CASE c = d
    BY <1>1, <2>1, <2>2, <2>3, <2>4 DEF Late
  <2>5. CASE c # d
    <3>1. job'[c] = job[c]
      BY <1>1, <2>1, <2>5
    <3>2. job[c].pc # "idle" /\ job[c].batch \in Batches
      BY <3>1, BatchKnown DEF Late
    <3> QED BY <2>3, <3>1, <3>2 DEF Late
  <2> QED BY <2>4, <2>5
<1>5. ASSUME NEW d \in Coordinators, NEW b \in Batches, Resume(d, b)
      PROVE  FALSE
  <2> DEFINE j == [ pc |-> "freeze", batch |-> b, todo |-> ScopesOf(ops[b].request),
                    scope |-> NoScope, token |-> 0 ]
  <2>1. job' = [job EXCEPT ![d] = j] /\ UNCHANGED ops /\ ops[b].state = "prepared"
    BY <1>5 DEF Resume, Begin
  <2>2. j.batch = b
    OBVIOUS
  <2> HIDE DEF j
  <2> QED BY <1>3, <2>1, <2>2
<1>6. ASSUME NEW d \in Coordinators, Stop(d)
      PROVE  FALSE
  <2>1. job' = [job EXCEPT ![d] = Nobody] /\ UNCHANGED ops /\ Nobody.pc = "idle"
    BY <1>6 DEF Stop, Nobody
  <2> QED BY <1>3, <2>1
<1>7. ASSUME NEW d \in Coordinators, NEW s, NEW pc, job[d].pc # "idle", UNCHANGED ops,
             Done(d, s, pc) \/ Chosen(d, s, pc)
      PROVE  FALSE
  <2> DEFINE j == IF Done(d, s, pc)
                    THEN [ pc |-> pc, batch |-> job[d].batch, todo |-> job[d].todo \ {s},
                           scope |-> NoScope, token |-> 0 ]
                    ELSE [ pc |-> pc, batch |-> job[d].batch, todo |-> job[d].todo,
                           scope |-> s, token |-> owners[s].token ]
  <2>1. job' = [job EXCEPT ![d] = j]
    BY <1>7 DEF Done, Chosen
  <2>2. j.batch = job[d].batch
    OBVIOUS
  <2> HIDE DEF j
  <2> QED BY <1>3, <1>7, <2>1, <2>2
<1>8. ASSUME NEW d \in Coordinators, WriteRoutes(d) \/ ReadForRelease(d)
      PROVE  FALSE
  <2>1. \A e \in Coordinators : job'[e].batch = job[e].batch
    BY <1>1, <1>8 DEF WriteRoutes, ReadForRelease, JobType
  <2>2. \A e \in Coordinators : job[e].pc = "idle" => job'[e].pc = "idle"
    BY <1>1, <1>8 DEF WriteRoutes, ReadForRelease
  <2>3. UNCHANGED ops
    BY <1>8 DEF WriteRoutes, ReadForRelease
  <2> QED BY <2>1, <2>2, <2>3 DEF Late
<1>9. CASE (AttemptStep /\ UNCHANGED joint) \/ UNCHANGED jvars
  BY <1>9 DEF jvars, joint, Late
<1>10. CASE CoordinatorStep
  <2> PICK d \in Coordinators :
        \/ \E b \in Batches, r \in Requests : Prepare(d, b, r)
        \/ \E b \in Batches : Resume(d, b)
        \/ Stop(d)
        \/ \E s \in Scopes : ReadForFreeze(d, s) \/ ReadForHandover(d, s)
        \/ FreezeScope(d) \/ WriteRoutes(d) \/ HandOverScope(d)
        \/ ReadForRelease(d) \/ Release(d)
    BY <1>10 DEF CoordinatorStep
  <2>1. CASE \E s \in Scopes : ReadForFreeze(d, s) \/ ReadForHandover(d, s)
    BY <1>7, <2>1 DEF ReadForFreeze, ReadForHandover
  <2>2. CASE FreezeScope(d) \/ HandOverScope(d)
    BY <1>7, <2>2 DEF FreezeScope, HandOverScope
  <2> QED BY <1>2, <1>4, <1>5, <1>6, <1>8, <2>1, <2>2
<1> QED BY <1>9, <1>10 DEF JNext

LEMMA OneLateStep == ASSUME JInv, OneLate, AtMostTwo, [JNext]_jvars PROVE OneLate'
<1> SUFFICES ASSUME NEW c \in Coordinators, NEW d \in Coordinators, Late(c)', Late(d)', c # d
             PROVE  FALSE
  BY DEF OneLate
<1>1. ~Late(c) \/ ~Late(d)
  BY DEF OneLate
<1>2. PICK e \in Coordinators : ~Late(e)'
  BY <1>1, BecomesLate
<1>3. e = c \/ e = d
  BY DEF AtMostTwo
<1> QED BY <1>2, <1>3

\* Of two runs none meets another that late.
LEMMA TwoAreSafe == ASSUME JInv, Order, OneLate, AtMostTwo PROVE ~LateFreeze
<1> SUFFICES ASSUME NEW c \in Coordinators, NEW d \in Coordinators,
                    FreezeScope(d), Settled(job[d].scope), HandsOver(c, job[d].scope)
             PROVE  FALSE
  BY DEF LateFreeze
<1> DEFINE s == job[d].scope
<1>1. /\ job[d].pc = "freezing" /\ job[c].pc \in {"handover", "handing"} /\ c # d
      /\ s \in job[d].todo /\ s \in job[c].todo /\ s \in Scopes
  BY DEF FreezeScope, HandsOver, Order, JobScopes, JInv, JobShape
<1>2. /\ job[c].batch \in Covering(s, ops) /\ job[d].batch \in Covering(s, ops)
      /\ ops[job[c].batch].state \in {"prepared", "committed"}
      /\ ops[job[d].batch].state \in {"prepared", "committed"}
  BY <1>1, BatchCovers DEF Order, JobScopes
<1>3. ASSUME NEW b \in Covering(s, ops), ops[b].state = "prepared"
      PROVE  FALSE
  <2>1. PICK e \in Coordinators : job[e].pc = "releasing"
    BY <1>3 DEF Settled
  <2>2. e # c /\ e # d
    BY <1>1, <2>1
  <2> QED BY <1>1, <2>2 DEF AtMostTwo
<1>4. Late(c) /\ Late(d)
  BY <1>1, <1>2, <1>3 DEF Late
<1> QED BY <1>1, <1>4 DEF OneLate

LEMMA TwoKeep ==
  AtMostTwo /\ JInv /\ Order /\ Agreement /\ OneLate /\ [JNext]_jvars
    => Order' /\ Agreement' /\ OneLate'
BY OrderStep, OneLateStep, TwoAreSafe

LEMMA TwoInit == JInit => Order /\ Agreement /\ OneLate
<1>1. JInit => OneLate
  BY DEF JInit, OneLate, Late, Nobody
<1> QED BY <1>1, OrderInit

\* While at most two runs of execute overlap, the dispatcher owns no released
\* scope without a target route, whatever mixture of routes the batches ask for.
THEOREM TwoRunsFollow == AtMostTwo => (JSpec => []ReleasedFollows)
<1> SUFFICES ASSUME AtMostTwo PROVE JSpec => []ReleasedFollows
  OBVIOUS
<1>1. JInv /\ Order /\ Agreement /\ OneLate /\ [JNext]_jvars => Order' /\ Agreement' /\ OneLate'
  BY TwoKeep
<1>2. JInv /\ Agreement => ReleasedFollows
  BY AgreementReleases
<1> QED BY <1>1, <1>2, TwoInit, JInvariance, PTL DEF JSpec

\* No half migration is ever runnable while at most two runs of execute overlap,
\* if no batch is mixed and no two identities share a scope.
THEOREM TwoRunsAgree == AtMostTwo /\ Unmixed => (JSpec => []ReleasedAgree)
<1> SUFFICES ASSUME AtMostTwo, Unmixed PROVE JSpec => []ReleasedAgree
  OBVIOUS
<1>1. JInv /\ Order /\ Agreement /\ OneLate /\ [JNext]_jvars => Order' /\ Agreement' /\ OneLate'
  BY TwoKeep
<1>2. JInv /\ Agreement => ReleasedAgree
  BY AgreementReleases
<1> QED BY <1>1, <1>2, TwoInit, JInvariance, PTL DEF JSpec
=============================================================================
