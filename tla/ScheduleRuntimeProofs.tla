----------------------- MODULE ScheduleRuntimeProofs -----------------------
(***************************************************************************)
(* Theorems about ScheduleRuntime, for every set of triggers, scopes,      *)
(* owners and attempts.                                                    *)
(***************************************************************************)
EXTENDS ScheduleRuntime, TLAPS

\* What arrived says what it is.
WorkShape ==
  \A a \in Attempts :
    work[a].pc # "idle" =>
      work[a].key \in Keys /\ work[a].owner \in Owners /\ work[a].actor \in Actors

\* A claim has an owner, an actor and a generation.
ClaimShape ==
  \A k \in Keys :
    claims[k].status # "absent" =>
      claims[k].owner \in Owners /\ claims[k].actor \in Actors /\ claims[k].generation # 0

\* Engaged: past its claim, so that it may still write on it.
Engaged(a) == work[a].pc \in {"working", "publishing", "written", "failing"}

\* An attempt works in a generation that is not ahead of the claim's, and in the
\* claim's only while nobody was told to take the claim up again.
EngagedClaimed ==
  \A a \in Attempts :
    Engaged(a) =>
      LET c == claims[work[a].key] IN
      /\ c.status # "absent"
      /\ work[a].generation <= c.generation
      /\ work[a].generation = c.generation => c.status \in {"running", "void"}

\* One attempt at most is engaged in the generation of a claim.
SoleEngaged ==
  \A a, b \in Attempts :
    a # b /\ Engaged(a) /\ Engaged(b) /\ work[a].key = work[b].key =>
      ~(work[a].generation = claims[work[a].key].generation
        /\ work[b].generation = claims[work[a].key].generation)

IInv ==
  /\ TypeOK
  /\ WorkShape
  /\ ClaimShape
  /\ UnfinishedIsCurrent
  /\ PublishedOnce
  /\ WriterIsCurrent
  /\ EngagedClaimed
  /\ SoleEngaged

-----------------------------------------------------------------------------

\* What a claim is, its references apart.
SameClaim(c, d) ==
  d.status = c.status /\ d.owner = c.owner /\ d.generation = c.generation /\ d.actor = c.actor

\* What an attempt works on, its place in the program apart.
SameWork(v, w) ==
  w.key = v.key /\ w.owner = v.owner /\ w.generation = v.generation /\ w.actor = v.actor

\* The initial states satisfy the invariant: there are no claims yet.
LEMMA InitInv == Init => IInv
BY LedgerAssumption
DEF Init, IInv, TypeOK, WorkShape, ClaimShape, UnfinishedIsCurrent, PublishedOnce,
    WriterIsCurrent, EngagedClaimed, SoleEngaged, Engaged, Idle, NoClaim, Unfinished,
    OwnerType, ClaimType, WorkType, LeaseType, Rows, Pcs

\* While nobody has the write lock, nobody publishes.
LEMMA NobodyPublishes ==
  ASSUME IInv, Unlocked
  PROVE  \A a \in Attempts : work[a].pc \notin {"publishing", "written"}
BY LedgerAssumption DEF IInv, WriterIsCurrent, Unlocked

\* A step that takes nobody past a claim, and leaves owners and claims as they
\* are but for references.
LEMMA Moves ==
  ASSUME IInv,
         UNCHANGED <<isolated, owners, tokens, fenced>>,
         claims' \in [Keys -> ClaimType],
         \A k \in Keys : SameClaim(claims[k], claims'[k]),
         history' \in [Keys -> [published : BOOLEAN, errorLast : BOOLEAN]],
         results' \in [Keys -> SUBSET LeaseType], PublishedOnce',
         writer' \in Attempts \union {NoAttempt},
         work' \in [Attempts -> WorkType],
         \A a \in Attempts :
           /\ SameWork(work[a], work'[a])
           /\ work'[a].pc # "idle" => work[a].pc # "idle"
           /\ Engaged(a)' => Engaged(a)
           /\ work'[a].pc \in {"publishing", "written"} => writer' = a /\ Holds(a)
  PROVE  IInv'
<1>1. TypeOK' /\ WorkShape' /\ ClaimShape'
  <2>1. TypeOK'
    BY DEF IInv, TypeOK
  <2>2. WorkShape'
    BY DEF IInv, WorkShape, SameWork
  <2>3. ClaimShape'
    BY DEF IInv, ClaimShape, SameClaim
  <2> QED BY <2>1, <2>2, <2>3
<1>2. UnfinishedIsCurrent'
  BY DEF IInv, UnfinishedIsCurrent, SameClaim
<1>3. ASSUME NEW a \in Attempts, Engaged(a)
      PROVE  work[a].key \in Keys
  BY <1>3 DEF IInv, WorkShape, Engaged
<1>4. WriterIsCurrent'
  <2> SUFFICES ASSUME NEW a \in Attempts, work'[a].pc \in {"publishing", "written"}
               PROVE  writer' = a /\ Holds(a)'
    BY DEF WriterIsCurrent
  <2>1. writer' = a /\ Holds(a) /\ Engaged(a)
    BY DEF Engaged
  <2>2. work[a].key \in Keys /\ SameWork(work[a], work'[a])
    BY <1>3, <2>1
  <2> QED BY <2>1, <2>2 DEF Holds, ScopeFor, SameClaim, SameWork
<1>5. EngagedClaimed' /\ SoleEngaged'
  <2>1. \A a \in Attempts : Engaged(a)' =>
          /\ Engaged(a) /\ SameWork(work[a], work'[a])
          /\ SameClaim(claims[work[a].key], claims'[work[a].key])
    BY <1>3
  <2> QED BY <2>1 DEF IInv, EngagedClaimed, SoleEngaged, SameClaim, SameWork
<1> QED BY <1>1, <1>2, <1>4, <1>5 DEF IInv

\* An attempt that goes on to another place of its program.
LEMMA PcMoves ==
  ASSUME IInv, NEW a \in Attempts, NEW pc \in Pcs \ {"idle"},
         Goto(a, pc), work[a].pc # "idle",
         UNCHANGED <<isolated, owners, tokens, fenced>>,
         claims' \in [Keys -> ClaimType],
         \A k \in Keys : SameClaim(claims[k], claims'[k]),
         history' \in [Keys -> [published : BOOLEAN, errorLast : BOOLEAN]],
         results' \in [Keys -> SUBSET LeaseType], PublishedOnce',
         writer' \in Attempts \union {NoAttempt},
         pc \in {"working", "publishing", "written", "failing"} => Engaged(a),
         pc \in {"publishing", "written"} => writer' = a /\ Holds(a),
         \A b \in Attempts \ {a} : writer = b => writer' = b
  PROVE  IInv'
<1>1. work' \in [Attempts -> WorkType]
  <2>1. work \in [Attempts -> WorkType] /\ work' = [work EXCEPT ![a].pc = pc] /\ pc \in Pcs
    BY DEF IInv, TypeOK, Goto
  <2> QED BY <2>1 DEF WorkType
<1>2. work'[a].pc = pc /\ SameWork(work[a], work'[a])
  BY DEF IInv, TypeOK, WorkType, Goto, SameWork
<1>3. \A b \in Attempts \ {a} : work'[b] = work[b]
  BY DEF IInv, TypeOK, Goto
<1>4. ASSUME NEW b \in Attempts
      PROVE  /\ SameWork(work[b], work'[b])
             /\ work'[b].pc # "idle" => work[b].pc # "idle"
             /\ Engaged(b)' => Engaged(b)
             /\ work'[b].pc \in {"publishing", "written"} => writer' = b /\ Holds(b)
  <2>1. CASE b = a
    BY <1>2, <2>1 DEF Engaged
  <2>2. CASE b # a
    BY <1>3, <2>2 DEF Engaged, SameWork, IInv, WriterIsCurrent
  <2> QED BY <2>1, <2>2
<1> QED BY <1>1, <1>4, Moves

\* A step that leaves the claims alone and owners that exist as they are, but
\* for freezes, while nobody writes.
LEMMA OwnersMove ==
  ASSUME IInv, Unlocked,
         UNCHANGED <<isolated, claims, history, results, writer, work, fenced>>,
         owners' \in [Rows -> OwnerType], tokens' \in Nat,
         \A s \in Rows : owners[s].generation # 0 =>
           owners'[s].owner = owners[s].owner /\ owners'[s].generation = owners[s].generation
  PROVE  IInv'
<1>1. UnfinishedIsCurrent'
  <2> SUFFICES ASSUME NEW k \in Keys, claims[k].status \in Unfinished
               PROVE  /\ claims[k].owner = owners'[ScopeOf[k]].owner
                      /\ claims[k].generation = owners'[ScopeOf[k]].generation
    BY DEF UnfinishedIsCurrent
  <2>1. ScopeOf[k] \in Rows
    BY LedgerAssumption DEF Rows
  <2>2. claims[k].generation # 0
    BY DEF IInv, ClaimShape, Unfinished
  <2> QED BY <2>1, <2>2 DEF IInv, UnfinishedIsCurrent
<1>2. WriterIsCurrent'
  BY NobodyPublishes DEF WriterIsCurrent
<1> QED BY <1>1, <1>2
  DEF IInv, TypeOK, WorkShape, ClaimShape, PublishedOnce, EngagedClaimed, SoleEngaged, Engaged

\* The row a scope has, or would get.
LEMMA RowType ==
  ASSUME IInv, NEW s \in Scopes, NEW o \in Owners
  PROVE  /\ RowOf(s, o) \in OwnerType /\ RowOf(s, o).generation # 0
         /\ owners[s].generation # 0 => RowOf(s, o) = owners[s]
BY DEF IInv, TypeOK, RowOf, OwnerType, Rows

-----------------------------------------------------------------------------
(* Attempts. *)

\* An idle attempt arrives, or finalizes: it is not past a claim yet.
LEMMA Begins ==
  ASSUME IInv, NEW a \in Attempts, work[a].pc = "idle",
         NEW w \in [pc : {"arrived", "finalizing"}, key : Keys, owner : Owners,
                    generation : Nat, actor : Actors],
         work' = [work EXCEPT ![a] = w],
         UNCHANGED <<isolated, owners, claims, results, writer, tokens, fenced>>,
         history' \in [Keys -> [published : BOOLEAN, errorLast : BOOLEAN]]
  PROVE  IInv'
<1>1. w \in WorkType /\ w.pc # "idle"
  BY DEF WorkType, Pcs
<1>2. work' \in [Attempts -> WorkType] /\ work'[a] = w /\ (\A b \in Attempts \ {a} : work'[b] = work[b])
  BY <1>1 DEF IInv, TypeOK
<1>3. TypeOK' /\ WorkShape'
  BY <1>2 DEF IInv, TypeOK, WorkShape
<1>4. \A b \in Attempts : Engaged(b)' => b # a /\ Engaged(b) /\ work'[b] = work[b]
  BY <1>2 DEF Engaged
<1>5. WriterIsCurrent'
  <2> SUFFICES ASSUME NEW b \in Attempts, work'[b].pc \in {"publishing", "written"}
               PROVE  writer' = b /\ Holds(b)'
    BY DEF WriterIsCurrent
  <2>1. work'[b] = work[b]
    BY <1>4 DEF Engaged
  <2> QED BY <2>1 DEF IInv, WriterIsCurrent, Holds, ScopeFor
<1>6. EngagedClaimed' /\ SoleEngaged'
  BY <1>4 DEF IInv, EngagedClaimed, SoleEngaged
<1> QED BY <1>3, <1>5, <1>6 DEF IInv, ClaimShape, UnfinishedIsCurrent, PublishedOnce

LEMMA ArriveInv ==
  ASSUME IInv, NEW a \in Attempts, NEW k \in Keys, NEW o \in Owners, NEW x \in Actors,
         Arrive(a, k, o, x)
  PROVE  IInv'
<1>1. history' \in [Keys -> [published : BOOLEAN, errorLast : BOOLEAN]]
  BY DEF IInv, TypeOK, Arrive, Recorded
<1> QED BY <1>1, Begins DEF Arrive

LEMMA BeginFinalizeInv ==
  ASSUME IInv, NEW a \in Attempts, NEW k \in Keys, BeginFinalize(a, k)
  PROVE  IInv'
<1>1. claims[k].owner \in Owners /\ claims[k].actor \in Actors /\ claims[k].generation \in Nat
  BY DEF IInv, TypeOK, ClaimShape, ClaimType, BeginFinalize
<1>2. /\ UNCHANGED <<isolated, owners, claims, results, writer, tokens, fenced>>
      /\ history' \in [Keys -> [published : BOOLEAN, errorLast : BOOLEAN]]
  BY DEF IInv, TypeOK, BeginFinalize, ledger
<1> QED BY <1>1, <1>2, Begins DEF BeginFinalize

\* Claims as they were are the same claims.
LEMMA ClaimsAsWere ==
  ASSUME IInv, UNCHANGED claims
  PROVE  claims' \in [Keys -> ClaimType] /\ \A k \in Keys : SameClaim(claims[k], claims'[k])
BY DEF IInv, TypeOK, SameClaim

\* The steps of an attempt that leave owners, claims and results alone.
LEMMA QuietInv ==
  ASSUME IInv, NEW a \in Attempts,
         \/ Skip(a) \/ Refuse(a) \/ Refused(a) \/ EnterGuard(a) \/ WriteReport(a)
         \/ RollBackPublication(a) \/ Raise(a) \/ RecordError(a) \/ Crash(a) \/ Finalize(a)
  PROVE  IInv'
<1>1. UNCHANGED claims /\ UNCHANGED <<isolated, owners, tokens, fenced>> /\ UNCHANGED results
  BY DEF Skip, Refuse, Refused, EnterGuard, WriteReport, RollBackPublication, Raise,
         RecordError, Crash, Finalize, ledger
<1>2. PublishedOnce' /\ results' \in [Keys -> SUBSET LeaseType]
  BY <1>1 DEF IInv, TypeOK, PublishedOnce
<1>3. writer \in Attempts \union {NoAttempt} /\ history \in [Keys -> [published : BOOLEAN, errorLast : BOOLEAN]]
  BY DEF IInv, TypeOK
<1>4. work[a].pc # "idle" => work[a].key \in Keys
  BY DEF IInv, WorkShape
<1>5. CASE Skip(a)
  <2>1. history' \in [Keys -> [published : BOOLEAN, errorLast : BOOLEAN]]
    BY <1>3, <1>4, <1>5 DEF Skip, Recorded
  <2> QED BY <1>1, <1>2, <1>3, <1>5, <2>1, ClaimsAsWere, PcMoves DEF Skip, Pcs
<1>6. CASE Refuse(a)
  BY <1>1, <1>2, <1>3, <1>6, ClaimsAsWere, PcMoves DEF Refuse, Pcs, ledger
<1>7. CASE Refused(a)
  <2>1. history' \in [Keys -> [published : BOOLEAN, errorLast : BOOLEAN]]
    BY <1>3, <1>4, <1>7 DEF Refused, Recorded
  <2> QED BY <1>1, <1>2, <1>3, <1>7, <2>1, ClaimsAsWere, PcMoves DEF Refused, Pcs, Engaged
<1>8. CASE EnterGuard(a)
  <2>1. Goto(a, "publishing") /\ work[a].pc = "working" /\ writer' = a /\ Holds(a)
        /\ writer \notin Attempts /\ history' = history
    BY <1>8, LedgerAssumption DEF EnterGuard, Passes, Unlocked
  <2> QED BY <1>1, <1>2, <1>3, <2>1, ClaimsAsWere, PcMoves DEF Pcs, Engaged
<1>9. CASE WriteReport(a)
  <2>1. Goto(a, "written") /\ work[a].pc = "publishing" /\ writer' = a /\ writer = a /\ Holds(a)
        /\ history' = history
    BY <1>9 DEF WriteReport, IInv, WriterIsCurrent, ledger
  <2> QED BY <1>1, <1>2, <1>3, <2>1, ClaimsAsWere, PcMoves DEF Pcs, Engaged
<1>10. CASE RollBackPublication(a)
  <2>1. /\ Goto(a, "failing") /\ work[a].pc \in {"publishing", "written"}
        /\ writer' = NoAttempt /\ writer = a /\ history' = history
    BY <1>10 DEF RollBackPublication, IInv, WriterIsCurrent
  <2> QED BY <1>1, <1>2, <1>3, <2>1, ClaimsAsWere, PcMoves DEF Pcs, Engaged
<1>11. CASE Raise(a)
  BY <1>1, <1>2, <1>3, <1>11, ClaimsAsWere, PcMoves DEF Raise, Pcs, Engaged, ledger
<1>12. CASE RecordError(a)
  <2>1. history' \in [Keys -> [published : BOOLEAN, errorLast : BOOLEAN]]
    BY <1>3, <1>4, <1>12 DEF RecordError
  <2> QED BY <1>1, <1>2, <1>3, <1>12, <2>1, ClaimsAsWere, PcMoves DEF RecordError, Pcs
<1>13. CASE Crash(a)
  <2>1. /\ Goto(a, "dead") /\ work[a].pc # "idle" /\ history' = history
        /\ writer' \in Attempts \union {NoAttempt}
        /\ \A b \in Attempts \ {a} : writer = b => writer' = b
    BY <1>3, <1>13 DEF Crash
  <2> QED BY <1>1, <1>2, <1>3, <2>1, ClaimsAsWere, PcMoves DEF Pcs
<1>14. CASE Finalize(a)
  <2>1. Finalizes(a) \in BOOLEAN
    BY DEF Finalizes
  <2>2. history' \in [Keys -> [published : BOOLEAN, errorLast : BOOLEAN]]
    BY <1>3, <1>4, <1>14, <2>1 DEF Finalize
  <2> QED BY <1>1, <1>2, <1>3, <1>14, <2>2, ClaimsAsWere, PcMoves DEF Finalize, Pcs
<1> QED BY <1>5, <1>6, <1>7, <1>8, <1>9, <1>10, <1>11, <1>12, <1>13, <1>14

\* The binding in Memory keeps a second lease out.
LEMMA WriteResultInv == ASSUME IInv, NEW a \in Attempts, WriteResult(a) PROVE IInv'
<1>1. /\ Goto(a, "written") /\ work[a].pc = "publishing" /\ writer' = a /\ writer = a /\ Holds(a)
      /\ UNCHANGED <<isolated, owners, tokens, fenced>> /\ UNCHANGED claims /\ UNCHANGED history
  BY DEF WriteResult, IInv, WriterIsCurrent
<1>2. /\ work[a].key \in Keys /\ work[a].owner \in Owners /\ work[a].actor \in Actors
      /\ work[a].generation \in Nat
  BY <1>1 DEF IInv, WorkShape, TypeOK, WorkType
<1>3. Lease(a) \in LeaseType
  BY <1>2 DEF Lease, LeaseType
<1>4. results' \in [Keys -> SUBSET LeaseType]
  BY <1>2, <1>3 DEF WriteResult, IInv, TypeOK
<1>5. PublishedOnce'
  <2> SUFFICES ASSUME NEW k \in Keys, NEW l \in results'[k], NEW m \in results'[k] PROVE l = m
    BY DEF PublishedOnce
  <2>1. CASE k = work[a].key
    <3>1. l = Lease(a) /\ m = Lease(a)
      BY <2>1 DEF WriteResult, Binds, IInv, TypeOK
    <3> QED BY <3>1
  <2>2. CASE k # work[a].key
    BY <2>2 DEF WriteResult, IInv, TypeOK, PublishedOnce
  <2> QED BY <2>1, <2>2
<1>6. writer' \in Attempts \union {NoAttempt} /\ history' \in [Keys -> [published : BOOLEAN, errorLast : BOOLEAN]]
  BY <1>1 DEF IInv, TypeOK
<1> QED BY <1>1, <1>4, <1>5, <1>6, ClaimsAsWere, PcMoves DEF Pcs, Engaged

\* References are all that publishing and reusing leave on a claim.
LEMMA ReferencesOnly ==
  ASSUME IInv, NEW k \in Keys, NEW ref \in BOOLEAN, claims' = [claims EXCEPT ![k].refs = ref]
  PROVE  claims' \in [Keys -> ClaimType] /\ \A j \in Keys : SameClaim(claims[j], claims'[j])
<1>1. claims \in [Keys -> ClaimType]
  BY DEF IInv, TypeOK
<1>2. claims' \in [Keys -> ClaimType]
  BY <1>1 DEF ClaimType
<1>3. \A j \in Keys : SameClaim(claims[j], claims'[j])
  BY <1>1 DEF ClaimType, SameClaim
<1> QED BY <1>2, <1>3

LEMMA CommitInv ==
  ASSUME IInv, NEW a \in Attempts, NEW ref \in BOOLEAN, CommitPublication(a, ref)
  PROVE  IInv'
<1>1. /\ Goto(a, "working") /\ work[a].pc = "written" /\ writer' = NoAttempt /\ writer = a
      /\ UNCHANGED <<isolated, owners, tokens, fenced>> /\ UNCHANGED results
  BY DEF CommitPublication, IInv, WriterIsCurrent
<1>2. work[a].key \in Keys
  BY <1>1 DEF IInv, WorkShape
<1>3. history' \in [Keys -> [published : BOOLEAN, errorLast : BOOLEAN]]
  BY <1>2 DEF CommitPublication, IInv, TypeOK
<1>4. (claims[work[a].key].refs \/ ref) \in BOOLEAN
  OBVIOUS
<1>5. claims' \in [Keys -> ClaimType] /\ \A j \in Keys : SameClaim(claims[j], claims'[j])
  BY <1>2, <1>4, ReferencesOnly DEF CommitPublication
<1>6. PublishedOnce' /\ results' \in [Keys -> SUBSET LeaseType]
  BY <1>1 DEF IInv, TypeOK, PublishedOnce
<1> QED BY <1>1, <1>3, <1>5, <1>6, PcMoves DEF Pcs, Engaged

LEMMA ReuseInv == ASSUME IInv, NEW a \in Attempts, Reuse(a) PROVE IInv'
<1>1. /\ work[a].pc = "working" /\ UNCHANGED <<isolated, owners, tokens, fenced>>
      /\ UNCHANGED results /\ UNCHANGED writer /\ UNCHANGED work
  BY DEF Reuse, Passes
<1>2. work[a].key \in Keys
  BY <1>1 DEF IInv, WorkShape
<1>3. history' \in [Keys -> [published : BOOLEAN, errorLast : BOOLEAN]]
  BY <1>2 DEF Reuse, Recorded, IInv, TypeOK
<1>4. claims' \in [Keys -> ClaimType] /\ \A j \in Keys : SameClaim(claims[j], claims'[j])
  BY <1>2, ReferencesOnly DEF Reuse
<1>5. /\ PublishedOnce' /\ results' \in [Keys -> SUBSET LeaseType]
      /\ writer' \in Attempts \union {NoAttempt} /\ work' \in [Attempts -> WorkType]
  BY <1>1 DEF IInv, TypeOK, PublishedOnce
<1>6. \A b \in Attempts :
        /\ SameWork(work[b], work'[b])
        /\ work'[b].pc # "idle" => work[b].pc # "idle"
        /\ Engaged(b)' => Engaged(b)
        /\ work'[b].pc \in {"publishing", "written"} => writer' = b /\ Holds(b)
  BY <1>1 DEF SameWork, Engaged, IInv, WriterIsCurrent
<1> QED BY <1>1, <1>3, <1>4, <1>5, <1>6, Moves

\* An attempt that writes the status of the claim it is engaged in, and is then
\* engaged no more.  Nobody else is, in the claim's generation.
LEMMA Leaves ==
  ASSUME IInv, NEW a \in Attempts, NEW status \in Unfinished \union {"complete"}, NEW pc \in {"done", "recording"},
         Engaged(a), Unlocked, Goto(a, pc),
         status # claims[work[a].key].status =>
           claims[work[a].key].status = "running" /\ work[a].generation = claims[work[a].key].generation,
         claims' = [claims EXCEPT ![work[a].key].status = status]
           \/ UNCHANGED claims,
         UNCHANGED <<isolated, owners, results, writer, tokens, fenced>>,
         history' \in [Keys -> [published : BOOLEAN, errorLast : BOOLEAN]]
  PROVE  IInv'
<1> DEFINE k == work[a].key
<1>1. k \in Keys
  BY DEF IInv, WorkShape, Engaged
<1>2. claims \in [Keys -> ClaimType] /\ work \in [Attempts -> WorkType]
  BY DEF IInv, TypeOK
<1>3. claims' \in [Keys -> ClaimType]
  <2>1. CASE UNCHANGED claims
    BY <1>2, <2>1
  <2>2. CASE claims' = [claims EXCEPT ![work[a].key].status = status]
    <3> DEFINE row == [claims[k] EXCEPT !.status = status]
    <3>1. claims' = [claims EXCEPT ![k] = row]
      BY <1>1, <1>2, <2>2, Zenon
    <3>2. status \in Unfinished \union {"absent", "complete", "void"} /\ claims[k] \in ClaimType
      BY <1>1, <1>2
    <3>3. row \in ClaimType
      BY <3>2 DEF ClaimType
    <3> HIDE DEF row
    <3> QED BY <1>2, <3>1, <3>3
  <2> QED BY <2>1, <2>2
<1>4. /\ work' \in [Attempts -> WorkType] /\ work'[a].pc = pc /\ SameWork(work[a], work'[a])
      /\ \A b \in Attempts \ {a} : work'[b] = work[b]
  <2>1. pc \in Pcs
    BY DEF Pcs
  <2> QED BY <1>2, <2>1 DEF WorkType, Goto, SameWork
<1>5. \A j \in Keys :
        /\ claims'[j].owner = claims[j].owner /\ claims'[j].generation = claims[j].generation
        /\ claims'[j].actor = claims[j].actor
        /\ claims'[j].status \in {claims[j].status, status}
        /\ claims'[j].status # claims[j].status =>
             j = k /\ claims[k].status = "running" /\ work[a].generation = claims[k].generation
  BY <1>1, <1>2 DEF ClaimType
<1> HIDE DEF k
<1>6. TypeOK' /\ WorkShape' /\ ClaimShape'
  <2>1. TypeOK'
    BY <1>3, <1>4 DEF IInv, TypeOK
  <2>2. WorkShape'
    BY <1>4 DEF IInv, WorkShape, SameWork, Engaged
  <2>3. ClaimShape'
    BY <1>5 DEF IInv, ClaimShape
  <2> QED BY <2>1, <2>2, <2>3
<1>7. UnfinishedIsCurrent' /\ PublishedOnce'
  BY <1>5 DEF IInv, UnfinishedIsCurrent, PublishedOnce, Unfinished
<1>8. \A b \in Attempts : Engaged(b)' => b # a /\ Engaged(b) /\ work'[b] = work[b]
  BY <1>4 DEF Engaged
<1>9. WriterIsCurrent'
  BY <1>8, NobodyPublishes DEF WriterIsCurrent, Engaged
<1>10. \A b \in Attempts : Engaged(b)' => work[b].key \in Keys
  BY <1>8 DEF IInv, WorkShape, Engaged
<1>11. SoleEngaged'
  BY <1>5, <1>8, <1>10 DEF IInv, SoleEngaged
<1>12. EngagedClaimed'
  <2> SUFFICES ASSUME NEW b \in Attempts, Engaged(b)'
               PROVE  LET c == claims'[work[b].key] IN
                      /\ c.status # "absent"
                      /\ work[b].generation <= c.generation
                      /\ work[b].generation = c.generation => c.status \in {"running", "void"}
    BY <1>8 DEF EngagedClaimed
  <2>1. /\ b # a /\ Engaged(b) /\ work[b].key \in Keys
    BY <1>8, <1>10
  <2>2. CASE claims'[work[b].key].status = claims[work[b].key].status
    BY <1>5, <2>1, <2>2 DEF IInv, EngagedClaimed
  <2>3. CASE claims'[work[b].key].status # claims[work[b].key].status
    <3>1. work[b].key = work[a].key /\ work[a].generation = claims[work[a].key].generation
      BY <1>5, <2>1, <2>3 DEF k
    <3>2. work[b].generation # claims[work[b].key].generation
      BY <2>1, <3>1 DEF IInv, SoleEngaged
    <3> QED BY <1>5, <2>1, <2>3, <3>2 DEF IInv, EngagedClaimed, Unfinished
  <2> QED BY <2>2, <2>3
<1> QED BY <1>6, <1>7, <1>9, <1>11, <1>12 DEF IInv

LEMMA CompleteInv == ASSUME IInv, NEW a \in Attempts, Complete(a) PROVE IInv'
<1>1. work[a].pc = "working" /\ Engaged(a) /\ Unlocked /\ Goto(a, "done")
  BY DEF Complete, Passes, Engaged
<1>2. work[a].key \in Keys
  BY <1>1 DEF IInv, WorkShape
<1>3. claims[work[a].key].status = "running" /\ work[a].generation = claims[work[a].key].generation
  BY DEF Complete, Passes, Holds
<1>4. history' \in [Keys -> [published : BOOLEAN, errorLast : BOOLEAN]]
  BY <1>2 DEF Complete, Recorded, IInv, TypeOK
<1> QED BY <1>1, <1>3, <1>4, Leaves DEF Complete

LEMMA MarkFailedInv == ASSUME IInv, NEW a \in Attempts, MarkFailed(a) PROVE IInv'
<1>1. Engaged(a) /\ Unlocked /\ Goto(a, "recording")
  BY DEF MarkFailed, Engaged
<1>2. history' \in [Keys -> [published : BOOLEAN, errorLast : BOOLEAN]]
  BY DEF MarkFailed, IInv, TypeOK
<1>3. CASE FailsUnpublished(a)
  <2>1. claims[work[a].key].status = "running" /\ work[a].generation = claims[work[a].key].generation
    BY <1>3 DEF FailsUnpublished
  <2>2. claims' = [claims EXCEPT ![work[a].key].status = "failed"]
    BY <1>3 DEF MarkFailed
  <2> QED BY <1>1, <1>2, <2>1, <2>2, Leaves DEF MarkFailed, Unfinished
<1>4. CASE ~FailsUnpublished(a)
  <2>1. claims' = [claims EXCEPT ![work[a].key].status = claims[work[a].key].status]
    BY <1>4 DEF MarkFailed
  <2>2. UNCHANGED claims
    <3>1. claims \in [Keys -> ClaimType]
      BY DEF IInv, TypeOK
    <3>2. \A j \in Keys : claims'[j] = claims[j]
      BY <2>1, <3>1 DEF ClaimType
    <3> QED BY <2>1, <3>1, <3>2
  <2>3. work[a].pc = "failing" /\ Pcs \ {"idle"} # {} /\ "recording" \in Pcs \ {"idle"}
    BY DEF MarkFailed, Pcs
  <2>4. PublishedOnce' /\ results' \in [Keys -> SUBSET LeaseType] /\ writer' \in Attempts \union {NoAttempt}
    BY DEF MarkFailed, IInv, TypeOK, PublishedOnce
  <2> QED BY <1>1, <1>2, <2>2, <2>3, <2>4, ClaimsAsWere, PcMoves DEF MarkFailed
<1> QED BY <1>3, <1>4

\* A claim is created, or taken up again: nobody is engaged in its generation.
LEMMA ClaimInv == ASSUME IInv, NEW a \in Attempts, Claim(a) PROVE IInv'
<1> DEFINE k == work[a].key
           s == ScopeOf[k]
           row == RowOf(s, work[a].owner)
           d == [ status |-> "running", owner |-> work[a].owner, generation |-> row.generation,
                  actor |-> work[a].actor, refs |-> claims[k].refs ]
           w == [work[a] EXCEPT !.pc = "working", !.generation = row.generation]
<1>1. work[a].pc = "arrived" /\ Unlocked /\ k \in Keys /\ s \in Scopes
      /\ work[a].owner \in Owners /\ work[a].actor \in Actors
  BY LedgerAssumption DEF Claim, IInv, WorkShape
<1>2. /\ owners' = [owners EXCEPT ![s] = row] /\ claims' = [claims EXCEPT ![k] = d]
      /\ UNCHANGED <<isolated, results, writer, tokens, fenced>>
      /\ row.token = 0 /\ row.owner = work[a].owner
      /\ claims[k].status = "absent" \/ Resumes(a)
  BY DEF Claim, Entitled, ScopeFor
<1>3. /\ row \in OwnerType /\ row.generation # 0 /\ row.generation \in Nat
      /\ owners[s].generation # 0 => row = owners[s]
  BY <1>1, RowType DEF OwnerType
<1>4. d \in ClaimType
  BY <1>1, <1>3 DEF IInv, TypeOK, ClaimType, Unfinished
<1>5. /\ work' \in [Attempts -> WorkType] /\ (\A b \in Attempts \ {a} : work'[b] = work[b])
      /\ work'[a].pc = "working" /\ work'[a].generation = row.generation
      /\ work'[a].key = k /\ work'[a].owner = work[a].owner /\ work'[a].actor = work[a].actor
  <2>1. /\ work \in [Attempts -> WorkType]
        /\ work' = [work EXCEPT ![a].pc = "working", ![a].generation = row.generation]
    BY DEF Claim, IInv, TypeOK, ScopeFor
  <2> HIDE DEF k, s, row
  <2> QED BY <1>3, <2>1 DEF WorkType, Pcs, k
<1>6. claims[k].status \in {"pending", "failed"} => row.generation = claims[k].generation
  BY <1>2 DEF Resumes, ScopeFor
<1>7. claims[k].status \in {"absent", "pending", "failed"}
  BY <1>2 DEF Resumes
<1>8. d.status = "running" /\ d.owner = row.owner /\ d.generation = row.generation /\ d.actor = work[a].actor
  BY <1>2
<1> HIDE DEF d, row
<1>9. history' \in [Keys -> [published : BOOLEAN, errorLast : BOOLEAN]]
  BY <1>1 DEF Claim, Recorded, IInv, TypeOK
<1>10. owners' \in [Rows -> OwnerType] /\ claims' \in [Keys -> ClaimType]
       /\ owners'[s] = row /\ claims'[k] = d
       /\ \A j \in Keys \ {k} : claims'[j] = claims[j]
       /\ \A r \in Rows \ {s} : owners'[r] = owners[r]
  BY <1>1, <1>2, <1>3, <1>4 DEF IInv, TypeOK, Rows
<1> HIDE DEF k, s
<1>11. TypeOK'
  BY <1>2, <1>5, <1>9, <1>10 DEF IInv, TypeOK
<1>12. WorkShape'
  BY <1>1, <1>5 DEF IInv, WorkShape
<1>13. ClaimShape'
  BY <1>1, <1>2, <1>3, <1>8, <1>10 DEF IInv, ClaimShape
<1>14. UnfinishedIsCurrent'
  <2> SUFFICES ASSUME NEW j \in Keys, claims'[j].status \in Unfinished
               PROVE  /\ claims'[j].owner = owners'[ScopeOf[j]].owner
                      /\ claims'[j].generation = owners'[ScopeOf[j]].generation
    BY DEF UnfinishedIsCurrent
  <2>1. CASE j = k
    BY <1>8, <1>10, <2>1 DEF s
  <2>2. CASE j # k /\ ScopeOf[j] = s
    <3>1. claims[j].generation # 0 /\ claims[j].owner = owners[s].owner /\ claims[j].generation = owners[s].generation
      BY <1>10, <2>2 DEF IInv, ClaimShape, UnfinishedIsCurrent, Unfinished
    <3> QED BY <1>3, <1>10, <2>2, <3>1
  <2>3. CASE j # k /\ ScopeOf[j] # s
    <3>1. ScopeOf[j] \in Rows
      BY LedgerAssumption DEF Rows
    <3> QED BY <1>10, <2>3, <3>1 DEF IInv, UnfinishedIsCurrent
  <2> QED BY <2>1, <2>2, <2>3
<1>15. WriterIsCurrent' /\ PublishedOnce'
  BY <1>1, <1>2, <1>5, NobodyPublishes DEF IInv, WriterIsCurrent, PublishedOnce
<1>16. ASSUME NEW b \in Attempts, Engaged(b)', b # a
       PROVE  /\ work'[b] = work[b] /\ Engaged(b) /\ work[b].key \in Keys
              /\ work[b].key = k => work[b].generation < row.generation
  <2>1. work'[b] = work[b] /\ Engaged(b) /\ work[b].key \in Keys
    BY <1>5, <1>16 DEF Engaged, IInv, WorkShape
  <2>2. work[b].generation \in Nat /\ claims[k].generation \in Nat
    BY <1>1 DEF IInv, TypeOK, WorkType, ClaimType
  <2>3. work[b].key = k => claims[k].status # "absent" /\ work[b].generation <= claims[k].generation
                           /\ work[b].generation # claims[k].generation
    BY <1>7, <2>1 DEF IInv, EngagedClaimed
  <2> QED BY <1>6, <1>7, <2>1, <2>2, <2>3
<1>17. EngagedClaimed'
  <2> SUFFICES ASSUME NEW b \in Attempts, Engaged(b)'
               PROVE  LET c == claims'[work'[b].key] IN
                      /\ c.status # "absent"
                      /\ work'[b].generation <= c.generation
                      /\ work'[b].generation = c.generation => c.status \in {"running", "void"}
    BY DEF EngagedClaimed
  <2>1. CASE b = a
    BY <1>3, <1>5, <1>8, <1>10, <2>1
  <2>2. CASE b # a /\ work[b].key = k
    <3>1. work[b].generation \in Nat
      BY DEF IInv, TypeOK, WorkType
    <3> QED BY <1>3, <1>8, <1>10, <1>16, <2>2, <3>1 DEF k
  <2>3. CASE b # a /\ work[b].key # k
    BY <1>10, <1>16, <2>3 DEF IInv, EngagedClaimed
  <2> QED BY <2>1, <2>2, <2>3
<1>18. SoleEngaged'
  <2> SUFFICES ASSUME NEW b \in Attempts, NEW e \in Attempts, b # e, Engaged(b)', Engaged(e)',
                      work'[b].key = work'[e].key,
                      work'[b].generation = claims'[work'[b].key].generation,
                      work'[e].generation = claims'[work'[b].key].generation
               PROVE  FALSE
    BY DEF SoleEngaged
  <2>1. \A f \in Attempts : work[f].generation \in Nat
    BY DEF IInv, TypeOK, WorkType
  <2>2. CASE work'[b].key = k
    <3>1. PICK f \in {b, e} : f # a
      OBVIOUS
    <3>2. f \in Attempts /\ Engaged(f)' /\ work'[f].key = k /\ work'[f].generation = row.generation
      BY <1>8, <1>10, <2>2, <3>1
    <3>3. work[f].generation < row.generation /\ work[f].generation = row.generation
      BY <1>16, <3>1, <3>2
    <3> QED BY <1>3, <2>1, <3>2, <3>3
  <2>3. CASE work'[b].key # k
    BY <1>5, <1>10, <1>16, <2>3 DEF IInv, SoleEngaged
  <2> QED BY <2>2, <2>3
<1> QED BY <1>11, <1>12, <1>13, <1>14, <1>15, <1>17, <1>18 DEF IInv

-----------------------------------------------------------------------------
(* Operators. *)

\* A row is made, or a scope frozen or unfrozen: nobody's authority moves.
LEMMA RowsInv ==
  ASSUME IInv, NEW s \in Scopes, NEW o \in Owners,
         CheckOwner(s, o) \/ Freeze(s) \/ CancelFreeze(s)
  PROVE  IInv'
<1>1. s \in Rows /\ tokens \in Nat
  BY DEF Rows, IInv, TypeOK
<1>2. owners \in [Rows -> OwnerType]
  BY DEF IInv, TypeOK
<1>3. CASE CheckOwner(s, o)
  <2>1. RowOf(s, o) \in OwnerType /\ (owners[s].generation # 0 => RowOf(s, o) = owners[s])
    BY RowType
  <2>2. /\ owners' \in [Rows -> OwnerType]
        /\ \A r \in Rows : owners[r].generation # 0 =>
             owners'[r].owner = owners[r].owner /\ owners'[r].generation = owners[r].generation
    BY <1>1, <1>2, <1>3, <2>1 DEF CheckOwner
  <2> QED BY <1>1, <1>3, <2>2, OwnersMove DEF CheckOwner
<1>4. CASE Freeze(s)
  <2>1. /\ owners' \in [Rows -> OwnerType]
        /\ \A r \in Rows :
             owners'[r].owner = owners[r].owner /\ owners'[r].generation = owners[r].generation
    BY <1>1, <1>2, <1>4 DEF Freeze, OwnerType
  <2> QED BY <1>1, <1>4, <2>1, OwnersMove DEF Freeze
<1>5. CASE CancelFreeze(s)
  <2>1. /\ owners' \in [Rows -> OwnerType]
        /\ \A r \in Rows :
             owners'[r].owner = owners[r].owner /\ owners'[r].generation = owners[r].generation
    BY <1>1, <1>2, <1>5 DEF CancelFreeze, OwnerType
  <2> QED BY <1>1, <1>5, <2>1, OwnersMove DEF CancelFreeze
<1> QED BY <1>3, <1>4, <1>5

\* Authority moves while nobody writes: unfinished claims of the rows that move
\* are voided, or wait in the generation that is new.
LEMMA AuthorityMoves ==
  ASSUME IInv, Unlocked,
         UNCHANGED <<isolated, results, writer, work, tokens, fenced>>,
         owners' \in [Rows -> OwnerType], claims' \in [Keys -> ClaimType],
         history' \in [Keys -> [published : BOOLEAN, errorLast : BOOLEAN]],
         \A k \in Keys :
           \/ /\ claims'[k] = claims[k]
              /\ claims[k].status \notin Unfinished \/ owners'[ScopeOf[k]] = owners[ScopeOf[k]]
           \/ claims'[k] = [claims[k] EXCEPT !.status = "void"] /\ claims[k].status \in Unfinished
           \/ /\ claims[k].status \in Unfinished
              /\ claims'[k].status = "pending"
              /\ claims'[k].owner = owners'[ScopeOf[k]].owner /\ claims'[k].owner \in Owners
              /\ claims'[k].actor = claims[k].actor
              /\ claims'[k].generation = owners'[ScopeOf[k]].generation
              /\ claims'[k].generation > claims[k].generation
  PROVE  IInv'
<1>1. ASSUME NEW k \in Keys
      PROVE  \/ /\ claims'[k] = claims[k]
                /\ claims[k].status \notin Unfinished \/ owners'[ScopeOf[k]] = owners[ScopeOf[k]]
             \/ /\ claims[k].status \in Unfinished /\ claims'[k].status = "void"
                /\ claims'[k].owner = claims[k].owner /\ claims'[k].actor = claims[k].actor
                /\ claims'[k].generation = claims[k].generation
             \/ /\ claims[k].status \in Unfinished
                /\ claims'[k].status = "pending"
                /\ claims'[k].owner = owners'[ScopeOf[k]].owner /\ claims'[k].owner \in Owners
                /\ claims'[k].actor = claims[k].actor
                /\ claims'[k].generation = owners'[ScopeOf[k]].generation
                /\ claims'[k].generation > claims[k].generation
  <2>1. claims[k] \in ClaimType
    BY DEF IInv, TypeOK
  <2>2. CASE claims'[k] = [claims[k] EXCEPT !.status = "void"] /\ claims[k].status \in Unfinished
    BY <2>1, <2>2 DEF ClaimType
  <2> QED BY <2>2
<1>2. TypeOK' /\ WorkShape' /\ PublishedOnce'
  BY DEF IInv, TypeOK, WorkShape, PublishedOnce
<1>3. \A k \in Keys : claims[k].generation \in Nat /\ claims'[k].generation \in Nat
  BY DEF IInv, TypeOK, ClaimType
<1>4. ClaimShape'
  <2> SUFFICES ASSUME NEW k \in Keys, claims'[k].status # "absent"
               PROVE  /\ claims'[k].owner \in Owners /\ claims'[k].actor \in Actors
                      /\ claims'[k].generation # 0
    BY DEF ClaimShape
  <2>1. claims[k].status # "absent"
    BY <1>1 DEF Unfinished
  <2> QED BY <1>1, <1>3, <2>1 DEF IInv, ClaimShape
<1>5. UnfinishedIsCurrent'
  BY <1>1 DEF IInv, UnfinishedIsCurrent, Unfinished
<1>6. WriterIsCurrent'
  BY NobodyPublishes DEF WriterIsCurrent
<1>7. ASSUME NEW a \in Attempts, Engaged(a)
      PROVE  /\ work[a].key \in Keys /\ work[a].generation \in Nat
             /\ claims[work[a].key].status # "absent"
             /\ work[a].generation <= claims[work[a].key].generation
             /\ work[a].generation = claims[work[a].key].generation =>
                  claims[work[a].key].status \in {"running", "void"}
  BY <1>7 DEF IInv, WorkShape, Engaged, EngagedClaimed, TypeOK, WorkType
<1>8. EngagedClaimed'
  <2> SUFFICES ASSUME NEW a \in Attempts, Engaged(a)
               PROVE  LET c == claims'[work[a].key] IN
                      /\ c.status # "absent"
                      /\ work[a].generation <= c.generation
                      /\ work[a].generation = c.generation => c.status \in {"running", "void"}
    BY DEF EngagedClaimed, Engaged
  <2> QED BY <1>1, <1>3, <1>7
<1>9. SoleEngaged'
  <2> SUFFICES ASSUME NEW a \in Attempts, NEW b \in Attempts, a # b, Engaged(a), Engaged(b),
                      work[a].key = work[b].key,
                      work[a].generation = claims'[work[a].key].generation,
                      work[b].generation = claims'[work[a].key].generation
               PROVE  FALSE
    BY DEF SoleEngaged, Engaged
  <2>1. work[a].generation = claims[work[a].key].generation
    BY <1>1, <1>3, <1>7
  <2> QED BY <2>1 DEF IInv, SoleEngaged
<1> QED BY <1>2, <1>4, <1>5, <1>6, <1>8, <1>9 DEF IInv

LEMMA HandoverInv ==
  ASSUME IInv, NEW s \in Scopes, NEW token, NEW to \in Owners,
         NEW d \in [UnfinishedOf(s) -> Kinds], Handover(s, token, to, d)
  PROVE  IInv'
<1> DEFINE g == owners[s].generation + 1
<1>1. s \in Rows /\ owners \in [Rows -> OwnerType] /\ claims \in [Keys -> ClaimType]
  BY DEF Rows, IInv, TypeOK
<1>2. owners[s].generation \in Nat /\ g \in Nat /\ g > owners[s].generation
  BY <1>1 DEF OwnerType
<1>3. owners' = [owners EXCEPT ![s] = [owner |-> to, generation |-> g, token |-> 0]]
  BY DEF Handover
<1> HIDE DEF g
<1>4. /\ owners' \in [Rows -> OwnerType] /\ owners'[s].owner = to /\ owners'[s].generation = g
      /\ \A r \in Rows \ {s} : owners'[r] = owners[r]
  BY <1>1, <1>2, <1>3 DEF OwnerType
<1>5. history' \in [Keys -> [published : BOOLEAN, errorLast : BOOLEAN]]
  BY DEF Handover, IInv, TypeOK
<1>6. ASSUME NEW k \in UnfinishedOf(s)
      PROVE  /\ k \in Keys /\ ScopeOf[k] = s /\ claims[k].status \in Unfinished
             /\ claims[k].generation = owners[s].generation
             /\ claims'[k] \in {[claims[k] EXCEPT !.status = "void"], Carried(claims[k], to, g)}
  BY <1>6 DEF UnfinishedOf, KeysOf, Handover, Disposed, IInv, UnfinishedIsCurrent, g
<1>7. \A k \in Keys \ UnfinishedOf(s) :
        /\ claims'[k] = claims[k]
        /\ claims[k].status \in Unfinished => ScopeOf[k] \in Rows \ {s}
  BY LedgerAssumption DEF Handover, UnfinishedOf, KeysOf, Rows
<1>8. \A c \in ClaimType :
        /\ [c EXCEPT !.status = "void"] \in ClaimType
        /\ Carried(c, to, g) \in ClaimType
        /\ Carried(c, to, g).status = "pending" /\ Carried(c, to, g).owner = to
        /\ Carried(c, to, g).generation = g /\ Carried(c, to, g).actor = c.actor
  <2> SUFFICES ASSUME NEW c \in ClaimType
               PROVE  /\ [c EXCEPT !.status = "void"] \in ClaimType
                      /\ [c EXCEPT !.status = "pending", !.owner = to, !.generation = g] \in ClaimType
                      /\ LET e == [c EXCEPT !.status = "pending", !.owner = to, !.generation = g] IN
                         e.status = "pending" /\ e.owner = to /\ e.generation = g /\ e.actor = c.actor
    BY DEF Carried
  <2> QED BY <1>2 DEF ClaimType, Unfinished
<1>9. claims' \in [Keys -> ClaimType]
  <2>1. ASSUME NEW k \in Keys PROVE claims'[k] \in ClaimType
    <3>1. claims[k] \in ClaimType
      BY <1>1
    <3>2. CASE k \in UnfinishedOf(s)
      BY <1>6, <1>8, <3>1, <3>2
    <3>3. CASE k \notin UnfinishedOf(s)
      BY <1>7, <3>1, <3>3
    <3> QED BY <3>2, <3>3
  <2>2. claims' = [k \in Keys |-> claims'[k]]
    BY DEF Handover
  <2> QED BY <2>1, <2>2
<1>10. ASSUME NEW k \in Keys
       PROVE  \/ /\ claims'[k] = claims[k]
                 /\ claims[k].status \notin Unfinished \/ owners'[ScopeOf[k]] = owners[ScopeOf[k]]
              \/ claims'[k] = [claims[k] EXCEPT !.status = "void"] /\ claims[k].status \in Unfinished
              \/ /\ claims[k].status \in Unfinished
                 /\ claims'[k].status = "pending"
                 /\ claims'[k].owner = owners'[ScopeOf[k]].owner /\ claims'[k].owner \in Owners
                 /\ claims'[k].actor = claims[k].actor
                 /\ claims'[k].generation = owners'[ScopeOf[k]].generation
                 /\ claims'[k].generation > claims[k].generation
  <2>1. CASE k \in UnfinishedOf(s)
    BY <1>1, <1>2, <1>4, <1>6, <1>8, <2>1
  <2>2. CASE k \notin UnfinishedOf(s)
    BY <1>4, <1>7, <2>2
  <2> QED BY <2>1, <2>2
<1>11. Unlocked /\ UNCHANGED <<isolated, results, writer, work, tokens, fenced>>
  BY DEF Handover
<1> QED BY <1>4, <1>5, <1>9, <1>10, <1>11, AuthorityMoves

LEMMA OwnerSwitchInv == ASSUME IInv, NEW to \in Owners, OwnerSwitch(to) PROVE IInv'
<1>1. owners \in [Rows -> OwnerType] /\ claims \in [Keys -> ClaimType]
  BY DEF IInv, TypeOK
<1>2. owners' \in [Rows -> OwnerType]
  <2>1. \A s \in Rows : owners[s].generation + 1 \in Nat
    BY <1>1 DEF OwnerType
  <2> QED BY <1>1, <2>1 DEF OwnerSwitch, OwnerType
<1>3. \A k \in Keys : claims'[k] = IF claims[k].status \in Unfinished
                                     THEN [claims[k] EXCEPT !.status = "void"] ELSE claims[k]
  BY DEF OwnerSwitch, AllUnfinished
<1>4. claims' \in [Keys -> ClaimType]
  <2>1. \A c \in ClaimType : [c EXCEPT !.status = "void"] \in ClaimType
    BY DEF ClaimType
  <2>2. claims' = [k \in Keys |-> claims'[k]]
    BY DEF OwnerSwitch
  <2> QED BY <1>1, <1>3, <2>1, <2>2
<1>5. history' \in [Keys -> [published : BOOLEAN, errorLast : BOOLEAN]]
  BY DEF OwnerSwitch, IInv, TypeOK
<1>6. Unlocked /\ UNCHANGED <<isolated, results, writer, work, tokens, fenced>>
  BY DEF OwnerSwitch
<1> QED BY <1>2, <1>3, <1>4, <1>5, <1>6, AuthorityMoves

\* Every step preserves the invariant.
LEMMA StepInv == IInv /\ [Next]_vars => IInv'
<1> SUFFICES ASSUME IInv, [Next]_vars PROVE IInv'
  OBVIOUS
<1>1. CASE AttemptStep
  <2> PICK a \in Attempts :
        \/ \E k \in Keys, o \in Owners, x \in Actors : Arrive(a, k, o, x)
        \/ Claim(a) \/ Skip(a) \/ Refuse(a)
        \/ Refused(a) \/ EnterGuard(a)
        \/ WriteResult(a) \/ WriteReport(a)
        \/ \E ref \in BOOLEAN : CommitPublication(a, ref)
        \/ RollBackPublication(a)
        \/ Reuse(a) \/ Complete(a)
        \/ Raise(a) \/ MarkFailed(a) \/ RecordError(a)
        \/ Crash(a)
        \/ \E k \in Keys : BeginFinalize(a, k)
        \/ Finalize(a)
    BY <1>1 DEF AttemptStep
  <2> QED BY ArriveInv, ClaimInv, QuietInv, WriteResultInv, CommitInv, ReuseInv, CompleteInv,
             MarkFailedInv, BeginFinalizeInv
<1>2. CASE OperatorStep
  <2>1. CASE \E s \in Scopes, o \in Owners : CheckOwner(s, o) \/ Freeze(s) \/ CancelFreeze(s)
    BY <2>1, RowsInv
  <2>2. CASE \E s \in Scopes, to \in Owners : \E d \in [UnfinishedOf(s) -> Kinds] :
               Handover(s, owners[s].token, to, d)
    BY <2>2, HandoverInv
  <2>3. CASE \E to \in Owners : OwnerSwitch(to)
    BY <2>3, OwnerSwitchInv
  <2>4. CASE \E s \in Scopes : Freeze(s) \/ CancelFreeze(s)
    <3>1. \E o : o \in Owners
      BY <2>4 DEF Freeze, CancelFreeze, IInv, TypeOK, OwnerType, Rows
    <3> QED BY <2>4, <3>1, RowsInv
  <2> QED BY <1>2, <2>1, <2>2, <2>3, <2>4 DEF OperatorStep
<1>3. CASE FenceMoves
  BY <1>3
  DEF FenceMoves, ledger, IInv, TypeOK, WorkShape, ClaimShape, UnfinishedIsCurrent, PublishedOnce,
      WriterIsCurrent, Holds, ScopeFor, EngagedClaimed, SoleEngaged, Engaged
<1>4. CASE UNCHANGED vars
  BY <1>4
  DEF vars, ledger, IInv, TypeOK, WorkShape, ClaimShape, UnfinishedIsCurrent, PublishedOnce,
      WriterIsCurrent, Holds, ScopeFor, EngagedClaimed, SoleEngaged, Engaged
<1> QED BY <1>1, <1>2, <1>3, <1>4 DEF Next

\* The ledger's inductive invariant.
THEOREM Invariance == Spec => []IInv
<1>1. Init => IInv
  BY InitInv
<1>2. IInv /\ [Next]_vars => IInv'
  BY StepInv
<1> QED BY <1>1, <1>2, PTL DEF Spec

-----------------------------------------------------------------------------

\* Type correctness of the ledger and of the attempts.
THEOREM TypeCorrect == Spec => []TypeOK
<1>1. IInv => TypeOK
  BY DEF IInv
<1> QED BY <1>1, Invariance, PTL

\* No hand-over and no switch leaves an unfinished trigger in an authority that
\* is not the one of its scope.
THEOREM NothingLeftBehind == Spec => []UnfinishedIsCurrent
<1>1. IInv => UnfinishedIsCurrent
  BY DEF IInv
<1> QED BY <1>1, Invariance, PTL

\* Whatever dies between the two databases, the results of a trigger are bound
\* to one lease.
THEOREM OneLeasePublishes == Spec => []PublishedOnce
<1>1. IInv => PublishedOnce
  BY DEF IInv
<1> QED BY <1>1, Invariance, PTL

\* The lock of the ledger keeps the authority of a writer for as long as it
\* writes to Memory.
THEOREM WritersAreCurrent == Spec => []WriterIsCurrent
<1>1. IInv => WriterIsCurrent
  BY DEF IInv
<1> QED BY <1>1, Invariance, PTL

\* No two attempts, of any number, hold one trigger at a time.
THEOREM OneHolderHolds == Spec => []OneHolder
<1>1. IInv => OneHolder
  <2> SUFFICES ASSUME IInv, NEW a \in Attempts, NEW b \in Attempts, a # b, Live(a), Live(b),
                      work[a].key = work[b].key, Holds(a), Holds(b)
               PROVE  FALSE
    BY DEF OneHolder
  <2>1. Engaged(a) /\ Engaged(b)
    BY DEF Live, Engaged
  <2>2. /\ work[a].generation = claims[work[a].key].generation
        /\ work[b].generation = claims[work[a].key].generation
    BY DEF Holds
  <2> QED BY <2>1, <2>2 DEF IInv, SoleEngaged
<1> QED BY <1>1, Invariance, PTL

\* A claim that is complete or void is out of reach of everything.
THEOREM SettledStaysSettled == Spec => SettledStays
<1> DEFINE Stays == \A k \in Keys :
      claims[k].status \in {"complete", "void"} => claims'[k].status = claims[k].status
<1>1. IInv /\ [Next]_vars => [Stays]_vars
  <2> SUFFICES ASSUME IInv, Next, NEW k \in Keys, claims[k].status \in {"complete", "void"}
               PROVE  claims'[k].status = claims[k].status
    OBVIOUS
  <2>1. claims \in [Keys -> ClaimType] /\ claims[k].status \notin Unfinished
    BY DEF IInv, TypeOK, Unfinished
  <2>2. ASSUME NEW a \in Attempts,
               \/ \E j \in Keys, o \in Owners, x \in Actors : Arrive(a, j, o, x)
               \/ Skip(a) \/ Refuse(a) \/ Refused(a) \/ EnterGuard(a)
               \/ WriteResult(a) \/ WriteReport(a) \/ RollBackPublication(a) \/ Raise(a)
               \/ RecordError(a) \/ Crash(a) \/ Finalize(a)
               \/ \E j \in Keys : BeginFinalize(a, j)
        PROVE  claims'[k].status = claims[k].status
    BY <2>2
    DEF Arrive, Skip, Refuse, Refused, EnterGuard, WriteResult, WriteReport, RollBackPublication,
        Raise, RecordError, Crash, Finalize, BeginFinalize, ledger
  <2>3. ASSUME NEW a \in Attempts, Claim(a)
        PROVE  claims'[k].status = claims[k].status
    <3>1. work[a].key # k
      BY <2>1, <2>3 DEF Claim, Resumes
    <3> QED BY <2>1, <2>3, <3>1 DEF Claim
  <2>4. ASSUME NEW a \in Attempts, NEW ref \in BOOLEAN, CommitPublication(a, ref)
        PROVE  claims'[k].status = claims[k].status
    BY <2>1, <2>4 DEF CommitPublication, ClaimType
  <2>5. ASSUME NEW a \in Attempts, Reuse(a) PROVE claims'[k].status = claims[k].status
    BY <2>1, <2>5 DEF Reuse, ClaimType
  <2>6. ASSUME NEW a \in Attempts, Complete(a) PROVE claims'[k].status = claims[k].status
    BY <2>1, <2>6 DEF Complete, Passes, Holds, ClaimType
  <2>7. ASSUME NEW a \in Attempts, MarkFailed(a) PROVE claims'[k].status = claims[k].status
    BY <2>1, <2>7 DEF MarkFailed, FailsUnpublished, ClaimType
  <2>8. ASSUME OperatorStep \/ FenceMoves PROVE claims'[k].status = claims[k].status
    <3>1. ASSUME NEW s \in Scopes, NEW o \in Owners,
                 CheckOwner(s, o) \/ Freeze(s) \/ CancelFreeze(s) \/ FenceMoves
          PROVE  claims'[k].status = claims[k].status
      BY <3>1 DEF CheckOwner, Freeze, CancelFreeze, FenceMoves, ledger
    <3>2. ASSUME NEW s \in Scopes, NEW to \in Owners, NEW d \in [UnfinishedOf(s) -> Kinds],
                 Handover(s, owners[s].token, to, d)
          PROVE  claims'[k].status = claims[k].status
      BY <2>1, <3>2 DEF Handover, UnfinishedOf
    <3>3. ASSUME NEW to \in Owners, OwnerSwitch(to) PROVE claims'[k].status = claims[k].status
      BY <2>1, <3>3 DEF OwnerSwitch, AllUnfinished
    <3>4. CASE FenceMoves
      BY <3>4 DEF FenceMoves, ledger
    <3>5. CASE \E s \in Scopes, o \in Owners : CheckOwner(s, o)
      BY <3>1, <3>5
    <3>6. CASE \E s \in Scopes : Freeze(s) \/ CancelFreeze(s)
      BY <2>8, <3>1, <3>6 DEF Freeze, CancelFreeze, ledger
    <3>7. CASE \E s \in Scopes, to \in Owners : \E d \in [UnfinishedOf(s) -> Kinds] :
                 Handover(s, owners[s].token, to, d)
      <4>1. PICK s \in Scopes, to \in Owners : \E d \in [UnfinishedOf(s) -> Kinds] :
                 Handover(s, owners[s].token, to, d)
        BY <3>7
      <4>2. PICK d \in [UnfinishedOf(s) -> Kinds] : Handover(s, owners[s].token, to, d)
        BY <4>1
      <4> QED BY <3>2, <4>2
    <3>8. CASE \E to \in Owners : OwnerSwitch(to)
      BY <3>3, <3>8
    <3> QED BY <2>8, <3>4, <3>5, <3>6, <3>7, <3>8, Zenon DEF OperatorStep
  <2>9. ASSUME AttemptStep PROVE claims'[k].status = claims[k].status
    <3>1. PICK a \in Attempts :
            \/ \E j \in Keys, o \in Owners, x \in Actors : Arrive(a, j, o, x)
            \/ Claim(a) \/ Skip(a) \/ Refuse(a)
            \/ Refused(a) \/ EnterGuard(a)
            \/ WriteResult(a) \/ WriteReport(a)
            \/ \E ref \in BOOLEAN : CommitPublication(a, ref)
            \/ RollBackPublication(a)
            \/ Reuse(a) \/ Complete(a)
            \/ Raise(a) \/ MarkFailed(a) \/ RecordError(a)
            \/ Crash(a)
            \/ \E j \in Keys : BeginFinalize(a, j)
            \/ Finalize(a)
      BY <2>9 DEF AttemptStep
    <3> QED BY <2>2, <2>3, <2>4, <2>5, <2>6, <2>7, <3>1, SMTT(20)
  <2> QED BY <2>1, <2>8, <2>9 DEF Next
<1> QED BY <1>1, Invariance, PTL DEF Spec, SettledStays
-----------------------------------------------------------------------------
(* The switch of the workflow and the attempts that are alive.             *)

\* Somebody inside the action, with the claim of its trigger.
Held(a) == Live(a) /\ Holds(a)

\* An error recorded late: another attempt holds the trigger by now.
LateError ==
  \E a, b \in Attempts :
    RecordError(a) /\ b # a /\ Held(b) /\ work[b].key = work[a].key

\* The last event of a trigger somebody holds is not an error.
LiveHeard ==
  \A a \in Attempts : Held(a) => ~history[work[a].key].errorLast

\* Whoever holds a trigger works on a trigger, whose scope has a row.
LEMMA HeldShape ==
  ASSUME IInv, NEW b \in Attempts, Live(b)
  PROVE  /\ work[b].key \in Keys /\ work[b].owner \in Owners /\ work[b].actor \in Actors
         /\ ScopeFor(b) \in Scopes /\ ScopeFor(b) \in Rows /\ Engaged(b)
BY LedgerAssumption DEF IInv, WorkShape, Live, Engaged, ScopeFor, Rows

\* An attempt that holds its trigger after a step that leaves its work, and the
\* authority of every running claim, as they were, held it before.
LEMMA HeldByFrame ==
  ASSUME IInv, NEW b \in Attempts, Held(b)', Live(b), SameWork(work[b], work'[b]),
         LET k == work[b].key IN
           claims'[k].status = "running" =>
             /\ SameClaim(claims[k], claims'[k])
             /\ owners'[ScopeOf[k]].owner = owners[ScopeOf[k]].owner
             /\ owners'[ScopeOf[k]].generation = owners[ScopeOf[k]].generation
  PROVE  Held(b) /\ work'[b].key = work[b].key
BY DEF Held, Holds, ScopeFor, SameWork, SameClaim

\* A running claim has a row in its scope, so that the row is not made anew.
LEMMA RunningRow ==
  ASSUME IInv, NEW k \in Keys, claims[k].status = "running", NEW o
  PROVE  RowOf(ScopeOf[k], o) = owners[ScopeOf[k]]
BY DEF IInv, UnfinishedIsCurrent, ClaimShape, Unfinished, RowOf

\* An error becomes the last event of a trigger in one way.
LEMMA OnlyErrors ==
  ASSUME IInv, Next, NEW k \in Keys, history'[k].errorLast
  PROVE  history[k].errorLast \/ \E a \in Attempts : RecordError(a) /\ work[a].key = k
<1> SUFFICES ASSUME ~history[k].errorLast
             PROVE  \E a \in Attempts : RecordError(a) /\ work[a].key = k
  OBVIOUS
<1>1. history \in [Keys -> [published : BOOLEAN, errorLast : BOOLEAN]]
  BY DEF IInv, TypeOK
<1>2. ~UNCHANGED history
  OBVIOUS
<1>3. \A j \in Keys : ~Recorded(j)
  BY <1>1 DEF Recorded
<1>4. CASE AttemptStep
  <2>1. PICK a \in Attempts :
          \/ \E j \in Keys, o \in Owners, x \in Actors : Arrive(a, j, o, x)
          \/ Claim(a) \/ Skip(a) \/ Refuse(a)
          \/ Refused(a) \/ EnterGuard(a)
          \/ WriteResult(a) \/ WriteReport(a)
          \/ \E ref \in BOOLEAN : CommitPublication(a, ref)
          \/ RollBackPublication(a)
          \/ Reuse(a) \/ Complete(a)
          \/ Raise(a) \/ MarkFailed(a) \/ RecordError(a)
          \/ Crash(a)
          \/ \E j \in Keys : BeginFinalize(a, j)
          \/ Finalize(a)
    BY <1>4 DEF AttemptStep
  <2>2. work[a].pc # "idle" => work[a].key \in Keys
    BY DEF IInv, WorkShape
  <2>3. ~\E j \in Keys, o \in Owners, x \in Actors : Arrive(a, j, o, x)
    BY <1>3 DEF Arrive
  <2>4. ~(Claim(a) \/ Skip(a) \/ Refused(a) \/ Reuse(a) \/ Complete(a))
    BY <1>2, <1>3, <2>2 DEF Claim, Skip, Refused, Reuse, Complete, Passes
  <2>5. ~(Refuse(a) \/ EnterGuard(a) \/ WriteResult(a) \/ WriteReport(a) \/ RollBackPublication(a)
          \/ Raise(a) \/ MarkFailed(a) \/ Crash(a) \/ \E j \in Keys : BeginFinalize(a, j))
    BY <1>2 DEF Refuse, EnterGuard, WriteResult, WriteReport, RollBackPublication, Raise,
                MarkFailed, Crash, BeginFinalize, ledger
  <2>6. ~\E ref \in BOOLEAN : CommitPublication(a, ref)
    <3> SUFFICES ASSUME NEW ref \in BOOLEAN, CommitPublication(a, ref) PROVE FALSE
      OBVIOUS
    <3>1. /\ history' = [history EXCEPT ![work[a].key] = [published |-> TRUE, errorLast |-> FALSE]]
          /\ work[a].key \in Keys
      BY <2>2 DEF CommitPublication
    <3> QED BY <1>1, <3>1
  <2>7. ~Finalize(a)
    BY <1>1, <2>2 DEF Finalize
  <2>8. RecordError(a)
    BY <2>1, <2>3, <2>4, <2>5, <2>6, <2>7
  <2>9. work[a].key = k
    BY <1>1, <2>8 DEF RecordError
  <2> QED BY <2>8, <2>9
<1>5. CASE OperatorStep
  <2>1. ~\E s \in Scopes, o \in Owners : CheckOwner(s, o)
    BY <1>2 DEF CheckOwner
  <2>2. ~\E s \in Scopes : Freeze(s) \/ CancelFreeze(s)
    BY <1>2 DEF Freeze, CancelFreeze
  <2>3. ~\E s \in Scopes, to \in Owners : \E d \in [UnfinishedOf(s) -> Kinds] :
           Handover(s, owners[s].token, to, d)
    BY <1>1 DEF Handover
  <2>4. ~\E to \in Owners : OwnerSwitch(to)
    BY <1>1 DEF OwnerSwitch
  <2> QED BY <1>5, <2>1, <2>2, <2>3, <2>4 DEF OperatorStep
<1>6. CASE FenceMoves
  BY <1>2, <1>6 DEF FenceMoves, ledger
<1> QED BY <1>4, <1>5, <1>6 DEF Next

\* The row new scopes inherit from is moved by the switch of the workflow alone.
LEMMA TemplateMoves ==
  ASSUME IInv, Next, owners'[Template].generation # owners[Template].generation
  PROVE  \E to \in Owners : OwnerSwitch(to)
<1>1. owners \in [Rows -> OwnerType] /\ Template \in Rows /\ Template \notin Scopes
  BY LedgerAssumption DEF IInv, TypeOK, Rows
<1>2. ASSUME NEW s \in Scopes, NEW row, owners' = [owners EXCEPT ![s] = row] PROVE FALSE
  BY <1>1, <1>2
<1>3. CASE AttemptStep
  <2>1. PICK a \in Attempts : Claim(a)
    BY <1>3
    DEF AttemptStep, Arrive, Skip, Refuse, Refused, EnterGuard, WriteResult, WriteReport,
        CommitPublication, RollBackPublication, Reuse, Complete, Raise, MarkFailed, RecordError,
        Crash, BeginFinalize, Finalize, ledger
  <2>2. ScopeFor(a) \in Scopes
    BY <2>1, LedgerAssumption DEF Claim, ScopeFor, IInv, WorkShape
  <2> QED BY <1>2, <2>1, <2>2 DEF Claim
<1>4. CASE OperatorStep
  <2>1. ~\E s \in Scopes, o \in Owners : CheckOwner(s, o)
    BY <1>2 DEF CheckOwner
  <2>2. ~\E s \in Scopes : Freeze(s) \/ CancelFreeze(s)
    BY <1>1 DEF Freeze, CancelFreeze
  <2>3. ~\E s \in Scopes, to \in Owners : \E d \in [UnfinishedOf(s) -> Kinds] :
           Handover(s, owners[s].token, to, d)
    BY <1>2 DEF Handover
  <2> QED BY <1>4, <2>1, <2>2, <2>3 DEF OperatorStep
<1>5. ~FenceMoves
  BY DEF FenceMoves, ledger
<1> QED BY <1>3, <1>4, <1>5 DEF Next

\* Only a claim makes an attempt the holder of a trigger.
LEMMA HeldBefore ==
  ASSUME IInv, Next, NEW b \in Attempts, Held(b)'
  PROVE  \/ Held(b) /\ work'[b].key = work[b].key
         \/ Claim(b) /\ work'[b].key = work[b].key
<1> DEFINE Was == Held(b) /\ work'[b].key = work[b].key
<1>1. work \in [Attempts -> WorkType] /\ claims \in [Keys -> ClaimType]
  BY DEF IInv, TypeOK
<1>2. work'[b].pc \in {"working", "publishing", "written"}
      /\ claims'[work'[b].key].status = "running"
  BY DEF Held, Live, Holds
<1>3. ASSUME UNCHANGED owners, Live(b), SameWork(work[b], work'[b]),
             LET k == work[b].key IN
               claims'[k].status = "running" => SameClaim(claims[k], claims'[k])
      PROVE  Was
  BY <1>3, HeldByFrame
<1>4. ASSUME UNCHANGED claims
      PROVE  \A k : SameClaim(claims[k], claims'[k])
  BY <1>4 DEF SameClaim
<1>5. ASSUME work'[b] = work[b] PROVE Live(b) /\ SameWork(work[b], work'[b])
  BY <1>2, <1>5 DEF Live, SameWork
<1>6. ASSUME NEW a \in Attempts, NEW pc, Goto(a, pc),
             a = b => pc \notin {"working", "publishing", "written"} \/ Live(b)
      PROVE  Live(b) /\ SameWork(work[b], work'[b])
  <2>1. CASE a = b
    BY <1>1, <1>2, <1>6, <2>1 DEF Goto, SameWork, WorkType
  <2>2. CASE a # b
    BY <1>1, <1>5, <1>6, <2>2 DEF Goto
  <2> QED BY <2>1, <2>2
<1> HIDE DEF Was
<1>7. CASE AttemptStep
  <2>1. PICK a \in Attempts :
          \/ \E j \in Keys, o \in Owners, x \in Actors : Arrive(a, j, o, x)
          \/ Claim(a) \/ Skip(a) \/ Refuse(a)
          \/ Refused(a) \/ EnterGuard(a)
          \/ WriteResult(a) \/ WriteReport(a)
          \/ \E ref \in BOOLEAN : CommitPublication(a, ref)
          \/ RollBackPublication(a)
          \/ Reuse(a) \/ Complete(a)
          \/ Raise(a) \/ MarkFailed(a) \/ RecordError(a)
          \/ Crash(a)
          \/ \E j \in Keys : BeginFinalize(a, j)
          \/ Finalize(a)
    BY <1>7 DEF AttemptStep
  <2>2. ASSUME \/ \E j \in Keys, o \in Owners, x \in Actors : Arrive(a, j, o, x)
               \/ \E j \in Keys : BeginFinalize(a, j)
        PROVE  Was
    <3>1. work'[a].pc \in {"arrived", "finalizing"}
      BY <1>1, <2>2 DEF Arrive, BeginFinalize
    <3>2. work'[b] = work[b]
      BY <1>1, <1>2, <2>2, <3>1 DEF Arrive, BeginFinalize
    <3>3. UNCHANGED owners /\ UNCHANGED claims
      BY <2>2 DEF Arrive, BeginFinalize, ledger
    <3> QED BY <1>3, <1>4, <1>5, <3>2, <3>3
  <2>3. ASSUME \/ Skip(a) \/ Refuse(a) \/ Refused(a) \/ EnterGuard(a) \/ WriteResult(a)
               \/ WriteReport(a) \/ RollBackPublication(a) \/ Raise(a) \/ RecordError(a)
               \/ Crash(a) \/ Finalize(a)
        PROVE  Was
    <3>1. UNCHANGED owners /\ UNCHANGED claims
      BY <2>3 DEF Skip, Refuse, Refused, EnterGuard, WriteResult, WriteReport, RollBackPublication,
                  Raise, RecordError, Crash, Finalize, ledger
    <3>2. \E pc : Goto(a, pc) /\ (pc \notin {"working", "publishing", "written"} \/ Live(a))
      BY <2>3 DEF Skip, Refuse, Refused, EnterGuard, Passes, WriteResult, WriteReport,
                  RollBackPublication, Raise, RecordError, Crash, Finalize, Live
    <3> QED BY <1>3, <1>4, <1>6, <3>1, <3>2
  <2>4. ASSUME NEW ref \in BOOLEAN, CommitPublication(a, ref) PROVE Was
    <3>1. UNCHANGED owners /\ Goto(a, "working") /\ Live(a)
      BY <2>4 DEF CommitPublication, Live
    <3>2. work[a].key \in Keys /\ (claims[work[a].key].refs \/ ref) \in BOOLEAN
      BY <3>1, HeldShape
    <3>3. \A k \in Keys : SameClaim(claims[k], claims'[k])
      BY <2>4, <3>2, ReferencesOnly DEF CommitPublication
    <3>4. Live(b) /\ SameWork(work[b], work'[b])
      BY <1>6, <3>1
    <3> QED BY <1>3, <3>1, <3>3, <3>4, HeldShape
  <2>5. ASSUME Reuse(a) PROVE Was
    <3>1. UNCHANGED owners /\ UNCHANGED work /\ Live(a)
      BY <2>5 DEF Reuse, Passes, Live
    <3>2. work[a].key \in Keys
      BY <3>1, HeldShape
    <3>3. \A k \in Keys : SameClaim(claims[k], claims'[k])
      BY <2>5, <3>2, ReferencesOnly DEF Reuse
    <3> QED BY <1>3, <1>5, <3>1, <3>3, HeldShape
  <2>6. ASSUME Complete(a) \/ MarkFailed(a) PROVE Was
    <3>1. UNCHANGED owners /\ Live(b) /\ SameWork(work[b], work'[b])
      BY <1>6, <2>6 DEF Complete, MarkFailed
    <3>2. work[b].key \in Keys
      BY <3>1, HeldShape
    <3>3. claims'[work[b].key].status = "running" =>
            SameClaim(claims[work[b].key], claims'[work[b].key])
      BY <1>1, <2>6, <3>2 DEF Complete, MarkFailed, ClaimType, SameClaim
    <3> QED BY <1>3, <3>1, <3>3
  <2>7. ASSUME Claim(a), a # b PROVE Was
    <3> DEFINE s == ScopeFor(a)  row == RowOf(s, work[a].owner)
    <3>1. /\ owners' = [owners EXCEPT ![s] = row]
          /\ claims' = [claims EXCEPT ![work[a].key] =
               [ status |-> "running", owner |-> work[a].owner, generation |-> row.generation,
                 actor |-> work[a].actor, refs |-> claims[work[a].key].refs ]]
          /\ work' = [work EXCEPT ![a].pc = "working", ![a].generation = row.generation]
          /\ claims[work[a].key].status = "absent" \/ Resumes(a)
      BY <2>7 DEF Claim
    <3>2. work'[b] = work[b] /\ Live(b) /\ SameWork(work[b], work'[b])
      BY <1>1, <1>5, <2>7, <3>1
    <3>3. work[b].key \in Keys /\ Engaged(b)
      BY <3>2, HeldShape
    <3>4. work[a].key # work[b].key
      <4> SUFFICES ASSUME work[a].key = work[b].key PROVE FALSE
        OBVIOUS
      <4>1. claims'[work[b].key].generation = row.generation
        BY <1>1, <3>1, <3>3
      <4>2. work[b].generation = row.generation
        BY <3>2, <4>1 DEF Held, Holds
      <4>3. claims[work[b].key].status # "absent"
        BY <3>3 DEF IInv, EngagedClaimed
      <4>4. Resumes(a)
        BY <3>1, <4>3
      <4>5. /\ claims[work[b].key].generation = work[b].generation
            /\ claims[work[b].key].status \in {"pending", "failed"}
        BY <4>2, <4>4 DEF Resumes
      <4> QED BY <3>3, <4>5 DEF IInv, EngagedClaimed
    <3>5. claims'[work[b].key] = claims[work[b].key]
      BY <1>1, <3>1, <3>3, <3>4
    <3>6. claims[work[b].key].status = "running"
      BY <1>2, <3>2, <3>5
    <3>7. owners'[ScopeOf[work[b].key]] = owners[ScopeOf[work[b].key]]
      <4>1. CASE ScopeOf[work[b].key] = s
        <5>1. row = owners[s]
          BY <3>3, <3>6, <4>1, RunningRow
        <5> QED BY <3>1, <4>1, <5>1 DEF IInv, TypeOK
      <4>2. CASE ScopeOf[work[b].key] # s
        BY <3>1, <4>2, HeldShape, <3>2 DEF IInv, TypeOK, ScopeFor
      <4> QED BY <4>1, <4>2
    <3> QED BY <3>2, <3>5, <3>7, HeldByFrame DEF SameClaim, Was
  <2>8. ASSUME Claim(a), a = b PROVE Claim(b) /\ work'[b].key = work[b].key
    BY <1>1, <2>8 DEF Claim, WorkType
  <2> QED BY <2>1, <2>2, <2>3, <2>4, <2>5, <2>6, <2>7, <2>8 DEF Was
<1>8. CASE OperatorStep
  <2>1. UNCHANGED work /\ Live(b) /\ SameWork(work[b], work'[b])
    BY <1>5, <1>8 DEF OperatorStep, CheckOwner, Freeze, CancelFreeze, Handover, OwnerSwitch
  <2> DEFINE k == work[b].key
  <2>2. k \in Keys /\ ScopeOf[k] \in Rows /\ claims'[k].status = "running"
    BY <1>2, <2>1, HeldShape DEF ScopeFor
  <2>3. owners \in [Rows -> OwnerType]
    BY DEF IInv, TypeOK
  <2> HIDE DEF k
  <2>4. ASSUME NEW s \in Scopes, NEW o \in Owners, CheckOwner(s, o) PROVE Was
    <3>1. UNCHANGED claims /\ owners' = [owners EXCEPT ![s] = RowOf(s, o)]
      BY <2>4 DEF CheckOwner
    <3>2. claims[k].status = "running"
      BY <2>2, <3>1
    <3>3. owners'[ScopeOf[k]] = owners[ScopeOf[k]]
      BY <2>2, <2>3, <3>1, <3>2, RunningRow
    <3> QED BY <1>4, <2>1, <2>2, <3>1, <3>3, HeldByFrame DEF Was, k
  <2>5. ASSUME NEW s \in Scopes, Freeze(s) \/ CancelFreeze(s) PROVE Was
    <3>1. UNCHANGED claims
          /\ owners'[ScopeOf[k]].owner = owners[ScopeOf[k]].owner
          /\ owners'[ScopeOf[k]].generation = owners[ScopeOf[k]].generation
      BY <2>2, <2>3, <2>5 DEF Freeze, CancelFreeze, OwnerType
    <3> QED BY <1>4, <2>1, <2>2, <3>1, HeldByFrame DEF Was, k
  <2>6. ASSUME NEW s \in Scopes, NEW to \in Owners, NEW d \in [UnfinishedOf(s) -> Kinds],
               Handover(s, owners[s].token, to, d)
        PROVE  Was
    <3>1. k \notin UnfinishedOf(s)
      BY <1>1, <2>2, <2>6 DEF Handover, Disposed, Carried, ClaimType
    <3>2. claims'[k] = claims[k]
      BY <2>2, <2>6, <3>1 DEF Handover
    <3>3. ScopeOf[k] # s
      BY <2>2, <3>1, <3>2 DEF UnfinishedOf, KeysOf, Unfinished
    <3>4. owners'[ScopeOf[k]] = owners[ScopeOf[k]]
      BY <2>2, <2>3, <2>6, <3>3 DEF Handover
    <3> QED BY <2>1, <3>2, <3>4, HeldByFrame DEF SameClaim, Was, k
  <2>7. ASSUME NEW to \in Owners, OwnerSwitch(to) PROVE FALSE
    <3>1. claims'[k] = IF k \in AllUnfinished THEN [claims[k] EXCEPT !.status = "void"] ELSE claims[k]
      BY <2>2, <2>7 DEF OwnerSwitch
    <3>2. claims[k] \in ClaimType
      BY <1>1, <2>2
    <3> QED BY <2>2, <3>1, <3>2 DEF AllUnfinished, Unfinished, ClaimType
  <2>8. CASE \E s \in Scopes, to \in Owners : \E d \in [UnfinishedOf(s) -> Kinds] :
               Handover(s, owners[s].token, to, d)
    <3>1. PICK s \in Scopes, to \in Owners : \E d \in [UnfinishedOf(s) -> Kinds] :
                 Handover(s, owners[s].token, to, d)
      BY <2>8
    <3>2. PICK d \in [UnfinishedOf(s) -> Kinds] : Handover(s, owners[s].token, to, d)
      BY <3>1
    <3> QED BY <2>6, <3>2 DEF Was
  <2>9. CASE \/ \E s \in Scopes, o \in Owners : CheckOwner(s, o)
             \/ \E s \in Scopes : Freeze(s) \/ CancelFreeze(s)
             \/ \E to \in Owners : OwnerSwitch(to)
    BY <2>4, <2>5, <2>7, <2>9, Zenon DEF Was
  <2> QED BY <1>8, <2>8, <2>9, Zenon DEF OperatorStep, Was
<1>9. CASE FenceMoves
  <2>1. UNCHANGED work /\ UNCHANGED owners /\ UNCHANGED claims
    BY <1>9 DEF FenceMoves, ledger
  <2> QED BY <1>3, <1>4, <1>5, <2>1 DEF Was
<1> QED BY <1>7, <1>8, <1>9 DEF Next, Was

\* As long as no error is recorded late, the last event of a trigger somebody
\* holds is never an error.
LEMMA LiveHeardStep ==
  ASSUME IInv, [Next]_vars, LiveHeard, ~LateError
  PROVE  LiveHeard'
<1> SUFFICES ASSUME Next, NEW b \in Attempts, Held(b)', history'[work'[b].key].errorLast
             PROVE  FALSE
  <2>1. CASE UNCHANGED vars
    BY <2>1 DEF vars, ledger, LiveHeard, Held, Live, Holds, ScopeFor
  <2> QED BY <2>1 DEF LiveHeard
<1>1. CASE Claim(b) /\ work'[b].key = work[b].key
  <2>1. work[b].key \in Keys /\ Recorded(work[b].key)
    BY <1>1 DEF Claim, IInv, WorkShape
  <2> QED BY <1>1, <2>1 DEF Recorded, IInv, TypeOK
<1>2. CASE Held(b) /\ work'[b].key = work[b].key
  <2>1. work[b].key \in Keys /\ ~history[work[b].key].errorLast
    BY <1>2, HeldShape DEF Held, LiveHeard
  <2>2. PICK a \in Attempts : RecordError(a) /\ work[a].key = work[b].key
    BY <1>2, <2>1, OnlyErrors
  <2>3. a # b
    BY <1>2, <2>2 DEF RecordError, Held, Live
  <2> QED BY <1>2, <2>2, <2>3 DEF LateError
<1> QED BY <1>1, <1>2, HeldBefore

\* Why a switch may void the claim of an attempt that is alive: for every set of
\* triggers and attempts, it does so only after an attempt that had lost its claim
\* recorded its error late, into the events of the one that took the trigger up.
THEOREM OnlyLateErrorsVoid == Spec /\ [][~LateError]_vars => SwitchSparesLive
<1> DEFINE Spares == owners'[Template].generation # owners[Template].generation =>
      \A a \in Attempts : Live(a) /\ Holds(a) => claims'[work[a].key].status # "void"
<1>1. Init => LiveHeard
  BY DEF Init, LiveHeard, Held, Live, Idle
<1>2. IInv /\ LiveHeard /\ [Next]_vars /\ [~LateError]_vars => LiveHeard'
  <2>1. CASE UNCHANGED vars
    BY <2>1 DEF vars, ledger, LiveHeard, Held, Live, Holds, ScopeFor
  <2> QED BY <2>1, LiveHeardStep
<1>3. IInv /\ LiveHeard /\ [Next]_vars => [Spares]_vars
  <2> SUFFICES ASSUME IInv, LiveHeard, Next,
                      owners'[Template].generation # owners[Template].generation,
                      NEW a \in Attempts, Live(a), Holds(a)
               PROVE  claims'[work[a].key].status # "void"
    OBVIOUS
  <2>1. PICK to \in Owners : OwnerSwitch(to)
    BY TemplateMoves
  <2>2. work[a].key \in Keys /\ claims[work[a].key].status = "running"
    BY HeldShape DEF Holds
  <2>3. history[work[a].key].errorLast
    BY <2>1, <2>2 DEF OwnerSwitch, Voidable, AllUnfinished, Unfinished
  <2> QED BY <2>3 DEF LiveHeard, Held
<1>4. Spec => []IInv
  BY Invariance
<1> HIDE DEF Spares
<1>5. Spec /\ [][~LateError]_vars => [][Spares]_vars
  BY <1>1, <1>2, <1>3, <1>4, PTL DEF Spec
<1> QED BY <1>5 DEF Spares, SwitchSparesLive

=============================================================================
