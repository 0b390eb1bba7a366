-------------------------- MODULE ScheduleRuntime --------------------------
(***************************************************************************)
(* The schedule ledger (workflow/schedule_runtime.py) of one workflow: who *)
(* owns a scope, in which generation, and who holds the claim of a logical *)
(* trigger, whichever entry (cron, CLI, Dispatcher) brings it.             *)
(*                                                                         *)
(* An attempt is one call of execute: it claims the trigger in one         *)
(* transaction, runs the action outside every transaction, publishes each  *)
(* result inside publication_guard, and completes or fails the claim.  The *)
(* guard holds the write lock of the ledger while the writer commits to    *)
(* Memory, another database: the two commits are two steps.                *)
(*                                                                         *)
(* Operators freeze and hand over a scope, or switch the whole workflow.   *)
(* The joint coordinator closes scopes (fenced) from outside the ledger.   *)
(***************************************************************************)
EXTENDS Naturals, FiniteSets

CONSTANTS
  Keys,           \* logical triggers
  Scopes,
  ScopeOf,        \* the scope of a trigger
  Template,       \* the row '*' new scopes inherit from
  Owners,         \* legacy, dispatcher, shadow
  Attempts,       \* calls of execute
  NoAttempt,
  Actors,
  NoActor,
  MaxGeneration,
  MaxFreezes

ASSUME LedgerAssumption ==
  /\ Template \notin Scopes /\ NoAttempt \notin Attempts
  /\ NoActor \notin Actors
  /\ ScopeOf \in [Keys -> Scopes]
  /\ MaxGeneration \in Nat /\ MaxFreezes \in Nat

VARIABLES
  isolated,   \* the process runs under a verified isolation root
  owners,     \* schedule_scope_owners; generation 0: no row, token 0: not frozen
  claims,     \* schedule_runtime_claims
  history,    \* of a trigger: was a publication recorded, is the last event an error
  results,    \* schedule_result_publications in Memory: the leases bound to a trigger
  writer,     \* the attempt inside publication_guard: it has the write lock
  work,       \* the attempts
  tokens,     \* freezes so far
  fenced      \* scopes the joint coordinator has closed

ledger == <<owners, claims, history, results, writer, tokens>>

vars == <<isolated, ledger, work, fenced>>

Rows == Scopes \union {Template}

NoClaim == [status |-> "absent", owner |-> "none", generation |-> 0, actor |-> NoActor, refs |-> FALSE]

Unfinished == {"running", "failed", "pending"}

Idle == [pc |-> "idle", key |-> "none", owner |-> "none", generation |-> 0, actor |-> NoActor]

Init ==
  /\ isolated \in BOOLEAN
  /\ \E o \in Owners, known \in SUBSET Scopes :
       owners = [s \in Rows |-> [owner |-> o, token |-> 0,
                                 generation |-> IF s \in known \union {Template} THEN 1 ELSE 0]]
  /\ claims = [k \in Keys |-> NoClaim]
  /\ history = [k \in Keys |-> [published |-> FALSE, errorLast |-> FALSE]]
  /\ results = [k \in Keys |-> {}]
  /\ writer = NoAttempt
  /\ work = [a \in Attempts |-> Idle]
  /\ tokens = 0
  /\ fenced = {}

-----------------------------------------------------------------------------
(* Attempts. *)

\* Mutant: the guard reads without taking the write lock.
NeverLocked == TRUE

\* BEGIN IMMEDIATE: nobody else is writing the ledger.
Unlocked == writer = NoAttempt

ScopeFor(a) == ScopeOf[work[a].key]

Goto(a, pc) == work' = [work EXCEPT ![a].pc = pc]

Recorded(k) == history' = [history EXCEPT ![k].errorLast = FALSE]

\* The owner row of a scope, created from the template on first use.
RowOf(s, requested) ==
  IF owners[s].generation # 0
    THEN owners[s]
    ELSE [ owner |-> IF isolated THEN requested ELSE owners[Template].owner,
           generation |-> 1, token |-> 0 ]

\* The arrival is recorded on its own, before the claim is asked for.
Arrive(a, k, o, x) ==
  /\ work[a].pc = "idle" /\ Unlocked
  /\ work' = [work EXCEPT ![a] = [pc |-> "arrived", key |-> k, owner |-> o,
                                  generation |-> 0, actor |-> x]]
  /\ Recorded(k)
  /\ UNCHANGED <<isolated, owners, claims, results, writer, tokens, fenced>>

\* Mutant: a running claim of the same generation is resumed as well.
ResumesAny(a) ==
  LET w == work[a]  c == claims[w.key] IN
  /\ c.status \in Unfinished
  /\ c.owner = w.owner /\ c.generation = RowOf(ScopeFor(a), w.owner).generation

\* A claim that was handed over, or failed before it published, is taken up again.
Resumes(a) ==
  LET w == work[a]  c == claims[w.key] IN
  /\ c.status \in {"pending", "failed"}
  /\ c.owner = w.owner /\ c.generation = RowOf(ScopeFor(a), w.owner).generation

\* The old lease of a failed attempt is not revived under its own name.
Revives(a) ==
  Resumes(a) /\ claims[work[a].key].status = "failed" /\ claims[work[a].key].actor = work[a].actor

Entitled(a) ==
  LET row == RowOf(ScopeFor(a), work[a].owner) IN
  row.token = 0 /\ row.owner = work[a].owner

Claim(a) ==
  LET k == work[a].key  s == ScopeFor(a)  row == RowOf(s, work[a].owner) IN
  /\ work[a].pc = "arrived" /\ Unlocked
  /\ s \notin fenced /\ Entitled(a) /\ ~Revives(a)
  /\ claims[k].status = "absent" \/ Resumes(a)
  /\ owners' = [owners EXCEPT ![s] = row]
  /\ claims' = [claims EXCEPT ![k] =
       [ status |-> "running", owner |-> work[a].owner, generation |-> row.generation,
         actor |-> work[a].actor, refs |-> claims[k].refs ]]
  /\ work' = [work EXCEPT ![a].pc = "working", ![a].generation = row.generation]
  /\ Recorded(k)
  /\ UNCHANGED <<isolated, results, writer, tokens, fenced>>

\* A trigger somebody already has is answered with what is known of it.
Skip(a) ==
  /\ work[a].pc = "arrived" /\ Unlocked
  /\ ScopeFor(a) \notin fenced
  /\ claims[work[a].key].status # "absent" /\ ~Resumes(a)
  /\ Recorded(work[a].key)
  /\ Goto(a, "done")
  /\ UNCHANGED <<isolated, owners, claims, results, writer, tokens, fenced>>

Refuse(a) ==
  /\ work[a].pc = "arrived" /\ Unlocked
  /\ \/ ScopeFor(a) \in fenced
     \/ Revives(a)
     \/ (claims[work[a].key].status = "absent" \/ Resumes(a)) /\ ~Entitled(a)
  /\ Goto(a, "done")
  /\ UNCHANGED <<isolated, ledger, fenced>>

\* Mutant: the run does not say who it is.
UnnamedLease(a) ==
  [owner |-> work[a].owner, generation |-> work[a].generation, actor |-> NoActor]

Lease(a) == [owner |-> work[a].owner, generation |-> work[a].generation, actor |-> work[a].actor]

\* Owner row, claim row and lease agree, and the claim is running.
Holds(a) ==
  LET w == work[a]  row == owners[ScopeFor(a)]  c == claims[w.key] IN
  /\ row.owner = w.owner /\ c.owner = w.owner
  /\ row.generation = w.generation /\ c.generation = w.generation
  /\ c.actor = w.actor
  /\ c.status = "running"

\* publication_guard lets the holder of the current authority through.
Passes(a) == work[a].pc = "working" /\ Unlocked /\ ScopeFor(a) \notin fenced /\ Holds(a)

\* A refusal is recorded, unless the joint fence stops it before the ledger is asked.
Refused(a) ==
  /\ work[a].pc = "working" /\ Unlocked
  /\ \/ ScopeFor(a) \in fenced /\ UNCHANGED history
     \/ ScopeFor(a) \notin fenced /\ ~Holds(a) /\ Recorded(work[a].key)
  /\ Goto(a, "failing")
  /\ UNCHANGED <<isolated, owners, claims, results, writer, tokens, fenced>>

EnterGuard(a) ==
  /\ Passes(a)
  /\ writer' = a
  /\ Goto(a, "publishing")
  /\ UNCHANGED <<isolated, owners, claims, history, results, tokens, fenced>>

\* Mutant: Memory does not ask whether another attempt published for the trigger.
BindsAlways(k, lease) == TRUE

Binds(k, lease) == \A other \in results[k] : other = lease

\* The writer commits its result, with its lease bound to it, to Memory.
WriteResult(a) ==
  LET k == work[a].key IN
  /\ work[a].pc = "publishing"
  /\ Binds(k, Lease(a))
  /\ results' = [results EXCEPT ![k] = @ \union {Lease(a)}]
  /\ Goto(a, "written")
  /\ UNCHANGED <<isolated, owners, claims, history, writer, tokens, fenced>>

\* A report is a file: nothing binds it.
WriteReport(a) ==
  /\ work[a].pc = "publishing"
  /\ Goto(a, "written")
  /\ UNCHANGED <<isolated, ledger, fenced>>

\* Only writers that return an identifier leave a reference on the claim.
CommitPublication(a, ref) ==
  LET k == work[a].key IN
  /\ work[a].pc = "written" /\ ScopeFor(a) \notin fenced
  /\ claims' = [claims EXCEPT ![k].refs = claims[k].refs \/ ref]
  /\ history' = [history EXCEPT ![k] = [published |-> TRUE, errorLast |-> FALSE]]
  /\ writer' = NoAttempt
  /\ Goto(a, "working")
  /\ UNCHANGED <<isolated, owners, results, tokens, fenced>>

\* The binding is refused, the writer raises, or the fence closed meanwhile:
\* the ledger rolls back, Memory keeps what it committed.
RollBackPublication(a) ==
  /\ work[a].pc \in {"publishing", "written"}
  /\ writer' = NoAttempt
  /\ Goto(a, "failing")
  /\ UNCHANGED <<isolated, owners, claims, history, results, tokens, fenced>>

\* Verified results of an earlier run are referred to instead of published again.
Reuse(a) ==
  LET k == work[a].key IN
  /\ Passes(a)
  /\ claims' = [claims EXCEPT ![k].refs = TRUE]
  /\ Recorded(k)
  /\ UNCHANGED <<isolated, owners, results, writer, work, tokens, fenced>>

Complete(a) ==
  LET k == work[a].key IN
  /\ Passes(a)
  /\ claims' = [claims EXCEPT ![k].status = "complete"]
  /\ Recorded(k)
  /\ Goto(a, "done")
  /\ UNCHANGED <<isolated, owners, results, writer, tokens, fenced>>

Raise(a) ==
  /\ work[a].pc = "working"
  /\ Goto(a, "failing")
  /\ UNCHANGED <<isolated, ledger, fenced>>

\* Mutant: whatever became of the claim, the failure is written on it.
FailsUnderLease(a) ==
  LET w == work[a]  c == claims[w.key] IN
  /\ c.owner = w.owner /\ c.generation = w.generation /\ c.actor = w.actor
  /\ ~c.refs /\ ~history[w.key].published

\* The failure of an attempt that published nothing makes its claim retryable.
FailsUnpublished(a) ==
  LET w == work[a]  c == claims[w.key] IN
  /\ c.owner = w.owner /\ c.generation = w.generation /\ c.actor = w.actor
  /\ c.status = "running"
  /\ ~c.refs /\ ~history[w.key].published

\* There is no transaction around the two statements of the error path.
MarkFailed(a) ==
  LET k == work[a].key IN
  /\ work[a].pc = "failing" /\ Unlocked
  /\ claims' = [claims EXCEPT ![k].status = IF FailsUnpublished(a) THEN "failed" ELSE claims[k].status]
  /\ Goto(a, "recording")
  /\ UNCHANGED <<isolated, owners, history, results, writer, tokens, fenced>>

RecordError(a) ==
  /\ work[a].pc = "recording" /\ Unlocked
  /\ history' = [history EXCEPT ![work[a].key].errorLast = TRUE]
  /\ Goto(a, "done")
  /\ UNCHANGED <<isolated, owners, claims, results, writer, tokens, fenced>>

\* The process dies: an open transaction of the ledger is rolled back.
Crash(a) ==
  /\ work[a].pc \notin {"idle", "done", "dead"}
  /\ writer' = IF writer = a THEN NoAttempt ELSE writer
  /\ Goto(a, "dead")
  /\ UNCHANGED <<isolated, owners, claims, history, results, tokens, fenced>>

\* The metadata of a completed result is finalized under the lease it had.
BeginFinalize(a, k) ==
  /\ work[a].pc = "idle" /\ claims[k].status = "complete"
  /\ work' = [work EXCEPT ![a] = [pc |-> "finalizing", key |-> k, owner |-> claims[k].owner,
                                  generation |-> claims[k].generation, actor |-> claims[k].actor]]
  /\ UNCHANGED <<isolated, ledger, fenced>>

\* The score that is promoted must be the one that lease published.
Finalizes(a) ==
  LET w == work[a]  row == owners[ScopeFor(a)] IN
  /\ ScopeFor(a) \notin fenced
  /\ row.owner = w.owner /\ row.generation = w.generation /\ row.token = 0
  /\ results[w.key] = {Lease(a)}

Finalize(a) ==
  LET k == work[a].key IN
  /\ work[a].pc = "finalizing" /\ Unlocked
  /\ history' = [history EXCEPT ![k] =
       [published |-> history[k].published \/ Finalizes(a), errorLast |-> FALSE]]
  /\ Goto(a, "done")
  /\ UNCHANGED <<isolated, owners, claims, results, writer, tokens, fenced>>

-----------------------------------------------------------------------------
(* Operators. *)

KeysOf(s) == {k \in Keys : ScopeOf[k] = s}

UnfinishedOf(s) == {k \in KeysOf(s) : claims[k].status \in Unfinished}

\* The preparation of a scope for a drill: its row, and nothing else.
CheckOwner(s, o) ==
  /\ Unlocked /\ s \notin fenced
  /\ RowOf(s, o).token = 0 /\ RowOf(s, o).owner = o
  /\ owners' = [owners EXCEPT ![s] = RowOf(s, o)]
  /\ UNCHANGED <<isolated, claims, history, results, writer, work, tokens, fenced>>

Freeze(s) ==
  /\ Unlocked /\ tokens < MaxFreezes
  /\ owners[s].generation # 0 /\ owners[s].token = 0
  /\ tokens' = tokens + 1
  /\ owners' = [owners EXCEPT ![s].token = tokens + 1]
  /\ UNCHANGED <<isolated, claims, history, results, writer, work, fenced>>

CancelFreeze(s) ==
  /\ isolated /\ Unlocked /\ owners[s].token # 0
  /\ owners' = [owners EXCEPT ![s].token = 0]
  /\ UNCHANGED <<isolated, claims, history, results, writer, work, tokens, fenced>>

\* Mutant: a carried claim keeps its generation.
CarriedAsWas(claim, to, generation) ==
  [claim EXCEPT !.status = "pending", !.owner = to]

Carried(claim, to, generation) ==
  [claim EXCEPT !.status = "pending", !.owner = to, !.generation = generation]

Disposed(claim, kind, to, generation) ==
  IF kind = "carry_over" THEN Carried(claim, to, generation) ELSE [claim EXCEPT !.status = "void"]

\* Every unfinished claim of the scope has exactly one disposition, and one with
\* references is not carried over.
Covers(dispositions, s) ==
  /\ DOMAIN dispositions = UnfinishedOf(s)
  /\ \A k \in UnfinishedOf(s) : dispositions[k] = "carry_over" => ~claims[k].refs

Handover(s, token, to, dispositions) ==
  /\ Unlocked
  /\ token # 0 /\ owners[s].token = token /\ owners[s].generation < MaxGeneration
  /\ Covers(dispositions, s)
  /\ owners' = [owners EXCEPT ![s] =
       [owner |-> to, generation |-> owners[s].generation + 1, token |-> 0]]
  /\ claims' = [k \in Keys |->
       IF k \in UnfinishedOf(s)
         THEN Disposed(claims[k], dispositions[k], to, owners[s].generation + 1)
         ELSE claims[k]]
  /\ history' = [k \in Keys |->
       [history[k] EXCEPT !.errorLast = history[k].errorLast /\ k \notin UnfinishedOf(s)]]
  /\ UNCHANGED <<isolated, results, writer, work, tokens, fenced>>

AllUnfinished == {k \in Keys : claims[k].status \in Unfinished}

Present == {s \in Rows : owners[s].generation # 0}

\* A running claim whose last event is an error is taken for a dead one.
Voidable(k) == claims[k].status = "running" => history[k].errorLast

\* The light path: every row of a research workflow moves in one transaction,
\* and whatever is unfinished is voided on purpose.
OwnerSwitch(to) ==
  /\ Unlocked
  /\ \A s \in Present : owners[s].token = 0 /\ owners[s].owner = owners[Template].owner
  /\ owners[Template].owner # to
  /\ \A s \in Present : owners[s].generation < MaxGeneration
  /\ \A k \in AllUnfinished : Voidable(k)
  /\ owners' = [s \in Rows |->
       IF s \in Present
         THEN [owner |-> to, generation |-> owners[s].generation + 1, token |-> 0]
         ELSE owners[s]]
  /\ claims' = [k \in Keys |->
       IF k \in AllUnfinished THEN [claims[k] EXCEPT !.status = "void"] ELSE claims[k]]
  /\ history' = [k \in Keys |->
       [history[k] EXCEPT !.errorLast = history[k].errorLast /\ k \notin AllUnfinished]]
  /\ UNCHANGED <<isolated, results, writer, work, tokens, fenced>>

-----------------------------------------------------------------------------

AttemptStep ==
  \E a \in Attempts :
    \/ \E k \in Keys, o \in Owners, x \in Actors : Arrive(a, k, o, x)
    \/ Claim(a) \/ Skip(a) \/ Refuse(a)
    \/ Refused(a) \/ EnterGuard(a)
    \/ WriteResult(a) \/ WriteReport(a)
    \/ \E ref \in BOOLEAN : CommitPublication(a, ref)
    \/ RollBackPublication(a)
    \/ Reuse(a) \/ Complete(a)
    \/ Raise(a) \/ MarkFailed(a) \/ RecordError(a)
    \/ Crash(a)
    \/ \E k \in Keys : BeginFinalize(a, k)
    \/ Finalize(a)

Kinds == {"carry_over", "void"}

OperatorStep ==
  \/ \E s \in Scopes, o \in Owners : CheckOwner(s, o)
  \/ \E s \in Scopes : Freeze(s) \/ CancelFreeze(s)
  \/ \E s \in Scopes, to \in Owners : \E d \in [UnfinishedOf(s) -> Kinds] :
       Handover(s, owners[s].token, to, d)
  \/ \E to \in Owners : OwnerSwitch(to)

\* The joint coordinator closes or opens scopes in a database of its own.
FenceMoves ==
  /\ fenced' \in SUBSET Scopes
  /\ UNCHANGED <<isolated, ledger, work>>

Next == AttemptStep \/ OperatorStep \/ FenceMoves

Spec == Init /\ [][Next]_vars

-----------------------------------------------------------------------------
(* Properties. *)

Pcs == {"idle", "arrived", "working", "publishing", "written", "failing", "recording",
        "finalizing", "done", "dead"}

LeaseType == [owner : Owners, generation : Nat, actor : Actors]

OwnerType == [owner : Owners, generation : Nat, token : Nat]

ClaimType ==
  [ status : Unfinished \union {"absent", "complete", "void"}, owner : Owners \union {"none"},
    generation : Nat, actor : Actors \union {NoActor}, refs : BOOLEAN ]

WorkType ==
  [ pc : Pcs, key : Keys \union {"none"}, owner : Owners \union {"none"},
    generation : Nat, actor : Actors \union {NoActor} ]

\* Type invariant of the ledger and of the attempts.
TypeOK ==
  /\ isolated \in BOOLEAN
  /\ owners \in [Rows -> OwnerType]
  /\ claims \in [Keys -> ClaimType]
  /\ history \in [Keys -> [published : BOOLEAN, errorLast : BOOLEAN]]
  /\ results \in [Keys -> SUBSET LeaseType]
  /\ writer \in Attempts \union {NoAttempt}
  /\ work \in [Attempts -> WorkType]
  /\ tokens \in Nat
  /\ fenced \in SUBSET Scopes

\* No hand-over leaves a trigger behind: whatever is unfinished belongs to the
\* owner and the generation its scope has now, so that this owner, and nobody
\* else, can finish it.
UnfinishedIsCurrent ==
  \A k \in Keys :
    claims[k].status \in Unfinished =>
      /\ claims[k].owner = owners[ScopeOf[k]].owner
      /\ claims[k].generation = owners[ScopeOf[k]].generation

\* Results of one trigger come from one lease, whatever crashed between the two
\* databases and whoever took the trigger up again.
PublishedOnce ==
  \A k \in Keys : \A l, m \in results[k] : l = m

\* While a writer commits to Memory, the authority it was let through with is
\* still the authority: no freeze, hand-over or retry fits in between.
WriterIsCurrent ==
  \A a \in Attempts : work[a].pc \in {"publishing", "written"} => writer = a /\ Holds(a)

\* Live: inside the action, where the attempt may still publish or complete.
Live(a) == work[a].pc \in {"working", "publishing", "written"}

\* Never do two attempts both hold a trigger they may publish for, not even
\* when one of them comes back under the other's name.
OneHolder ==
  \A a, b \in Attempts :
    a # b /\ Live(a) /\ Live(b) /\ work[a].key = work[b].key => ~(Holds(a) /\ Holds(b))

\* A trigger that completed or was voided stays so: no late failure, resumption
\* or hand-over makes it runnable again.
SettledStays ==
  [][\A k \in Keys :
       claims[k].status \in {"complete", "void"} => claims'[k].status = claims[k].status]_vars

\* A switch of the workflow never voids the claim of an attempt that is alive
\* (schedule_runtime.py:894 and :967: a running claim is never touched).
SwitchSparesLive ==
  [][owners'[Template].generation # owners[Template].generation =>
       \A a \in Attempts : Live(a) /\ Holds(a) => claims'[work[a].key].status # "void"]_vars
=============================================================================
