-------------------------- MODULE PersistentQueue --------------------------
(***************************************************************************)
(* The durable queue of ingestion commands (data/persistent_queue.py) and  *)
(* the worker runs that execute them.                                      *)
(*                                                                         *)
(* A run is one call of run_one: it claims a task under a worker id nobody *)
(* else has, starts the command as a child process, renews the lease from  *)
(* a heartbeat thread, and records the outcome.  Every queue operation is  *)
(* one SQLite transaction and one action.  The child outlives a run that   *)
(* dies, and asks the queue for its lease before it writes.                *)
(*                                                                         *)
(* There is no clock: a lease that was not renewed in time has lapsed, and *)
(* a task whose backoff is over has become ready.  A run may be suspended  *)
(* anywhere, so its lease may lapse whatever it is doing.                  *)
(***************************************************************************)
EXTENDS Naturals, FiniteSets

CONSTANTS
  Tasks,         \* the identities producers ask for
  Runs,          \* worker runs at a time; a name is reused once forgotten
  NoRun,         \* no lease owner
  NoTask,
  MaxAttempts,   \* max_attempts of every task
  Reports        \* the outcomes a child's exit is taken for

Outcomes == {"succeeded", "no_change", "quarantined", "partial", "failed"}

ASSUME QueueAssumption ==
  /\ NoRun \notin Runs /\ NoTask \notin Tasks
  /\ MaxAttempts \in Nat \ {0}
  /\ Reports \subseteq Outcomes /\ "failed" \in Reports

VARIABLES
  tasks,     \* persistent_ingestion_tasks: Tasks -> row
  runs,      \* the worker runs, with their child process
  reported   \* exits of the children: [task, attempt, outcome]

vars == <<tasks, runs, reported>>

NoRow == [status |-> "absent", attempts |-> 0, owner |-> NoRun, lapsed |-> FALSE, ready |-> FALSE]

Idle == [pc |-> "idle", task |-> NoTask, attempt |-> 0, child |-> "none",
         lost |-> FALSE, outcome |-> "none"]

Init ==
  /\ tasks = [t \in Tasks |-> NoRow]
  /\ runs = [r \in Runs |-> Idle]
  /\ reported = {}

Settled == Outcomes \union {"cancelled"}

Waiting == {"queued", "retry_wait"}

-----------------------------------------------------------------------------
(* Queue operations. *)

\* Mutant: an attempt more than the policy allows is waited for.
RetriesOnceMore(row) == row.attempts <= MaxAttempts

\* An attempt is left after a failed one.
Retries(row) == row.attempts < MaxAttempts

\* Replaying an identity returns the row that has it.
Enqueue(t) ==
  /\ tasks[t].status = "absent"
  /\ tasks' = [tasks EXCEPT ![t] = [NoRow EXCEPT !.status = "queued", !.ready = TRUE]]
  /\ UNCHANGED <<runs, reported>>

\* Mutant: a lapsed lease is reaped only when the task can be tried again.
ReapedWhenRetryable ==
  [t \in Tasks |->
     IF tasks[t].status = "leased" /\ tasks[t].lapsed /\ Retries(tasks[t])
       THEN [tasks[t] EXCEPT !.status = "retry_wait", !.owner = NoRun, !.lapsed = FALSE]
       ELSE tasks[t]]

\* Every claim first takes lapsed leases away; such a task is ready at once.
Reaped ==
  [t \in Tasks |->
     IF tasks[t].status = "leased" /\ tasks[t].lapsed
       THEN [tasks[t] EXCEPT !.status = IF Retries(tasks[t]) THEN "retry_wait" ELSE "failed",
                             !.owner = NoRun, !.lapsed = FALSE]
       ELSE tasks[t]]

Claimable(row) == row.status \in Waiting /\ row.ready /\ row.attempts < MaxAttempts

Leased(row, r) ==
  [row EXCEPT !.status = "leased", !.owner = r, !.attempts = row.attempts + 1]

\* The head of the queue, or the task the caller names: any claimable task.
Claim(r, t) ==
  /\ runs[r].pc = "idle"
  /\ Claimable(Reaped[t])
  /\ tasks' = [Reaped EXCEPT ![t] = Leased(Reaped[t], r)]
  /\ runs' = [runs EXCEPT ![r] = [Idle EXCEPT !.pc = "claimed", !.task = t,
                                              !.attempt = Reaped[t].attempts + 1]]
  /\ UNCHANGED reported

\* A claim that gets no task has reaped all the same.
ClaimNothing ==
  /\ tasks' = Reaped
  /\ UNCHANGED <<runs, reported>>

Cancel(t) ==
  /\ tasks[t].status \in Waiting
  /\ tasks' = [tasks EXCEPT ![t].status = "cancelled"]
  /\ UNCHANGED <<runs, reported>>

\* Mutants: finish does not look at the row at all, or not at its owner.
OwnsAnyRow(r) == runs[r].task \in Tasks

OwnsAnyLease(r) ==
  /\ runs[r].task \in Tasks
  /\ tasks[runs[r].task].status = "leased"

\* The row is leased to this run; an expiry that nobody reaped does not matter.
Owns(r) ==
  /\ runs[r].task \in Tasks
  /\ tasks[runs[r].task].status = "leased"
  /\ tasks[runs[r].task].owner = r

\* The lease is this run's and has not expired.
HoldsLease(r) == Owns(r) /\ ~tasks[runs[r].task].lapsed

Finished(row, outcome) ==
  LET retry == outcome = "failed" /\ Retries(row)
  IN  [row EXCEPT !.status = IF retry THEN "retry_wait" ELSE outcome,
                  !.owner = NoRun, !.lapsed = FALSE, !.ready = ~retry]

-----------------------------------------------------------------------------
(* A worker run. *)

Alive == {"started", "checked"}      \* a child that has not exited

Become(r, run) == runs' = [runs EXCEPT ![r] = run]

Start(r) ==
  /\ runs[r].pc = "claimed"
  /\ Become(r, [runs[r] EXCEPT !.pc = "running", !.child = "started"])
  /\ UNCHANGED <<tasks, reported>>

Kill(run) == [run EXCEPT !.child = IF @ \in Alive THEN "failed" ELSE @]

\* A heartbeat renews a lease that has not expired, which changes nothing here;
\* one that comes too late ends the child.
HeartbeatFails(r) ==
  /\ runs[r].pc = "running" /\ ~HoldsLease(r)
  /\ Become(r, [Kill(runs[r]) EXCEPT !.lost = TRUE])
  /\ UNCHANGED <<tasks, reported>>

\* Mutant: the reason is recorded in the place of the outcome.
OutcomeWithReason(run) == IF run.lost THEN "worker_lease_lost" ELSE run.child

\* What a child reported counts unless the lease was lost meanwhile.
Outcome(run) == IF run.lost THEN "failed" ELSE run.child

Communicate(r) ==
  /\ runs[r].pc = "running" /\ runs[r].child \notin Alive
  /\ Become(r, [runs[r] EXCEPT !.pc = "finish", !.outcome = Outcome(runs[r])])
  /\ UNCHANGED <<tasks, reported>>

Timeout(r) ==
  /\ runs[r].pc = "running" /\ runs[r].child \in Alive
  /\ Become(r, [Kill(runs[r]) EXCEPT !.pc = "finish", !.outcome = "failed"])
  /\ UNCHANGED <<tasks, reported>>

\* A run that does not own the row raises and leaves it as it is.
Finish(r) ==
  /\ runs[r].pc = "finish"
  /\ tasks' = IF Owns(r)
                THEN [tasks EXCEPT ![runs[r].task] = Finished(@, runs[r].outcome)]
                ELSE tasks
  /\ Become(r, Idle)
  /\ UNCHANGED reported

\* The process dies, or an exception leaves run_one: the child goes on.
Crash(r) ==
  /\ runs[r].pc \in {"claimed", "running", "finish"}
  /\ Become(r, [runs[r] EXCEPT !.pc = "dead"])
  /\ UNCHANGED <<tasks, reported>>

\* The name of a dead run is free for a new one once no row mentions it.
Forget(r) ==
  /\ runs[r].pc = "dead" /\ ~Owns(r)
  /\ Become(r, Idle)
  /\ UNCHANGED <<tasks, reported>>

-----------------------------------------------------------------------------
(* The child process. *)

Exit(r, outcome) ==
  /\ Become(r, [runs[r] EXCEPT !.child = outcome])
  /\ reported' = reported \union
       {[task |-> runs[r].task, attempt |-> runs[r].attempt, outcome |-> outcome]}
  /\ UNCHANGED tasks

\* require_queue_worker: a child without its lease ends with an error.
CheckLease(r) ==
  /\ runs[r].child = "started"
  /\ IF HoldsLease(r)
       THEN Become(r, [runs[r] EXCEPT !.child = "checked"]) /\ UNCHANGED <<tasks, reported>>
       ELSE Exit(r, "failed")

\* One check covers the write after it, or a fetch and all the writes after it.
\* What is written is not part of the state.
Persist(r) ==
  /\ runs[r].child = "checked"
  /\ \E child \in Alive : Become(r, [runs[r] EXCEPT !.child = child])
  /\ UNCHANGED <<tasks, reported>>

ChildExits(r) ==
  /\ runs[r].child \in Alive
  /\ \E outcome \in Reports : Exit(r, outcome)

-----------------------------------------------------------------------------
(* Time. *)

Lapse(t) ==
  /\ tasks[t].status = "leased" /\ ~tasks[t].lapsed
  /\ tasks' = [tasks EXCEPT ![t].lapsed = TRUE]
  /\ UNCHANGED <<runs, reported>>

BackoffEnds(t) ==
  /\ tasks[t].status = "retry_wait" /\ ~tasks[t].ready
  /\ tasks' = [tasks EXCEPT ![t].ready = TRUE]
  /\ UNCHANGED <<runs, reported>>

RunStep(r) == Start(r) \/ Communicate(r) \/ Timeout(r) \/ Finish(r) \/ Forget(r)

Next ==
  \/ \E t \in Tasks : Enqueue(t) \/ Cancel(t) \/ Lapse(t) \/ BackoffEnds(t)
  \/ \E r \in Runs, t \in Tasks : Claim(r, t)
  \/ ClaimNothing
  \/ \E r \in Runs :
       \/ RunStep(r) \/ HeartbeatFails(r) \/ Crash(r)
       \/ CheckLease(r) \/ Persist(r) \/ ChildExits(r)

Spec == Init /\ [][Next]_vars

\* The lease of a dead run, which no heartbeat renews, lapses.
AbandonedLapses(t) == Lapse(t) /\ \E r \in Runs : Owns(r) /\ runs[r].task = t /\ runs[r].pc = "dead"

\* The managed worker is invoked again and again, a live run goes on (its wait
\* for the child is bounded by a timeout), and time passes.
FairSpec ==
  /\ Spec
  /\ WF_vars(\E r \in Runs, t \in Tasks : Claim(r, t))
  /\ WF_vars(ClaimNothing)
  /\ \A r \in Runs : WF_vars(RunStep(r))
  /\ \A t \in Tasks : WF_vars(AbandonedLapses(t)) /\ WF_vars(BackoffEnds(t))

-----------------------------------------------------------------------------
(* Types. *)

RowType ==
  [ status   : {"absent", "leased"} \union Waiting \union Settled,
    attempts : Nat,
    owner    : Runs \union {NoRun},
    lapsed   : BOOLEAN,
    ready    : BOOLEAN ]

RunType ==
  [ pc      : {"idle", "claimed", "running", "finish", "dead"},
    task    : Tasks \union {NoTask},
    attempt : Nat,
    child   : {"none"} \union Alive \union Outcomes,
    lost    : BOOLEAN,
    outcome : {"none"} \union Outcomes ]

\* The types of the queue's rows, of the runs and of the history.
TypeOK ==
  /\ tasks \in [Tasks -> RowType]
  /\ runs \in [Runs -> RunType]
  /\ reported \subseteq [task : Tasks \union {NoTask}, attempt : Nat, outcome : Outcomes]

-----------------------------------------------------------------------------
(* Safety. *)

\* A task that waits can still be claimed: no path through failed attempts,
\* crashes and reaped leases leaves one in the queue that no claim will select.
NeverStranded ==
  \A t \in Tasks : tasks[t].status \in Waiting => tasks[t].attempts < MaxAttempts

\* The work a task is settled with was done by its last attempt: a run that
\* lost its lease, however late it comes back, does not have its outcome
\* recorded for the attempt of the run that took over.
OutcomeOfLastAttempt ==
  \A t \in Tasks :
    tasks[t].status \in Outcomes \ {"failed"} =>
      [task |-> t, attempt |-> tasks[t].attempts, outcome |-> tasks[t].status] \in reported

\* A settled task stays as it was settled, whatever still runs for it.
SettledIsFinal ==
  [][ \A t \in Tasks : tasks[t].status \in Settled => tasks'[t] = tasks[t] ]_vars

-----------------------------------------------------------------------------
(* Liveness. *)

\* Every task that is enqueued is settled, through crashes of its runs, lapsed
\* leases and failed attempts.
TaskSettles ==
  \A t \in Tasks : (tasks[t].status # "absent") ~> (tasks[t].status \in Settled)
=============================================================================
