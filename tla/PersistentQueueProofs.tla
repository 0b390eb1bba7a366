----------------------- MODULE PersistentQueueProofs -----------------------
(***************************************************************************)
(* Theorems about PersistentQueue, for every set of tasks and of runs and  *)
(* every retry policy.                                                     *)
(*                                                                         *)
(* OutcomeOfLastAttempt is not inductive: Finish records what the run      *)
(* carries, so the invariant has to say that a run carries only what its   *)
(* own child reported (ReportBacked), and that the run a row is leased to  *)
(* is the one of the row's last attempt (HolderMatches).                   *)
(***************************************************************************)
EXTENDS PersistentQueue, TLAPS

Good == Outcomes \ {"failed"}

Report(run, outcome) == [task |-> run.task, attempt |-> run.attempt, outcome |-> outcome]

\* A row is leased to a run of that task, in the attempt the row counts.
HolderMatches ==
  \A t \in Tasks : \A r \in Runs :
    tasks[t].status = "leased" /\ tasks[t].owner = r =>
      runs[r].pc # "idle" /\ runs[r].task = t /\ runs[r].attempt = tasks[t].attempts

\* A run that waits for its child has one; a run that finishes has an outcome.
RunShape ==
  \A r \in Runs :
    /\ runs[r].pc = "running" => runs[r].child # "none"
    /\ runs[r].pc = "finish" => runs[r].outcome \in Outcomes

\* What a run carries, other than a failure, its own child reported.
ReportBacked ==
  \A r \in Runs :
    /\ runs[r].child \in Good => Report(runs[r], runs[r].child) \in reported
    /\ runs[r].outcome \in Good => Report(runs[r], runs[r].outcome) \in reported

IInv ==
  /\ TypeOK
  /\ NeverStranded
  /\ HolderMatches
  /\ RunShape
  /\ ReportBacked
  /\ OutcomeOfLastAttempt

-----------------------------------------------------------------------------

LEMMA InitInv == Init => IInv
BY QueueAssumption
DEF Init, IInv, TypeOK, NeverStranded, HolderMatches, RunShape, ReportBacked,
    OutcomeOfLastAttempt, NoRow, Idle, RowType, RunType, Waiting, Settled, Outcomes, Good, Alive

\* An operation on one row that leaves it without a holder and without a new
\* outcome of work.
LEMMA RowStep ==
  ASSUME IInv,
         NEW f \in [Tasks -> RowType],
         tasks' = f, runs' = runs, reported' = reported,
         \A t \in Tasks : f[t].status \in Waiting => f[t].attempts < MaxAttempts,
         \A t \in Tasks : f[t].status = "leased" =>
           /\ tasks[t].status = "leased"
           /\ f[t].owner = tasks[t].owner /\ f[t].attempts = tasks[t].attempts,
         \A t \in Tasks : f[t].status \in Good =>
           f[t].status = tasks[t].status /\ f[t].attempts = tasks[t].attempts
  PROVE  IInv'
<1>1. TypeOK' /\ NeverStranded' /\ RunShape' /\ ReportBacked'
  BY DEF IInv, TypeOK, NeverStranded, RunShape, ReportBacked, Report
<1>2. HolderMatches'
  BY DEF IInv, HolderMatches
<1>3. OutcomeOfLastAttempt'
  BY DEF IInv, OutcomeOfLastAttempt, Good
<1> QED BY <1>1, <1>2, <1>3 DEF IInv

\* What a claim's reaping leaves behind.
LEMMA ReapedRows ==
  ASSUME IInv
  PROVE  /\ Reaped \in [Tasks -> RowType]
         /\ \A t \in Tasks : Reaped[t].status \in Waiting => Reaped[t].attempts < MaxAttempts
         /\ \A t \in Tasks : Reaped[t].status = "leased" =>
              /\ tasks[t].status = "leased"
              /\ Reaped[t].owner = tasks[t].owner /\ Reaped[t].attempts = tasks[t].attempts
         /\ \A t \in Tasks : Reaped[t].status \in Good =>
              Reaped[t].status = tasks[t].status /\ Reaped[t].attempts = tasks[t].attempts
<1> SUFFICES ASSUME NEW t \in Tasks
    PROVE  /\ Reaped[t] \in RowType
           /\ Reaped[t].status \in Waiting => Reaped[t].attempts < MaxAttempts
           /\ Reaped[t].status = "leased" =>
                /\ tasks[t].status = "leased"
                /\ Reaped[t].owner = tasks[t].owner /\ Reaped[t].attempts = tasks[t].attempts
           /\ Reaped[t].status \in Good =>
                Reaped[t].status = tasks[t].status /\ Reaped[t].attempts = tasks[t].attempts
  BY DEF Reaped
<1>1. tasks[t] \in RowType /\ (tasks[t].status \in Waiting => tasks[t].attempts < MaxAttempts)
  BY DEF IInv, TypeOK, NeverStranded
<1>2. CASE tasks[t].status = "leased" /\ tasks[t].lapsed
  BY <1>1, <1>2 DEF Reaped, RowType, Waiting, Settled, Outcomes, Good, Retries
<1>3. CASE ~(tasks[t].status = "leased" /\ tasks[t].lapsed)
  BY <1>1, <1>3 DEF Reaped
<1> QED BY <1>2, <1>3

LEMMA EnqueueInv == ASSUME IInv, NEW t \in Tasks, Enqueue(t) PROVE IInv'
<1> DEFINE f == [tasks EXCEPT ![t] = [NoRow EXCEPT !.status = "queued", !.ready = TRUE]]
<1>1. f \in [Tasks -> RowType] /\ f[t].status = "queued" /\ f[t].attempts = 0
  BY DEF IInv, TypeOK, RowType, NoRow, Waiting
<1>2. \A u \in Tasks : u # t => f[u] = tasks[u]
  BY DEF IInv, TypeOK
<1> HIDE DEF f
<1>3. \A u \in Tasks : f[u].status \in Waiting => f[u].attempts < MaxAttempts
  BY <1>1, <1>2, QueueAssumption DEF IInv, NeverStranded
<1>4. "queued" \notin Good
  BY DEF Good, Outcomes
<1> QED BY <1>1, <1>2, <1>3, <1>4, RowStep DEF Enqueue, f

LEMMA CancelInv == ASSUME IInv, NEW t \in Tasks, Cancel(t) PROVE IInv'
<1> DEFINE f == [tasks EXCEPT ![t].status = "cancelled"]
<1>1. f \in [Tasks -> RowType] /\ f[t].status = "cancelled"
  BY DEF IInv, TypeOK, RowType, Settled
<1>2. \A u \in Tasks : u # t => f[u] = tasks[u]
  BY DEF IInv, TypeOK
<1> HIDE DEF f
<1>3. "cancelled" \notin Good \union Waiting
  BY DEF Good, Outcomes, Waiting
<1>4. \A u \in Tasks : f[u].status \in Waiting => f[u].attempts < MaxAttempts
  BY <1>1, <1>2, <1>3 DEF IInv, NeverStranded
<1> QED BY <1>1, <1>2, <1>3, <1>4, RowStep DEF Cancel, f

LEMMA LapseInv == ASSUME IInv, NEW t \in Tasks, Lapse(t) PROVE IInv'
<1> DEFINE f == [tasks EXCEPT ![t].lapsed = TRUE]
<1>1. /\ f \in [Tasks -> RowType]
      /\ \A u \in Tasks : /\ f[u].status = tasks[u].status
                          /\ f[u].attempts = tasks[u].attempts /\ f[u].owner = tasks[u].owner
  BY DEF IInv, TypeOK, RowType
<1> HIDE DEF f
<1>2. \A u \in Tasks : f[u].status \in Waiting => f[u].attempts < MaxAttempts
  BY <1>1 DEF IInv, NeverStranded
<1> QED BY <1>1, <1>2, RowStep DEF Lapse, f

LEMMA BackoffInv == ASSUME IInv, NEW t \in Tasks, BackoffEnds(t) PROVE IInv'
<1> DEFINE f == [tasks EXCEPT ![t].ready = TRUE]
<1>1. /\ f \in [Tasks -> RowType]
      /\ \A u \in Tasks : /\ f[u].status = tasks[u].status
                          /\ f[u].attempts = tasks[u].attempts /\ f[u].owner = tasks[u].owner
  BY DEF IInv, TypeOK, RowType
<1> HIDE DEF f
<1>2. \A u \in Tasks : f[u].status \in Waiting => f[u].attempts < MaxAttempts
  BY <1>1 DEF IInv, NeverStranded
<1> QED BY <1>1, <1>2, RowStep DEF BackoffEnds, f

LEMMA LeasedRow ==
  ASSUME NEW row \in RowType, NEW r \in Runs
  PROVE  /\ Leased(row, r) \in RowType
         /\ Leased(row, r).status = "leased" /\ Leased(row, r).owner = r
         /\ Leased(row, r).attempts = row.attempts + 1
<1>1. row.attempts + 1 \in Nat
  BY DEF RowType
<1>2. /\ Leased(row, r).status = "leased" /\ Leased(row, r).owner = r
      /\ Leased(row, r).attempts = row.attempts + 1
  BY DEF Leased, RowType
<1>3. Leased(row, r) \in RowType
  BY <1>1 DEF Leased, RowType
<1> QED BY <1>2, <1>3

LEMMA ClaimInv == ASSUME IInv, NEW r \in Runs, NEW t \in Tasks, Claim(r, t) PROVE IInv'
<1> DEFINE row == Leased(Reaped[t], r)
           run == [Idle EXCEPT !.pc = "claimed", !.task = t, !.attempt = Reaped[t].attempts + 1]
<1>0. Reaped[t] \in RowType
  BY ReapedRows
<1>1. /\ row \in RowType
      /\ row.status = "leased" /\ row.owner = r /\ row.attempts = Reaped[t].attempts + 1
  BY <1>0, LeasedRow
<1>2. /\ run \in RunType
      /\ run.pc = "claimed" /\ run.task = t /\ run.attempt = Reaped[t].attempts + 1
      /\ run.child = "none" /\ run.outcome = "none"
  <2>1. Reaped[t].attempts + 1 \in Nat
    BY <1>0 DEF RowType
  <2> QED BY <2>1 DEF RunType, Idle
<1> HIDE DEF row, run
<1>3. /\ tasks' \in [Tasks -> RowType]
      /\ tasks'[t] = row /\ \A u \in Tasks : u # t => tasks'[u] = Reaped[u]
  BY <1>1, ReapedRows DEF Claim, row
<1>4. /\ runs' \in [Runs -> RunType]
      /\ runs'[r] = run /\ \A q \in Runs : q # r => runs'[q] = runs[q]
  BY <1>2 DEF Claim, run, IInv, TypeOK
<1>5. reported' = reported /\ runs[r].pc = "idle"
  BY DEF Claim
<1>6. TypeOK'
  BY <1>3, <1>4, <1>5 DEF IInv, TypeOK
<1>7. NeverStranded'
  BY <1>1, <1>3, ReapedRows DEF NeverStranded, Waiting
<1>8. HolderMatches'
  <2> SUFFICES ASSUME NEW u \in Tasks, NEW q \in Runs,
                      tasks'[u].status = "leased", tasks'[u].owner = q
      PROVE  runs'[q].pc # "idle" /\ runs'[q].task = u /\ runs'[q].attempt = tasks'[u].attempts
    BY DEF HolderMatches
  <2>1. CASE u = t
    BY <2>1, <1>1, <1>2, <1>3, <1>4
  <2>2. CASE u # t
    <3>1. /\ tasks[u].status = "leased" /\ tasks[u].owner = q
          /\ tasks'[u].attempts = tasks[u].attempts
      BY <2>2, <1>3, ReapedRows
    <3>2. q # r
      BY <3>1, <1>5 DEF IInv, HolderMatches
    <3> QED BY <3>1, <3>2, <1>4 DEF IInv, HolderMatches
  <2> QED BY <2>1, <2>2
<1>9. RunShape'
  BY <1>2, <1>4 DEF IInv, RunShape
<1>10. ReportBacked'
  <2>1. "none" \notin Good
    BY DEF Good, Outcomes
  <2> QED BY <2>1, <1>2, <1>4, <1>5 DEF IInv, ReportBacked, Report
<1>11. OutcomeOfLastAttempt'
  <2>1. "leased" \notin Good
    BY DEF Good, Outcomes
  <2> QED BY <2>1, <1>1, <1>3, <1>5, ReapedRows DEF IInv, OutcomeOfLastAttempt, Good
<1> QED BY <1>6, <1>7, <1>8, <1>9, <1>10, <1>11 DEF IInv

LEMMA FinishInv == ASSUME IInv, NEW r \in Runs, Finish(r) PROVE IInv'
<1>1. runs' \in [Runs -> RunType] /\ runs'[r] = Idle /\ \A q \in Runs : q # r => runs'[q] = runs[q]
  BY DEF Finish, Become, IInv, TypeOK, Idle, RunType
<1>2. reported' = reported /\ runs[r].outcome \in Outcomes
  BY DEF Finish, IInv, RunShape
<1>3. RunShape' /\ ReportBacked'
  BY <1>1, <1>2 DEF IInv, RunShape, ReportBacked, Report, Idle, Good, Outcomes
<1>4. CASE ~Owns(r)
  <2>1. tasks' = tasks
    BY <1>4 DEF Finish
  <2>2. \A t \in Tasks : ~(tasks[t].status = "leased" /\ tasks[t].owner = r)
    BY <1>4 DEF IInv, HolderMatches, Owns
  <2>3. HolderMatches'
    BY <2>1, <2>2, <1>1 DEF IInv, HolderMatches
  <2> QED BY <2>1, <2>3, <1>1, <1>2, <1>3
          DEF IInv, TypeOK, NeverStranded, OutcomeOfLastAttempt
<1>5. CASE Owns(r)
  <2> DEFINE t == runs[r].task
             row == Finished(tasks[t], runs[r].outcome)
  <2>1. t \in Tasks /\ tasks[t].status = "leased" /\ tasks[t].owner = r
    BY <1>5 DEF Owns
  <2>2. /\ row \in RowType /\ row.status \in {"retry_wait"} \union Outcomes
        /\ row.status = "retry_wait" => row.attempts < MaxAttempts
        /\ row.status \in Good => row.status = runs[r].outcome
        /\ row.attempts = tasks[t].attempts
    <3>1. tasks[t] \in RowType
      BY <2>1 DEF IInv, TypeOK
    <3> QED BY <3>1, <1>2 DEF Finished, Retries, RowType, Waiting, Settled, Outcomes, Good
  <2> HIDE DEF row
  <2>3. /\ tasks' \in [Tasks -> RowType]
        /\ tasks'[t] = row /\ \A u \in Tasks : u # t => tasks'[u] = tasks[u]
    BY <1>5, <2>1, <2>2 DEF Finish, row, IInv, TypeOK
  <2>4. TypeOK'
    BY <1>1, <1>2, <2>3 DEF IInv, TypeOK
  <2>5. NeverStranded'
    BY <2>2, <2>3 DEF IInv, NeverStranded, Waiting, Outcomes
  <2>6. HolderMatches'
    BY <1>1, <2>1, <2>2, <2>3 DEF IInv, HolderMatches, Outcomes
  <2>7. OutcomeOfLastAttempt'
    <3>1. row.status \in Good =>
            [task |-> t, attempt |-> row.attempts, outcome |-> row.status] \in reported
      BY <2>1, <2>2 DEF IInv, HolderMatches, ReportBacked, Report
    <3> QED BY <3>1, <1>2, <2>3 DEF IInv, OutcomeOfLastAttempt, Good
  <2> QED BY <1>3, <2>4, <2>5, <2>6, <2>7 DEF IInv
<1> QED BY <1>4, <1>5

\* A step of one run, or of its child, that leaves the rows alone and keeps the
\* run's task and attempt.
LEMMA RunUpdate ==
  ASSUME IInv,
         NEW r \in Runs, NEW run \in RunType,
         runs' = [runs EXCEPT ![r] = run], tasks' = tasks,
         reported \subseteq reported',
         reported' \subseteq [task : Tasks \union {NoTask}, attempt : Nat, outcome : Outcomes],
         run.pc # "idle" \/ ~Owns(r),
         run.pc # "idle" => run.task = runs[r].task /\ run.attempt = runs[r].attempt,
         run.pc = "running" => run.child # "none",
         run.pc = "finish" => run.outcome \in Outcomes,
         run.child \in Good => Report(run, run.child) \in reported',
         run.outcome \in Good => Report(run, run.outcome) \in reported'
  PROVE  IInv'
<1>1. runs' \in [Runs -> RunType] /\ runs'[r] = run /\ \A q \in Runs : q # r => runs'[q] = runs[q]
  BY DEF IInv, TypeOK
<1>2. TypeOK' /\ NeverStranded' /\ RunShape' /\ OutcomeOfLastAttempt'
  BY <1>1 DEF IInv, TypeOK, NeverStranded, RunShape, OutcomeOfLastAttempt
<1>3. ReportBacked'
  BY <1>1 DEF IInv, ReportBacked, Report
<1>4. HolderMatches'
  BY <1>1 DEF IInv, HolderMatches, Owns
<1> QED BY <1>2, <1>3, <1>4 DEF IInv

LEMMA StartInv == ASSUME IInv, NEW r \in Runs, Start(r) PROVE IInv'
<1> DEFINE run == [runs[r] EXCEPT !.pc = "running", !.child = "started"]
<1>1. /\ run \in RunType /\ run.pc = "running" /\ run.child = "started"
      /\ run.task = runs[r].task /\ run.attempt = runs[r].attempt
      /\ run.outcome = runs[r].outcome
  BY DEF IInv, TypeOK, RunType, Alive
<1>2. "started" \notin Good
  BY DEF Good, Outcomes
<1>3. reported' = reported /\ reported \subseteq
        [task : Tasks \union {NoTask}, attempt : Nat, outcome : Outcomes]
  BY DEF Start, IInv, TypeOK
<1>4. run.outcome \in Good => Report(run, run.outcome) \in reported
  BY <1>1 DEF IInv, ReportBacked, Report
<1>5. runs' = [runs EXCEPT ![r] = run] /\ tasks' = tasks
  BY DEF Start, Become
<1> HIDE DEF run
<1> QED BY <1>1, <1>2, <1>3, <1>4, <1>5, RunUpdate

\* Ending the child of a run changes its child only, and into no good outcome.
LEMMA KilledRun ==
  ASSUME IInv, NEW r \in Runs
  PROVE  LET run == Kill(runs[r])
         IN  /\ run \in RunType
             /\ run.pc = runs[r].pc /\ run.task = runs[r].task /\ run.attempt = runs[r].attempt
             /\ run.outcome = runs[r].outcome
             /\ run.child \in Good => run.child = runs[r].child
             /\ run.child = "none" => runs[r].child = "none"
<1>1. runs[r] \in RunType
  BY DEF IInv, TypeOK
<1> QED BY <1>1 DEF Kill, RunType, Outcomes, Good

LEMMA HeartbeatInv == ASSUME IInv, NEW r \in Runs, HeartbeatFails(r) PROVE IInv'
<1> DEFINE killed == Kill(runs[r])
           run == [killed EXCEPT !.lost = TRUE]
<1>1. /\ killed \in RunType /\ killed.pc = runs[r].pc /\ killed.task = runs[r].task
      /\ killed.attempt = runs[r].attempt /\ killed.outcome = runs[r].outcome
      /\ killed.child \in Good => killed.child = runs[r].child
      /\ killed.child = "none" => runs[r].child = "none"
  BY KilledRun
<1>2. runs' = [runs EXCEPT ![r] = run] /\ tasks' = tasks /\ reported' = reported
  BY DEF HeartbeatFails, Become
<1> HIDE DEF killed
<1>3. /\ run \in RunType /\ run.pc = killed.pc /\ run.task = killed.task
      /\ run.attempt = killed.attempt /\ run.outcome = killed.outcome /\ run.child = killed.child
  BY <1>1 DEF RunType
<1> HIDE DEF run
<1>4. runs[r].pc = "running" /\ runs[r].child # "none"
  BY DEF HeartbeatFails, IInv, RunShape
<1>5. /\ run.child \in Good => Report(run, run.child) \in reported
      /\ run.outcome \in Good => Report(run, run.outcome) \in reported
  BY <1>1, <1>3 DEF IInv, ReportBacked, Report
<1>6. reported \subseteq [task : Tasks \union {NoTask}, attempt : Nat, outcome : Outcomes]
  BY DEF IInv, TypeOK
<1> QED BY <1>1, <1>2, <1>3, <1>4, <1>5, <1>6, RunUpdate

LEMMA TimeoutInv == ASSUME IInv, NEW r \in Runs, Timeout(r) PROVE IInv'
<1> DEFINE killed == Kill(runs[r])
           run == [killed EXCEPT !.pc = "finish", !.outcome = "failed"]
<1>1. /\ killed \in RunType /\ killed.task = runs[r].task /\ killed.attempt = runs[r].attempt
      /\ killed.child \in Good => killed.child = runs[r].child
  BY KilledRun
<1>2. runs' = [runs EXCEPT ![r] = run] /\ tasks' = tasks /\ reported' = reported
  BY DEF Timeout, Become
<1> HIDE DEF killed
<1>3. /\ run \in RunType /\ run.pc = "finish" /\ run.task = killed.task
      /\ run.attempt = killed.attempt /\ run.outcome = "failed" /\ run.child = killed.child
  BY <1>1 DEF RunType, Outcomes
<1> HIDE DEF run
<1>4. "failed" \in Outcomes /\ "failed" \notin Good
  BY DEF Good, Outcomes
<1>5. run.child \in Good => Report(run, run.child) \in reported
  BY <1>1, <1>3 DEF IInv, ReportBacked, Report
<1>6. reported \subseteq [task : Tasks \union {NoTask}, attempt : Nat, outcome : Outcomes]
  BY DEF IInv, TypeOK
<1> QED BY <1>1, <1>2, <1>3, <1>4, <1>5, <1>6, RunUpdate

LEMMA CommunicateInv == ASSUME IInv, NEW r \in Runs, Communicate(r) PROVE IInv'
<1> DEFINE run == [runs[r] EXCEPT !.pc = "finish", !.outcome = Outcome(runs[r])]
<1>1. runs[r] \in RunType /\ runs[r].child \in Outcomes
  BY DEF Communicate, IInv, TypeOK, RunShape, RunType
<1>2. /\ Outcome(runs[r]) \in Outcomes
      /\ Outcome(runs[r]) \in Good => Outcome(runs[r]) = runs[r].child
  BY <1>1 DEF Outcome, Outcomes, Good
<1>3. /\ run \in RunType /\ run.pc = "finish" /\ run.outcome = Outcome(runs[r])
      /\ run.task = runs[r].task /\ run.attempt = runs[r].attempt /\ run.child = runs[r].child
  BY <1>1, <1>2 DEF RunType
<1>4. runs' = [runs EXCEPT ![r] = run] /\ tasks' = tasks /\ reported' = reported
  BY DEF Communicate, Become
<1> HIDE DEF run
<1>5. /\ run.child \in Good => Report(run, run.child) \in reported
      /\ run.outcome \in Good => Report(run, run.outcome) \in reported
  BY <1>2, <1>3 DEF IInv, ReportBacked, Report
<1>6. reported \subseteq [task : Tasks \union {NoTask}, attempt : Nat, outcome : Outcomes]
  BY DEF IInv, TypeOK
<1> QED BY <1>2, <1>3, <1>4, <1>5, <1>6, RunUpdate

LEMMA CrashInv == ASSUME IInv, NEW r \in Runs, Crash(r) PROVE IInv'
<1> DEFINE run == [runs[r] EXCEPT !.pc = "dead"]
<1>1. /\ run \in RunType /\ run.pc = "dead" /\ run.task = runs[r].task
      /\ run.attempt = runs[r].attempt /\ run.child = runs[r].child
      /\ run.outcome = runs[r].outcome
  BY DEF IInv, TypeOK, RunType
<1>2. runs' = [runs EXCEPT ![r] = run] /\ tasks' = tasks /\ reported' = reported
  BY DEF Crash, Become
<1> HIDE DEF run
<1>3. /\ run.child \in Good => Report(run, run.child) \in reported
      /\ run.outcome \in Good => Report(run, run.outcome) \in reported
  BY <1>1 DEF IInv, ReportBacked, Report
<1>4. reported \subseteq [task : Tasks \union {NoTask}, attempt : Nat, outcome : Outcomes]
  BY DEF IInv, TypeOK
<1> QED BY <1>1, <1>2, <1>3, <1>4, RunUpdate

LEMMA ForgetInv == ASSUME IInv, NEW r \in Runs, Forget(r) PROVE IInv'
<1>1. /\ Idle \in RunType /\ Idle.pc = "idle"
      /\ Idle.child \notin Good /\ Idle.outcome \notin Good
  BY DEF Idle, RunType, Good, Outcomes
<1>2. runs' = [runs EXCEPT ![r] = Idle] /\ tasks' = tasks /\ reported' = reported /\ ~Owns(r)
  BY DEF Forget, Become
<1>3. reported \subseteq [task : Tasks \union {NoTask}, attempt : Nat, outcome : Outcomes]
  BY DEF IInv, TypeOK
<1> QED BY <1>1, <1>2, <1>3, RunUpdate

\* A step of the child of a run, which changes the run's child only, into a
\* child that goes on or into an outcome that the history has.
LEMMA ChildStep ==
  ASSUME IInv, NEW r \in Runs, NEW child \in Alive \union Outcomes,
         runs[r].child \in Alive,
         tasks' = tasks, runs' = [runs EXCEPT ![r].child = child],
         \/ child \in Alive /\ reported' = reported
         \/ child \in Outcomes /\ reported' = reported \union {Report(runs[r], child)}
  PROVE  IInv'
<1> DEFINE run == [runs[r] EXCEPT !.child = child]
<1>1. /\ run \in RunType /\ run.pc = runs[r].pc /\ run.task = runs[r].task
      /\ run.attempt = runs[r].attempt /\ run.child = child /\ run.outcome = runs[r].outcome
      /\ runs' = [runs EXCEPT ![r] = run]
  BY DEF IInv, TypeOK, RunType
<1> HIDE DEF run
<1>2. /\ reported \subseteq reported'
      /\ reported' \subseteq [task : Tasks \union {NoTask}, attempt : Nat, outcome : Outcomes]
  BY DEF IInv, TypeOK, RunType, Report
<1>3. child \in Good => Report(run, child) \in reported'
  BY <1>1 DEF Report, Good, Outcomes, Alive
<1>4. run.outcome \in Good => Report(run, run.outcome) \in reported'
  BY <1>1, <1>2 DEF IInv, ReportBacked, Report
<1>5. child # "none"
  BY DEF Alive, Outcomes
<1>6. run.pc # "idle" \/ ~Owns(r)
  BY <1>1 DEF IInv, HolderMatches, Owns
<1>7. run.pc = "finish" => run.outcome \in Outcomes
  BY <1>1 DEF IInv, RunShape
<1> QED BY <1>1, <1>2, <1>3, <1>4, <1>5, <1>6, <1>7, RunUpdate

LEMMA ExitInv ==
  ASSUME IInv, NEW r \in Runs, NEW outcome \in Outcomes,
         runs[r].child \in Alive, Exit(r, outcome)
  PROVE  IInv'
<1>1. runs' = [runs EXCEPT ![r].child = outcome]
  BY DEF Exit, Become
<1>2. tasks' = tasks /\ reported' = reported \union {Report(runs[r], outcome)}
  BY DEF Exit, Report
<1> QED BY <1>1, <1>2, ChildStep

LEMMA CheckLeaseInv == ASSUME IInv, NEW r \in Runs, CheckLease(r) PROVE IInv'
<1>1. runs[r].child \in Alive
  BY DEF CheckLease, Alive
<1>2. CASE HoldsLease(r)
  <2>1. runs' = [runs EXCEPT ![r].child = "checked"] /\ tasks' = tasks /\ reported' = reported
    BY <1>2 DEF CheckLease, Become
  <2>2. "checked" \in Alive
    BY DEF Alive
  <2> QED BY <1>1, <2>1, <2>2, ChildStep
<1>3. CASE ~HoldsLease(r)
  <2>1. Exit(r, "failed") /\ "failed" \in Outcomes
    BY <1>3 DEF CheckLease, Outcomes
  <2> QED BY <1>1, <2>1, ExitInv
<1> QED BY <1>2, <1>3

LEMMA PersistInv == ASSUME IInv, NEW r \in Runs, Persist(r) PROVE IInv'
<1>1. PICK child \in Alive : Become(r, [runs[r] EXCEPT !.child = child])
  BY DEF Persist
<1>2. runs' = [runs EXCEPT ![r].child = child] /\ tasks' = tasks /\ reported' = reported
  BY <1>1 DEF Persist, Become
<1>3. runs[r].child \in Alive
  BY DEF Persist, Alive
<1> QED BY <1>2, <1>3, ChildStep

-----------------------------------------------------------------------------

LEMMA StepInv == IInv /\ [Next]_vars => IInv'
<1> SUFFICES ASSUME IInv, [Next]_vars PROVE IInv'
  OBVIOUS
<1>1. CASE UNCHANGED vars
  BY <1>1 DEF vars, IInv, TypeOK, NeverStranded, HolderMatches, RunShape, ReportBacked,
              OutcomeOfLastAttempt
<1>2. CASE \E t \in Tasks : Enqueue(t) \/ Cancel(t) \/ Lapse(t) \/ BackoffEnds(t)
  BY <1>2, EnqueueInv, CancelInv, LapseInv, BackoffInv
<1>3. CASE \E r \in Runs, t \in Tasks : Claim(r, t)
  BY <1>3, ClaimInv
<1>4. CASE ClaimNothing
  BY <1>4, ReapedRows, RowStep DEF ClaimNothing
<1>5. CASE \E r \in Runs : RunStep(r)
  BY <1>5, StartInv, CommunicateInv, TimeoutInv, FinishInv, ForgetInv DEF RunStep
<1>6. CASE \E r \in Runs : HeartbeatFails(r) \/ Crash(r)
  BY <1>6, HeartbeatInv, CrashInv
<1>7. CASE \E r \in Runs : CheckLease(r) \/ Persist(r)
  BY <1>7, CheckLeaseInv, PersistInv
<1>8. CASE \E r \in Runs : ChildExits(r)
  BY <1>8, ExitInv, QueueAssumption DEF ChildExits
<1> QED BY <1>1, <1>2, <1>3, <1>4, <1>5, <1>6, <1>7, <1>8 DEF Next

LEMMA Invariance == Spec => []IInv
BY InitInv, StepInv, PTL DEF Spec

-----------------------------------------------------------------------------

\* The rows, the runs and the history keep their types: finish writes no status
\* outside those a row may have.
THEOREM QueueTypeCorrect == Spec => []TypeOK
<1>1. IInv => TypeOK
  BY DEF IInv
<1> QED BY <1>1, Invariance, PTL

\* A task that waits always has an attempt left, so no sequence of failures,
\* crashes and reaped leases leaves one that claim will never select.
THEOREM Unstranded == Spec => []NeverStranded
<1>1. IInv => NeverStranded
  BY DEF IInv
<1> QED BY <1>1, Invariance, PTL

\* The outcome of work that finish records was reported by the child of the
\* last attempt: a run whose lease was taken over never settles the task.
THEOREM LastAttempt == Spec => []OutcomeOfLastAttempt
<1>1. IInv => OutcomeOfLastAttempt
  BY DEF IInv
<1> QED BY <1>1, Invariance, PTL

\* A settled row never changes again: no claim, reaping, finish or cancel that
\* is still to come touches it.
THEOREM Final == Spec => SettledIsFinal
<1> DEFINE Stays(t) == tasks[t].status \in Settled => tasks'[t] = tasks[t]
<1>1. ASSUME IInv, [Next]_vars, NEW t \in Tasks, tasks[t].status \in Settled
      PROVE  tasks'[t] = tasks[t]
  <2>0. /\ tasks \in [Tasks -> RowType]
        /\ tasks[t].status \notin Waiting \union {"leased", "absent"}
    BY <1>1 DEF Settled, Outcomes, Waiting, IInv, TypeOK
  <2>1. Reaped[t] = tasks[t]
    BY <2>0 DEF Reaped
  <2>2. CASE \E u \in Tasks : Enqueue(u) \/ Cancel(u) \/ Lapse(u) \/ BackoffEnds(u)
    BY <2>0, <2>2 DEF Enqueue, Cancel, Lapse, BackoffEnds, Waiting
  <2>3. CASE \E r \in Runs, u \in Tasks : Claim(r, u)
    <3>1. PICK r \in Runs, u \in Tasks : Claim(r, u)
      BY <2>3
    <3>2. u # t
      BY <2>0, <2>1, <3>1 DEF Claim, Claimable
    <3>3. tasks'[t] = Reaped[t]
      BY <3>1, <3>2, <1>1, ReapedRows DEF Claim
    <3> QED BY <3>3, <2>1
  <2>4. CASE ClaimNothing
    BY <2>1, <2>4 DEF ClaimNothing
  <2>5. CASE \E r \in Runs : Finish(r)
    BY <2>0, <2>5 DEF Finish, Owns
  <2>6. CASE UNCHANGED tasks
    BY <2>6
  <2> QED
    BY <1>1, <2>2, <2>3, <2>4, <2>5, <2>6
    DEF Next, vars, RunStep, Start, Communicate, Timeout, Forget, HeartbeatFails, Crash,
        CheckLease, Exit, Persist, ChildExits
<1>2. IInv /\ [Next]_vars => [\A t \in Tasks : Stays(t)]_vars
  BY <1>1
<1> QED BY <1>2, Invariance, PTL DEF Spec, SettledIsFinal
=============================================================================
