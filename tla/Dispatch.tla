------------------------------ MODULE Dispatch ------------------------------
(***************************************************************************)
(* One logical trigger and the run it stands for: TriggerService           *)
(* (workflow/triggers.py) claims the trigger under a lease, the Dispatcher *)
(* (workflow/dispatcher.py) executes the frozen plan, WorkflowStore        *)
(* (workflow/store.py) keeps trigger, run and attempts.                    *)
(*                                                                         *)
(* A call is one TriggerService.dispatch with an owner id of its own.  Its *)
(* heartbeat may be late, so another call may take the trigger over while  *)
(* the first is only slow.  An adapter runs on a thread of its own, which  *)
(* goes on after a timeout has cancelled its attempt; two calls may come   *)
(* to share an attempt row, which is found by its number.                  *)
(*                                                                         *)
(* Of the schedule ledger the attempts see the claim of their task; the    *)
(* ledger itself is ScheduleRuntime.                                       *)
(***************************************************************************)
EXTENDS Integers, FiniteSets

CONSTANTS
  Kinds,       \* of triggers: schedule, event, manual
  Calls,
  NoCall,
  Tasks,
  Deps,        \* the tasks a task depends on
  Pool,        \* threads of a Dispatcher
  MaxTries,    \* attempts of a task before a timeout or a transient error is final
  MaxNo,       \* bound on attempt numbers
  MaxReopen    \* bound on compensations

ASSUME DispatchAssumption ==
  /\ NoCall \notin Calls /\ Kinds \subseteq {"schedule", "event", "manual"}
  /\ Deps \in [Tasks -> SUBSET Tasks]
  /\ Pool \in Nat \ {0} /\ MaxTries \in Nat \ {0} /\ MaxNo \in Nat /\ MaxReopen \in Nat

VARIABLES
  kind,
  trigger,    \* the row of trigger_runs
  run,        \* the row of workflow_runs; refs: what its saved result cites
  attempts,   \* agent_runs: of each task, by number
  published,  \* the attempts whose projection is in Memory
  claim,      \* the claim of each task in the schedule ledger, with its references
  call,       \* the calls of dispatch, with what each has in memory
  thread,     \* the adapter threads
  reopened    \* compensations so far

tables == <<kind, trigger, run, attempts, published, claim, reopened>>

vars == <<tables, call, thread>>

Nos == 1..MaxNo

\* A reference to a projection of an earlier run.
Older == 0

Settled == {"complete", "incomplete", "failed", "skipped", "superseded", "waiting_material"}

NoOutcome == [status |-> "none", ref |-> Older]

Failed == [status |-> "failed", ref |-> Older]

NoPrevious == [status |-> "none", no |-> 0]

NoThread == [pc |-> "off", ref |-> Older]

Waiting ==
  [ pc |-> "idle", seen |-> "none", lost |-> FALSE, again |-> FALSE, status |-> "none",
    previous |-> [t \in Tasks |-> NoPrevious], counts |-> [t \in Tasks |-> 0],
    active |-> [t \in Tasks |-> 0], outcome |-> [t \in Tasks |-> NoOutcome] ]

Init ==
  /\ kind \in Kinds
  /\ trigger = [status |-> "absent", owner |-> NoCall, leased |-> FALSE, superseded |-> FALSE, tried |-> FALSE]
  /\ run = [status |-> "absent", refs |-> [t \in Tasks |-> NoOutcome]]
  /\ attempts = [t \in Tasks |-> [n \in Nos |-> [status |-> "absent", ref |-> Older]]]
  /\ published = [t \in Tasks |-> {}]
  /\ claim = [t \in Tasks |-> [status |-> "absent", no |-> 0, refs |-> {}]]
  /\ call = [c \in Calls |-> Waiting]
  /\ thread = [c \in Calls |-> [t \in Tasks |-> [n \in Nos |-> NoThread]]]
  /\ reopened = 0

Goto(c, pc) == call' = [call EXCEPT ![c].pc = pc]

\* A call that returned or died remembers nothing.
Leave(c) == call' = [call EXCEPT ![c] = [Waiting EXCEPT !.pc = "done"]]

-----------------------------------------------------------------------------
(* TriggerService. *)

\* A call reports a trigger that is settled; otherwise it goes on with the status it saw.
Record(c) ==
  /\ call[c].pc = "idle"
  /\ trigger' = IF trigger.status = "absent" THEN [trigger EXCEPT !.status = "planned"] ELSE trigger
  /\ IF trigger.status \in Settled
       THEN Leave(c)
       ELSE call' = [call EXCEPT ![c].pc = "recorded", ![c].seen = trigger'.status]
  /\ UNCHANGED <<kind, run, attempts, published, claim, thread, reopened>>

\* A scheduled tick that is too late is skipped: a planned one, or one whose
\* worker is gone; never one whose lease is alive.
SkipLate(c) ==
  /\ call[c].pc = "recorded" /\ kind = "schedule"
  /\ trigger' =
       IF \/ call[c].seen = "running" /\ trigger.status = "running" /\ ~trigger.leased
          \/ call[c].seen = "planned" /\ trigger.status = "planned"
         THEN [trigger EXCEPT !.status = "skipped", !.owner = NoCall, !.leased = FALSE]
         ELSE trigger
  /\ Leave(c)
  /\ UNCHANGED <<kind, run, attempts, published, claim, thread, reopened>>

Taken == trigger.status \in Settled \/ (trigger.status = "running" /\ trigger.leased)

\* The lease of a worker that is gone, or only late, is taken over; work for an
\* event version that was replaced meanwhile is not started again.
Claim(c) ==
  /\ call[c].pc = "recorded"
  /\ \/ /\ Taken
        /\ Leave(c)
        /\ UNCHANGED trigger
     \/ /\ ~Taken /\ trigger.superseded
        /\ trigger' = [trigger EXCEPT !.status = "superseded", !.owner = NoCall]
        /\ Leave(c)
     \/ /\ ~Taken /\ ~trigger.superseded
        /\ trigger' = [trigger EXCEPT !.status = "running", !.owner = c, !.leased = TRUE, !.tried = TRUE]
        /\ call' = [call EXCEPT ![c].pc = "claimed", ![c].seen = "none",
                                 ![c].again = trigger.tried]
  /\ UNCHANGED <<kind, run, attempts, published, claim, thread, reopened>>

Owns(c) == trigger.owner = c /\ trigger.status = "running"

\* The run is bound to the trigger by the owner only, and reopened for whoever
\* claims the trigger again.
Bind(c) ==
  /\ call[c].pc = "claimed"
  /\ IF Owns(c)
       THEN /\ run' = IF call[c].again /\ run.status = "incomplete"
                        THEN [run EXCEPT !.status = "planned"] ELSE run
            /\ call' = [call EXCEPT ![c].pc = "bound", ![c].again = FALSE]
       ELSE Leave(c) /\ UNCHANGED run
  /\ UNCHANGED <<kind, trigger, attempts, published, claim, thread, reopened>>

\* Until its heartbeat notices, a call does not know that it lost the lease.
Renew(c) ==
  /\ call[c].pc \in {"bound", "executing", "finishing"} /\ ~call[c].lost
  /\ \/ Owns(c) /\ trigger' = [trigger EXCEPT !.leased = TRUE] /\ UNCHANGED call
     \/ call' = [call EXCEPT ![c].lost = TRUE] /\ UNCHANGED trigger
  /\ UNCHANGED <<kind, run, attempts, published, claim, thread, reopened>>

\* Mutant: the event version is not asked for again at the end.
FinalAsAsked(status) == status

\* Mutant: the reason is written where the status belongs.
FinalReason(status) == IF trigger.superseded THEN "event_version_changed_in_flight" ELSE status

Final(status) == IF trigger.superseded THEN "superseded" ELSE status

FinishTrigger(c, status) ==
  trigger' = IF Owns(c) THEN [trigger EXCEPT !.status = Final(status), !.leased = FALSE] ELSE trigger

\* The call reports what its Dispatcher returned, unless its lease is lost.
Report(c) ==
  /\ call[c].pc = "finishing"
  /\ IF call[c].lost THEN UNCHANGED trigger ELSE FinishTrigger(c, call[c].status)
  /\ Leave(c)
  /\ UNCHANGED <<kind, run, attempts, published, claim, thread, reopened>>

\* A thread that has not begun is cancelled; one that has goes on.
CancelQueued(c) ==
  [t \in Tasks |-> [n \in Nos |-> IF thread[c][t][n].pc = "queued" THEN NoThread ELSE thread[c][t][n]]]

\* A plan that cannot be built, an authority that is not there, a database error.
Fail(c) ==
  /\ call[c].pc \in {"bound", "executing", "finishing"}
  /\ IF call[c].lost THEN UNCHANGED trigger ELSE FinishTrigger(c, "failed")
  /\ Leave(c)
  /\ thread' = [thread EXCEPT ![c] = CancelQueued(c)]
  /\ UNCHANGED <<kind, run, attempts, published, claim, reopened>>

-----------------------------------------------------------------------------
(* Dispatcher. *)

Outcomes(c) == call[c].outcome

Started(t) == {n \in Nos : attempts[t][n].status # "absent"}

\* The attempt with the highest number, 0 if there is none.
IsLatest(t, n) == (n = 0 \/ n \in Started(t)) /\ \A o \in Started(t) : o <= n

\* Mutant: an attempt that is still running is taken for one that succeeded.
RememberedAsDone(t, n) ==
  [status |-> IF n = 0 \/ attempts[t][n].status = "ended" THEN "ended" ELSE "succeeded", no |-> n]

\* A task never tried has as little to restore as one that ended without a result.
Remembered(t, n) == [status |-> IF n = 0 THEN "ended" ELSE attempts[t][n].status, no |-> n]

\* The run is created or found; a saved result is returned as it is.  Else the
\* call goes by the attempts it sees now.
Open(c) ==
  /\ call[c].pc = "bound"
  /\ IF run.status \in {"complete", "incomplete"}
       THEN /\ call' = [call EXCEPT ![c].pc = "finishing", ![c].status = run.status]
            /\ UNCHANGED run
       ELSE /\ run' = [run EXCEPT !.status = "running", !.refs = [t \in Tasks |-> NoOutcome]]
            /\ \E latest \in [Tasks -> 0..MaxNo] :
                 /\ \A t \in Tasks : IsLatest(t, latest[t])
                 /\ call' = [call EXCEPT ![c].pc = "executing",
                                         ![c].previous = [t \in Tasks |-> Remembered(t, latest[t])],
                                         ![c].counts = latest]
  /\ UNCHANGED <<kind, trigger, attempts, published, claim, thread, reopened>>

\* finish_attempt: only a running attempt is finished.
Finished(row, status, ref) ==
  IF row.status = "running" THEN [status |-> status, ref |-> ref] ELSE row

\* Failed, blocked, missing, stale, cancelled: the attempt has no authority any more.
Ended(row) == Finished(row, "ended", Older)

Cites(ref) == [status |-> "succeeded", ref |-> ref]

\* A projection that was published before the worker died is kept.
Recover(c, t) ==
  LET p == call[c].previous[t] IN
  /\ call[c].pc = "executing" /\ p.status = "running" /\ p.no \in published[t]
  /\ attempts' = [attempts EXCEPT ![t][p.no] = Finished(attempts[t][p.no], "succeeded", p.no)]
  /\ call' = [call EXCEPT ![c].previous[t] = NoPrevious, ![c].outcome[t] = Cites(p.no)]
  /\ UNCHANGED <<kind, trigger, run, published, claim, thread, reopened>>

\* None is found, or it was made from other inputs.  The attempt is written off
\* later, in a transaction of its own, whether or not its worker is dead.
FindNothing(c, t) ==
  /\ call[c].pc = "executing" /\ call[c].previous[t].status = "running"
  /\ call' = [call EXCEPT ![c].previous[t] = [status |-> "gone", no |-> call[c].previous[t].no]]
  /\ UNCHANGED <<tables, thread>>

WriteOff(c, t) ==
  LET p == call[c].previous[t] IN
  /\ call[c].pc = "executing" /\ p.status = "gone"
  /\ attempts' = [attempts EXCEPT ![t][p.no] = Ended(attempts[t][p.no])]
  /\ call' = [call EXCEPT ![c].previous[t] = NoPrevious]
  /\ UNCHANGED <<kind, trigger, run, published, claim, thread, reopened>>

\* The references of an attempt that succeeded are verified once more.
Restore(c, t) ==
  LET p == call[c].previous[t] IN
  /\ call[c].pc = "executing" /\ p.status \in {"succeeded", "ended"}
  /\ \E valid \in {v \in BOOLEAN : v => p.status = "succeeded"} :
       call' = [call EXCEPT ![c].previous[t] = NoPrevious,
                            ![c].outcome[t] = IF valid THEN Cites(attempts[t][p.no].ref) ELSE NoOutcome]
  /\ UNCHANGED <<tables, thread>>

\* An attempt that ends without having run: its row is created, or found.
EndUnrun(t, n) ==
  attempts' = [attempts EXCEPT ![t][n] =
    IF attempts[t][n].status = "absent" THEN [status |-> "ended", ref |-> Older]
                                        ELSE Ended(attempts[t][n])]

\* The read scope of the task was closed when the call began: it ends as the
\* first attempt, whatever number was reached, and nothing of it is restored.
CloseRead(c, t) ==
  /\ call[c].pc = "executing" /\ call[c].previous[t].status \in {"running", "succeeded", "ended"}
  /\ 1 \in Nos /\ EndUnrun(t, 1)
  /\ call' = [call EXCEPT ![c].previous[t] = NoPrevious, ![c].outcome[t] = Failed]
  /\ UNCHANGED <<kind, trigger, run, published, claim, thread, reopened>>

\* Nothing is started before every task has been restored or given up.
Executing(c) ==
  /\ call[c].pc = "executing"
  /\ \A t \in Tasks : call[c].previous[t] = NoPrevious

Due(c, t) ==
  /\ Executing(c) /\ call[c].active[t] = 0 /\ Outcomes(c)[t].status = "none"
  /\ \A d \in Deps[t] : Outcomes(c)[d].status # "none"

Ready(c, t) == \A d \in Deps[t] : Outcomes(c)[d].status = "succeeded"

\* The attempt row of this number is created, or found if another call made it.
Start(c, t) ==
  LET n == call[c].counts[t] + 1 IN
  /\ Due(c, t) /\ Ready(c, t) /\ n \in Nos
  /\ Cardinality({d \in Tasks : call[c].active[d] # 0}) < Pool
  /\ attempts' = IF attempts[t][n].status = "absent"
                   THEN [attempts EXCEPT ![t][n] = [status |-> "running", ref |-> Older]] ELSE attempts
  /\ call' = [call EXCEPT ![c].counts[t] = n, ![c].active[t] = n]
  /\ thread' = [thread EXCEPT ![c][t][n] = [pc |-> "queued", ref |-> Older]]
  /\ UNCHANGED <<kind, trigger, run, published, claim, reopened>>

\* A dependency failed, the read scope has closed since, a product is unhealthy,
\* an adapter missing: the task ends without having run.
Block(c, t) ==
  LET n == call[c].counts[t] + 1 IN
  /\ Due(c, t) /\ n \in Nos /\ EndUnrun(t, n)
  /\ call' = [call EXCEPT ![c].outcome[t] = Failed]
  /\ UNCHANGED <<kind, trigger, run, published, claim, thread, reopened>>

\* Mutant: there is no budget.
RetryForever(c, t) == call' = [call EXCEPT ![c].active[t] = 0]

\* A timeout or a transient error is retried while the budget lasts; the
\* attempt number is the count.
RetryOrFinish(c, t) ==
  call' = [call EXCEPT ![c].active[t] = 0,
                       ![c].outcome[t] = IF call[c].counts[t] < MaxTries THEN NoOutcome ELSE Failed]

\* The deadline: the attempt is terminal from now on, its thread goes on unless
\* it had not begun.
Timeout(c, t) ==
  LET n == call[c].active[t] IN
  /\ call[c].pc = "executing" /\ n # 0
  /\ attempts' = [attempts EXCEPT ![t][n] = Ended(attempts[t][n])]
  /\ thread' = [thread EXCEPT ![c][t][n] =
       IF thread[c][t][n].pc = "claimed" THEN thread[c][t][n] ELSE NoThread]
  /\ RetryOrFinish(c, t)
  /\ UNCHANGED <<kind, trigger, run, published, claim, reopened>>

\* What a thread returned in time is recorded if its attempt is still running,
\* and counts for this call in any case.
Collect(c, t) ==
  LET n == call[c].active[t]  r == thread[c][t][n] IN
  /\ call[c].pc = "executing" /\ n # 0
  /\ \/ /\ r.pc = "ok"
        /\ attempts' = [attempts EXCEPT ![t][n] = Finished(attempts[t][n], "succeeded", r.ref)]
        /\ call' = [call EXCEPT ![c].active[t] = 0, ![c].outcome[t] = Cites(r.ref)]
     \/ /\ r.pc = "transient"
        /\ attempts' = [attempts EXCEPT ![t][n] = Ended(attempts[t][n])]
        /\ RetryOrFinish(c, t)
     \/ /\ r.pc = "error"
        /\ attempts' = [attempts EXCEPT ![t][n] = Ended(attempts[t][n])]
        /\ call' = [call EXCEPT ![c].active[t] = 0, ![c].outcome[t] = Failed]
  /\ thread' = [thread EXCEPT ![c][t][n] = NoThread]
  /\ UNCHANGED <<kind, trigger, run, published, claim, reopened>>

\* Mutant: the result is saved whatever became of the run.
SavesAlways(c) == TRUE

\* Only a run that is running is given a result.
Saves(c) == run.status = "running"

\* The run is complete when every task succeeded and the decision snapshot, if
\* one was asked for, has no gap.
Finish(c) ==
  /\ Executing(c)
  /\ \A t \in Tasks : Outcomes(c)[t].status # "none" /\ call[c].active[t] = 0
  /\ \E gap \in BOOLEAN :
       LET status == IF ~gap /\ \A t \in Tasks : Outcomes(c)[t].status = "succeeded"
                       THEN "complete" ELSE "incomplete"
       IN /\ run' = IF Saves(c) THEN [status |-> status, refs |-> Outcomes(c)] ELSE run
          /\ call' = [call EXCEPT ![c] =
               [Waiting EXCEPT !.pc = "finishing", !.lost = call[c].lost, !.status = status]]
  /\ UNCHANGED <<kind, trigger, attempts, published, claim, thread, reopened>>

-----------------------------------------------------------------------------
(* Adapter threads. *)

\* Threads of timed-out attempts keep their place in the pool.
Busy(c) == {tn \in Tasks \X Nos : thread[c][tn[1]][tn[2]].pc = "claimed"}

\* The result is of use to somebody only while the attempt is active.
Return(c, t, n, result, ref) ==
  thread' = [thread EXCEPT ![c][t][n] =
    IF call[c].pc = "executing" /\ call[c].active[t] = n THEN [pc |-> result, ref |-> ref] ELSE NoThread]

\* The logical trigger of the task is claimed in the schedule ledger.  A claim
\* that is complete is answered with its results, if they are still valid; one
\* that somebody has, an owner that moved or a frozen scope is an error.
BeginThread(c, t, n) ==
  LET k == claim[t] IN
  /\ thread[c][t][n].pc = "queued" /\ Cardinality(Busy(c)) < Pool
  /\ \/ /\ k.status = "absent" \/ (k.status = "failed" /\ k.no # n)
        /\ claim' = [claim EXCEPT ![t].status = "running", ![t].no = n]
        /\ thread' = [thread EXCEPT ![c][t][n] = [pc |-> "claimed", ref |-> Older]]
     \/ /\ k.status = "complete" /\ UNCHANGED claim
        /\ \E ref \in k.refs : Return(c, t, n, "ok", ref)
     \/ Return(c, t, n, "error", Older) /\ UNCHANGED claim
  /\ UNCHANGED <<kind, trigger, run, attempts, published, call, reopened>>

\* An attempt that was cancelled, written off or finished may not publish.  The
\* store asks only for envelopes of a task scope with an attempt: here, all.
Fence(t, n) == attempts[t][n].status = "running"

Publish(c, t, n) ==
  /\ thread[c][t][n].pc = "claimed"
  /\ Fence(t, n) /\ published[t] \subseteq {n}
  /\ published' = [published EXCEPT ![t] = published[t] \union {n}]
  /\ claim' = [claim EXCEPT ![t].refs = claim[t].refs \union {n}]
  /\ UNCHANGED <<kind, trigger, run, attempts, call, thread, reopened>>

\* Mutant: the thread does not read back what it published.
ReadsNothingBack(t, n) == TRUE

ReadBack(t, n) == n \in published[t]

\* The adapter is done, and the projection is there.
Succeed(c, t, n) ==
  /\ thread[c][t][n].pc = "claimed" /\ ReadBack(t, n)
  /\ claim' = [claim EXCEPT ![t].status = "complete"]
  /\ Return(c, t, n, "ok", n)
  /\ UNCHANGED <<kind, trigger, run, attempts, published, call, reopened>>

\* A projection of an earlier run is still good: its reference is recorded.
ReuseOlder(c, t, n) ==
  /\ thread[c][t][n].pc = "claimed"
  /\ claim' = [claim EXCEPT ![t].status = "complete", ![t].refs = claim[t].refs \union {Older}]
  /\ Return(c, t, n, "ok", Older)
  /\ UNCHANGED <<kind, trigger, run, attempts, published, call, reopened>>

\* The adapter raises, or returns nothing.  A claim that published stays as it is.
Raise(c, t, n) ==
  /\ thread[c][t][n].pc = "claimed"
  /\ claim' = [claim EXCEPT ![t].status = IF claim[t].refs = {} THEN "failed" ELSE "running"]
  /\ \E r \in {"transient", "error"} : Return(c, t, n, r, Older)
  /\ UNCHANGED <<kind, trigger, run, attempts, published, call, reopened>>

-----------------------------------------------------------------------------
(* The environment. *)

\* The process of a call dies, and its threads with it.
Crash(c) ==
  /\ call[c].pc \notin {"idle", "done"}
  /\ Leave(c)
  /\ thread' = [thread EXCEPT ![c] = [t \in Tasks |-> [n \in Nos |-> NoThread]]]
  /\ UNCHANGED tables

Expire ==
  /\ trigger.leased
  /\ trigger' = [trigger EXCEPT !.leased = FALSE]
  /\ UNCHANGED <<kind, run, attempts, published, claim, call, thread, reopened>>

\* The calendar has a newer version of the event.
SupersedeEvent ==
  /\ kind = "event" /\ trigger.status \in {"planned", "running", "waiting_material"}
  /\ trigger' = IF trigger.status = "running" THEN [trigger EXCEPT !.superseded = TRUE]
                ELSE [trigger EXCEPT !.status = "superseded", !.leased = FALSE]
  /\ UNCHANGED <<kind, run, attempts, published, claim, call, thread, reopened>>

\* An event whose material is not admitted is recorded as waiting; a tick the
\* ledger never saw is recorded as planned or skipped.
RecordUnseen ==
  /\ trigger.status = "absent"
  /\ \E status \in CASE kind = "event" -> {"waiting_material"}
                     [] kind = "schedule" -> {"planned", "skipped"}
                     [] OTHER -> {} :
       trigger' = [trigger EXCEPT !.status = status]
  /\ UNCHANGED <<kind, run, attempts, published, claim, call, thread, reopened>>

\* An operator reopens a trigger that failed.
Compensate ==
  /\ reopened < MaxReopen /\ trigger.status \in {"failed", "incomplete"}
  /\ trigger' = [trigger EXCEPT !.status = "planned", !.owner = NoCall, !.leased = FALSE]
  /\ reopened' = reopened + 1
  /\ UNCHANGED <<kind, run, attempts, published, claim, call, thread>>

-----------------------------------------------------------------------------

LoopStep(c) ==
  \/ \E t \in Tasks :
       Recover(c, t) \/ FindNothing(c, t) \/ WriteOff(c, t) \/ Restore(c, t) \/ CloseRead(c, t)
  \/ \E t \in Tasks : Start(c, t) \/ Block(c, t) \/ Timeout(c, t) \/ Collect(c, t)
  \/ Finish(c)

CallStep(c) ==
  \/ Record(c) \/ SkipLate(c) \/ Claim(c) \/ Bind(c) \/ Renew(c)
  \/ Open(c) \/ Report(c) \/ Fail(c) \/ Crash(c)
  \/ LoopStep(c)

ThreadStep(c) ==
  \E t \in Tasks, n \in Nos :
    BeginThread(c, t, n) \/ Publish(c, t, n) \/ Succeed(c, t, n) \/ ReuseOlder(c, t, n) \/ Raise(c, t, n)

Environment == Expire \/ SupersedeEvent \/ RecordUnseen \/ Compensate

Next == (\E c \in Calls : CallStep(c) \/ ThreadStep(c)) \/ Environment

Spec == Init /\ [][Next]_vars

\* The loop of a Dispatcher runs on; nothing is assumed of the adapters.
FairSpec == Spec /\ \A c \in Calls : WF_vars(LoopStep(c))

-----------------------------------------------------------------------------
(* Properties. *)

OutcomeType == [status : {"none", "succeeded", "failed"}, ref : 0..MaxNo]

TriggerType ==
  [ status : Settled \union {"absent", "planned", "running"}, owner : Calls \union {NoCall},
    leased : BOOLEAN, superseded : BOOLEAN, tried : BOOLEAN ]

AttemptType == [status : {"absent", "running", "succeeded", "ended"}, ref : 0..MaxNo]

ClaimType ==
  [status : {"absent", "running", "failed", "complete"}, no : 0..MaxNo, refs : SUBSET (0..MaxNo)]

ThreadType == [pc : {"off", "queued", "claimed", "ok", "transient", "error"}, ref : 0..MaxNo]

CallType ==
  [ pc : {"idle", "recorded", "claimed", "bound", "executing", "finishing", "done"},
    seen : Settled \union {"none", "planned", "running"}, lost : BOOLEAN, again : BOOLEAN,
    status : {"none", "complete", "incomplete"},
    previous : [Tasks -> [status : {"none", "running", "gone", "succeeded", "ended"}, no : 0..MaxNo]],
    counts : [Tasks -> 0..MaxNo], active : [Tasks -> 0..MaxNo], outcome : [Tasks -> OutcomeType] ]

\* Types of the tables, the calls and the threads.
TypeOK ==
  /\ kind \in Kinds
  /\ trigger \in TriggerType
  /\ run \in [status : {"absent", "planned", "running", "complete", "incomplete"},
              refs : [Tasks -> OutcomeType]]
  /\ attempts \in [Tasks -> [Nos -> AttemptType]]
  /\ published \in [Tasks -> SUBSET Nos]
  /\ claim \in [Tasks -> ClaimType]
  /\ call \in [Calls -> CallType]
  /\ thread \in [Calls -> [Tasks -> [Nos -> ThreadType]]]
  /\ reopened \in 0..MaxReopen

\* Whatever crashed, was late, or was taken over in between: a run that is saved
\* complete cites, for every task, a projection that was published or reused
\* under the claim of that task, and a trigger is never complete without it.
CompleteIsBacked ==
  /\ run.status = "complete" =>
       \A t \in Tasks : run.refs[t].status = "succeeded" /\ run.refs[t].ref \in claim[t].refs
  /\ trigger.status = "complete" => \A t \in Tasks : claim[t].refs # {}

\* A projection is published after those of the tasks it depends on, even when
\* another call made them.
DependenciesFirst ==
  \A t \in Tasks : published[t] # {} => \A d \in Deps[t] : claim[d].refs # {}

\* Work for an event version that was replaced while it ran is never reported as
\* complete, incomplete or failed, and never started again.
SupersededStays == trigger.superseded => trigger.status \in {"running", "superseded"}

\* The first result of a run stands: a worker that is late, or lost its lease,
\* does not replace it.  Only a claim reopens a run, and only an incomplete one.
FirstResultStands ==
  [][run.status \in {"complete", "incomplete"} =>
       \/ run' = run
       \/ run.status = "incomplete" /\ run'.status = "planned"]_vars

\* A dispatch returns although adapters never do, dependencies fail, and timed-out
\* threads fill the pool.
DispatchReturns == \A c \in Calls : call[c].pc = "executing" ~> call[c].pc # "executing"
=============================================================================
