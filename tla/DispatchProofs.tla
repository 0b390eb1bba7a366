--------------------------- MODULE DispatchProofs ---------------------------
(***************************************************************************)
(* Theorems about Dispatch, for every number of calls, tasks and attempts  *)
(* and every dependency graph.                                             *)
(*                                                                         *)
(* Everything that cites a projection (an attempt that succeeded, an       *)
(* outcome in the memory of a call, a result in the hand of a thread, the  *)
(* saved run) cites one the claim of its task refers to, and references    *)
(* are never taken back.  That is the argument: a step has to answer only  *)
(* for what it changes.                                                    *)
(***************************************************************************)
EXTENDS Dispatch, TLAPS

\* The dependencies of a task have been published, or reused.
DepsDone(t) == \A d \in Deps[t] : claim[d].refs # {}

CallOK(c) ==
  /\ call[c].pc = "finishing" => call[c].status # "none"
  /\ call[c].status = "complete" => \A t \in Tasks : claim[t].refs # {}
  /\ \A t \in Tasks :
       /\ call[c].outcome[t].status = "succeeded" => call[c].outcome[t].ref \in claim[t].refs
       /\ call[c].previous[t].status \notin {"none", "ended"} => call[c].previous[t].no \in Nos
       /\ call[c].previous[t].status = "succeeded" =>
            attempts[t][call[c].previous[t].no].status = "succeeded"

AttemptOK(t, n) == attempts[t][n].status = "succeeded" => attempts[t][n].ref \in claim[t].refs

ThreadOK(c, t, n) ==
  /\ thread[c][t][n].pc = "ok" => thread[c][t][n].ref \in claim[t].refs
  /\ thread[c][t][n].pc \in {"queued", "claimed"} => DepsDone(t)

PublishedOK(t) ==
  /\ published[t] \subseteq claim[t].refs
  /\ published[t] # {} => DepsDone(t)

RunOK ==
  run.status = "complete" =>
    \A t \in Tasks : run.refs[t].status = "succeeded" /\ run.refs[t].ref \in claim[t].refs

TriggerOK ==
  /\ trigger.status = "complete" => \A t \in Tasks : claim[t].refs # {}
  /\ trigger.superseded => trigger.status \in {"running", "superseded"} /\ kind = "event"

IInv ==
  /\ TypeOK
  /\ \A c \in Calls : CallOK(c)
  /\ \A t \in Tasks, n \in Nos : AttemptOK(t, n)
  /\ \A c \in Calls, t \in Tasks, n \in Nos : ThreadOK(c, t, n)
  /\ \A t \in Tasks : PublishedOK(t)
  /\ RunOK
  /\ TriggerOK

\* References stay, and so does an attempt that succeeded.
Kept ==
  /\ \A t \in Tasks : claim[t].refs \subseteq claim'[t].refs
  /\ \A t \in Tasks, n \in Nos :
       attempts[t][n].status = "succeeded" => attempts'[t][n] = attempts[t][n]

-----------------------------------------------------------------------------

LEMMA WaitingType == Waiting \in CallType
BY DispatchAssumption
DEF Waiting, CallType, NoPrevious, NoOutcome, OutcomeType, Older, Settled

\* The initial states satisfy the invariant: nothing cites anything.
LEMMA InitInv == Init => IInv
<1> SUFFICES ASSUME Init PROVE IInv
  OBVIOUS
<1>1. call \in [Calls -> CallType] /\ \A c \in Calls : call[c] = Waiting
  BY WaitingType DEF Init
<1>2. TypeOK
  BY <1>1, DispatchAssumption
  DEF Init, TypeOK, TriggerType, Settled, OutcomeType, NoOutcome, Older, AttemptType, ClaimType,
      ThreadType, NoThread, Nos
<1>3. \A c \in Calls : CallOK(c)
  BY <1>1 DEF CallOK, Waiting, NoPrevious, NoOutcome
<1>4. /\ \A t \in Tasks, n \in Nos : AttemptOK(t, n)
      /\ \A c \in Calls, t \in Tasks, n \in Nos : ThreadOK(c, t, n)
      /\ \A t \in Tasks : PublishedOK(t)
      /\ RunOK /\ TriggerOK
  BY DEF Init, AttemptOK, ThreadOK, PublishedOK, RunOK, TriggerOK, NoThread
<1> QED BY <1>2, <1>3, <1>4 DEF IInv

\* A step answers for what it changes.
LEMMA Frame ==
  ASSUME IInv, Kept, TypeOK', kind' = kind,
         \A c \in Calls : call'[c] = call[c] \/ CallOK(c)',
         \A t \in Tasks, n \in Nos : attempts'[t][n] = attempts[t][n] \/ AttemptOK(t, n)',
         \A c \in Calls, t \in Tasks, n \in Nos :
           thread'[c][t][n] = thread[c][t][n] \/ ThreadOK(c, t, n)',
         \A t \in Tasks : published'[t] = published[t] \/ PublishedOK(t)',
         run' = run \/ RunOK',
         trigger' = trigger \/ TriggerOK'
  PROVE  IInv'
<1>1. \A t \in Tasks : claim[t].refs # {} => claim'[t].refs # {}
  BY DEF Kept
<1>2. \A t \in Tasks : DepsDone(t) => DepsDone(t)'
  BY <1>1, DispatchAssumption DEF DepsDone
<1>3. ASSUME NEW c \in Calls PROVE CallOK(c)'
  <2> SUFFICES ASSUME call'[c] = call[c] PROVE CallOK(c)'
    OBVIOUS
  <2> QED BY <1>1 DEF IInv, CallOK, Kept
<1>4. \A t \in Tasks, n \in Nos : AttemptOK(t, n)'
  BY DEF IInv, AttemptOK, Kept
<1>5. \A c \in Calls, t \in Tasks, n \in Nos : ThreadOK(c, t, n)'
  BY <1>2 DEF IInv, ThreadOK, Kept
<1>6. \A t \in Tasks : PublishedOK(t)'
  BY <1>2 DEF IInv, PublishedOK, Kept
<1>7. RunOK'
  BY DEF IInv, RunOK, Kept
<1>8. TriggerOK'
  BY <1>1 DEF IInv, TriggerOK
<1> QED BY <1>3, <1>4, <1>5, <1>6, <1>7, <1>8 DEF IInv

\* Nothing is lost when attempts and claims are not touched.
LEMMA KeptAll == ASSUME UNCHANGED <<attempts, claim>> PROVE Kept
BY DEF Kept

LEMMA LeaveOK ==
  ASSUME IInv, NEW c \in Calls, Leave(c)
  PROVE  /\ call' \in [Calls -> CallType]
         /\ \A d \in Calls : call'[d] = call[d] \/ CallOK(d)'
<1>1. \A r \in CallType : [r EXCEPT !.pc = "done"] \in CallType
  BY DEF CallType
<1>2. [Waiting EXCEPT !.pc = "done"] \in CallType
  BY <1>1, WaitingType
<1>3. \A r \in CallType :
        LET q == [r EXCEPT !.pc = "done"] IN
        /\ q.pc = "done" /\ q.status = r.status /\ q.outcome = r.outcome /\ q.previous = r.previous
  BY DEF CallType
<1>4. /\ Waiting.status = "none"
      /\ \A t \in Tasks : Waiting.outcome[t].status = "none" /\ Waiting.previous[t].status = "none"
  BY DEF Waiting, NoOutcome, NoPrevious
<1> DEFINE q == [Waiting EXCEPT !.pc = "done"]
<1>5. /\ q.pc = "done" /\ q.status = "none"
      /\ \A t \in Tasks : q.outcome[t].status = "none" /\ q.previous[t].status = "none"
  BY <1>3, <1>4, WaitingType
<1>6. call' = [call EXCEPT ![c] = q] /\ call \in [Calls -> CallType]
  BY DEF Leave, IInv, TypeOK
<1> HIDE DEF q
<1>7. call'[c] = q /\ \A d \in Calls \ {c} : call'[d] = call[d]
  BY <1>6
<1>8. CallOK(c)'
  BY <1>5, <1>7 DEF CallOK
<1> QED BY <1>2, <1>6, <1>7, <1>8 DEF q

\* A step of the trigger, of the run or of one call: attempts, projections,
\* claims and threads stay.
LEMMA TriggerMoves ==
  ASSUME IInv, UNCHANGED <<kind, attempts, published, claim, thread>>,
         trigger' \in TriggerType, trigger' = trigger \/ TriggerOK',
         run' \in [status : {"absent", "planned", "running", "complete", "incomplete"},
                   refs : [Tasks -> OutcomeType]],
         run' = run \/ RunOK',
         call' \in [Calls -> CallType], \A d \in Calls : call'[d] = call[d] \/ CallOK(d)',
         reopened' \in 0..MaxReopen
  PROVE  IInv'
<1>1. TypeOK'
  BY DEF IInv, TypeOK
<1> QED BY <1>1, KeptAll, Frame

\* A call that goes on to another place, with its outcomes as they were.
LEMMA CallGoes ==
  ASSUME IInv, NEW c \in Calls, NEW r \in CallType, call' = [call EXCEPT ![c] = r],
         UNCHANGED <<attempts, claim>>,
         r.pc # "finishing" \/ r.pc = call[c].pc,
         r.status = call[c].status, r.outcome = call[c].outcome, r.previous = call[c].previous
  PROVE  /\ call' \in [Calls -> CallType]
         /\ \A d \in Calls : call'[d] = call[d] \/ CallOK(d)'
<1>1. call \in [Calls -> CallType] /\ CallOK(c)
  BY DEF IInv, TypeOK
<1>2. /\ call' \in [Calls -> CallType] /\ call'[c] = r
      /\ \A d \in Calls \ {c} : call'[d] = call[d]
  BY <1>1
<1>3. CallOK(c)'
  BY <1>1, <1>2 DEF CallOK
<1> QED BY <1>2, <1>3

-----------------------------------------------------------------------------
(* TriggerService. *)

\* What is written when a trigger is finished is a status, and superseded wins.
LEMMA FinishTriggerOK ==
  ASSUME IInv, NEW c \in Calls, NEW status \in {"complete", "incomplete", "failed"},
         status = "complete" => \A t \in Tasks : claim[t].refs # {},
         FinishTrigger(c, status), UNCHANGED <<kind, claim>>
  PROVE  trigger' \in TriggerType /\ TriggerOK'
<1>1. trigger \in TriggerType /\ TriggerOK
  BY DEF IInv, TypeOK
<1>2. Final(status) \in {"complete", "incomplete", "failed", "superseded"}
  BY DEF Final
<1>3. trigger' \in TriggerType
  BY <1>1, <1>2 DEF FinishTrigger, TriggerType, Settled
<1>4. CASE Owns(c)
  <2> DEFINE to == Final(status)
  <2>0. trigger' = [trigger EXCEPT !.status = to, !.leased = FALSE]
    BY <1>4 DEF FinishTrigger
  <2> HIDE DEF to
  <2>1. trigger'.status = to /\ trigger'.superseded = trigger.superseded
    BY <1>1, <2>0 DEF TriggerType
  <2>2. CASE trigger.superseded
    <3>1. to = "superseded"
      BY <2>2 DEF to, Final
    <3> QED BY <1>1, <1>3, <2>1, <2>2, <3>1 DEF TriggerOK
  <2>3. CASE ~trigger.superseded
    <3>1. to = status
      BY <2>3 DEF to, Final
    <3> QED BY <1>3, <2>1, <2>3, <3>1 DEF TriggerOK
  <2> QED BY <2>2, <2>3
<1>5. CASE ~Owns(c)
  BY <1>1, <1>5 DEF FinishTrigger, TriggerOK
<1> QED BY <1>3, <1>4, <1>5

LEMMA RecordInv == ASSUME IInv, NEW c \in Calls, Record(c) PROVE IInv'
<1>1. trigger \in TriggerType /\ TriggerOK /\ call \in [Calls -> CallType] /\ CallOK(c)
  BY DEF IInv, TypeOK
<1>2. trigger' \in TriggerType /\ trigger'.status \in Settled \union {"planned", "running"}
  BY <1>1 DEF Record, TriggerType
<1>3. trigger' = trigger \/ TriggerOK'
  BY <1>1 DEF Record, TriggerType, TriggerOK
<1>4. CASE trigger.status \in Settled
  BY <1>2, <1>3, <1>4, LeaveOK, TriggerMoves DEF Record, IInv, TypeOK
<1>5. CASE trigger.status \notin Settled
  <2>1. call' = [call EXCEPT ![c].pc = "recorded", ![c].seen = trigger'.status]
    BY <1>5 DEF Record
  <2> DEFINE r == [call[c] EXCEPT !.pc = "recorded", !.seen = trigger'.status]
  <2>2. call' = [call EXCEPT ![c] = r]
    BY <1>1, <2>1, Zenon
  <2>3. /\ r \in CallType /\ r.pc = "recorded" /\ r.status = call[c].status
        /\ r.outcome = call[c].outcome /\ r.previous = call[c].previous
    <3>1. call[c] \in CallType /\ trigger'.status \in Settled \union {"none", "planned", "running"}
      BY <1>1, <1>2
    <3> QED BY <3>1 DEF CallType
  <2> HIDE DEF r
  <2>4. /\ call' \in [Calls -> CallType]
        /\ \A d \in Calls : call'[d] = call[d] \/ CallOK(d)'
    BY <2>2, <2>3, CallGoes DEF Record
  <2> QED BY <1>2, <1>3, <2>4, TriggerMoves DEF Record, IInv, TypeOK
<1> QED BY <1>4, <1>5

LEMMA SkipLateInv == ASSUME IInv, NEW c \in Calls, SkipLate(c) PROVE IInv'
<1>1. trigger \in TriggerType /\ TriggerOK
  BY DEF IInv, TypeOK
<1>2. trigger' \in TriggerType /\ (trigger' = trigger \/ TriggerOK')
  BY <1>1 DEF SkipLate, TriggerType, TriggerOK, Settled
<1> QED BY <1>2, LeaveOK, TriggerMoves DEF SkipLate, IInv, TypeOK

LEMMA ClaimInv == ASSUME IInv, NEW c \in Calls, Claim(c) PROVE IInv'
<1>1. trigger \in TriggerType /\ TriggerOK /\ call \in [Calls -> CallType] /\ CallOK(c)
  BY DEF IInv, TypeOK
<1>2. CASE Leave(c) /\ trigger' = trigger
  BY <1>1, <1>2, LeaveOK, TriggerMoves DEF Claim, IInv, TypeOK
<1>3. CASE /\ Leave(c)
           /\ trigger' = [trigger EXCEPT !.status = "superseded", !.owner = NoCall]
           /\ ~Taken /\ trigger.superseded
  <2>1. trigger' \in TriggerType /\ TriggerOK'
    BY <1>1, <1>3 DEF Claim, TriggerType, TriggerOK, Settled
  <2> QED BY <1>3, <2>1, LeaveOK, TriggerMoves DEF Claim, IInv, TypeOK
<1>4. CASE /\ ~Taken /\ ~trigger.superseded
           /\ trigger' = [trigger EXCEPT !.status = "running", !.owner = c, !.leased = TRUE, !.tried = TRUE]
           /\ call' = [call EXCEPT ![c].pc = "claimed", ![c].seen = "none", ![c].again = trigger.tried]
  <2>1. trigger' \in TriggerType /\ TriggerOK'
    BY <1>1, <1>4 DEF TriggerType, TriggerOK
  <2>2. trigger.tried \in BOOLEAN
    BY <1>1 DEF TriggerType
  <2> DEFINE r == [call[c] EXCEPT !.pc = "claimed", !.seen = "none", !.again = trigger.tried]
  <2>3. call' = [call EXCEPT ![c] = r]
    BY <1>1, <1>4, Zenon
  <2>4. /\ r \in CallType /\ r.pc = "claimed" /\ r.status = call[c].status
        /\ r.outcome = call[c].outcome /\ r.previous = call[c].previous
    <3>1. call[c] \in CallType
      BY <1>1
    <3> QED BY <2>2, <3>1 DEF CallType
  <2> HIDE DEF r
  <2>5. /\ call' \in [Calls -> CallType]
        /\ \A d \in Calls : call'[d] = call[d] \/ CallOK(d)'
    BY <2>3, <2>4, CallGoes DEF Claim
  <2> QED BY <2>1, <2>5, TriggerMoves DEF Claim, IInv, TypeOK
<1> QED BY <1>2, <1>3, <1>4 DEF Claim

LEMMA BindInv == ASSUME IInv, NEW c \in Calls, Bind(c) PROVE IInv'
<1>1. /\ trigger \in TriggerType /\ call \in [Calls -> CallType] /\ CallOK(c)
      /\ run \in [status : {"absent", "planned", "running", "complete", "incomplete"},
                  refs : [Tasks -> OutcomeType]]
  BY DEF IInv, TypeOK
<1>2. CASE ~Owns(c)
  BY <1>1, <1>2, LeaveOK, TriggerMoves DEF Bind, IInv, TypeOK
<1>3. CASE Owns(c)
  <2>1. call' = [call EXCEPT ![c].pc = "bound", ![c].again = FALSE]
    BY <1>3 DEF Bind
  <2> DEFINE r == [call[c] EXCEPT !.pc = "bound", !.again = FALSE]
  <2>2. call' = [call EXCEPT ![c] = r]
    BY <1>1, <2>1, Zenon
  <2>3. /\ r \in CallType /\ r.pc = "bound" /\ r.status = call[c].status
        /\ r.outcome = call[c].outcome /\ r.previous = call[c].previous
    <3>1. call[c] \in CallType
      BY <1>1
    <3> QED BY <3>1 DEF CallType
  <2> HIDE DEF r
  <2>4. /\ call' \in [Calls -> CallType]
        /\ \A d \in Calls : call'[d] = call[d] \/ CallOK(d)'
    BY <2>2, <2>3, CallGoes DEF Bind
  <2>5. /\ run' \in [status : {"absent", "planned", "running", "complete", "incomplete"},
                     refs : [Tasks -> OutcomeType]]
        /\ run' = run \/ run'.status = "planned"
    BY <1>1, <1>3 DEF Bind
  <2>6. run' = run \/ RunOK'
    BY <2>5 DEF RunOK
  <2> QED BY <1>1, <2>4, <2>5, <2>6, TriggerMoves DEF Bind, IInv, TypeOK
<1> QED BY <1>2, <1>3

LEMMA RenewInv == ASSUME IInv, NEW c \in Calls, Renew(c) PROVE IInv'
<1>1. trigger \in TriggerType /\ TriggerOK /\ call \in [Calls -> CallType] /\ CallOK(c)
  BY DEF IInv, TypeOK
<1>2. CASE trigger' = [trigger EXCEPT !.leased = TRUE] /\ UNCHANGED call
  <2>1. trigger' \in TriggerType /\ TriggerOK'
    BY <1>1, <1>2 DEF Renew, TriggerType, TriggerOK
  <2> QED BY <1>1, <1>2, <2>1, TriggerMoves DEF Renew, IInv, TypeOK
<1>3. CASE call' = [call EXCEPT ![c].lost = TRUE] /\ UNCHANGED trigger
  <2> DEFINE r == [call[c] EXCEPT !.lost = TRUE]
  <2>1. call' = [call EXCEPT ![c] = r]
    BY <1>1, <1>3, Zenon
  <2>2. /\ r \in CallType /\ r.pc = call[c].pc /\ r.status = call[c].status
        /\ r.outcome = call[c].outcome /\ r.previous = call[c].previous
    <3>1. call[c] \in CallType
      BY <1>1
    <3> QED BY <3>1 DEF CallType
  <2> HIDE DEF r
  <2>3. /\ call' \in [Calls -> CallType]
        /\ \A d \in Calls : call'[d] = call[d] \/ CallOK(d)'
    BY <2>1, <2>2, CallGoes DEF Renew
  <2> QED BY <1>1, <1>3, <2>3, TriggerMoves DEF Renew, IInv, TypeOK
<1> QED BY <1>2, <1>3 DEF Renew

LEMMA ReportInv == ASSUME IInv, NEW c \in Calls, Report(c) PROVE IInv'
<1>1. /\ trigger \in TriggerType
      /\ call[c].status \in {"complete", "incomplete"}
      /\ call[c].status = "complete" => \A t \in Tasks : claim[t].refs # {}
  BY DEF IInv, TypeOK, CallType, CallOK, Report
<1>2. trigger' \in TriggerType /\ (trigger' = trigger \/ TriggerOK')
  BY <1>1, FinishTriggerOK DEF Report
<1> QED BY <1>2, LeaveOK, TriggerMoves DEF Report, IInv, TypeOK

\* Threads that end, or never begin, hold nothing.
LEMMA ThreadsEnd ==
  ASSUME IInv, UNCHANGED <<kind, run, attempts, published, claim, reopened>>,
         trigger' \in TriggerType, trigger' = trigger \/ TriggerOK',
         call' \in [Calls -> CallType], \A d \in Calls : call'[d] = call[d] \/ CallOK(d)',
         thread' \in [Calls -> [Tasks -> [Nos -> ThreadType]]],
         \A c \in Calls, t \in Tasks, n \in Nos :
           thread'[c][t][n] \in {thread[c][t][n], NoThread}
  PROVE  IInv'
<1>1. TypeOK'
  BY DEF IInv, TypeOK
<1>2. \A c \in Calls, t \in Tasks, n \in Nos :
        thread'[c][t][n] = thread[c][t][n] \/ ThreadOK(c, t, n)'
  BY DEF ThreadOK, NoThread
<1> QED BY <1>1, <1>2, KeptAll, Frame

LEMMA FailInv == ASSUME IInv, NEW c \in Calls, Fail(c) PROVE IInv'
<1>1. trigger \in TriggerType /\ thread \in [Calls -> [Tasks -> [Nos -> ThreadType]]]
  BY DEF IInv, TypeOK
<1>2. trigger' \in TriggerType /\ (trigger' = trigger \/ TriggerOK')
  BY <1>1, FinishTriggerOK DEF Fail
<1>3. NoThread \in ThreadType
  BY DispatchAssumption DEF NoThread, ThreadType, Older
<1>4. CancelQueued(c) \in [Tasks -> [Nos -> ThreadType]]
  BY <1>1, <1>3 DEF CancelQueued
<1>5. thread' \in [Calls -> [Tasks -> [Nos -> ThreadType]]]
  BY <1>1, <1>4 DEF Fail
<1>6. \A d \in Calls, t \in Tasks, n \in Nos : thread'[d][t][n] \in {thread[d][t][n], NoThread}
  BY <1>1 DEF Fail, CancelQueued
<1> QED BY <1>2, <1>5, <1>6, LeaveOK, ThreadsEnd DEF Fail

LEMMA CrashInv == ASSUME IInv, NEW c \in Calls, Crash(c) PROVE IInv'
<1>1. trigger \in TriggerType /\ thread \in [Calls -> [Tasks -> [Nos -> ThreadType]]]
  BY DEF IInv, TypeOK
<1>2. NoThread \in ThreadType
  BY DispatchAssumption DEF NoThread, ThreadType, Older
<1>3. thread' \in [Calls -> [Tasks -> [Nos -> ThreadType]]]
  BY <1>1, <1>2 DEF Crash
<1>4. \A d \in Calls, t \in Tasks, n \in Nos : thread'[d][t][n] \in {thread[d][t][n], NoThread}
  BY <1>1 DEF Crash
<1> QED BY <1>1, <1>3, <1>4, LeaveOK, ThreadsEnd DEF Crash, tables

\* A later tick, a newer event version, an operator, or time.
LEMMA EnvironmentInv == ASSUME IInv, Environment PROVE IInv'
<1>1. trigger \in TriggerType /\ TriggerOK /\ reopened \in 0..MaxReopen /\ call \in [Calls -> CallType]
  BY DEF IInv, TypeOK
<1>2. CASE Expire
  <2>1. trigger' \in TriggerType /\ TriggerOK'
    BY <1>1, <1>2 DEF Expire, TriggerType, TriggerOK
  <2> QED BY <1>2, <2>1, TriggerMoves DEF Expire, IInv, TypeOK
<1>3. CASE SupersedeEvent
  <2>1. trigger' \in TriggerType /\ TriggerOK'
    BY <1>1, <1>3 DEF SupersedeEvent, TriggerType, TriggerOK, Settled
  <2> QED BY <1>3, <2>1, TriggerMoves DEF SupersedeEvent, IInv, TypeOK
<1>4. CASE RecordUnseen
  <2>1. PICK status \in {"waiting_material", "planned", "skipped"} :
          trigger' = [trigger EXCEPT !.status = status]
    BY <1>4 DEF RecordUnseen
  <2>2. trigger' \in TriggerType /\ TriggerOK'
    BY <1>1, <1>4, <2>1 DEF RecordUnseen, TriggerType, TriggerOK, Settled
  <2> QED BY <1>4, <2>2, TriggerMoves DEF RecordUnseen, IInv, TypeOK
<1>5. CASE Compensate
  <2>1. trigger' \in TriggerType /\ TriggerOK'
    BY <1>1, <1>5 DEF Compensate, TriggerType, TriggerOK
  <2>2. reopened' \in 0..MaxReopen
    BY <1>1, <1>5, DispatchAssumption DEF Compensate
  <2> QED BY <1>5, <2>1, <2>2, TriggerMoves DEF Compensate, IInv, TypeOK
<1> QED BY <1>2, <1>3, <1>4, <1>5 DEF Environment

-----------------------------------------------------------------------------
(* Dispatcher. *)

PreviousType == [status : {"none", "running", "gone", "succeeded", "ended"}, no : 0..MaxNo]

LEMMA OutcomeTypes ==
  /\ NoOutcome \in OutcomeType /\ Failed \in OutcomeType /\ NoPrevious \in PreviousType
  /\ NoOutcome.status = "none" /\ Failed.status = "failed" /\ NoPrevious.status = "none"
  /\ \A ref \in 0..MaxNo :
       Cites(ref) \in OutcomeType /\ Cites(ref).status = "succeeded" /\ Cites(ref).ref = ref
BY DispatchAssumption
DEF NoOutcome, Failed, NoPrevious, Cites, OutcomeType, PreviousType, Older

LEMMA CallSets ==
  ASSUME IInv, NEW c \in Calls, NEW r \in CallType, call' = [call EXCEPT ![c] = r]
  PROVE  /\ call' \in [Calls -> CallType] /\ call'[c] = r
         /\ \A d \in Calls \ {c} : call'[d] = call[d]
BY DEF IInv, TypeOK

\* An attempt row is written: one that succeeded stays as it is, and one that
\* succeeds cites what the claim of its task refers to.
LEMMA AttemptSets ==
  ASSUME IInv, NEW t \in Tasks, NEW n \in Nos, NEW row \in AttemptType, UNCHANGED claim,
         attempts' = [attempts EXCEPT ![t][n] = row],
         attempts[t][n].status = "succeeded" => row = attempts[t][n],
         row.status = "succeeded" => row.ref \in claim[t].refs
  PROVE  /\ attempts' \in [Tasks -> [Nos -> AttemptType]]
         /\ Kept
         /\ \A u \in Tasks, m \in Nos : attempts'[u][m] = attempts[u][m] \/ AttemptOK(u, m)'
<1>1. attempts \in [Tasks -> [Nos -> AttemptType]]
  BY DEF IInv, TypeOK
<1>2. /\ attempts' \in [Tasks -> [Nos -> AttemptType]] /\ attempts'[t][n] = row
      /\ \A u \in Tasks, m \in Nos : attempts'[u][m] = attempts[u][m] \/ (u = t /\ m = n)
  BY <1>1
<1>3. Kept
  BY <1>2 DEF Kept
<1>4. \A u \in Tasks, m \in Nos : attempts'[u][m] = attempts[u][m] \/ AttemptOK(u, m)'
  BY <1>2 DEF AttemptOK
<1> QED BY <1>2, <1>3, <1>4

LEMMA FinishedRow ==
  ASSUME NEW row \in AttemptType, NEW status \in {"succeeded", "ended"}, NEW ref \in 0..MaxNo
  PROVE  /\ Finished(row, status, ref) \in AttemptType
         /\ row.status = "succeeded" => Finished(row, status, ref) = row
         /\ Finished(row, status, ref).status = "succeeded" =>
              Finished(row, status, ref) = row \/ (status = "succeeded" /\ Finished(row, status, ref).ref = ref)
BY DEF Finished, AttemptType

LEMMA EndedRow ==
  ASSUME NEW row \in AttemptType
  PROVE  /\ Ended(row) \in AttemptType
         /\ row.status = "succeeded" => Ended(row) = row
         /\ Ended(row).status = "succeeded" => Ended(row) = row
BY FinishedRow, DispatchAssumption DEF Ended, Older

\* An attempt loses its authority.
LEMMA AttemptEnds ==
  ASSUME IInv, NEW t \in Tasks, NEW n \in Nos, UNCHANGED claim,
         attempts' = [attempts EXCEPT ![t][n] = Ended(attempts[t][n])]
  PROVE  /\ attempts' \in [Tasks -> [Nos -> AttemptType]]
         /\ Kept
         /\ \A u \in Tasks, m \in Nos : attempts'[u][m] = attempts[u][m] \/ AttemptOK(u, m)'
<1>1. attempts[t][n] \in AttemptType /\ AttemptOK(t, n)
  BY DEF IInv, TypeOK
<1> DEFINE row == Ended(attempts[t][n])
<1>2. /\ row \in AttemptType
      /\ attempts[t][n].status = "succeeded" => row = attempts[t][n]
      /\ row.status = "succeeded" => row = attempts[t][n]
  BY <1>1, EndedRow
<1> HIDE DEF row
<1>3. row.status = "succeeded" => row.ref \in claim[t].refs
  BY <1>1, <1>2 DEF AttemptOK
<1>4. attempts' = [attempts EXCEPT ![t][n] = row]
  BY DEF row
<1> QED BY <1>2, <1>3, <1>4, AttemptSets

\* A thread is given something to do, or a result, or is forgotten.
LEMMA ThreadSets ==
  ASSUME IInv, NEW c \in Calls, NEW t \in Tasks, NEW n \in Nos, NEW th \in ThreadType,
         thread' = [thread EXCEPT ![c][t][n] = th],
         th.pc = "ok" => th.ref \in claim'[t].refs,
         th.pc \in {"queued", "claimed"} => DepsDone(t)'
  PROVE  /\ thread' \in [Calls -> [Tasks -> [Nos -> ThreadType]]]
         /\ \A d \in Calls, u \in Tasks, m \in Nos :
              thread'[d][u][m] = thread[d][u][m] \/ ThreadOK(d, u, m)'
<1>1. thread \in [Calls -> [Tasks -> [Nos -> ThreadType]]]
  BY DEF IInv, TypeOK
<1> DEFINE row == [thread[c][t] EXCEPT ![n] = th]
           rows == [thread[c] EXCEPT ![t] = row]
<1>2. row \in [Nos -> ThreadType] /\ row[n] = th /\ \A m \in Nos \ {n} : row[m] = thread[c][t][m]
  BY <1>1
<1>3. thread' = [thread EXCEPT ![c] = rows]
  BY Zenon
<1> HIDE DEF row
<1>4. rows \in [Tasks -> [Nos -> ThreadType]] /\ rows[t] = row /\ \A u \in Tasks \ {t} : rows[u] = thread[c][u]
  BY <1>1, <1>2
<1> HIDE DEF rows
<1>5. /\ thread' \in [Calls -> [Tasks -> [Nos -> ThreadType]]] /\ thread'[c] = rows
      /\ \A d \in Calls \ {c} : thread'[d] = thread[d]
  BY <1>1, <1>3, <1>4
<1>6. thread'[c][t][n] = th
  BY <1>2, <1>4, <1>5
<1>7. \A d \in Calls, u \in Tasks, m \in Nos :
        thread'[d][u][m] = thread[d][u][m] \/ (d = c /\ u = t /\ m = n)
  BY <1>2, <1>4, <1>5
<1>8. ThreadOK(c, t, n)'
  BY <1>6 DEF ThreadOK
<1> QED BY <1>5, <1>7, <1>8

LEMMA NoThreadType == NoThread \in ThreadType /\ NoThread.pc = "off"
BY DispatchAssumption DEF NoThread, ThreadType, Older

LEMMA OpenInv == ASSUME IInv, NEW c \in Calls, Open(c) PROVE IInv'
<1>1. /\ call[c] \in CallType /\ CallOK(c) /\ call \in [Calls -> CallType]
      /\ run \in [status : {"absent", "planned", "running", "complete", "incomplete"},
                  refs : [Tasks -> OutcomeType]]
      /\ trigger \in TriggerType /\ attempts \in [Tasks -> [Nos -> AttemptType]]
  BY DEF IInv, TypeOK
<1>2. CASE run.status \in {"complete", "incomplete"}
  <2> DEFINE r == [call[c] EXCEPT !.pc = "finishing", !.status = run.status]
  <2>1. call' = [call EXCEPT ![c] = r]
    <3>1. call' = [call EXCEPT ![c].pc = "finishing", ![c].status = run.status]
      BY <1>2 DEF Open
    <3> QED BY <1>1, <3>1, Zenon
  <2>2. /\ r \in CallType /\ r.status = run.status
        /\ r.outcome = call[c].outcome /\ r.previous = call[c].previous
    BY <1>1, <1>2 DEF CallType
  <2> HIDE DEF r
  <2>3. run.status = "complete" => \A t \in Tasks : claim[t].refs # {}
    BY DEF IInv, RunOK
  <2>4. CallOK(c)'
    <3>1. call'[c] = r
      BY <2>1, <2>2, CallSets
    <3> QED BY <1>1, <1>2, <2>2, <2>3, <3>1 DEF CallOK, Open
  <2> QED BY <1>1, <1>2, <2>1, <2>2, <2>4, CallSets, TriggerMoves DEF Open, IInv, TypeOK
<1>3. CASE run.status \notin {"complete", "incomplete"}
  <2>1. PICK latest \in [Tasks -> 0..MaxNo] :
          /\ \A t \in Tasks : IsLatest(t, latest[t])
          /\ call' = [call EXCEPT ![c].pc = "executing",
                                  ![c].previous = [t \in Tasks |-> Remembered(t, latest[t])],
                                  ![c].counts = latest]
    BY <1>3 DEF Open
  <2> DEFINE p == [t \in Tasks |-> Remembered(t, latest[t])]
             r == [call[c] EXCEPT !.pc = "executing", !.previous = p, !.counts = latest]
  <2>2. \A t \in Tasks :
          /\ p[t] \in PreviousType
          /\ p[t].status \notin {"none", "ended"} => p[t].no \in Nos
          /\ p[t].status = "succeeded" => attempts[t][p[t].no].status = "succeeded"
    <3> SUFFICES ASSUME NEW t \in Tasks
                 PROVE  /\ Remembered(t, latest[t]) \in PreviousType
                        /\ Remembered(t, latest[t]).status \notin {"none", "ended"} => Remembered(t, latest[t]).no \in Nos
                        /\ Remembered(t, latest[t]).status = "succeeded" =>
                             attempts[t][Remembered(t, latest[t]).no].status = "succeeded"
      OBVIOUS
    <3>1. CASE latest[t] = 0
      BY <2>1, <3>1 DEF Remembered, PreviousType
    <3>2. CASE latest[t] # 0
      <4>1. latest[t] \in Nos /\ latest[t] \in 0..MaxNo /\ attempts[t][latest[t]].status # "absent"
        BY <2>1, <3>2 DEF IsLatest, Started
      <4>2. attempts[t][latest[t]].status \in {"running", "succeeded", "ended"}
        BY <1>1, <4>1 DEF AttemptType
      <4> QED BY <3>2, <4>1, <4>2 DEF Remembered, PreviousType
    <3> QED BY <3>1, <3>2
  <2>3. call' = [call EXCEPT ![c] = r]
    BY <1>1, <2>1, Zenon
  <2>4. p \in [Tasks -> PreviousType]
    BY <2>2
  <2> HIDE DEF p
  <2>5. /\ r \in CallType /\ r.pc = "executing" /\ r.status = call[c].status
        /\ r.outcome = call[c].outcome /\ r.previous = p
    BY <1>1, <2>4 DEF CallType, PreviousType
  <2> HIDE DEF r
  <2>6. CallOK(c)'
    <3>1. call'[c] = r
      BY <2>3, <2>5, CallSets
    <3> QED BY <1>1, <2>2, <2>5, <3>1 DEF CallOK, Open
  <2>7. /\ run' \in [status : {"absent", "planned", "running", "complete", "incomplete"},
                     refs : [Tasks -> OutcomeType]]
        /\ run'.status = "running"
    <3>1. [t \in Tasks |-> NoOutcome] \in [Tasks -> OutcomeType]
      BY OutcomeTypes
    <3> QED BY <1>1, <1>3, <3>1 DEF Open
  <2> QED BY <1>1, <2>3, <2>5, <2>6, <2>7, CallSets, TriggerMoves DEF Open, IInv, TypeOK, RunOK
<1> QED BY <1>2, <1>3

\* An attempt that ends without having run takes no success back.
LEMMA UnrunEnds ==
  ASSUME IInv, NEW t \in Tasks, NEW n \in Nos, EndUnrun(t, n), UNCHANGED claim
  PROVE  /\ attempts' \in [Tasks -> [Nos -> AttemptType]] /\ Kept
         /\ \A u \in Tasks, m \in Nos : attempts'[u][m] = attempts[u][m] \/ AttemptOK(u, m)'
<1>1. CASE attempts[t][n].status = "absent"
  <2> DEFINE row == [status |-> "ended", ref |-> Older]
  <2>1. row \in AttemptType /\ row.status = "ended"
    BY DispatchAssumption DEF AttemptType, Older
  <2>2. attempts' = [attempts EXCEPT ![t][n] = row]
    BY <1>1 DEF EndUnrun
  <2> HIDE DEF row
  <2>3. /\ attempts[t][n].status = "succeeded" => row = attempts[t][n]
        /\ row.status = "succeeded" => row.ref \in claim[t].refs
    BY <1>1, <2>1
  <2> QED BY <2>1, <2>2, <2>3, AttemptSets
<1>2. CASE attempts[t][n].status # "absent"
  <2>1. attempts' = [attempts EXCEPT ![t][n] = Ended(attempts[t][n])]
    BY <1>2 DEF EndUnrun
  <2> QED BY <2>1, AttemptEnds
<1> QED BY <1>1, <1>2

\* A call restores a task: it remembers less of earlier attempts, and an outcome
\* it takes over cites what the claim refers to.
LEMMA Restores ==
  ASSUME IInv, NEW c \in Calls, NEW t \in Tasks, NEW p \in PreviousType, NEW o \in OutcomeType,
         call[c].pc = "executing",
         call' = [call EXCEPT ![c] = [call[c] EXCEPT !.previous[t] = p, !.outcome[t] = o]],
         p.status \notin {"none", "ended"} => p.no \in Nos, p.status # "succeeded",
         o.status = "succeeded" => o.ref \in claim[t].refs,
         UNCHANGED claim, Kept
  PROVE  /\ call' \in [Calls -> CallType]
         /\ \A d \in Calls : call'[d] = call[d] \/ CallOK(d)'
<1>1. call[c] \in CallType /\ CallOK(c)
  BY DEF IInv, TypeOK
<1> DEFINE r == [call[c] EXCEPT !.previous[t] = p, !.outcome[t] = o]
<1>2. /\ r \in CallType /\ r.pc = call[c].pc /\ r.status = call[c].status
      /\ r.previous = [call[c].previous EXCEPT ![t] = p]
      /\ r.outcome = [call[c].outcome EXCEPT ![t] = o]
  BY <1>1 DEF CallType, PreviousType
<1>3. call[c].previous \in [Tasks -> PreviousType] /\ call[c].outcome \in [Tasks -> OutcomeType]
  BY <1>1 DEF CallType, PreviousType
<1>4. /\ r.previous[t] = p /\ r.outcome[t] = o
      /\ \A u \in Tasks \ {t} : r.previous[u] = call[c].previous[u] /\ r.outcome[u] = call[c].outcome[u]
  BY <1>2, <1>3
<1>5. call' = [call EXCEPT ![c] = r]
  OBVIOUS
<1> HIDE DEF r
<1>6. call' \in [Calls -> CallType] /\ call'[c] = r /\ \A d \in Calls \ {c} : call'[d] = call[d]
  BY <1>2, <1>5, CallSets
<1>7. \A u \in Tasks :
        /\ r.outcome[u].status = "succeeded" => r.outcome[u].ref \in claim[u].refs
        /\ r.previous[u].status \notin {"none", "ended"} => r.previous[u].no \in Nos
        /\ r.previous[u].status = "succeeded" =>
             attempts'[u][r.previous[u].no].status = "succeeded"
  BY <1>1, <1>4 DEF CallOK, Kept
<1>8. CallOK(c)'
  BY <1>1, <1>2, <1>6, <1>7 DEF CallOK
<1> QED BY <1>6, <1>8

LEMMA RestoreInv ==
  ASSUME IInv, NEW c \in Calls, NEW t \in Tasks,
         Recover(c, t) \/ FindNothing(c, t) \/ WriteOff(c, t) \/ Restore(c, t) \/ CloseRead(c, t)
  PROVE  IInv'
<1> DEFINE p == call[c].previous[t]
           o == call[c].outcome[t]
<1>1. /\ call \in [Calls -> CallType] /\ call[c] \in CallType /\ CallOK(c)
      /\ attempts \in [Tasks -> [Nos -> AttemptType]] /\ published[t] \subseteq Nos /\ PublishedOK(t)
  BY DEF IInv, TypeOK
<1>2. p \in PreviousType /\ o \in OutcomeType /\ (o.status = "succeeded" => o.ref \in claim[t].refs)
  BY <1>1 DEF CallType, PreviousType, CallOK
<1>3. call[c].pc = "executing" /\ UNCHANGED <<kind, trigger, run, published, claim, thread, reopened>>
  BY DEF Recover, FindNothing, WriteOff, Restore, CloseRead, tables
<1>4. ASSUME NEW q \in PreviousType, NEW v \in OutcomeType,
             call' = [call EXCEPT ![c].previous[t] = q, ![c].outcome[t] = v],
             q.status \notin {"none", "ended"} => q.no \in Nos, q.status # "succeeded",
             v.status = "succeeded" => v.ref \in claim[t].refs,
             attempts' \in [Tasks -> [Nos -> AttemptType]], Kept,
             \A u \in Tasks, m \in Nos : attempts'[u][m] = attempts[u][m] \/ AttemptOK(u, m)'
      PROVE  IInv'
  <2>1. call' = [call EXCEPT ![c] = [call[c] EXCEPT !.previous[t] = q, !.outcome[t] = v]]
    BY <1>1, <1>4, Zenon
  <2>2. call' \in [Calls -> CallType] /\ \A d \in Calls : call'[d] = call[d] \/ CallOK(d)'
    BY <1>3, <1>4, <2>1, Restores
  <2>3. TypeOK'
    BY <1>3, <1>4, <2>2 DEF IInv, TypeOK
  <2> QED BY <1>3, <1>4, <2>2, <2>3, Frame
<1>5. ASSUME NEW q \in PreviousType, call' = [call EXCEPT ![c].previous[t] = q]
      PROVE  call' = [call EXCEPT ![c].previous[t] = q, ![c].outcome[t] = o]
  <2>1. call[c] = [call[c] EXCEPT !.outcome[t] = o]
    <3>1. call[c].outcome = [call[c].outcome EXCEPT ![t] = o]
      <4>1. call[c].outcome \in [Tasks -> OutcomeType]
        BY <1>1 DEF CallType
      <4> QED BY <4>1
    <3> HIDE DEF o
    <3> QED BY <1>1, <3>1 DEF CallType
  <2> HIDE DEF o
  <2> QED BY <1>1, <1>5, <2>1
<1>6. UNCHANGED attempts =>
        /\ attempts' \in [Tasks -> [Nos -> AttemptType]] /\ Kept
        /\ \A u \in Tasks, m \in Nos : attempts'[u][m] = attempts[u][m] \/ AttemptOK(u, m)'
  BY <1>1, <1>3, KeptAll
<1>7. CASE Recover(c, t)
  <2> DEFINE row == Finished(attempts[t][p.no], "succeeded", p.no)
  <2>1. p.no \in Nos /\ p.no \in 0..MaxNo /\ p.no \in claim[t].refs
    BY <1>1, <1>2, <1>7 DEF Recover, PublishedOK, PreviousType
  <2>2. attempts[t][p.no] \in AttemptType /\ AttemptOK(t, p.no)
    BY <1>1, <2>1 DEF IInv
  <2>3. /\ row \in AttemptType
        /\ attempts[t][p.no].status = "succeeded" => row = attempts[t][p.no]
        /\ row.status = "succeeded" => row = attempts[t][p.no] \/ row.ref = p.no
    BY <2>1, <2>2, FinishedRow
  <2>4. row.status = "succeeded" => row.ref \in claim[t].refs
    BY <2>1, <2>2, <2>3 DEF AttemptOK
  <2>5. attempts' = [attempts EXCEPT ![t][p.no] = row]
    BY <1>7 DEF Recover
  <2> HIDE DEF row
  <2>6. /\ attempts' \in [Tasks -> [Nos -> AttemptType]] /\ Kept
        /\ \A u \in Tasks, m \in Nos : attempts'[u][m] = attempts[u][m] \/ AttemptOK(u, m)'
    BY <1>3, <2>1, <2>3, <2>4, <2>5, AttemptSets
  <2>7. call' = [call EXCEPT ![c].previous[t] = NoPrevious, ![c].outcome[t] = Cites(p.no)]
    BY <1>7 DEF Recover
  <2> QED BY <1>4, <2>1, <2>6, <2>7, OutcomeTypes
<1>8. CASE FindNothing(c, t)
  <2> DEFINE gone == [status |-> "gone", no |-> p.no]
  <2>1. gone \in PreviousType /\ gone.status = "gone" /\ gone.no \in Nos
    BY <1>1, <1>2, <1>8 DEF FindNothing, PreviousType, CallOK
  <2>2. call' = [call EXCEPT ![c].previous[t] = gone] /\ UNCHANGED attempts
    BY <1>8 DEF FindNothing, tables
  <2> HIDE DEF gone
  <2> QED BY <1>2, <1>4, <1>5, <1>6, <2>1, <2>2
<1>9. CASE WriteOff(c, t)
  <2>1. p.no \in Nos
    BY <1>1, <1>9 DEF WriteOff, CallOK
  <2>2. /\ attempts' \in [Tasks -> [Nos -> AttemptType]] /\ Kept
        /\ \A u \in Tasks, m \in Nos : attempts'[u][m] = attempts[u][m] \/ AttemptOK(u, m)'
    BY <1>3, <1>9, <2>1, AttemptEnds DEF WriteOff
  <2>3. call' = [call EXCEPT ![c].previous[t] = NoPrevious]
    BY <1>9 DEF WriteOff
  <2> QED BY <1>2, <1>4, <1>5, <2>2, <2>3, OutcomeTypes
<1>10. CASE Restore(c, t)
  <2>1. /\ UNCHANGED attempts
        /\ \E valid \in {v \in BOOLEAN : v => p.status = "succeeded"} :
             call' = [call EXCEPT ![c].previous[t] = NoPrevious,
                                  ![c].outcome[t] = IF valid THEN Cites(attempts[t][p.no].ref) ELSE NoOutcome]
    BY <1>10 DEF Restore, tables
  <2>2. CASE /\ p.status = "succeeded"
             /\ call' = [call EXCEPT ![c].previous[t] = NoPrevious,
                                     ![c].outcome[t] = Cites(attempts[t][p.no].ref)]
    <3>1. p.no \in Nos /\ attempts[t][p.no].status = "succeeded"
      BY <1>1, <2>2 DEF CallOK
    <3>2. attempts[t][p.no].ref \in 0..MaxNo /\ attempts[t][p.no].ref \in claim[t].refs
      BY <1>1, <3>1 DEF IInv, AttemptOK, AttemptType
    <3> DEFINE cited == Cites(attempts[t][p.no].ref)
    <3>3. cited \in OutcomeType /\ cited.ref \in claim[t].refs
      BY <3>2, OutcomeTypes
    <3>4. call' = [call EXCEPT ![c].previous[t] = NoPrevious, ![c].outcome[t] = cited]
      BY <2>2
    <3> HIDE DEF cited
    <3> QED BY <1>4, <1>6, <2>1, <3>3, <3>4, OutcomeTypes
  <2>3. CASE call' = [call EXCEPT ![c].previous[t] = NoPrevious, ![c].outcome[t] = NoOutcome]
    BY <1>4, <1>6, <2>1, <2>3, OutcomeTypes
  <2> QED BY <2>1, <2>2, <2>3
<1>11. CASE CloseRead(c, t)
  <2>1. /\ attempts' \in [Tasks -> [Nos -> AttemptType]] /\ Kept
        /\ \A u \in Tasks, m \in Nos : attempts'[u][m] = attempts[u][m] \/ AttemptOK(u, m)'
    BY <1>3, <1>11, UnrunEnds DEF CloseRead
  <2>2. call' = [call EXCEPT ![c].previous[t] = NoPrevious, ![c].outcome[t] = Failed]
    BY <1>11 DEF CloseRead
  <2> QED BY <1>4, <2>1, <2>2, OutcomeTypes
<1> QED BY <1>7, <1>8, <1>9, <1>10, <1>11

\* What a step of a task in a call does to the tables and the threads.
RowsOK ==
  /\ UNCHANGED <<kind, trigger, run, published, claim, reopened>>
  /\ attempts' \in [Tasks -> [Nos -> AttemptType]]
  /\ Kept
  /\ \A u \in Tasks, m \in Nos : attempts'[u][m] = attempts[u][m] \/ AttemptOK(u, m)'
  /\ thread' \in [Calls -> [Tasks -> [Nos -> ThreadType]]]
  /\ \A d \in Calls, u \in Tasks, m \in Nos :
       thread'[d][u][m] = thread[d][u][m] \/ ThreadOK(d, u, m)'

\* The call as it is after that step: only the task has another outcome.
OneTask(c, t, r) ==
  /\ call' = [call EXCEPT ![c] = r] /\ call[c].pc = "executing"
  /\ r.pc = call[c].pc /\ r.status = call[c].status /\ r.previous = call[c].previous
  /\ \A u \in Tasks \ {t} : r.outcome[u] = call[c].outcome[u]
  /\ r.outcome[t].status = "succeeded" => r.outcome[t].ref \in claim[t].refs

\* A call puts a task to work, or takes it back with an outcome.
LEMMA Works ==
  ASSUME IInv, NEW c \in Calls, NEW t \in Tasks, NEW r \in CallType, OneTask(c, t, r), RowsOK
  PROVE  IInv'
<1> USE DEF OneTask, RowsOK
<1>1. CallOK(c)
  BY DEF IInv
<1>2. call' \in [Calls -> CallType] /\ call'[c] = r /\ \A d \in Calls \ {c} : call'[d] = call[d]
  BY CallSets
<1>3. \A u \in Tasks :
        /\ r.outcome[u].status = "succeeded" => r.outcome[u].ref \in claim[u].refs
        /\ r.previous[u].status \notin {"none", "ended"} => r.previous[u].no \in Nos
        /\ r.previous[u].status = "succeeded" =>
             attempts'[u][r.previous[u].no].status = "succeeded"
  <2> SUFFICES ASSUME NEW u \in Tasks
               PROVE  /\ r.outcome[u].status = "succeeded" => r.outcome[u].ref \in claim[u].refs
                      /\ r.previous[u].status \notin {"none", "ended"} => r.previous[u].no \in Nos
                      /\ r.previous[u].status = "succeeded" =>
                           attempts'[u][r.previous[u].no].status = "succeeded"
    OBVIOUS
  <2>1. r.outcome[u].status = "succeeded" => r.outcome[u].ref \in claim[u].refs
    <3>1. CASE u = t
      BY <3>1
    <3>2. CASE u # t
      <4>1. r.outcome[u] = call[c].outcome[u]
        BY <3>2
      <4> QED BY <1>1, <4>1 DEF CallOK
    <3> QED BY <3>1, <3>2
  <2>2. /\ r.previous[u].status \notin {"none", "ended"} => r.previous[u].no \in Nos
        /\ r.previous[u].status = "succeeded" =>
             attempts'[u][r.previous[u].no].status = "succeeded"
    <3>1. /\ call[c].previous[u].status \notin {"none", "ended"} => call[c].previous[u].no \in Nos
          /\ call[c].previous[u].status = "succeeded" =>
               attempts'[u][call[c].previous[u].no].status = "succeeded"
      BY <1>1 DEF CallOK, Kept
    <3>2. r.previous[u] = call[c].previous[u]
      OBVIOUS
    <3> QED BY <3>1, <3>2
  <2> QED BY <2>1, <2>2
<1>4. CallOK(c)'
  <2>1. UNCHANGED claim /\ r.pc = "executing"
    OBVIOUS
  <2>2. r.status = "complete" => \A u \in Tasks : claim[u].refs # {}
    BY <1>1 DEF CallOK
  <2>3. call'[c] = r
    BY <1>2
  <2>4. call'[c].pc # "finishing"
    BY <2>1, <2>3
  <2> QED BY <1>3, <2>1, <2>2, <2>3, <2>4 DEF CallOK
<1>5. TypeOK'
  BY <1>2 DEF IInv, TypeOK
<1> QED BY <1>2, <1>4, <1>5, Frame

LEMMA StartInv == ASSUME IInv, NEW c \in Calls, NEW t \in Tasks, Start(c, t) PROVE IInv'
<1> DEFINE n == call[c].counts[t] + 1
           r == [call[c] EXCEPT !.counts[t] = n, !.active[t] = n]
<1>1. /\ call[c] \in CallType /\ call \in [Calls -> CallType] /\ CallOK(c)
      /\ attempts \in [Tasks -> [Nos -> AttemptType]]
  BY DEF IInv, TypeOK
<1>2. /\ n \in Nos /\ call[c].pc = "executing"
      /\ UNCHANGED <<kind, trigger, run, published, claim, reopened>>
      /\ \A d \in Deps[t] : call[c].outcome[d].status = "succeeded"
  BY DEF Start, Due, Executing, Ready, Outcomes
<1>3. n \in 0..MaxNo
  BY <1>2, DispatchAssumption DEF Nos
<1>4. call' = [call EXCEPT ![c] = r]
  <2>1. call' = [call EXCEPT ![c].counts[t] = n, ![c].active[t] = n]
    BY DEF Start
  <2> HIDE DEF n
  <2> QED BY <1>1, <2>1, Zenon
<1>5. attempts' = IF attempts[t][n].status = "absent"
                    THEN [attempts EXCEPT ![t][n] = [status |-> "running", ref |-> Older]] ELSE attempts
  BY DEF Start
<1>6. thread' = [thread EXCEPT ![c][t][n] = [pc |-> "queued", ref |-> Older]]
  BY DEF Start
<1> HIDE DEF n
<1>7. /\ r \in CallType /\ r.pc = call[c].pc /\ r.status = call[c].status
      /\ r.previous = call[c].previous /\ r.outcome = call[c].outcome
  BY <1>1, <1>3 DEF CallType
<1> HIDE DEF r
<1>8. DepsDone(t)'
  BY <1>1, <1>2, DispatchAssumption DEF DepsDone, CallOK
<1>9. /\ attempts' \in [Tasks -> [Nos -> AttemptType]] /\ Kept
      /\ \A u \in Tasks, m \in Nos : attempts'[u][m] = attempts[u][m] \/ AttemptOK(u, m)'
  <2>1. CASE attempts[t][n].status = "absent"
    <3> DEFINE row == [status |-> "running", ref |-> Older]
    <3>1. row \in AttemptType /\ row.status = "running"
      BY DispatchAssumption DEF AttemptType, Older
    <3>2. attempts' = [attempts EXCEPT ![t][n] = row]
      BY <1>5, <2>1
    <3> HIDE DEF row
    <3> QED BY <1>2, <2>1, <3>1, <3>2, AttemptSets
  <2>2. CASE attempts[t][n].status # "absent"
    BY <1>1, <1>2, <1>5, <2>2, KeptAll
  <2> QED BY <2>1, <2>2
<1>10. /\ thread' \in [Calls -> [Tasks -> [Nos -> ThreadType]]]
       /\ \A d \in Calls, u \in Tasks, m \in Nos :
            thread'[d][u][m] = thread[d][u][m] \/ ThreadOK(d, u, m)'
  <2> DEFINE th == [pc |-> "queued", ref |-> Older]
  <2>1. th \in ThreadType /\ th.pc = "queued"
    BY DispatchAssumption DEF ThreadType, Older
  <2>2. thread' = [thread EXCEPT ![c][t][n] = th]
    BY <1>6
  <2> HIDE DEF th
  <2> QED BY <1>2, <1>8, <2>1, <2>2, ThreadSets
<1>11. r.outcome[t].status = "succeeded" => r.outcome[t].ref \in claim[t].refs
  BY <1>1, <1>7 DEF CallOK
<1> QED BY <1>2, <1>4, <1>7, <1>9, <1>10, <1>11, Works DEF OneTask, RowsOK

\* A task of a call comes to an outcome, or is to be tried again.
LEMMA OutcomeRow ==
  ASSUME IInv, NEW c \in Calls, NEW t \in Tasks, NEW o \in OutcomeType,
         \/ call' = [call EXCEPT ![c].outcome[t] = o]
         \/ call' = [call EXCEPT ![c].active[t] = 0, ![c].outcome[t] = o]
  PROVE  \E r \in CallType :
           /\ call' = [call EXCEPT ![c] = r]
           /\ r.pc = call[c].pc /\ r.status = call[c].status /\ r.previous = call[c].previous
           /\ r.outcome[t] = o
           /\ \A u \in Tasks \ {t} : r.outcome[u] = call[c].outcome[u]
<1>1. call[c] \in CallType /\ call \in [Calls -> CallType]
  BY DEF IInv, TypeOK
<1>2. call[c].outcome \in [Tasks -> OutcomeType] /\ 0 \in 0..MaxNo
  BY <1>1, DispatchAssumption DEF CallType
<1> DEFINE v == [call[c].outcome EXCEPT ![t] = o]
           w == [call[c].active EXCEPT ![t] = 0]
<1>3. v \in [Tasks -> OutcomeType] /\ v[t] = o /\ \A u \in Tasks \ {t} : v[u] = call[c].outcome[u]
  BY <1>2
<1>4. w \in [Tasks -> 0..MaxNo]
  <2>1. call[c].active \in [Tasks -> 0..MaxNo]
    BY <1>1 DEF CallType
  <2> QED BY <1>2, <2>1
<1>5. CASE call' = [call EXCEPT ![c].outcome[t] = o]
  <2> DEFINE r == [call[c] EXCEPT !.outcome = v]
  <2>1. call' = [call EXCEPT ![c] = r]
    BY <1>1, <1>5, Zenon
  <2> HIDE DEF v
  <2>2. /\ r \in CallType /\ r.pc = call[c].pc /\ r.status = call[c].status
        /\ r.previous = call[c].previous /\ r.outcome = v
    BY <1>1, <1>3 DEF CallType
  <2> HIDE DEF r
  <2> QED BY <1>3, <2>1, <2>2
<1>6. CASE call' = [call EXCEPT ![c].active[t] = 0, ![c].outcome[t] = o]
  <2> DEFINE r == [call[c] EXCEPT !.active = w, !.outcome = v]
  <2>1. call' = [call EXCEPT ![c] = r]
    <3>1. call' = [call EXCEPT ![c] = [call[c] EXCEPT !.active[t] = 0, !.outcome[t] = o]]
      BY <1>1, <1>6, Zenon
    <3>2. [call[c] EXCEPT !.active[t] = 0, !.outcome[t] = o] = r
      BY <1>1 DEF CallType
    <3> QED BY <3>1, <3>2
  <2> HIDE DEF v, w
  <2>2. /\ r \in CallType /\ r.pc = call[c].pc /\ r.status = call[c].status
        /\ r.previous = call[c].previous /\ r.outcome = v
    BY <1>1, <1>3, <1>4 DEF CallType
  <2> HIDE DEF r
  <2> QED BY <1>3, <2>1, <2>2
<1> QED BY <1>5, <1>6

LEMMA Outcome ==
  ASSUME IInv, NEW c \in Calls, NEW t \in Tasks, NEW o \in OutcomeType, call[c].pc = "executing",
         \/ call' = [call EXCEPT ![c].outcome[t] = o]
         \/ call' = [call EXCEPT ![c].active[t] = 0, ![c].outcome[t] = o],
         o.status = "succeeded" => o.ref \in claim[t].refs, RowsOK
  PROVE  IInv'
<1>1. PICK r \in CallType :
        /\ call' = [call EXCEPT ![c] = r]
        /\ r.pc = call[c].pc /\ r.status = call[c].status /\ r.previous = call[c].previous
        /\ r.outcome[t] = o
        /\ \A u \in Tasks \ {t} : r.outcome[u] = call[c].outcome[u]
  BY OutcomeRow
<1>2. OneTask(c, t, r)
  BY <1>1 DEF OneTask
<1> QED BY <1>2, Works

\* The rows of a step that ends an attempt and may forget a thread.
LEMMA EndsRows ==
  ASSUME IInv, NEW c \in Calls, NEW t \in Tasks, NEW n \in Nos,
         NEW th \in {thread[c][t][n], NoThread},
         UNCHANGED <<kind, trigger, run, published, claim, reopened>>,
         attempts' = [attempts EXCEPT ![t][n] = Ended(attempts[t][n])],
         thread' = [thread EXCEPT ![c][t][n] = th]
  PROVE  RowsOK
<1>1. /\ attempts' \in [Tasks -> [Nos -> AttemptType]] /\ Kept
      /\ \A u \in Tasks, m \in Nos : attempts'[u][m] = attempts[u][m] \/ AttemptOK(u, m)'
  BY AttemptEnds
<1>2. thread[c][t][n] \in ThreadType /\ ThreadOK(c, t, n)
  BY DEF IInv, TypeOK
<1>3. th \in ThreadType
  BY <1>2, NoThreadType
<1>4. /\ th.pc = "ok" => th.ref \in claim'[t].refs
      /\ th.pc \in {"queued", "claimed"} => DepsDone(t)'
  BY <1>2, NoThreadType, DispatchAssumption DEF ThreadOK, DepsDone
<1>5. /\ thread' \in [Calls -> [Tasks -> [Nos -> ThreadType]]]
      /\ \A d \in Calls, u \in Tasks, m \in Nos :
           thread'[d][u][m] = thread[d][u][m] \/ ThreadOK(d, u, m)'
  BY <1>3, <1>4, ThreadSets
<1> QED BY <1>1, <1>5 DEF RowsOK

LEMMA RetryOrFinishInv ==
  ASSUME IInv, NEW c \in Calls, NEW t \in Tasks, call[c].pc = "executing", RetryOrFinish(c, t), RowsOK
  PROVE  IInv'
<1> DEFINE o == IF call[c].counts[t] < MaxTries THEN NoOutcome ELSE Failed
<1>1. o \in OutcomeType /\ o.status # "succeeded"
  BY OutcomeTypes
<1>2. call' = [call EXCEPT ![c].active[t] = 0, ![c].outcome[t] = o]
  BY DEF RetryOrFinish
<1> HIDE DEF o
<1> QED BY <1>1, <1>2, Outcome

LEMMA BlockInv == ASSUME IInv, NEW c \in Calls, NEW t \in Tasks, Block(c, t) PROVE IInv'
<1> DEFINE n == call[c].counts[t] + 1
<1>1. /\ n \in Nos /\ call[c].pc = "executing" /\ call' = [call EXCEPT ![c].outcome[t] = Failed]
      /\ UNCHANGED <<kind, trigger, run, published, claim, thread, reopened>>
      /\ EndUnrun(t, n)
  BY DEF Block, Due, Executing
<1> HIDE DEF n
<1>2. thread \in [Calls -> [Tasks -> [Nos -> ThreadType]]]
  BY DEF IInv, TypeOK
<1>3. RowsOK
  BY <1>1, <1>2, UnrunEnds DEF RowsOK
<1> QED BY <1>1, <1>3, Outcome, OutcomeTypes

LEMMA ActiveNo ==
  ASSUME IInv, NEW c \in Calls, NEW t \in Tasks, call[c].active[t] # 0
  PROVE  call[c].active[t] \in Nos
<1>1. call[c].active[t] \in 0..MaxNo
  BY DEF IInv, TypeOK, CallType
<1> QED BY <1>1, DispatchAssumption DEF Nos

LEMMA TimeoutInv == ASSUME IInv, NEW c \in Calls, NEW t \in Tasks, Timeout(c, t) PROVE IInv'
<1> DEFINE n == call[c].active[t]
           th == IF thread[c][t][n].pc = "claimed" THEN thread[c][t][n] ELSE NoThread
<1>1. /\ n # 0 /\ call[c].pc = "executing" /\ RetryOrFinish(c, t)
      /\ UNCHANGED <<kind, trigger, run, published, claim, reopened>>
      /\ attempts' = [attempts EXCEPT ![t][n] = Ended(attempts[t][n])]
      /\ thread' = [thread EXCEPT ![c][t][n] = th]
  BY DEF Timeout
<1>2. n \in Nos /\ th \in {thread[c][t][n], NoThread}
  BY <1>1, ActiveNo
<1> HIDE DEF n, th
<1>3. RowsOK
  BY <1>1, <1>2, EndsRows
<1> QED BY <1>1, <1>3, RetryOrFinishInv

LEMMA CollectInv == ASSUME IInv, NEW c \in Calls, NEW t \in Tasks, Collect(c, t) PROVE IInv'
<1> DEFINE n == call[c].active[t]
           r == thread[c][t][n]
<1>1. /\ n # 0 /\ call[c].pc = "executing"
      /\ UNCHANGED <<kind, trigger, run, published, claim, reopened>>
      /\ thread' = [thread EXCEPT ![c][t][n] = NoThread]
  BY DEF Collect
<1>2. n \in Nos
  BY <1>1, ActiveNo
<1>3. /\ r \in ThreadType /\ ThreadOK(c, t, n) /\ attempts[t][n] \in AttemptType /\ AttemptOK(t, n)
  BY <1>2 DEF IInv, TypeOK
<1>4. CASE /\ r.pc = "ok"
           /\ attempts' = [attempts EXCEPT ![t][n] = Finished(attempts[t][n], "succeeded", r.ref)]
           /\ call' = [call EXCEPT ![c].active[t] = 0, ![c].outcome[t] = Cites(r.ref)]
  <2>1. r.ref \in 0..MaxNo /\ r.ref \in claim[t].refs
    BY <1>3, <1>4 DEF ThreadType, ThreadOK
  <2> DEFINE row == Finished(attempts[t][n], "succeeded", r.ref)
  <2>2. /\ row \in AttemptType
        /\ attempts[t][n].status = "succeeded" => row = attempts[t][n]
        /\ row.status = "succeeded" => row = attempts[t][n] \/ row.ref = r.ref
    BY <1>3, <2>1, FinishedRow
  <2>3. attempts' = [attempts EXCEPT ![t][n] = row]
    BY <1>4
  <2> HIDE DEF row
  <2>4. row.status = "succeeded" => row.ref \in claim[t].refs
    BY <1>3, <2>1, <2>2 DEF AttemptOK
  <2>5. /\ attempts' \in [Tasks -> [Nos -> AttemptType]] /\ Kept
        /\ \A u \in Tasks, m \in Nos : attempts'[u][m] = attempts[u][m] \/ AttemptOK(u, m)'
    BY <1>1, <1>2, <2>2, <2>3, <2>4, AttemptSets
  <2>6. /\ thread' \in [Calls -> [Tasks -> [Nos -> ThreadType]]]
        /\ \A d \in Calls, u \in Tasks, m \in Nos :
             thread'[d][u][m] = thread[d][u][m] \/ ThreadOK(d, u, m)'
    BY <1>1, <1>2, NoThreadType, ThreadSets
  <2>7. RowsOK
    BY <1>1, <2>5, <2>6 DEF RowsOK
  <2> DEFINE o == Cites(r.ref)
  <2>8. o \in OutcomeType /\ o.ref \in claim[t].refs
    BY <2>1, OutcomeTypes
  <2>9. call' = [call EXCEPT ![c].active[t] = 0, ![c].outcome[t] = o]
    BY <1>4
  <2> HIDE DEF o
  <2> QED BY <1>1, <2>7, <2>8, <2>9, Outcome
<1>5. ASSUME attempts' = [attempts EXCEPT ![t][n] = Ended(attempts[t][n])] PROVE RowsOK
  BY <1>1, <1>2, <1>5, EndsRows
<1>6. CASE /\ attempts' = [attempts EXCEPT ![t][n] = Ended(attempts[t][n])]
           /\ RetryOrFinish(c, t)
  BY <1>1, <1>5, <1>6, RetryOrFinishInv
<1>7. CASE /\ attempts' = [attempts EXCEPT ![t][n] = Ended(attempts[t][n])]
           /\ call' = [call EXCEPT ![c].active[t] = 0, ![c].outcome[t] = Failed]
  BY <1>1, <1>5, <1>7, Outcome, OutcomeTypes
<1> QED BY <1>4, <1>6, <1>7 DEF Collect

\* A run is saved with outcomes that are backed, and complete only with one of
\* every task.
LEMMA FinishInv == ASSUME IInv, NEW c \in Calls, Finish(c) PROVE IInv'
<1>1. /\ call[c] \in CallType /\ CallOK(c) /\ call \in [Calls -> CallType]
      /\ run \in [status : {"absent", "planned", "running", "complete", "incomplete"},
                  refs : [Tasks -> OutcomeType]]
      /\ RunOK /\ trigger \in TriggerType /\ thread \in [Calls -> [Tasks -> [Nos -> ThreadType]]]
      /\ reopened \in 0..MaxReopen
  BY DEF IInv, TypeOK
<1>2. PICK gap \in BOOLEAN :
        LET status == IF ~gap /\ \A t \in Tasks : Outcomes(c)[t].status = "succeeded"
                        THEN "complete" ELSE "incomplete"
        IN /\ run' = IF Saves(c) THEN [status |-> status, refs |-> Outcomes(c)] ELSE run
           /\ call' = [call EXCEPT ![c] =
                [Waiting EXCEPT !.pc = "finishing", !.lost = call[c].lost, !.status = status]]
  BY DEF Finish
<1> DEFINE status == IF ~gap /\ \A t \in Tasks : Outcomes(c)[t].status = "succeeded"
                       THEN "complete" ELSE "incomplete"
           r == [Waiting EXCEPT !.pc = "finishing", !.lost = call[c].lost, !.status = status]
<1>3. /\ status \in {"complete", "incomplete"}
      /\ status = "complete" =>
           \A t \in Tasks : /\ call[c].outcome[t].status = "succeeded"
                            /\ call[c].outcome[t].ref \in claim[t].refs
  BY <1>1 DEF CallOK, Outcomes
<1>4. run' = IF Saves(c) THEN [status |-> status, refs |-> call[c].outcome] ELSE run
  BY <1>2 DEF Outcomes
<1>5. call' = [call EXCEPT ![c] = r]
  BY <1>2
<1> HIDE DEF status
<1>6. /\ r \in CallType /\ r.status = status
      /\ r.outcome = Waiting.outcome /\ r.previous = Waiting.previous
  <2>1. call[c].lost \in BOOLEAN
    BY <1>1 DEF CallType
  <2> QED BY <1>3, <2>1, WaitingType DEF CallType
<1>7. \A t \in Tasks : Waiting.outcome[t].status = "none" /\ Waiting.previous[t].status = "none"
  BY DEF Waiting, NoOutcome, NoPrevious
<1> HIDE DEF r
<1>8. UNCHANGED <<kind, trigger, attempts, published, claim, thread, reopened>>
  BY DEF Finish
<1>9. CallOK(c)'
  <2>1. call'[c] = r
    BY <1>5, <1>6, CallSets
  <2>2. \A t \in Tasks : r.outcome[t].status = "none" /\ r.previous[t].status = "none"
    BY <1>6, <1>7
  <2>3. r.status # "none" /\ (r.status = "complete" => \A t \in Tasks : claim'[t].refs # {})
    BY <1>3, <1>6, <1>8
  <2> QED BY <2>1, <2>2, <2>3 DEF CallOK
<1>10. call' \in [Calls -> CallType] /\ \A d \in Calls : call'[d] = call[d] \/ CallOK(d)'
  BY <1>5, <1>6, <1>9, CallSets
<1>11. /\ run' \in [status : {"absent", "planned", "running", "complete", "incomplete"},
                    refs : [Tasks -> OutcomeType]]
       /\ run' = run \/ RunOK'
  <2>1. call[c].outcome \in [Tasks -> OutcomeType]
    BY <1>1 DEF CallType
  <2>2. CASE Saves(c)
    <3>1. run' = [status |-> status, refs |-> call[c].outcome]
      BY <1>4, <2>2
    <3>2. run'.status = status /\ run'.refs = call[c].outcome
      BY <3>1
    <3>3. RunOK'
      BY <1>3, <1>8, <3>2 DEF RunOK
    <3> QED BY <1>3, <2>1, <3>1, <3>3
  <2>3. CASE ~Saves(c)
    BY <1>1, <1>4, <2>3
  <2> QED BY <2>2, <2>3
<1> QED BY <1>1, <1>8, <1>10, <1>11, TriggerMoves

-----------------------------------------------------------------------------
(* Adapter threads. *)

\* A thread works on its claim: references are added, never taken away, and what
\* it publishes, it publishes under its claim.
LEMMA ThreadMoves ==
  ASSUME IInv, NEW c \in Calls, NEW t \in Tasks, NEW n \in Nos, NEW th \in ThreadType,
         NEW k \in ClaimType,
         UNCHANGED <<kind, trigger, run, attempts, call, reopened>>,
         claim' = [claim EXCEPT ![t] = k], claim[t].refs \subseteq k.refs,
         published' \in [Tasks -> SUBSET Nos],
         \A u \in Tasks : published'[u] = published[u] \/ PublishedOK(u)',
         thread' = [thread EXCEPT ![c][t][n] = th],
         th.pc = "ok" => th.ref \in k.refs,
         th.pc \in {"queued", "claimed"} => DepsDone(t)
  PROVE  IInv'
<1>1. claim \in [Tasks -> ClaimType]
  BY DEF IInv, TypeOK
<1>2. /\ claim' \in [Tasks -> ClaimType] /\ claim'[t] = k
      /\ \A u \in Tasks \ {t} : claim'[u] = claim[u]
  BY <1>1
<1>3. \A u \in Tasks : claim[u].refs \subseteq claim'[u].refs
  BY <1>2
<1>4. Kept
  BY <1>3 DEF Kept
<1>5. DepsDone(t) => DepsDone(t)'
  <2>1. \A u \in Tasks : claim[u].refs # {} => claim'[u].refs # {}
    BY <1>3
  <2> QED BY <2>1, DispatchAssumption DEF DepsDone
<1>6. /\ thread' \in [Calls -> [Tasks -> [Nos -> ThreadType]]]
      /\ \A d \in Calls, u \in Tasks, m \in Nos :
           thread'[d][u][m] = thread[d][u][m] \/ ThreadOK(d, u, m)'
  BY <1>2, <1>5, ThreadSets
<1>7. TypeOK'
  BY <1>2, <1>6 DEF IInv, TypeOK
<1> QED BY <1>4, <1>6, <1>7, Frame

LEMMA ReturnThread ==
  ASSUME NEW c \in Calls, NEW t \in Tasks, NEW n \in Nos, NEW result \in {"ok", "transient", "error"},
         NEW ref \in 0..MaxNo, Return(c, t, n, result, ref)
  PROVE  \E th \in ThreadType :
           /\ thread' = [thread EXCEPT ![c][t][n] = th]
           /\ th.pc \in {result, "off"}
           /\ th.pc = "ok" => th.ref = ref
<1> DEFINE th == IF call[c].pc = "executing" /\ call[c].active[t] = n
                   THEN [pc |-> result, ref |-> ref] ELSE NoThread
<1>1. th \in ThreadType /\ th.pc \in {result, "off"} /\ (th.pc = "ok" => th.ref = ref)
  BY NoThreadType DEF ThreadType
<1>2. thread' = [thread EXCEPT ![c][t][n] = th]
  BY DEF Return
<1> HIDE DEF th
<1> QED BY <1>1, <1>2

\* A thread that returns keeps the claim, or changes it in one row.
LEMMA ThreadReturns ==
  ASSUME IInv, NEW c \in Calls, NEW t \in Tasks, NEW n \in Nos, NEW k \in ClaimType,
         NEW result \in {"ok", "transient", "error"}, NEW ref \in 0..MaxNo,
         Return(c, t, n, result, ref),
         UNCHANGED <<kind, trigger, run, attempts, published, call, reopened>>,
         claim' = [claim EXCEPT ![t] = k], claim[t].refs \subseteq k.refs,
         result = "ok" => ref \in k.refs
  PROVE  IInv'
<1>1. PICK th \in ThreadType :
        /\ thread' = [thread EXCEPT ![c][t][n] = th]
        /\ th.pc \in {result, "off"}
        /\ th.pc = "ok" => th.ref = ref
  BY ReturnThread
<1>2. th.pc = "ok" => th.ref \in k.refs
  BY <1>1
<1>3. th.pc \in {"queued", "claimed"} => DepsDone(t)
  BY <1>1
<1>4. published' \in [Tasks -> SUBSET Nos] /\ \A u \in Tasks : published'[u] = published[u]
  BY DEF IInv, TypeOK
<1>5. thread' = [thread EXCEPT ![c][t][n] = th]
  BY <1>1
<1> QED BY <1>2, <1>3, <1>4, <1>5, ThreadMoves

\* The claim as it is, written in its own row.
LEMMA SameClaim ==
  ASSUME IInv, NEW t \in Tasks, UNCHANGED claim
  PROVE  claim' = [claim EXCEPT ![t] = claim[t]] /\ claim[t] \in ClaimType
BY DEF IInv, TypeOK

LEMMA BeginThreadInv ==
  ASSUME IInv, NEW c \in Calls, NEW t \in Tasks, NEW n \in Nos, BeginThread(c, t, n)
  PROVE  IInv'
<1>1. /\ thread[c][t][n].pc = "queued"
      /\ UNCHANGED <<kind, trigger, run, attempts, published, call, reopened>>
  BY DEF BeginThread
<1>2. DepsDone(t) /\ claim[t] \in ClaimType /\ claim \in [Tasks -> ClaimType]
  BY <1>1 DEF IInv, TypeOK, ThreadOK
<1>3. CASE /\ claim' = [claim EXCEPT ![t].status = "running", ![t].no = n]
           /\ thread' = [thread EXCEPT ![c][t][n] = [pc |-> "claimed", ref |-> Older]]
  <2> DEFINE k == [claim[t] EXCEPT !.status = "running", !.no = n]
             th == [pc |-> "claimed", ref |-> Older]
  <2>1. claim' = [claim EXCEPT ![t] = k]
    BY <1>2, <1>3, Zenon
  <2>2. n \in 0..MaxNo
    BY DispatchAssumption DEF Nos
  <2>3. k \in ClaimType /\ k.refs = claim[t].refs
    BY <1>2, <2>2 DEF ClaimType
  <2>4. th \in ThreadType /\ th.pc = "claimed"
    BY DispatchAssumption DEF ThreadType, Older
  <2>5. thread' = [thread EXCEPT ![c][t][n] = th]
    BY <1>3
  <2> HIDE DEF k, th
  <2>6. published' \in [Tasks -> SUBSET Nos] /\ \A u \in Tasks : published'[u] = published[u]
    BY <1>1 DEF IInv, TypeOK
  <2>7. th.pc # "ok" /\ claim[t].refs \subseteq k.refs
    BY <2>3, <2>4
  <2> QED BY <1>1, <1>2, <2>1, <2>3, <2>4, <2>5, <2>6, <2>7, ThreadMoves
<1>4. ASSUME NEW ref \in claim[t].refs, Return(c, t, n, "ok", ref), UNCHANGED claim
      PROVE  IInv'
  <2>1. ref \in 0..MaxNo
    BY <1>2 DEF ClaimType
  <2>2. claim' = [claim EXCEPT ![t] = claim[t]]
    BY <1>4, SameClaim
  <2> QED BY <1>1, <1>2, <1>4, <2>1, <2>2, ThreadReturns
<1>5. CASE Return(c, t, n, "error", Older) /\ UNCHANGED claim
  <2>1. Older \in 0..MaxNo
    BY DispatchAssumption DEF Older
  <2>2. claim' = [claim EXCEPT ![t] = claim[t]]
    BY <1>5, SameClaim
  <2> QED BY <1>1, <1>2, <1>5, <2>1, <2>2, ThreadReturns
<1> QED BY <1>3, <1>4, <1>5 DEF BeginThread

\* The dependencies of what is published were done when its attempt was started.
LEMMA PublishInv ==
  ASSUME IInv, NEW c \in Calls, NEW t \in Tasks, NEW n \in Nos, Publish(c, t, n)
  PROVE  IInv'
<1>1. /\ thread[c][t][n].pc = "claimed"
      /\ published' = [published EXCEPT ![t] = published[t] \union {n}]
      /\ claim' = [claim EXCEPT ![t].refs = claim[t].refs \union {n}]
      /\ UNCHANGED <<kind, trigger, run, attempts, call, thread, reopened>>
  BY DEF Publish
<1>2. /\ DepsDone(t) /\ claim \in [Tasks -> ClaimType] /\ published \in [Tasks -> SUBSET Nos]
      /\ thread \in [Calls -> [Tasks -> [Nos -> ThreadType]]] /\ PublishedOK(t)
      /\ ThreadOK(c, t, n)
  BY <1>1 DEF IInv, TypeOK, ThreadOK
<1> DEFINE k == [claim[t] EXCEPT !.refs = claim[t].refs \union {n}]
<1>3. claim' = [claim EXCEPT ![t] = k]
  BY <1>1, <1>2, Zenon
<1>4. k \in ClaimType /\ k.refs = claim[t].refs \union {n}
  <2>1. n \in 0..MaxNo /\ claim[t] \in ClaimType
    BY <1>2, DispatchAssumption DEF Nos
  <2> QED BY <2>1 DEF ClaimType
<1> HIDE DEF k
<1>5. published' \in [Tasks -> SUBSET Nos] /\ published'[t] = published[t] \union {n}
  BY <1>1, <1>2
<1>6. \A u \in Tasks \ {t} : published'[u] = published[u]
  BY <1>1, <1>2
<1>7. /\ claim' \in [Tasks -> ClaimType] /\ claim'[t] = k
      /\ \A u \in Tasks : claim[u].refs \subseteq claim'[u].refs
  BY <1>2, <1>3, <1>4
<1>8. DepsDone(t)'
  <2>1. \A u \in Tasks : claim[u].refs # {} => claim'[u].refs # {}
    BY <1>7
  <2> QED BY <1>2, <2>1, DispatchAssumption DEF DepsDone
<1>9. PublishedOK(t)'
  BY <1>2, <1>4, <1>5, <1>7, <1>8 DEF PublishedOK
<1>10. Kept /\ TypeOK'
  BY <1>1, <1>5, <1>7 DEF Kept, IInv, TypeOK
<1>11. \A u \in Tasks : published'[u] = published[u] \/ PublishedOK(u)'
  BY <1>6, <1>9
<1> QED BY <1>1, <1>10, <1>11, Frame

LEMMA SucceedInv ==
  ASSUME IInv, NEW c \in Calls, NEW t \in Tasks, NEW n \in Nos, Succeed(c, t, n)
  PROVE  IInv'
<1>1. /\ n \in published[t] /\ Return(c, t, n, "ok", n)
      /\ claim' = [claim EXCEPT ![t].status = "complete"]
      /\ UNCHANGED <<kind, trigger, run, attempts, published, call, reopened>>
  BY DEF Succeed, ReadBack
<1>2. claim[t] \in ClaimType /\ claim \in [Tasks -> ClaimType] /\ PublishedOK(t) /\ n \in 0..MaxNo
  BY DispatchAssumption DEF IInv, TypeOK, Nos
<1> DEFINE k == [claim[t] EXCEPT !.status = "complete"]
<1>3. claim' = [claim EXCEPT ![t] = k]
  BY <1>1, <1>2, Zenon
<1>4. k \in ClaimType /\ k.refs = claim[t].refs
  BY <1>2 DEF ClaimType
<1> HIDE DEF k
<1>5. n \in k.refs /\ claim[t].refs \subseteq k.refs
  BY <1>1, <1>2, <1>4 DEF PublishedOK
<1> QED BY <1>1, <1>2, <1>3, <1>4, <1>5, ThreadReturns

LEMMA ReuseOlderInv ==
  ASSUME IInv, NEW c \in Calls, NEW t \in Tasks, NEW n \in Nos, ReuseOlder(c, t, n)
  PROVE  IInv'
<1>1. /\ Return(c, t, n, "ok", Older)
      /\ claim' = [claim EXCEPT ![t].status = "complete", ![t].refs = claim[t].refs \union {Older}]
      /\ UNCHANGED <<kind, trigger, run, attempts, published, call, reopened>>
  BY DEF ReuseOlder
<1>2. claim[t] \in ClaimType /\ claim \in [Tasks -> ClaimType] /\ Older \in 0..MaxNo
  BY DispatchAssumption DEF IInv, TypeOK, Older
<1> DEFINE k == [claim[t] EXCEPT !.status = "complete", !.refs = claim[t].refs \union {Older}]
<1>3. claim' = [claim EXCEPT ![t] = k]
  BY <1>1, <1>2, Zenon
<1>4. k \in ClaimType /\ k.refs = claim[t].refs \union {Older}
  BY <1>2 DEF ClaimType
<1> HIDE DEF k
<1>5. Older \in k.refs /\ claim[t].refs \subseteq k.refs
  BY <1>4
<1> QED BY <1>1, <1>2, <1>3, <1>4, <1>5, ThreadReturns

LEMMA RaiseInv ==
  ASSUME IInv, NEW c \in Calls, NEW t \in Tasks, NEW n \in Nos, Raise(c, t, n)
  PROVE  IInv'
<1> DEFINE status == IF claim[t].refs = {} THEN "failed" ELSE "running"
           k == [claim[t] EXCEPT !.status = status]
<1>1. Return(c, t, n, "transient", Older) \/ Return(c, t, n, "error", Older)
  BY DEF Raise
<1>2. /\ claim' = [claim EXCEPT ![t].status = status]
      /\ UNCHANGED <<kind, trigger, run, attempts, published, call, reopened>>
  BY DEF Raise
<1>3. claim[t] \in ClaimType /\ claim \in [Tasks -> ClaimType] /\ Older \in 0..MaxNo
  BY DispatchAssumption DEF IInv, TypeOK, Older
<1>4. status \in {"failed", "running"}
  OBVIOUS
<1> HIDE DEF status
<1>5. claim' = [claim EXCEPT ![t] = k]
  BY <1>2, <1>3, Zenon
<1>6. k \in ClaimType /\ k.refs = claim[t].refs
  BY <1>3, <1>4 DEF ClaimType
<1> HIDE DEF k
<1>7. claim[t].refs \subseteq k.refs
  BY <1>6
<1>8. CASE Return(c, t, n, "transient", Older)
  BY <1>2, <1>3, <1>5, <1>6, <1>7, <1>8, ThreadReturns
<1>9. CASE Return(c, t, n, "error", Older)
  BY <1>2, <1>3, <1>5, <1>6, <1>7, <1>9, ThreadReturns
<1> QED BY <1>1, <1>8, <1>9

-----------------------------------------------------------------------------
(* Theorems. *)

\* Every step keeps the invariant: one case per action.
LEMMA StepInv == IInv /\ [Next]_vars => IInv'
<1> SUFFICES ASSUME IInv, [Next]_vars PROVE IInv'
  OBVIOUS
<1>1. CASE UNCHANGED vars
  <2>1. UNCHANGED <<kind, trigger, run, attempts, published, claim, reopened, call, thread>>
    BY <1>1 DEF vars, tables
  <2> QED BY <2>1
      DEF IInv, TypeOK, CallOK, AttemptOK, ThreadOK, PublishedOK, RunOK, TriggerOK, DepsDone
<1>2. ASSUME NEW c \in Calls, NEW t \in Tasks,
             \/ Recover(c, t) \/ FindNothing(c, t) \/ WriteOff(c, t) \/ Restore(c, t) \/ CloseRead(c, t)
             \/ Start(c, t) \/ Block(c, t) \/ Timeout(c, t) \/ Collect(c, t)
      PROVE  IInv'
  BY <1>2, RestoreInv, StartInv, BlockInv, TimeoutInv, CollectInv
<1>3. ASSUME NEW c \in Calls, CallStep(c) PROVE IInv'
  <2>1. CASE LoopStep(c)
    BY <1>2, <2>1, FinishInv DEF LoopStep
  <2> QED BY <1>3, <2>1, RecordInv, SkipLateInv, ClaimInv, BindInv, RenewInv, OpenInv, ReportInv,
             FailInv, CrashInv DEF CallStep
<1>4. ASSUME NEW c \in Calls, ThreadStep(c) PROVE IInv'
  BY <1>4, BeginThreadInv, PublishInv, SucceedInv, ReuseOlderInv, RaiseInv DEF ThreadStep
<1> QED BY <1>1, <1>3, <1>4, EnvironmentInv DEF Next

\* The inductive invariant holds in every state.
THEOREM Invariance == Spec => []IInv
BY InitInv, StepInv, PTL DEF Spec

\* The tables, the calls and the threads have their types.
THEOREM TypeCorrect == Spec => []TypeOK
<1>1. IInv => TypeOK
  BY DEF IInv
<1> QED BY <1>1, Invariance, PTL

\* A run saved complete, and a trigger reported complete, have a projection under
\* the claim of every task.
THEOREM CompleteHasProjections == Spec => []CompleteIsBacked
<1>1. IInv => CompleteIsBacked
  BY DEF IInv, RunOK, TriggerOK, CompleteIsBacked
<1> QED BY <1>1, Invariance, PTL

\* No projection is published before those of the tasks it depends on.
THEOREM PublishedInOrder == Spec => []DependenciesFirst
<1>1. IInv => DependenciesFirst
  BY DEF IInv, PublishedOK, DepsDone, DependenciesFirst
<1> QED BY <1>1, Invariance, PTL

\* A trigger whose event was replaced in flight ends as superseded, if it ends.
THEOREM SupersededEndsSo == Spec => []SupersededStays
<1>1. IInv => SupersededStays
  BY DEF IInv, TriggerOK, SupersededStays
<1> QED BY <1>1, Invariance, PTL

\* No worker replaces the result of a run, whoever holds the lease.
THEOREM ResultStands == Spec => FirstResultStands
<1> DEFINE Stands == \/ run' = run
                     \/ run.status = "incomplete" /\ run'.status = "planned"
<1>1. ASSUME TypeOK, [Next]_vars, run.status \in {"complete", "incomplete"}
      PROVE  Stands
  <2>1. ASSUME NEW c \in Calls, Bind(c) PROVE Stands
    <3>1. \/ run' = run
          \/ run.status = "incomplete" /\ run' = [run EXCEPT !.status = "planned"]
      BY <2>1 DEF Bind
    <3> QED BY <1>1, <3>1 DEF TypeOK
  <2>2. ASSUME NEW c \in Calls, Open(c) PROVE Stands
    BY <1>1, <2>2 DEF Open
  <2>3. ASSUME NEW c \in Calls, Finish(c) PROVE Stands
    BY <1>1, <2>3 DEF Finish, Saves
  <2>4. ASSUME NEW c \in Calls, LoopStep(c) PROVE Stands
    BY <2>3, <2>4 DEF LoopStep, Recover, FindNothing, WriteOff, Restore, CloseRead, Start, Block,
                      Timeout, Collect, tables
  <2>5. ASSUME NEW c \in Calls, CallStep(c) PROVE Stands
    BY <2>1, <2>2, <2>4, <2>5 DEF CallStep, Record, SkipLate, Claim, Renew, Report, Fail, Crash, tables
  <2>6. ASSUME NEW c \in Calls, ThreadStep(c) PROVE Stands
    BY <2>6 DEF ThreadStep, BeginThread, Publish, Succeed, ReuseOlder, Raise
  <2>7. CASE Environment
    BY <2>7 DEF Environment, Expire, SupersedeEvent, RecordUnseen, Compensate
  <2>8. CASE UNCHANGED vars
    BY <2>8 DEF vars, tables
  <2> QED BY <1>1, <2>5, <2>6, <2>7, <2>8 DEF Next
<1>2. TypeOK /\ [Next]_vars => [run.status \in {"complete", "incomplete"} => Stands]_vars
  BY <1>1
<1> QED BY <1>2, TypeCorrect, PTL DEF Spec, FirstResultStands
=============================================================================
