--------------------------- MODULE DecisionAudit ---------------------------
(***************************************************************************)
(* The decision audit store of one decision cycle                          *)
(* (decision/repository.py): the cycle row, its immutable revisions, their *)
(* risk reviews, the Boss approvals, the journal of transitions, and the   *)
(* two tables the terminal side effects touch (trades, scores).            *)
(*                                                                         *)
(* The module has no variables.  A store is a record and every repository  *)
(* operation is an operator from a store to a store; each of them is one   *)
(* SQLite transaction of the code, so a caller that crashes between two of *)
(* them leaves exactly the store the first one returned.                   *)
(*                                                                         *)
(* A decision hash is the content it hashes: two revisions have the same   *)
(* hash iff they have the same content, and inside a cycle a revision      *)
(* number and a hash name each other.                                      *)
(***************************************************************************)
EXTENDS Naturals, Sequences, FiniteSets

Absent == "absent"            \* no row in decision_cycles

TerminalStatuses ==
  {"executed", "manual_review", "no_action", "approval_rejected", "superseded"}

Statuses ==
  {"draft", "pending_risk", "risk_rejected", "pending_approval"} \union TerminalStatuses

IsTerminal(status) == status \in TerminalStatuses

EmptyStore ==
  [ status    |-> Absent,
    revisions |-> << >>,       \* revision_no -> content
    reviews   |-> {},          \* [rev, round, verdict], one per (rev, round)
    approvals |-> {},          \* [rev, round, decision, channel, card], one per (rev, round)
    events    |-> {},          \* idempotency keys of the status changes journaled
    trades    |-> {},          \* intents whose trades row may have reached the broker
    consumed  |-> 0 ]          \* times the cycle's scores were consumed

-----------------------------------------------------------------------------
(* Cycles and revisions. *)

CreateCycle(d) == IF d.status = Absent THEN [d EXCEPT !.status = "draft"] ELSE d

LatestRevision(d) == Len(d.revisions)

HasRevision(d, content) == \E r \in DOMAIN d.revisions : d.revisions[r] = content

\* Replaying a content returns the revision that already has it, which need
\* not be the latest one; a new content gets the next number.  The pointer
\* current_revision_no is the largest number ever allocated, the length here.
AppendRevision(d, content) ==
  IF HasRevision(d, content)
    THEN d
    ELSE [d EXCEPT !.revisions = Append(@, content)]

RevisionOf(d, content) ==
  CHOOSE r \in DOMAIN d.revisions : d.revisions[r] = content

-----------------------------------------------------------------------------
(* Transitions.  A key is the identity an idempotency key hashes. *)

\* Mutant: the key of a transition forgets the round it belongs to.
KeyWithoutRound(name, rev, round) == [name |-> name, rev |-> rev, round |-> 0]

Key(name, rev, round) == [name |-> name, rev |-> rev, round |-> round]

DefaultKey(to) == Key(to, 0, 0)

\* The transition is applied now (the second component the code returns).
Changes(d, to, key) ==
  /\ key \notin d.events
  /\ d.status \notin {Absent, to}
  /\ ~IsTerminal(d.status)

\* A replayed key writes nothing; a cycle already there is journaled and not
\* changed; an absent or terminal cycle raises, which writes nothing.
Transition(d, to, key) ==
  IF Changes(d, to, key)
    THEN [d EXCEPT !.status = to, !.events = @ \union {key}]
  ELSE IF d.status = to
    THEN [d EXCEPT !.events = @ \union {key}]
    ELSE d

-----------------------------------------------------------------------------
(* Reviews and approvals: INSERT OR IGNORE on an id of (revision, round). *)

\* Mutant: the review id forgets the round, as the approval id once did.
RecordReviewOncePerRevision(d, review) ==
  IF \E r \in d.reviews : r.rev = review.rev
    THEN d
    ELSE [d EXCEPT !.reviews = @ \union {review}]

RecordReview(d, review) ==
  IF \E r \in d.reviews : r.rev = review.rev /\ r.round = review.round
    THEN d
    ELSE [d EXCEPT !.reviews = @ \union {review}]

RecordApproval(d, approval) ==
  IF \E a \in d.approvals : a.rev = approval.rev /\ a.round = approval.round
    THEN d
    ELSE [d EXCEPT !.approvals = @ \union {approval}]

\* The row of the latest round bound to the revision: a set of at most one.
LatestOf(rows) == {r \in rows : \A s \in rows : s.round <= r.round}

EffectiveReview(d, rev) == LatestOf({r \in d.reviews : r.rev = rev})

EffectiveApproval(d, rev) ==
  LatestOf({a \in d.approvals : a.rev = rev /\ a.decision = "approved"})

\* The round a callback answers: the effective review's, 0 without a review.
AnsweredRound(d, rev) ==
  IF EffectiveReview(d, rev) = {}
    THEN 0
    ELSE (CHOOSE r \in EffectiveReview(d, rev) : TRUE).round

\* Mutant: callbacks are not deduplicated by the approval already recorded.
NeverApproved(d, rev, channel, round) == FALSE

HasApproval(d, rev, channel, round) ==
  \E a \in d.approvals : a.rev = rev /\ a.round = round /\ a.channel = channel

\* Admission of a callback.  claim is the revision the tapped card names (with
\* its hash), 0 when the channel carries neither.
ValidateCallback(d, claim, channel) ==
  LET rev   == LatestRevision(d)
      round == AnsweredRound(d, rev)
  IN  IF d.status = Absent                      THEN "admitted"
      ELSE IF IsTerminal(d.status)              THEN "handled"
      ELSE IF rev = 0                           THEN "admitted"
      ELSE IF HasApproval(d, rev, channel, round) THEN "handled"
      ELSE IF claim \notin {0, rev}             THEN "refused"
      ELSE IF /\ \A r \in EffectiveReview(d, rev) : r.verdict # "approved"
              /\ d.reviews # {}                 THEN "refused"
      ELSE "admitted"

\* Mutant: a passed review is enough to trade.
AuthorizedByReview(d) ==
  \E r \in EffectiveReview(d, LatestRevision(d)) : r.verdict = "approved"

\* execution/authorization.py: the current revision has an effective approved
\* review, and an approval no older than that review.
Authorized(d) ==
  LET rev == LatestRevision(d)
  IN  \E r \in EffectiveReview(d, rev), a \in EffectiveApproval(d, rev) :
        r.verdict = "approved" /\ a.round >= r.round

-----------------------------------------------------------------------------
(* Terminal side effects. *)

\* PEAD scores are marked consumed when the transition to key was applied by
\* this caller, so the second transaction depends on the store before it.
Consume(before, after, to, key) ==
  IF Changes(before, to, key) THEN [after EXCEPT !.consumed = @ + 1] ELSE after

\* Upsert of the trades rows by client order id.
SaveTrades(d, rejected, live) == [d EXCEPT !.trades = (@ \ rejected) \union live]
=============================================================================
