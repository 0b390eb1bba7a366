----------------------------- MODULE ChiefCycle -----------------------------
(***************************************************************************)
(* One decision cycle: the Chief - Risk - Boss - Trader graph              *)
(* (graph/chief.py) over the audit store of DecisionAudit, run by the      *)
(* processes of runtime/cli.py and runtime/server.py and answered by Boss  *)
(* callbacks.                                                              *)
(*                                                                         *)
(* A graph node is one action.  It makes its durable writes one            *)
(* transaction after another and only then is its output checkpointed, so  *)
(* a node either completes or dies after some prefix of its writes with    *)
(* the checkpoint still before it (an exception in a node is the same).    *)
(***************************************************************************)
EXTENDS DecisionAudit

CONSTANTS
  Contents,      \* normalized orders, each bound to the quotes it was priced at
  NoOrders,      \* the empty proposal
  Requested,     \* proposed orders not normalized yet
  NumOrders,     \* orders of a revision
  MaxRounds,     \* max_risk_rounds
  Configs        \* the invocations explored, see ConfigType

Orders == 1..NumOrders

Channels == {"cli", "feishu-card", "feishu-bot"}

ConfigType ==
  [ decide    : BOOLEAN,       \* the Chief decides, from a frozen research snapshot
    execute   : BOOLEAN,       \* the cycle goes on to approval and execution
    dryRun    : BOOLEAN,
    auto      : BOOLEAN,       \* auto_approve
    channel   : Channels,
    transport : {"none", "shadow", "simulated"} ]

ASSUME ConstantsAssumption ==
  /\ {NoOrders, Requested} \intersect Contents = {} /\ NoOrders # Requested
  /\ NumOrders \in Nat \ {0}
  /\ MaxRounds \in Nat \ {0}
  /\ Configs \subseteq ConfigType

VARIABLES
  cfg,       \* the invocation
  db,        \* the audit store
  gs,        \* the checkpointed graph state
  proc,      \* the process driving the graph: "run", "resume", or none ("idle")
  verdict,   \* the verdict a resume delivers to the approval interrupt
  cards,     \* approval cards the Boss holds
  stale,     \* the frozen research snapshot has been superseded
  broker     \* submission receipts and the intents the broker accepted

vars == <<cfg, db, gs, proc, verdict, cards, stale, broker>>

Nodes ==
  {"assemble_context", "chief_decide", "risk_gate", "persist_decision",
   "chief_revise", "manual_review", "boss_review", "trader", "persist", "end"}

OrderStatuses == {"none", "cancelled", "rejected", "error", "submitted"}

NoVerdict == [status |-> "none", card |-> [rev |-> 0, round |-> 0]]

\* What the Boss sends: approve, reject, or an attempt to modify the order.
BossStatuses == {"approved", "rejected", "modified"}

Intent(rev, o) == [rev |-> rev, order |-> o]

AllOrders(status) == [o \in Orders |-> status]

\* The card of the revision under review, in the review round it answers.
CurrentCard == [rev |-> gs.rev, round |-> gs.round]

Init ==
  /\ cfg \in Configs
  /\ db = EmptyStore
  /\ gs = [ node     |-> "assemble_context",
            content  |-> NoOrders,           \* decisions
            approved |-> FALSE,              \* approved_decisions is the whole revision
            rev      |-> 0,                  \* revision_no, 0 for None
            parent   |-> FALSE,              \* parent_revision_no is set
            round    |-> 0,                  \* risk_round
            review   |-> "none",             \* verdict of risk_review
            normErr  |-> FALSE,              \* normalization_errors
            fresh    |-> FALSE,              \* portfolio snapshot within its maximum age
            approval |-> "none",
            results  |-> AllOrders("none") ] \* order_results
  /\ proc = "run"
  /\ verdict = NoVerdict
  /\ cards = {}
  /\ stale = FALSE
  /\ broker = [receipts |-> {}, accepted |-> {}]

-----------------------------------------------------------------------------
(* Running a node: writes is the sequence of stores its transactions pass
   through, from the store it finds, and next the checkpoint it ends with. *)

Complete(writes, next) ==
  db' = writes[Len(writes)] /\ gs' = next /\ proc' = proc

Die(writes) ==
  \E i \in DOMAIN writes : db' = writes[i] /\ gs' = gs /\ proc' = "idle"

At(node) == proc # "idle" /\ gs.node = node

Perform(node, writes, next) ==
  /\ At(node)
  /\ Complete(writes, next) \/ Die(writes)
  /\ verdict' = NoVerdict
  /\ UNCHANGED <<cfg, cards, stale>>

Go(node) == [gs EXCEPT !.node = node]

-----------------------------------------------------------------------------
(* The graph's nodes, each with the conditional edge that leaves it. *)

\* An incomplete research snapshot ends the run before any write.
AssembleContext ==
  /\ \E next \in {"chief_decide"} \union (IF cfg.decide THEN {"end"} ELSE {}) :
       Perform("assemble_context", <<db>>, Go(next))
  /\ UNCHANGED broker

\* The Chief's proposal, or the seeded orders of a run that does not decide.
ChiefDecide ==
  /\ \E c \in {NoOrders, Requested} :
       Perform("chief_decide", <<db>>, [Go("risk_gate") EXCEPT !.content = c])
  /\ UNCHANGED broker

\* Nothing to review, or inputs that persist_decision will supersede.
PassThrough ==
  /\ \/ gs.content = NoOrders
     \/ cfg.decide /\ gs.rev # 0 /\ stale
  /\ Perform("risk_gate", <<db>>,
       [Go("persist_decision") EXCEPT !.approved = FALSE, !.round = @ + 1])
  /\ UNCHANGED broker

\* No portfolio, price or quote to normalize against: rejected without a revision.
RejectUnpriced ==
  /\ gs.content # NoOrders
  /\ Perform("risk_gate", <<db>>,
       [Go("persist_decision") EXCEPT !.approved = FALSE, !.round = @ + 1,
                                      !.review = "rejected", !.normErr = TRUE])
  /\ UNCHANGED broker

\* Mutant: a review sent back by a stale snapshot does not count as a round.
ReviewWithoutRound(c, v) ==
  /\ gs.content # NoOrders
  /\ c = gs.content \/ ~HasRevision(db, c)
  /\ LET created  == CreateCycle(db)
         appended == AppendRevision(created, c)
     IN Perform("risk_gate", <<db, created, appended>>,
          [Go("persist_decision") EXCEPT
             !.content = c, !.approved = (v = "approved"), !.rev = RevisionOf(appended, c),
             !.round = IF gs.round = 0 THEN 1 ELSE @,
             !.review = v, !.normErr = FALSE, !.fresh = TRUE])
  /\ UNCHANGED broker

\* The normalized orders c become a revision, reviewed on a new portfolio
\* snapshot.  Orders whose quotes are still valid stay as they are; a new quote
\* carries the time it was asked for, so it makes orders no revision has.  A
\* review that violates nothing approves every order.
ReviewRevision(c, v) ==
  /\ gs.content # NoOrders
  /\ c = gs.content \/ ~HasRevision(db, c)
  /\ ~(cfg.decide /\ gs.rev # 0 /\ stale)
  /\ LET created  == CreateCycle(db)
         appended == AppendRevision(created, c)
     IN Perform("risk_gate", <<db, created, appended>>,
          [Go("persist_decision") EXCEPT
             !.content = c, !.approved = (v = "approved"), !.rev = RevisionOf(appended, c),
             !.round = @ + 1, !.review = v, !.normErr = FALSE, !.fresh = TRUE])
  /\ UNCHANGED broker

RiskGate ==
  \/ PassThrough
  \/ RejectUnpriced
  \/ \E c \in Contents, v \in {"approved", "rejected"} : ReviewRevision(c, v)

\* The frozen inputs of a later round are stale: the cycle is superseded.
InputsInvalidated == cfg.decide /\ stale /\ (gs.rev # 0 \/ gs.round > 1)

Supersede ==
  /\ InputsInvalidated
  /\ Perform("persist_decision",
       <<db, Transition(db, "superseded", DefaultKey("superseded"))>>,
       [Go("end") EXCEPT !.content = NoOrders, !.approved = FALSE])
  /\ UNCHANGED broker

\* A proposal emptied by revision is a refused intent, not a No Action.
PersistEmptied ==
  /\ ~InputsInvalidated
  /\ gs.content = NoOrders
  /\ gs.parent \/ gs.round > 1
  /\ Perform("persist_decision", <<db, CreateCycle(db)>>, Go("manual_review"))
  /\ UNCHANGED broker

\* The writes that close the cycle: the transition, then its side effects.
Close(d, to, key) ==
  LET closed == Transition(d, to, key)
  IN  <<closed, Consume(d, closed, to, key)>>

NoAction ==
  /\ ~InputsInvalidated
  /\ gs.content = NoOrders
  /\ ~gs.parent /\ gs.round <= 1
  /\ LET created == CreateCycle(db)
     IN Perform("persist_decision",
          <<db, created>> \o Close(created, "no_action", DefaultKey("no_action")), Go("end"))
  /\ UNCHANGED broker

\* Mutants: an exhausted cycle that just ends, and a node the graph does not have.
RouteExhaustedToEnd ==
  IF ~cfg.execute \/ gs.normErr   THEN "end"
  ELSE IF gs.review = "approved"  THEN "boss_review"
  ELSE IF gs.round >= MaxRounds   THEN "end"
  ELSE "chief_revise"

RouteToStatus ==
  IF ~cfg.execute                 THEN "end"
  ELSE IF gs.normErr              THEN "manual_review"
  ELSE IF gs.review = "approved"  THEN "pending_approval"
  ELSE IF gs.round >= MaxRounds   THEN "manual_review"
  ELSE "chief_revise"

RouteAfterPersist ==
  IF ~cfg.execute                 THEN "end"
  ELSE IF gs.normErr              THEN "manual_review"
  ELSE IF gs.review = "approved"  THEN "boss_review"
  ELSE IF gs.round >= MaxRounds   THEN "manual_review"
  ELSE "chief_revise"

\* The round's revision, its review, and the status both lead to.
PersistRound ==
  /\ ~InputsInvalidated
  /\ gs.content # NoOrders
  /\ LET to       == IF gs.review = "approved" THEN "pending_approval" ELSE "risk_rejected"
         created  == CreateCycle(db)
         appended == AppendRevision(created, gs.content)
         rev      == RevisionOf(appended, gs.content)
         reviewed == IF gs.normErr
                       THEN appended
                       ELSE RecordReview(appended,
                              [rev |-> rev, round |-> gs.round, verdict |-> gs.review])
     IN Perform("persist_decision",
          <<db, created, appended, reviewed,
            Transition(reviewed, to, Key(to, rev, gs.round))>>,
          [Go(RouteAfterPersist) EXCEPT !.rev = rev])
  /\ UNCHANGED broker

PersistDecision ==
  \/ Supersede
  \/ PersistEmptied
  \/ NoAction
  \/ PersistRound

\* The Chief drops orders or clips them to the review's boundary, which takes
\* their quotes away; or is left without a proposal.
ChiefRevise ==
  /\ \E c \in {NoOrders, Requested} \union {c \in Contents : ~HasRevision(db, c)} :
       Perform("chief_revise", <<db>>,
         [Go("risk_gate") EXCEPT !.content = c, !.approved = FALSE,
                                 !.parent = (gs.rev # 0)])
  /\ UNCHANGED broker

\* Mutant: a cycle handed to a human goes back into the loop.
ManualReviewReentersLoop ==
  /\ Perform("manual_review",
       <<db>> \o Close(db, "manual_review", DefaultKey("manual_review")), Go("risk_gate"))
  /\ UNCHANGED broker

ManualReview ==
  /\ Perform("manual_review",
       <<db>> \o Close(db, "manual_review", DefaultKey("manual_review")), Go("end"))
  /\ UNCHANGED broker

\* Approval input is approve or reject of the exact revision: an attempt to
\* modify it is a rejection.
NarrowApproval(status) == IF status = "approved" THEN "approved" ELSE "rejected"

\* The verdict is recorded before the trader runs; a failed write is only
\* logged (recorded = FALSE) and the graph goes on without the row.
BossReview ==
  /\ cfg.auto \/ verdict # NoVerdict
  /\ LET decision == IF cfg.auto THEN "approved" ELSE NarrowApproval(verdict.status)
         approval == [ rev |-> gs.rev, round |-> gs.round, decision |-> decision,
                       channel |-> IF cfg.auto THEN "auto" ELSE cfg.channel,
                       card    |-> IF cfg.auto THEN CurrentCard ELSE verdict.card ]
     IN \E recorded \in BOOLEAN :
          Perform("boss_review",
            IF recorded THEN <<db, RecordApproval(db, approval)>> ELSE <<db>>,
            [Go("trader") EXCEPT !.approval = decision])
  /\ UNCHANGED broker
-----------------------------------------------------------------------------
(* The trader: authorization gate, then submission. *)

Approved == gs.approved /\ gs.approval = "approved"

TraderCancels ==
  /\ cfg.dryRun \/ ~Approved
  /\ Perform("trader", <<db>>,
       [Go("persist") EXCEPT !.results = AllOrders("cancelled")])
  /\ UNCHANGED broker

\* No authorization can be built, or the route, the research dependencies, the
\* transport or the execution check refuses it: nothing was submitted.  The
\* environment may refuse at any time, so the guard does not mention the store.
TraderRefuses ==
  /\ ~cfg.dryRun /\ Approved
  /\ Perform("trader", <<db>>,
       [Go("persist") EXCEPT !.results = AllOrders("rejected")])
  /\ UNCHANGED broker

\* Only the snapshot's age is wrong and a round is left: back to the risk gate.
TraderFindsStale ==
  /\ ~cfg.dryRun /\ Approved
  /\ Authorized(db)
  /\ ~gs.fresh
  /\ gs.round < MaxRounds
  /\ Perform("trader",
       <<db, Transition(db, "pending_risk",
                        Key("pending_risk", LatestRevision(db), gs.round))>>,
       Go("risk_gate"))
  /\ UNCHANGED broker

\* place_orders goes past its own checks: the authorization is for the latest
\* revision, and the orders to place are that revision's.
MayPlace ==
  /\ ~cfg.dryRun /\ Approved
  /\ Authorized(db)
  /\ gs.fresh
  /\ gs.rev = LatestRevision(db)
  /\ cfg.transport # "none"

\* Orders with no trades row that may have reached the broker.
ToSubmit == {o \in Orders : Intent(gs.rev, o) \notin db.trades}

IntentsOf(rev, orders) == {Intent(rev, o) : o \in orders}

\* Every order is rejected on price: the rows say so and the requested orders
\* are reviewed again, or go to a human when no round is left.
TraderPricedOut ==
  /\ MayPlace
  /\ ToSubmit # {}
  /\ LET saved == SaveTrades(db, IntentsOf(gs.rev, Orders), {})
     IN Perform("trader",
          <<db, saved, Transition(saved, "pending_risk",
                                  Key("price_rejected", gs.rev, gs.round))>>,
          [Go(IF gs.round < MaxRounds THEN "risk_gate" ELSE "manual_review")
             EXCEPT !.content = Requested, !.results = AllOrders("rejected")])
  /\ UNCHANGED broker

\* The orders before cut are reserved and accepted one by one; the one at cut
\* and those after it fail and are left unsubmitted.  A receipt is reserved
\* before its order is handed over, so a death may leave one more reserved.
Submit(cut, failure) ==
  LET accepted == IntentsOf(gs.rev, {o \in ToSubmit : o < cut})
      failed   == {o \in ToSubmit : o >= cut}
      Accept(reserved) ==
        broker' = [ receipts |-> broker.receipts \union accepted \union reserved,
                    accepted |-> broker.accepted \union accepted ]
  IN /\ At("trader")
     /\ MayPlace
     /\ cfg.transport = "simulated"
     /\ accepted \intersect broker.receipts = {}
     /\ failure = "rejected" => failed # Orders     \* else TraderPricedOut
     /\ \/ /\ Complete(<<db>>, [Go("persist") EXCEPT !.results =
                 [o \in Orders |-> IF o \in failed THEN failure ELSE "submitted"]])
           /\ Accept({})
        \/ /\ Die(<<db>>)
           /\ \E reserved \in {{}} \union
                 {{Intent(gs.rev, o)} : o \in {f \in failed : f = cut}} : Accept(reserved)
     /\ verdict' = NoVerdict
     /\ UNCHANGED <<cfg, cards, stale>>

Trader ==
  \/ TraderCancels
  \/ TraderRefuses
  \/ TraderFindsStale
  \/ TraderPricedOut
  \/ \E cut \in 1..NumOrders + 1, failure \in {"rejected", "error"} : Submit(cut, failure)

FinalStatus ==
  LET Some(statuses) == \E o \in Orders : gs.results[o] \in statuses
  IN  IF Some({"submitted"}) /\ Some({"rejected", "error"}) THEN "manual_review"
      ELSE IF Some({"submitted"}) \/ (cfg.dryRun /\ gs.approval = "approved") THEN "executed"
      ELSE IF gs.approval = "approved"                       THEN "manual_review"
      ELSE "approval_rejected"

Persist ==
  /\ LET With(statuses) == {o \in Orders : gs.results[o] \in statuses}
         saved == SaveTrades(db, IntentsOf(gs.rev, With({"cancelled", "rejected", "error"})),
                                 IntentsOf(gs.rev, With({"submitted"})))
     IN Perform("persist",
          <<db, saved>> \o Close(saved, FinalStatus, Key(FinalStatus, gs.rev, 0)), Go("end"))
  /\ UNCHANGED broker

-----------------------------------------------------------------------------
(* The processes that drive the graph. *)

AtInterrupt == At("boss_review") /\ ~cfg.auto /\ verdict = NoVerdict

\* A sync channel asks the Boss in-process at every interrupt.
AskBoss ==
  /\ AtInterrupt
  /\ cfg.channel = "cli"
  /\ \E status \in BossStatuses : verdict' = [status |-> status, card |-> CurrentCard]
  /\ UNCHANGED <<cfg, db, gs, proc, cards, stale, broker>>

\* An async channel returns at the interrupt.  Only the run that started the
\* cycle sends the card, once; sending it may fail.  A resume that meets a
\* second interrupt reports its fills and sends no card.
Suspend ==
  /\ AtInterrupt
  /\ cfg.channel # "cli"
  /\ proc' = "idle"
  /\ cards' \in {cards} \union (IF proc = "run" THEN {cards \union {CurrentCard}} ELSE {})
  /\ UNCHANGED <<cfg, db, gs, verdict, stale, broker>>

Return ==
  /\ At("end")
  /\ proc' = "idle"
  /\ UNCHANGED <<cfg, db, gs, verdict, cards, stale, broker>>

\* The revision a tap names: a card of the Feishu app carries it, the signed
\* link of the group bot carries the thread and the verdict only.
Claim(card) == IF cfg.channel = "feishu-card" THEN card.rev ELSE 0

\* An admitted callback resumes the graph; a checkpoint that is not at the
\* interrupt runs its pending node again and the verdict is dropped.  Cards can
\* be tapped any number of times and links are prefetched; the resume lock lets
\* one callback in at a time.
Callback(card, status) ==
  /\ proc = "idle"
  /\ ValidateCallback(db, Claim(card), cfg.channel) = "admitted"
  /\ proc' = "resume"
  /\ verdict' = IF gs.node = "boss_review" THEN [status |-> status, card |-> card] ELSE NoVerdict
  /\ UNCHANGED <<cfg, db, gs, cards, stale, broker>>

Rest == proc = "idle" /\ UNCHANGED vars

-----------------------------------------------------------------------------
(* The world: the portfolio snapshot ages past its limit, and a newer
   projection replaces one the frozen research snapshot cites. *)

SnapshotAges ==
  /\ gs.fresh
  /\ gs' = [gs EXCEPT !.fresh = FALSE]
  /\ UNCHANGED <<cfg, db, proc, verdict, cards, stale, broker>>

ResearchMoves ==
  /\ cfg.decide /\ ~stale
  /\ stale' = TRUE
  /\ UNCHANGED <<cfg, db, gs, proc, verdict, cards, broker>>

GraphStep ==
  \/ AssembleContext \/ ChiefDecide \/ RiskGate \/ PersistDecision \/ ChiefRevise
  \/ ManualReview \/ BossReview \/ Trader \/ Persist
  \/ AskBoss \/ Suspend \/ Return

Next ==
  \/ GraphStep
  \/ \E card \in cards, status \in BossStatuses : Callback(card, status)
  \/ SnapshotAges
  \/ ResearchMoves
  \/ Rest

Spec == Init /\ [][Next]_vars

\* A running process makes progress (a person at a CLI prompt answers).
FairSpec == Spec /\ WF_vars(GraphStep)

-----------------------------------------------------------------------------
(* Types. *)

RowKey == [rev : Nat, round : Nat]

StoreType ==
  [ status    : Statuses \union {Absent},
    revisions : Seq(Contents \union {Requested}),
    reviews   : SUBSET [rev : Nat, round : Nat, verdict : {"approved", "rejected"}],
    approvals : SUBSET [ rev : Nat, round : Nat, decision : {"approved", "rejected"},
                         channel : Channels \union {"auto"}, card : RowKey ],
    events    : SUBSET [ name : Statuses \union {"price_rejected"}, rev : Nat, round : Nat ],
    trades    : SUBSET [rev : Nat, order : Orders],
    consumed  : Nat ]

StateType ==
  [ node     : Nodes,
    content  : Contents \union {NoOrders, Requested},
    approved : BOOLEAN,
    rev      : Nat,
    parent   : BOOLEAN,
    round    : Nat,
    review   : {"none", "approved", "rejected"},
    normErr  : BOOLEAN,
    fresh    : BOOLEAN,
    approval : {"none", "approved", "rejected"},
    results  : [Orders -> OrderStatuses] ]

\* The types of the audit store, the checkpoint and the driving processes.
TypeOK ==
  /\ cfg \in ConfigType
  /\ db \in StoreType
  /\ gs \in StateType
  /\ proc \in {"idle", "run", "resume"}
  /\ verdict \in [status : BossStatuses \union {"none"}, card : RowKey]
  /\ cards \subseteq RowKey
  /\ stale \in BOOLEAN
  /\ broker \in [ receipts : SUBSET [rev : Nat, order : Orders],
                  accepted : SUBSET [rev : Nat, order : Orders] ]

-----------------------------------------------------------------------------
(* Safety. *)

\* An order at the broker joins to a passed risk review and to an approval of
\* the same revision given in that review's round or later, and keeps doing so
\* whatever is written afterwards (docs/ARCHITECTURE.md 15.2, trader gate).
OrdersTraceable ==
  \A i \in broker.accepted :
    \E r \in db.reviews, a \in db.approvals :
      /\ r.rev = i.rev /\ r.verdict = "approved"
      /\ a.rev = i.rev /\ a.decision = "approved"
      /\ r.round <= a.round

\* Once an order was accepted its revision stays the current one and stays
\* authorized: no retry, second callback or re-review can slip another
\* revision, or a newer review, behind an order that is already out.
AcceptedStaysCurrent ==
  broker.accepted # {} =>
    /\ Authorized(db)
    /\ \A i \in broker.accepted : i.rev = LatestRevision(db)

\* Every approval row answers a passed review of the same revision recorded in
\* the same round: a re-review is a row of its own, never swallowed by the id
\* of the round before (persist_decision, _record_approval).
ApprovalAnswersReview ==
  \A a \in db.approvals :
    \E r \in db.reviews :
      r.rev = a.rev /\ r.round = a.round /\ r.verdict = "approved"

\* A graph waiting at the approval interrupt is a cycle pending approval, with
\* this round's review passed and effective for the revision on the card.
InterruptIsReviewed ==
  gs.node = "boss_review" =>
    /\ db.status = "pending_approval"
    /\ \E r \in EffectiveReview(db, gs.rev) : r.round = gs.round /\ r.verdict = "approved"

\* A graph that ran to its end leaves no open cycle behind: every path through
\* it records a terminal status, unless it was told not to go to approval.
EndIsTerminal ==
  gs.node = "end" /\ cfg.execute => db.status = Absent \/ IsTerminal(db.status)

\* Nothing happens to a closed cycle: its status, revisions, reviews and
\* approvals are final and no further order reaches the broker (5.1).
ClosedIsFinal ==
  [][ IsTerminal(db.status) =>
        /\ db'.status = db.status
        /\ db'.revisions = db.revisions
        /\ db'.reviews = db.reviews
        /\ db'.approvals = db.approvals
        /\ broker' = broker ]_vars

\* The chain implements its abstract promise.
Chain ==
  INSTANCE ApprovalChain WITH
    cleared   <- IF Authorized(db) THEN LatestRevision(db) ELSE 0,
    submitted <- broker.accepted,
    closed    <- IsTerminal(db.status)

ChainSpec == Chain!Spec

-----------------------------------------------------------------------------
(* Liveness. *)

\* Every invocation of the graph returns: the loops through the risk gate are
\* bounded however often snapshots go stale and prices move.
RunReturns == (proc # "idle") ~> (proc = "idle")

-----------------------------------------------------------------------------
(* What the documents say and the code does not keep. *)

\* A recorded approval was given on a card of its own review round, and so on the
\* revision it showed: after a re-review the Boss approves again (trader).
ApprovalIsFresh ==
  \A a \in db.approvals : a.decision = "approved" => a.card.round = a.round

\* A closed cycle that no process drives has had its side effects (persist,
\* record_no_action, manual_review: exactly once, on first entry).
SideEffectsHappened ==
  proc = "idle" /\ db.status \in TerminalStatuses \ {"superseded"} => db.consumed = 1
=============================================================================
