-------------------------- MODULE ChiefCycleProofs --------------------------
(***************************************************************************)
(* Theorems about ChiefCycle, for every set of contents, every number of   *)
(* orders and rounds, and every set of invocations.                        *)
(***************************************************************************)
EXTENDS ChiefCycle, TLAPS

-----------------------------------------------------------------------------
(* What the repository operations preserve. *)

Proposed == Contents \union {Requested}

KeyType == [name : Statuses \union {"price_rejected"}, rev : Nat, round : Nat]

\* The audit rows of d are rows of e: an operation only adds to them.
Grows(d, e) == d.reviews \subseteq e.reviews /\ d.approvals \subseteq e.approvals

\* Creating a cycle keeps the store well typed and its rows.
LEMMA CreateCycleSafe ==
  ASSUME NEW d \in StoreType
  PROVE  CreateCycle(d) \in StoreType /\ Grows(d, CreateCycle(d))
BY DEF CreateCycle, StoreType, Grows, Statuses

\* Appending a content keeps the store well typed and its rows, and the content
\* then has a revision number.
LEMMA AppendRevisionSafe ==
  ASSUME NEW d \in StoreType, NEW c \in Proposed
  PROVE  /\ AppendRevision(d, c) \in StoreType
         /\ Grows(d, AppendRevision(d, c))
         /\ RevisionOf(AppendRevision(d, c), c) \in Nat
<1> DEFINE e == AppendRevision(d, c)
<1>1. e \in StoreType /\ Grows(d, e)
  <2>1. CASE HasRevision(d, c)
    BY <2>1 DEF AppendRevision, Grows
  <2>2. CASE ~HasRevision(d, c)
    <3>1. e = [d EXCEPT !.revisions = Append(d.revisions, c)]
      BY <2>2 DEF AppendRevision, StoreType
    <3>2. Append(d.revisions, c) \in Seq(Contents \union {Requested})
      BY DEF StoreType, Proposed
    <3> QED BY <3>1, <3>2 DEF StoreType, Grows
  <2> QED BY <2>1, <2>2
<1>2. HasRevision(e, c)
  <2>1. CASE HasRevision(d, c)
    BY <2>1 DEF AppendRevision
  <2>2. CASE ~HasRevision(d, c)
    <3>1. e.revisions = Append(d.revisions, c)
      BY <2>2 DEF AppendRevision, StoreType
    <3>2. d.revisions \in Seq(Proposed)
      BY DEF StoreType, Proposed
    <3>3. Len(d.revisions) + 1 \in DOMAIN e.revisions
          /\ e.revisions[Len(d.revisions) + 1] = c
      BY <3>1, <3>2
    <3> QED BY <3>3 DEF HasRevision
  <2> QED BY <2>1, <2>2
<1>3. RevisionOf(e, c) \in DOMAIN e.revisions
  BY <1>2 DEF HasRevision, RevisionOf
<1>4. DOMAIN e.revisions \subseteq Nat
  BY <1>1 DEF StoreType
<1> QED BY <1>1, <1>3, <1>4

\* A transition keeps the store well typed and its rows.
LEMMA TransitionSafe ==
  ASSUME NEW d \in StoreType, NEW to \in Statuses, NEW key \in KeyType
  PROVE  Transition(d, to, key) \in StoreType /\ Grows(d, Transition(d, to, key))
BY DEF Transition, StoreType, Grows, KeyType

\* Recording a review keeps the store well typed and its rows.
LEMMA RecordReviewSafe ==
  ASSUME NEW d \in StoreType,
         NEW r \in [rev : Nat, round : Nat, verdict : {"approved", "rejected"}]
  PROVE  RecordReview(d, r) \in StoreType /\ Grows(d, RecordReview(d, r))
BY DEF RecordReview, StoreType, Grows

ApprovalType ==
  [ rev : Nat, round : Nat, decision : {"approved", "rejected"},
    channel : Channels \union {"auto"}, card : RowKey ]

\* Recording an approval keeps the store well typed and its rows.
LEMMA RecordApprovalSafe ==
  ASSUME NEW d \in StoreType, NEW a \in ApprovalType
  PROVE  RecordApproval(d, a) \in StoreType /\ Grows(d, RecordApproval(d, a))
BY DEF RecordApproval, StoreType, Grows, ApprovalType

\* Saving trades rows keeps the store well typed and its audit rows.
LEMMA SaveTradesSafe ==
  ASSUME NEW d \in StoreType, NEW rejected,
         NEW live \in SUBSET [rev : Nat, order : Orders]
  PROVE  SaveTrades(d, rejected, live) \in StoreType
         /\ Grows(d, SaveTrades(d, rejected, live))
BY DEF SaveTrades, StoreType, Grows

-----------------------------------------------------------------------------
(* Running a node.  Every transaction of it leaves a safe store: well typed
   and with the audit rows of the store the node found. *)

SafeStores == {d \in StoreType : Grows(db, d)}

\* The store a node finds is safe.
LEMMA StartSafe == ASSUME TypeOK PROVE db \in SafeStores
BY DEF TypeOK, SafeStores, Grows

\* Counting a consumption keeps a safe store safe.
LEMMA ConsumedSafe ==
  ASSUME NEW d \in SafeStores
  PROVE  [d EXCEPT !.consumed = d.consumed + 1] \in SafeStores
<1> DEFINE e == [d EXCEPT !.consumed = d.consumed + 1]
<1>1. d \in StoreType /\ Grows(db, d)
  BY DEF SafeStores
<1>2. e \in StoreType
  BY <1>1 DEF StoreType
<1>3. e.reviews = d.reviews /\ e.approvals = d.approvals
  BY <1>1 DEF StoreType
<1>4. Grows(db, e)
  BY <1>1, <1>3 DEF Grows
<1> QED BY <1>2, <1>4 DEF SafeStores

\* Every operation keeps a safe store safe.
LEMMA OperationsSafe ==
  ASSUME NEW d \in SafeStores
  PROVE  /\ CreateCycle(d) \in SafeStores
         /\ \A c \in Proposed : /\ AppendRevision(d, c) \in SafeStores
                               /\ RevisionOf(AppendRevision(d, c), c) \in Nat
         /\ \A to \in Statuses, key \in KeyType :
               Transition(d, to, key) \in SafeStores /\ Close(d, to, key) \in Seq(SafeStores)
         /\ \A r \in [rev : Nat, round : Nat, verdict : {"approved", "rejected"}] :
               RecordReview(d, r) \in SafeStores
         /\ \A a \in ApprovalType : RecordApproval(d, a) \in SafeStores
         /\ \A rejected, live \in SUBSET [rev : Nat, order : Orders] :
               SaveTrades(d, rejected, live) \in SafeStores
<1>1. \A e \in StoreType : Grows(d, e) => e \in SafeStores
  BY DEF SafeStores, Grows
<1>2. d \in StoreType
  BY DEF SafeStores
<1>3. CreateCycle(d) \in SafeStores
  BY <1>1, <1>2, CreateCycleSafe
<1>4. ASSUME NEW c \in Proposed
      PROVE  /\ AppendRevision(d, c) \in SafeStores
             /\ RevisionOf(AppendRevision(d, c), c) \in Nat
  BY <1>1, <1>2, AppendRevisionSafe
<1>5. ASSUME NEW to \in Statuses, NEW key \in KeyType
      PROVE  Transition(d, to, key) \in SafeStores /\ Close(d, to, key) \in Seq(SafeStores)
  <2> DEFINE t == Transition(d, to, key)
             e == Consume(d, t, to, key)
  <2>1. t \in SafeStores
    BY <1>1, <1>2, TransitionSafe
  <2>2. e = t \/ e = [t EXCEPT !.consumed = t.consumed + 1]
    BY DEF Consume
  <2>3. e \in SafeStores
    <3> HIDE DEF t, e
    <3> QED BY <2>1, <2>2, ConsumedSafe
  <2>4. Close(d, to, key) = <<t, e>>
    BY DEF Close
  <2> HIDE DEF t, e
  <2> QED BY <2>1, <2>3, <2>4 DEF t
<1>6. ASSUME NEW r \in [rev : Nat, round : Nat, verdict : {"approved", "rejected"}]
      PROVE  RecordReview(d, r) \in SafeStores
  BY <1>1, <1>2, RecordReviewSafe
<1>7. ASSUME NEW a \in ApprovalType PROVE RecordApproval(d, a) \in SafeStores
  BY <1>1, <1>2, RecordApprovalSafe
<1>8. ASSUME NEW rejected, NEW live \in SUBSET [rev : Nat, order : Orders]
      PROVE  SaveTrades(d, rejected, live) \in SafeStores
  BY <1>1, <1>2, SaveTradesSafe
<1> QED BY <1>3, <1>4, <1>5, <1>6, <1>7, <1>8


\* A node whose writes are safe and whose checkpoint is typed is a safe step.
LEMMA PerformSafe ==
  ASSUME TypeOK, NEW node, NEW writes \in Seq(SafeStores), writes # << >>,
         NEW next \in StateType, Perform(node, writes, next), UNCHANGED broker
  PROVE  TypeOK' /\ Grows(db, db') /\ UNCHANGED broker
<1>1. db' \in SafeStores
  BY DEF Perform, Complete, Die
<1>2. gs' \in StateType /\ proc' \in {"idle", "run", "resume"}
  BY DEF Perform, Complete, Die, TypeOK
<1>3. verdict' \in [status : BossStatuses \union {"none"}, card : RowKey]
  BY DEF Perform, NoVerdict, RowKey
<1> QED BY <1>1, <1>2, <1>3 DEF Perform, TypeOK, SafeStores

-----------------------------------------------------------------------------
(* Every step is safe: it keeps the types and the audit rows, and an order it
   hands to the broker is authorized by the store the step found. *)

SafeStep ==
  /\ TypeOK'
  /\ Grows(db, db')
  /\ \A i \in broker'.accepted \ broker.accepted :
       i.rev = LatestRevision(db) /\ Authorized(db)

\* A node that leaves the broker alone and performs safe writes is safe.
LEMMA PerformIsSafeStep ==
  ASSUME TypeOK, NEW node, NEW writes \in Seq(SafeStores), writes # << >>,
         NEW next \in StateType, Perform(node, writes, next), UNCHANGED broker
  PROVE  SafeStep
BY PerformSafe DEF SafeStep

\* Moving to a node keeps the checkpoint typed.
LEMMA GoTyped ==
  ASSUME TypeOK, NEW node \in Nodes
  PROVE  Go(node) \in StateType
BY DEF TypeOK, StateType, Go

\* What the nodes put into a checkpoint keeps it typed.
LEMMA CheckpointTyped ==
  ASSUME NEW g \in StateType
  PROVE  /\ \A c \in Proposed \union {NoOrders} :
              [g EXCEPT !.content = c] \in StateType
         /\ \A c \in Proposed \union {NoOrders}, a \in BOOLEAN :
              [g EXCEPT !.content = c, !.approved = a] \in StateType
         /\ \A c \in Proposed \union {NoOrders}, a \in BOOLEAN, p \in BOOLEAN :
              [g EXCEPT !.content = c, !.approved = a, !.parent = p] \in StateType
         /\ \A c \in Proposed \union {NoOrders}, f \in [Orders -> OrderStatuses] :
              [g EXCEPT !.content = c, !.results = f] \in StateType
         /\ \A a \in BOOLEAN, n \in Nat :
              [g EXCEPT !.approved = a, !.round = n] \in StateType
         /\ \A a \in BOOLEAN,
               n \in Nat, v \in {"approved", "rejected"}, e \in BOOLEAN :
              [g EXCEPT !.approved = a, !.round = n, !.review = v, !.normErr = e] \in StateType
         /\ \A c \in Proposed \union {NoOrders}, a \in BOOLEAN, r \in Nat,
               n \in Nat, v \in {"approved", "rejected"}, e \in BOOLEAN, b \in BOOLEAN :
              [g EXCEPT !.content = c, !.approved = a, !.rev = r, !.round = n,
                        !.review = v, !.normErr = e, !.fresh = b] \in StateType
         /\ \A r \in Nat :
              [g EXCEPT !.rev = r] \in StateType
         /\ \A v \in {"approved", "rejected"} :
              [g EXCEPT !.approval = v] \in StateType
         /\ \A f \in [Orders -> OrderStatuses] :
              [g EXCEPT !.results = f] \in StateType
         /\ \A b \in BOOLEAN :
              [g EXCEPT !.fresh = b] \in StateType
<1>1. ASSUME NEW c \in Proposed \union {NoOrders}
      PROVE  [g EXCEPT !.content = c] \in StateType
  BY DEF StateType, Proposed
<1>2. ASSUME NEW c \in Proposed \union {NoOrders}, NEW a \in BOOLEAN
      PROVE  [g EXCEPT !.content = c, !.approved = a] \in StateType
  BY DEF StateType, Proposed
<1>3. ASSUME NEW c \in Proposed \union {NoOrders}, NEW a \in BOOLEAN, NEW p \in BOOLEAN
      PROVE  [g EXCEPT !.content = c, !.approved = a, !.parent = p] \in StateType
  BY DEF StateType, Proposed
<1>4. ASSUME NEW c \in Proposed \union {NoOrders}, NEW f \in [Orders -> OrderStatuses]
      PROVE  [g EXCEPT !.content = c, !.results = f] \in StateType
  BY DEF StateType, Proposed
<1>5. ASSUME NEW a \in BOOLEAN,
             NEW n \in Nat
      PROVE  [g EXCEPT !.approved = a, !.round = n] \in StateType
  BY DEF StateType, Proposed
<1>6. ASSUME NEW a \in BOOLEAN,
             NEW n \in Nat, NEW v \in {"approved", "rejected"},
             NEW e \in BOOLEAN
      PROVE  [g EXCEPT !.approved = a, !.round = n, !.review = v, !.normErr = e] \in StateType
  BY DEF StateType, Proposed
<1>7. ASSUME NEW c \in Proposed \union {NoOrders}, NEW a \in BOOLEAN, NEW r \in Nat,
             NEW n \in Nat, NEW v \in {"approved", "rejected"},
             NEW e \in BOOLEAN, NEW b \in BOOLEAN
      PROVE  [g EXCEPT !.content = c, !.approved = a, !.rev = r, !.round = n,
                        !.review = v, !.normErr = e, !.fresh = b] \in StateType
  BY DEF StateType, Proposed
<1>8. ASSUME NEW r \in Nat
      PROVE  [g EXCEPT !.rev = r] \in StateType
  BY DEF StateType, Proposed
<1>9. ASSUME NEW v \in {"approved", "rejected"}
      PROVE  [g EXCEPT !.approval = v] \in StateType
  BY DEF StateType, Proposed
<1>10. ASSUME NEW f \in [Orders -> OrderStatuses]
      PROVE  [g EXCEPT !.results = f] \in StateType
  BY DEF StateType, Proposed
<1>11. ASSUME NEW b \in BOOLEAN
      PROVE  [g EXCEPT !.fresh = b] \in StateType
  BY DEF StateType, Proposed
<1> QED BY <1>1, <1>2, <1>3, <1>4, <1>5, <1>6, <1>7, <1>8, <1>9, <1>10, <1>11

\* Only a single store: nothing written.
LEMMA NoWrites == ASSUME TypeOK PROVE <<db>> \in Seq(SafeStores) /\ <<db>> # << >>
BY StartSafe

\* The first nodes write nothing.
LEMMA AssembleContextSafe == ASSUME TypeOK, AssembleContext PROVE SafeStep
<1>1. PICK next \in {"chief_decide", "end"} :
        Perform("assemble_context", <<db>>, Go(next))
  BY DEF AssembleContext
<1>2. Go(next) \in StateType
  BY GoTyped DEF Nodes
<1> QED BY <1>1, <1>2, NoWrites, PerformIsSafeStep DEF AssembleContext

LEMMA ChiefDecideSafe == ASSUME TypeOK, ChiefDecide PROVE SafeStep
<1>1. PICK c \in {NoOrders, Requested} :
        Perform("chief_decide", <<db>>, [Go("risk_gate") EXCEPT !.content = c])
  BY DEF ChiefDecide
<1>2. [Go("risk_gate") EXCEPT !.content = c] \in StateType
  <2>1. Go("risk_gate") \in StateType /\ c \in Proposed \union {NoOrders}
    BY GoTyped DEF Nodes, Proposed
  <2> QED BY <2>1, CheckpointTyped, Zenon
<1> QED BY <1>1, <1>2, NoWrites, PerformIsSafeStep DEF ChiefDecide

LEMMA ChiefReviseSafe == ASSUME TypeOK, ChiefRevise PROVE SafeStep
<1>1. PICK c \in {NoOrders, Requested} \union Contents :
        Perform("chief_revise", <<db>>,
          [Go("risk_gate") EXCEPT !.content = c, !.approved = FALSE,
                                  !.parent = (gs.rev # 0)])
  BY DEF ChiefRevise
<1>2. [Go("risk_gate") EXCEPT !.content = c, !.approved = FALSE,
                              !.parent = (gs.rev # 0)] \in StateType
  <2>1. Go("risk_gate") \in StateType /\ c \in Proposed \union {NoOrders}
    BY GoTyped DEF Nodes, Proposed
  <2>2. FALSE \in BOOLEAN /\ (gs.rev # 0) \in BOOLEAN
    OBVIOUS
  <2> QED BY <2>1, <2>2, CheckpointTyped, Zenon
<1> QED BY <1>1, <1>2, NoWrites, PerformIsSafeStep DEF ChiefRevise

\* The risk gate, whichever way it goes.
LEMMA RiskGateSafe == ASSUME TypeOK, RiskGate PROVE SafeStep
<1> DEFINE n == gs.round + 1
<1>1. Go("persist_decision") \in StateType /\ n \in Nat /\ TRUE \in BOOLEAN /\ FALSE \in BOOLEAN
  BY GoTyped DEF Nodes, TypeOK, StateType
<1>2. Go("persist_decision").round = gs.round
  BY DEF Go, TypeOK, StateType
<1>3. CASE PassThrough
  <2> DEFINE next == [Go("persist_decision") EXCEPT !.approved = FALSE, !.round = n]
  <2>1. next \in StateType
    BY <1>1, CheckpointTyped, Zenon
  <2>2. Perform("risk_gate", <<db>>, next)
    BY <1>2, <1>3 DEF PassThrough
  <2> HIDE DEF next
  <2> QED BY <1>3, <2>1, <2>2, NoWrites, PerformIsSafeStep DEF PassThrough
<1>4. CASE RejectUnpriced
  <2> DEFINE next == [Go("persist_decision") EXCEPT !.approved = FALSE, !.round = n,
                                                    !.review = "rejected", !.normErr = TRUE]
  <2>1. next \in StateType
    BY <1>1, CheckpointTyped, Zenon
  <2>2. Perform("risk_gate", <<db>>, next)
    BY <1>2, <1>4 DEF RejectUnpriced
  <2> HIDE DEF next
  <2> QED BY <1>4, <2>1, <2>2, NoWrites, PerformIsSafeStep DEF RejectUnpriced
<1>5. ASSUME NEW c \in Contents, NEW v \in {"approved", "rejected"}, ReviewRevision(c, v)
      PROVE  SafeStep
  <2> DEFINE created  == CreateCycle(db)
             appended == AppendRevision(created, c)
             rev      == RevisionOf(appended, c)
             next     == [Go("persist_decision") EXCEPT
                            !.content = c, !.approved = (v = "approved"), !.rev = rev,
                            !.round = n, !.review = v, !.normErr = FALSE, !.fresh = TRUE]
  <2>1. db \in SafeStores /\ created \in SafeStores
    BY StartSafe, OperationsSafe
  <2>2. appended \in SafeStores /\ rev \in Nat
    BY <2>1, OperationsSafe DEF Proposed
  <2>3. <<db, created, appended>> \in Seq(SafeStores)
    BY <2>1, <2>2
  <2>4. next \in StateType
    <3>1. c \in Proposed \union {NoOrders} /\ (v = "approved") \in BOOLEAN
      BY DEF Proposed
    <3> HIDE DEF rev, n
    <3> QED BY <1>1, <2>2, <3>1, CheckpointTyped, ZenonT(30)
  <2>5. Perform("risk_gate", <<db, created, appended>>, next)
    BY <1>2, <1>5 DEF ReviewRevision
  <2> HIDE DEF created, appended, rev, next
  <2> QED BY <1>5, <2>3, <2>4, <2>5, PerformIsSafeStep DEF ReviewRevision
<1> QED BY <1>3, <1>4, <1>5 DEF RiskGate

\* The keys the graph transitions under are keys of the journal.
LEMMA KeysTyped ==
  /\ \A to \in Statuses : DefaultKey(to) \in KeyType
  /\ \A name \in Statuses \union {"price_rejected"}, rev, round \in Nat :
       Key(name, rev, round) \in KeyType
BY DEF DefaultKey, Key, KeyType

\* Closing the cycle from a safe store is a safe sequence of writes.
LEMMA CloseAfter ==
  ASSUME NEW w \in Seq(SafeStores), w # << >>, NEW d \in SafeStores,
         NEW to \in Statuses, NEW key \in KeyType
  PROVE  w \o Close(d, to, key) \in Seq(SafeStores) /\ w \o Close(d, to, key) # << >>
<1>1. Close(d, to, key) \in Seq(SafeStores)
  BY OperationsSafe
<1> HIDE DEF Close
<1> QED BY <1>1

LEMMA ManualReviewSafe == ASSUME TypeOK, ManualReview PROVE SafeStep
<1>1. "manual_review" \in Statuses /\ DefaultKey("manual_review") \in KeyType
  BY KeysTyped DEF Statuses, TerminalStatuses
<1>2. /\ <<db>> \o Close(db, "manual_review", DefaultKey("manual_review")) \in Seq(SafeStores)
      /\ <<db>> \o Close(db, "manual_review", DefaultKey("manual_review")) # << >>
  BY <1>1, NoWrites, StartSafe, CloseAfter
<1>3. Go("end") \in StateType
  BY GoTyped DEF Nodes
<1> QED BY <1>2, <1>3, PerformIsSafeStep DEF ManualReview

\* A round that is about to be persisted has been reviewed: what the risk gate
\* passed through without a review is empty or about to be superseded.
RoundReviewed ==
  gs.node = "persist_decision" /\ gs.content # NoOrders /\ gs.review = "none"
    => InputsInvalidated

\* Per-round persistence, whichever way it goes.
LEMMA PersistDecisionSafe == ASSUME TypeOK, RoundReviewed, PersistDecision PROVE SafeStep
<1>1. db \in SafeStores /\ CreateCycle(db) \in SafeStores
  BY StartSafe, OperationsSafe
<1>2. CASE Supersede
  <2> DEFINE after == Transition(db, "superseded", DefaultKey("superseded"))
             next  == [Go("end") EXCEPT !.content = NoOrders, !.approved = FALSE]
  <2>1. "superseded" \in Statuses /\ DefaultKey("superseded") \in KeyType
    BY KeysTyped DEF Statuses, TerminalStatuses
  <2>2. after \in SafeStores
    BY <1>1, <2>1, OperationsSafe
  <2>3. Go("end") \in StateType /\ NoOrders \in Proposed \union {NoOrders} /\ FALSE \in BOOLEAN
    BY GoTyped DEF Nodes
  <2>4. next \in StateType
    BY <2>3, CheckpointTyped, Zenon
  <2>5. Perform("persist_decision", <<db, after>>, next)
    BY <1>2 DEF Supersede
  <2> HIDE DEF after, next
  <2>6. <<db, after>> \in Seq(SafeStores) /\ <<db, after>> # << >>
    BY <1>1, <2>2
  <2> QED BY <1>2, <2>4, <2>5, <2>6, PerformIsSafeStep DEF Supersede
<1>3. CASE PersistEmptied
  <2>1. Go("manual_review") \in StateType
    BY GoTyped DEF Nodes
  <2>2. <<db, CreateCycle(db)>> \in Seq(SafeStores) /\ <<db, CreateCycle(db)>> # << >>
    BY <1>1
  <2> QED BY <1>3, <2>1, <2>2, PerformIsSafeStep DEF PersistEmptied
<1>4. CASE NoAction
  <2> DEFINE created == CreateCycle(db)
             writes  == <<db, created>> \o Close(created, "no_action", DefaultKey("no_action"))
  <2>1. "no_action" \in Statuses /\ DefaultKey("no_action") \in KeyType
    BY KeysTyped DEF Statuses, TerminalStatuses
  <2>2. <<db, created>> \in Seq(SafeStores) /\ <<db, created>> # << >>
    BY <1>1
  <2>3. writes \in Seq(SafeStores) /\ writes # << >>
    BY <1>1, <2>1, <2>2, CloseAfter
  <2>4. Go("end") \in StateType
    BY GoTyped DEF Nodes
  <2>5. Perform("persist_decision", writes, Go("end"))
    BY <1>4 DEF NoAction
  <2> HIDE DEF writes
  <2> QED BY <1>4, <2>3, <2>4, <2>5, PerformIsSafeStep DEF NoAction
<1>5. CASE PersistRound
  <2> DEFINE to       == IF gs.review = "approved" THEN "pending_approval" ELSE "risk_rejected"
             created  == CreateCycle(db)
             appended == AppendRevision(created, gs.content)
             rev      == RevisionOf(appended, gs.content)
             review   == [rev |-> rev, round |-> gs.round, verdict |-> gs.review]
             reviewed == IF gs.normErr THEN appended ELSE RecordReview(appended, review)
             moved    == Transition(reviewed, to, Key(to, rev, gs.round))
             next     == [Go(RouteAfterPersist) EXCEPT !.rev = rev]
  <2>1. gs.content \in Proposed /\ gs.round \in Nat
        /\ gs.review \in {"approved", "rejected"}
    BY <1>5 DEF PersistRound, Perform, At, RoundReviewed, TypeOK, StateType, Proposed
  <2>2. appended \in SafeStores /\ rev \in Nat
    BY <1>1, <2>1, OperationsSafe
  <2>3. review \in [rev : Nat, round : Nat, verdict : {"approved", "rejected"}]
    BY <2>1, <2>2
  <2>4. reviewed \in SafeStores
    <3> HIDE DEF appended, review
    <3> QED BY <2>2, <2>3, OperationsSafe
  <2>5. to \in Statuses /\ Key(to, rev, gs.round) \in KeyType
    <3> HIDE DEF rev
    <3> QED BY <2>1, <2>2, KeysTyped DEF Statuses
  <2>6. moved \in SafeStores
    <3> HIDE DEF reviewed, rev, to
    <3> QED BY <2>4, <2>5, OperationsSafe
  <2>7. next \in StateType
    <3>1. RouteAfterPersist \in Nodes
      BY DEF RouteAfterPersist, Nodes
    <3>2. Go(RouteAfterPersist) \in StateType
      BY <3>1, GoTyped
    <3> HIDE DEF rev
    <3> QED BY <2>2, <3>2, CheckpointTyped
  <2>8. Perform("persist_decision", <<db, created, appended, reviewed, moved>>, next)
    BY <1>5 DEF PersistRound
  <2> HIDE DEF created, appended, rev, reviewed, moved, next
  <2>9. <<db, created, appended, reviewed, moved>> \in Seq(SafeStores)
    BY <1>1, <2>2, <2>4, <2>6 DEF created
  <2> QED BY <1>5, <2>7, <2>8, <2>9, PerformIsSafeStep DEF PersistRound
<1> QED BY <1>2, <1>3, <1>4, <1>5 DEF PersistDecision

\* The Boss's verdict, recorded or not.
LEMMA BossReviewSafe == ASSUME TypeOK, BossReview PROVE SafeStep
<1> DEFINE decision == IF cfg.auto THEN "approved" ELSE NarrowApproval(verdict.status)
           approval == [ rev |-> gs.rev, round |-> gs.round, decision |-> decision,
                         channel |-> IF cfg.auto THEN "auto" ELSE cfg.channel,
                         card    |-> IF cfg.auto THEN CurrentCard ELSE verdict.card ]
           after    == RecordApproval(db, approval)
           next     == [Go("trader") EXCEPT !.approval = decision]
<1>1. decision \in {"approved", "rejected"}
  BY DEF NarrowApproval
<1>2. approval \in ApprovalType
  <2>1. gs.rev \in Nat /\ gs.round \in Nat /\ cfg.channel \in Channels
    BY DEF TypeOK, StateType, ConfigType
  <2>2. CurrentCard \in RowKey /\ verdict.card \in RowKey
    BY DEF TypeOK, StateType, CurrentCard, RowKey
  <2> HIDE DEF decision
  <2> QED BY <1>1, <2>1, <2>2 DEF ApprovalType
<1>3. db \in SafeStores /\ after \in SafeStores
  <2> HIDE DEF approval
  <2> QED BY <1>2, StartSafe, OperationsSafe
<1>4. next \in StateType
  <2>1. Go("trader") \in StateType
    BY GoTyped DEF Nodes
  <2> HIDE DEF decision
  <2> QED BY <1>1, <2>1, CheckpointTyped, Zenon
<1>5. PICK recorded \in BOOLEAN :
        Perform("boss_review", IF recorded THEN <<db, after>> ELSE <<db>>, next)
  BY DEF BossReview
<1> HIDE DEF after, next
<1>6. /\ (IF recorded THEN <<db, after>> ELSE <<db>>) \in Seq(SafeStores)
      /\ (IF recorded THEN <<db, after>> ELSE <<db>>) # << >>
  BY <1>3
<1> QED BY <1>4, <1>5, <1>6, PerformIsSafeStep DEF BossReview

-----------------------------------------------------------------------------
(* The trader. *)

\* The intents of orders of a numbered revision are well typed.
LEMMA IntentsTyped ==
  ASSUME NEW rev \in Nat, NEW orders \in SUBSET Orders
  PROVE  IntentsOf(rev, orders) \in SUBSET [rev : Nat, order : Orders]
BY DEF IntentsOf, Intent

\* The branches of the trader that end in a verdict on all orders.
LEMMA TraderEndsSafe == ASSUME TypeOK, TraderCancels \/ TraderRefuses PROVE SafeStep
<1>1. PICK status \in {"cancelled", "rejected"} :
        Perform("trader", <<db>>, [Go("persist") EXCEPT !.results = AllOrders(status)])
  BY DEF TraderCancels, TraderRefuses
<1>2. Go("persist") \in StateType /\ AllOrders(status) \in [Orders -> OrderStatuses]
  BY GoTyped DEF Nodes, AllOrders, OrderStatuses
<1>3. [Go("persist") EXCEPT !.results = AllOrders(status)] \in StateType
  BY <1>2, CheckpointTyped, Zenon
<1> QED BY <1>1, <1>3, NoWrites, PerformIsSafeStep DEF TraderCancels, TraderRefuses

LEMMA TraderFindsStaleSafe == ASSUME TypeOK, TraderFindsStale PROVE SafeStep
<1> DEFINE key   == Key("pending_risk", LatestRevision(db), gs.round)
           after == Transition(db, "pending_risk", key)
<1>1. "pending_risk" \in Statuses /\ key \in KeyType
  <2>1. LatestRevision(db) \in Nat /\ gs.round \in Nat
    BY DEF TypeOK, StoreType, StateType, LatestRevision
  <2> QED BY <2>1, KeysTyped DEF Statuses
<1>2. db \in SafeStores /\ after \in SafeStores
  <2> HIDE DEF key
  <2> QED BY <1>1, StartSafe, OperationsSafe
<1>3. Perform("trader", <<db, after>>, Go("risk_gate"))
  BY DEF TraderFindsStale
<1>4. Go("risk_gate") \in StateType
  BY GoTyped DEF Nodes
<1> HIDE DEF after
<1>5. <<db, after>> \in Seq(SafeStores) /\ <<db, after>> # << >>
  BY <1>2
<1> QED BY <1>3, <1>4, <1>5, PerformIsSafeStep DEF TraderFindsStale

LEMMA TraderPricedOutSafe == ASSUME TypeOK, TraderPricedOut PROVE SafeStep
<1> DEFINE saved == SaveTrades(db, IntentsOf(gs.rev, Orders), {})
           key   == Key("price_rejected", gs.rev, gs.round)
           after == Transition(saved, "pending_risk", key)
           node  == IF gs.round < MaxRounds THEN "risk_gate" ELSE "manual_review"
           next  == [Go(node) EXCEPT !.content = Requested, !.results = AllOrders("rejected")]
<1>1. "pending_risk" \in Statuses /\ key \in KeyType
  <2>1. gs.rev \in Nat /\ gs.round \in Nat
    BY DEF TypeOK, StateType
  <2> QED BY <2>1, KeysTyped DEF Statuses
<1>2. db \in SafeStores /\ saved \in SafeStores
  <2>1. gs.rev \in Nat /\ {} \in SUBSET [rev : Nat, order : Orders]
    BY DEF TypeOK, StateType
  <2>2. IntentsOf(gs.rev, Orders) \in SUBSET [rev : Nat, order : Orders]
    BY <2>1, IntentsTyped
  <2> QED BY <2>1, <2>2, StartSafe, OperationsSafe, Zenon
<1>3. after \in SafeStores
  <2> HIDE DEF saved, key
  <2> QED BY <1>1, <1>2, OperationsSafe
<1>4. next \in StateType
  <2>1. node \in Nodes
    BY DEF Nodes
  <2>2. Go(node) \in StateType
    BY <2>1, GoTyped
  <2>3. Requested \in Proposed \union {NoOrders}
        /\ AllOrders("rejected") \in [Orders -> OrderStatuses]
    BY DEF Proposed, AllOrders, OrderStatuses
  <2> HIDE DEF node
  <2> QED BY <2>2, <2>3, CheckpointTyped, Zenon
<1>5. Perform("trader", <<db, saved, after>>, next)
  BY DEF TraderPricedOut
<1> HIDE DEF saved, after, next
<1>6. <<db, saved, after>> \in Seq(SafeStores) /\ <<db, saved, after>> # << >>
  BY <1>2, <1>3
<1> QED BY <1>4, <1>5, <1>6, PerformIsSafeStep DEF TraderPricedOut

\* Submission: the broker gets intents of the current, authorized revision.
LEMMA SubmitSafe ==
  ASSUME TypeOK, NEW cut \in 1..NumOrders + 1, NEW failure \in {"rejected", "error"},
         Submit(cut, failure)
  PROVE  SafeStep
<1> DEFINE accepted == IntentsOf(gs.rev, {o \in ToSubmit : o < cut})
           failed   == {o \in ToSubmit : o >= cut}
           results  == [o \in Orders |-> IF o \in failed THEN failure ELSE "submitted"]
           next     == [Go("persist") EXCEPT !.results = results]
<1>1. gs.rev \in Nat /\ gs.rev = LatestRevision(db) /\ Authorized(db)
  BY DEF Submit, MayPlace, TypeOK, StateType
<1>2. accepted \in SUBSET [rev : Nat, order : Orders]
  BY <1>1, IntentsTyped DEF ToSubmit
<1>3. \A i \in accepted : i.rev = gs.rev
  BY DEF IntentsOf, Intent
<1>4. next \in StateType
  <2>1. Go("persist") \in StateType
    BY GoTyped DEF Nodes
  <2>2. results \in [Orders -> OrderStatuses]
    BY DEF OrderStatuses
  <2> HIDE DEF results
  <2> QED BY <2>1, <2>2, CheckpointTyped, Zenon
<1>5. db' = db /\ gs' \in StateType /\ proc' \in {"idle", "run", "resume"}
  <2>1. CASE Complete(<<db>>, next)
    BY <1>4, <2>1 DEF Complete, TypeOK
  <2>2. CASE Die(<<db>>)
    BY <2>2 DEF Die, TypeOK
  <2> HIDE DEF next
  <2> QED BY <2>1, <2>2 DEF Submit, next
<1>6. PICK reserved \in SUBSET [rev : Nat, order : Orders] :
        broker' = [ receipts |-> broker.receipts \union accepted \union reserved,
                    accepted |-> broker.accepted \union accepted ]
  <2>1. \A o \in failed : {Intent(gs.rev, o)} \in SUBSET [rev : Nat, order : Orders]
    BY <1>1 DEF Intent, ToSubmit
  <2> HIDE DEF accepted
  <2> QED BY <2>1 DEF Submit, accepted
<1>7. broker' \in [ receipts : SUBSET [rev : Nat, order : Orders],
                    accepted : SUBSET [rev : Nat, order : Orders] ]
  <2> HIDE DEF accepted
  <2> QED BY <1>2, <1>6 DEF TypeOK
<1>8. TypeOK'
  <2>1. verdict' \in [status : BossStatuses \union {"none"}, card : RowKey]
    BY DEF Submit, NoVerdict, RowKey
  <2>2. cfg' = cfg /\ cards' = cards /\ stale' = stale
    BY DEF Submit
  <2> QED BY <1>5, <1>7, <2>1, <2>2 DEF TypeOK
<1>9. \A i \in broker'.accepted \ broker.accepted : i.rev = LatestRevision(db) /\ Authorized(db)
  <2> HIDE DEF accepted
  <2> QED BY <1>1, <1>3, <1>6
<1> QED BY <1>5, <1>8, <1>9 DEF SafeStep, Grows

LEMMA TraderSafe == ASSUME TypeOK, Trader PROVE SafeStep
BY TraderEndsSafe, TraderFindsStaleSafe, TraderPricedOutSafe, SubmitSafe DEF Trader

\* Persisting the outcome.
LEMMA PersistSafe == ASSUME TypeOK, Persist PROVE SafeStep
<1> DEFINE With(statuses) == {o \in Orders : gs.results[o] \in statuses}
           saved  == SaveTrades(db, IntentsOf(gs.rev, With({"cancelled", "rejected", "error"})),
                                    IntentsOf(gs.rev, With({"submitted"})))
           key    == Key(FinalStatus, gs.rev, 0)
           writes == <<db, saved>> \o Close(saved, FinalStatus, key)
<1>1. FinalStatus \in Statuses /\ key \in KeyType
  <2>1. FinalStatus \in Statuses /\ gs.rev \in Nat
    BY DEF FinalStatus, Statuses, TerminalStatuses, TypeOK, StateType
  <2> QED BY <2>1, KeysTyped
<1>2. db \in SafeStores /\ saved \in SafeStores
  <2>1. gs.rev \in Nat
    BY DEF TypeOK, StateType
  <2>2. \A statuses :
          IntentsOf(gs.rev, With(statuses)) \in SUBSET [rev : Nat, order : Orders]
    BY <2>1, IntentsTyped
  <2> QED BY <2>2, StartSafe, OperationsSafe, Zenon
<1>3. writes \in Seq(SafeStores) /\ writes # << >>
  <2> HIDE DEF saved, key
  <2>1. <<db, saved>> \in Seq(SafeStores) /\ <<db, saved>> # << >>
    BY <1>2
  <2> QED BY <1>1, <1>2, <2>1, CloseAfter
<1>4. Go("end") \in StateType
  BY GoTyped DEF Nodes
<1>5. Perform("persist", writes, Go("end"))
  BY DEF Persist
<1> HIDE DEF writes
<1> QED BY <1>3, <1>4, <1>5, PerformIsSafeStep DEF Persist

-----------------------------------------------------------------------------
(* The processes and the world, and every step together. *)

LEMMA ProcessesSafe ==
  ASSUME TypeOK, AskBoss \/ Suspend \/ Return
  PROVE  SafeStep
<1>1. CurrentCard \in RowKey
  BY DEF TypeOK, StateType, CurrentCard, RowKey
<1>2. CASE AskBoss
  BY <1>1, <1>2 DEF AskBoss, TypeOK, SafeStep, Grows
<1>3. CASE Suspend
  BY <1>1, <1>3 DEF Suspend, TypeOK, SafeStep, Grows
<1>4. CASE Return
  BY <1>4 DEF Return, TypeOK, SafeStep, Grows
<1> QED BY <1>2, <1>3, <1>4

LEMMA CallbackSafe ==
  ASSUME TypeOK, NEW card \in cards, NEW status \in BossStatuses, Callback(card, status)
  PROVE  SafeStep
<1>1. card \in RowKey
  BY DEF TypeOK
<1>2. verdict' \in [status : BossStatuses \union {"none"}, card : RowKey]
  BY <1>1 DEF Callback, NoVerdict, RowKey
<1> QED BY <1>2 DEF Callback, TypeOK, SafeStep, Grows

LEMMA WorldSafe ==
  ASSUME TypeOK, SnapshotAges \/ ResearchMoves \/ UNCHANGED vars
  PROVE  SafeStep
<1>1. CASE SnapshotAges
  <2>1. gs' \in StateType
    <3>1. gs \in StateType /\ FALSE \in BOOLEAN
      BY DEF TypeOK
    <3>2. gs' = [gs EXCEPT !.fresh = FALSE]
      BY <1>1 DEF SnapshotAges
    <3> QED BY <3>1, <3>2, CheckpointTyped, Zenon
  <2> QED BY <1>1, <2>1 DEF SnapshotAges, TypeOK, SafeStep, Grows
<1>2. CASE ResearchMoves
  BY <1>2 DEF ResearchMoves, TypeOK, SafeStep, Grows
<1>3. CASE UNCHANGED vars
  BY <1>3 DEF vars, TypeOK, SafeStep, Grows
<1> QED BY <1>1, <1>2, <1>3

LEMMA NextSafe ==
  ASSUME TypeOK, RoundReviewed, [Next]_vars
  PROVE  SafeStep
<1>1. CASE GraphStep
  BY <1>1, AssembleContextSafe, ChiefDecideSafe, RiskGateSafe, PersistDecisionSafe,
     ChiefReviseSafe, ManualReviewSafe, BossReviewSafe, TraderSafe, PersistSafe,
     ProcessesSafe DEF GraphStep
<1>2. ASSUME NEW card \in cards, NEW status \in BossStatuses, Callback(card, status)
      PROVE  SafeStep
  BY <1>2, CallbackSafe
<1>3. CASE SnapshotAges \/ ResearchMoves \/ Rest \/ UNCHANGED vars
  BY <1>3, WorldSafe DEF Rest
<1> QED BY <1>1, <1>2, <1>3 DEF Next

-----------------------------------------------------------------------------
(* A round is reviewed before it is persisted. *)

\* No step puts an unreviewed round before persist_decision: only the risk gate
\* leads there.
LEMMA RoundReviewedStable ==
  ASSUME TypeOK, RoundReviewed, [Next]_vars
  PROVE  RoundReviewed'
<1>1. CASE RiskGate
  <2>1. CASE PassThrough
    <3> DEFINE n == gs.round + 1
               next == [Go("persist_decision") EXCEPT !.approved = FALSE, !.round = n]
    <3>1. Perform("risk_gate", <<db>>, next)
      BY <2>1 DEF PassThrough, Go, TypeOK, StateType
    <3>2. next.content = gs.content /\ next.rev = gs.rev
      BY DEF Go, TypeOK, StateType
    <3> HIDE DEF next
    <3>3. stale' = stale /\ cfg' = cfg /\ (gs' = next \/ gs' = gs)
      BY <3>1 DEF Perform, Complete, Die
    <3>4. gs.content = NoOrders \/ (cfg.decide /\ gs.rev # 0 /\ stale)
      BY <2>1 DEF PassThrough
    <3> QED BY <3>2, <3>3, <3>4 DEF RoundReviewed, InputsInvalidated
  <2>2. CASE RejectUnpriced
    <3>1. gs'.review = "rejected" \/ gs' = gs
      BY <2>2 DEF RejectUnpriced, Perform, Complete, Die, Go, TypeOK, StateType
    <3> QED BY <2>2, <3>1 DEF RejectUnpriced, Perform, RoundReviewed, InputsInvalidated
  <2>3. ASSUME NEW c \in Contents, NEW v \in {"approved", "rejected"}, ReviewRevision(c, v)
        PROVE  RoundReviewed'
    <3>1. gs'.review = v \/ gs' = gs
      BY <2>3 DEF ReviewRevision, Perform, Complete, Die, Go, TypeOK, StateType
    <3> QED BY <2>3, <3>1 DEF ReviewRevision, Perform, RoundReviewed, InputsInvalidated
  <2> QED BY <1>1, <2>1, <2>2, <2>3 DEF RiskGate
<1>2. CASE GraphStep /\ ~RiskGate
  <2>1. gs'.node # "persist_decision" \/ UNCHANGED gs
    <3>1. CASE AssembleContext \/ ChiefDecide
      BY <3>1 DEF AssembleContext, ChiefDecide, Perform, Complete, Die, Go, TypeOK, StateType
    <3>2. CASE PersistDecision
      <4>1. RouteAfterPersist # "persist_decision"
        BY DEF RouteAfterPersist
      <4>2. CASE Supersede \/ PersistEmptied \/ NoAction
        BY <4>2 DEF Supersede, PersistEmptied, NoAction,
                    Perform, Complete, Die, Go, TypeOK, StateType
      <4>3. CASE PersistRound
        <5>1. PICK rev, writes :
                Perform("persist_decision", writes, [Go(RouteAfterPersist) EXCEPT !.rev = rev])
          BY <4>3 DEF PersistRound
        <5>2. [Go(RouteAfterPersist) EXCEPT !.rev = rev].node = RouteAfterPersist
          BY DEF Go, TypeOK, StateType
        <5> QED BY <4>1, <5>1, <5>2 DEF Perform, Complete, Die
      <4> QED BY <3>2, <4>2, <4>3 DEF PersistDecision
    <3>3. CASE ChiefRevise \/ ManualReview
      BY <3>3 DEF ChiefRevise, ManualReview, Perform, Complete, Die, Go, TypeOK, StateType
    <3>4. CASE BossReview
      BY <3>4 DEF BossReview, Perform, Complete, Die, Go, TypeOK, StateType
    <3>5. CASE Trader
      <4>1. CASE TraderCancels \/ TraderRefuses \/ TraderFindsStale \/ TraderPricedOut
        BY <4>1 DEF TraderCancels, TraderRefuses, TraderFindsStale, TraderPricedOut,
           Perform, Complete, Die, Go, TypeOK, StateType
      <4>2. ASSUME NEW cut \in 1..NumOrders + 1, NEW failure \in {"rejected", "error"},
                   Submit(cut, failure)
            PROVE  gs'.node # "persist_decision" \/ UNCHANGED gs
        BY <4>2 DEF Submit, Complete, Die, Go, TypeOK, StateType
      <4> QED BY <3>5, <4>1, <4>2 DEF Trader
    <3>6. CASE Persist
      BY <3>6 DEF Persist, Perform, Complete, Die, Go, TypeOK, StateType
    <3>7. CASE AskBoss \/ Suspend \/ Return
      BY <3>7 DEF AskBoss, Suspend, Return
    <3> QED BY <1>2, <3>1, <3>2, <3>3, <3>4, <3>5, <3>6, <3>7 DEF GraphStep
  <2>2. UNCHANGED <<cfg, stale>>
    BY <1>2 DEF GraphStep, AssembleContext, ChiefDecide, PersistDecision, Supersede,
       PersistEmptied, NoAction, PersistRound, ChiefRevise, ManualReview, BossReview,
       Trader, TraderCancels, TraderRefuses, TraderFindsStale, TraderPricedOut, Submit,
       Persist, AskBoss, Suspend, Return, Perform
  <2> QED BY <2>1, <2>2 DEF RoundReviewed, InputsInvalidated
<1>3. CASE SnapshotAges
  <2>1. gs' = [gs EXCEPT !.fresh = FALSE] /\ UNCHANGED <<cfg, stale>>
    BY <1>3 DEF SnapshotAges
  <2> QED BY <2>1 DEF RoundReviewed, InputsInvalidated, TypeOK, StateType
<1>4. CASE ResearchMoves
  BY <1>4 DEF ResearchMoves, RoundReviewed, InputsInvalidated
<1>5. CASE \E card \in cards, status \in BossStatuses : Callback(card, status)
  BY <1>5 DEF Callback, RoundReviewed, InputsInvalidated
<1>6. CASE Rest \/ UNCHANGED vars
  BY <1>6 DEF Rest, vars, RoundReviewed, InputsInvalidated
<1> QED BY <1>1, <1>2, <1>3, <1>4, <1>5, <1>6 DEF Next

-----------------------------------------------------------------------------
(* The theorems. *)

LEMMA InitSafe == ASSUME Init PROVE TypeOK /\ RoundReviewed /\ OrdersTraceable
<1>1. cfg \in ConfigType /\ db \in StoreType
  BY ConstantsAssumption DEF Init, EmptyStore, StoreType, Absent
<1>2. gs \in StateType
  BY DEF Init, StateType, Nodes, AllOrders, OrderStatuses
<1>3. verdict \in [status : BossStatuses \union {"none"}, card : RowKey]
  BY DEF Init, NoVerdict, RowKey
<1>4. RoundReviewed /\ OrdersTraceable
  BY DEF Init, RoundReviewed, OrdersTraceable
<1> QED BY <1>1, <1>2, <1>3, <1>4 DEF Init, TypeOK

\* What the trader's gate checks is the trace an order needs.
LEMMA AuthorizedIsTraceable ==
  ASSUME Authorized(db)
  PROVE  \E r \in db.reviews, a \in db.approvals :
           /\ r.rev = LatestRevision(db) /\ r.verdict = "approved"
           /\ a.rev = LatestRevision(db) /\ a.decision = "approved"
           /\ r.round <= a.round
BY DEF Authorized, EffectiveReview, EffectiveApproval, LatestOf

\* An order that has its trace keeps it, and a new one has it.
LEMMA TraceableStable ==
  ASSUME TypeOK, OrdersTraceable, SafeStep
  PROVE  OrdersTraceable'
<1> SUFFICES ASSUME NEW i \in broker'.accepted
             PROVE  \E r \in db'.reviews, a \in db'.approvals :
                      /\ r.rev = i.rev /\ r.verdict = "approved"
                      /\ a.rev = i.rev /\ a.decision = "approved"
                      /\ r.round <= a.round
  BY DEF OrdersTraceable
<1>1. \E r \in db.reviews, a \in db.approvals :
        /\ r.rev = i.rev /\ r.verdict = "approved"
        /\ a.rev = i.rev /\ a.decision = "approved"
        /\ r.round <= a.round
  <2>1. CASE i \in broker.accepted
    BY <2>1 DEF OrdersTraceable
  <2>2. CASE i \notin broker.accepted
    BY <2>2, AuthorizedIsTraceable DEF SafeStep
  <2> QED BY <2>1, <2>2
<1>2. db.reviews \subseteq db'.reviews /\ db.approvals \subseteq db'.approvals
  BY DEF SafeStep, Grows
<1> QED BY <1>1, <1>2

\* The store, the checkpoint and the processes keep their types: no path through
\* the graph, no crash in the middle of a node and no callback leaves a row or a
\* checkpoint the next node cannot read.
THEOREM TypeCorrect == Spec => []TypeOK
<1>1. Init => TypeOK /\ RoundReviewed
  BY InitSafe
<1>2. TypeOK /\ RoundReviewed /\ [Next]_vars => (TypeOK /\ RoundReviewed)'
  BY NextSafe, RoundReviewedStable DEF SafeStep
<1> QED BY <1>1, <1>2, PTL DEF Spec

\* Every order at the broker joins to a passed review and to an approval of the
\* same revision (trader gate, docs/ARCHITECTURE.md 15.2), for any number of
\* contents, orders and rounds, in every kind of invocation.
THEOREM Traceable == Spec => []OrdersTraceable
<1> DEFINE IInv == TypeOK /\ RoundReviewed /\ OrdersTraceable
<1>1. Init => IInv
  BY InitSafe
<1>2. IInv /\ [Next]_vars => IInv'
  BY NextSafe, RoundReviewedStable, TraceableStable DEF SafeStep
<1> QED BY <1>1, <1>2, PTL DEF Spec
=============================================================================
