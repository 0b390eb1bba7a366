-------------------------- MODULE ChiefChainProofs --------------------------
(***************************************************************************)
(* The chain from the Chief to the broker, proved: one inductive invariant *)
(* that relates the audit store, the checkpoint and the broker, and from   *)
(* it that an interrupt was reviewed, that an approval answers a review,   *)
(* that an accepted order stays current, that a closed cycle is final, and *)
(* that ChiefCycle implements ApprovalChain.                               *)
(***************************************************************************)
EXTENDS ChiefCycleProofs

-----------------------------------------------------------------------------
(* The invariant. *)

\* The channel the approvals of an invocation are recorded under.
ApprovalChannel == IF cfg.auto THEN "auto" ELSE cfg.channel

\* What is known of the store d where the checkpoint g stands.  At
\* persist_decision a row of this round can only come from an earlier try of the
\* node, so it says what the try at hand is about to say.
AtNode(d, g) ==
  /\ g.node = "assemble_context" => d.status = Absent
  /\ g.node = "persist_decision" =>
       /\ \A r \in d.reviews : r.round = g.round => r.verdict = g.review
       /\ \A e \in d.events :
            e.name = "pending_approval" /\ e.round = g.round =>
              /\ g.review = "approved"
              /\ d.status = "pending_approval" \/ IsTerminal(d.status)
  /\ g.node = "boss_review" =>
       /\ d.status = "pending_approval"
       /\ \E r \in d.reviews : r.rev = g.rev /\ r.round = g.round /\ r.verdict = "approved"
  /\ g.node = "end" /\ cfg.execute => d.status = Absent \/ IsTerminal(d.status)

\* The side effects of closing a cycle happened at most once, and not before it.
ConsumedOnce(d) == d.consumed = 0 \/ (d.consumed = 1 /\ IsTerminal(d.status))

\* The rows of d agree with each other and with the round of the checkpoint g.
RowsAgree(d, g) ==
  /\ d.status = Absent => d.revisions = << >>
  /\ \A r \in d.reviews : r.rev \in DOMAIN d.revisions /\ r.round <= g.round
  /\ \A a \in d.approvals :
       /\ a.channel = ApprovalChannel
       /\ \E r \in d.reviews : r.rev = a.rev /\ r.round = a.round /\ r.verdict = "approved"
  /\ \A e \in d.events :
       /\ e.name \in TerminalStatuses => IsTerminal(d.status)
       /\ e.name = "pending_approval" => e.round <= g.round
  /\ ConsumedOnce(d)

Sound(d, g) == RowsAgree(d, g) /\ AtNode(d, g)

\* A process that drives the graph of a closed cycle has only to return.
DrivenIsOpen == proc # "idle" /\ IsTerminal(db.status) => gs.node = "end"

\* Nobody is asked to approve what approves itself.
AutoAsksNobody == cfg.auto => cards = {}

\* Behind an accepted order there is only the persisting of the outcome; a
\* trader that died behind one is not run again.
AcceptedIsLast ==
  broker.accepted # {} => gs.node \in {"persist", "end"} \/ (gs.node = "trader" /\ proc = "idle")

ChainInv ==
  /\ TypeOK /\ RoundReviewed
  /\ Sound(db, gs)
  /\ DrivenIsOpen /\ AutoAsksNobody
  /\ AcceptedIsLast /\ AcceptedStaysCurrent

-----------------------------------------------------------------------------
(* What the repository operations keep of a sound store. *)

\* The nodes at which nothing is claimed beyond the agreement of the rows.
PlainNodes == Nodes \ {"assemble_context", "persist_decision", "boss_review", "end"}

WritingNodes == PlainNodes \union {"persist_decision"}

\* A store after creating the cycle is sound, and has one.
LEMMA CreateCycleSound ==
  ASSUME NEW d \in StoreType, NEW g \in StateType, Sound(d, g), g.node \in WritingNodes
  PROVE  Sound(CreateCycle(d), g) /\ CreateCycle(d).status # Absent
BY DEF CreateCycle, StoreType, StateType, Sound, RowsAgree, AtNode, WritingNodes, PlainNodes,
       Absent, IsTerminal, TerminalStatuses, ConsumedOnce

\* A new revision leaves the rows of the others alone, and has a number.
LEMMA AppendRevisionSound ==
  ASSUME NEW d \in StoreType, NEW g \in StateType, Sound(d, g), d.status # Absent,
         NEW c \in Proposed
  PROVE  /\ Sound(AppendRevision(d, c), g)
         /\ RevisionOf(AppendRevision(d, c), c) \in DOMAIN AppendRevision(d, c).revisions
<1> DEFINE e == AppendRevision(d, c)
<1>1. d.revisions \in Seq(Proposed)
  BY DEF StoreType, Proposed
<1>2. e.revisions = d.revisions \/ e.revisions = Append(d.revisions, c)
  BY DEF AppendRevision, StoreType
<1>3. DOMAIN d.revisions \subseteq DOMAIN e.revisions
  BY <1>1, <1>2
<1>4. /\ e.status = d.status /\ e.reviews = d.reviews
      /\ e.approvals = d.approvals /\ e.events = d.events /\ e.consumed = d.consumed
  BY DEF AppendRevision, StoreType
<1>5. Sound(e, g)
  <2> HIDE DEF e
  <2> QED BY <1>3, <1>4 DEF Sound, RowsAgree, AtNode, ConsumedOnce
<1>6. HasRevision(e, c)
  <2>1. CASE HasRevision(d, c)
    BY <2>1 DEF AppendRevision
  <2>2. CASE ~HasRevision(d, c)
    <3>1. e.revisions = Append(d.revisions, c)
      BY <2>2 DEF AppendRevision, StoreType
    <3>2. Len(d.revisions) + 1 \in DOMAIN e.revisions /\ e.revisions[Len(d.revisions) + 1] = c
      BY <1>1, <3>1
    <3> QED BY <3>2 DEF HasRevision
  <2> QED BY <2>1, <2>2
<1>7. RevisionOf(e, c) \in DOMAIN e.revisions
  BY <1>6 DEF HasRevision, RevisionOf
<1> QED BY <1>5, <1>7

\* The review of this round, which answers an earlier try of its own node or
\* nothing, is there afterwards with the verdict of the checkpoint.
LEMMA RecordReviewSound ==
  ASSUME NEW d \in StoreType, NEW g \in StateType, Sound(d, g), g.node = "persist_decision",
         g.review \in {"approved", "rejected"}, NEW rev \in DOMAIN d.revisions,
         NEW r, r = [rev |-> rev, round |-> g.round, verdict |-> g.review]
  PROVE  /\ Sound(RecordReview(d, r), g)
         /\ RecordReview(d, r).status = d.status
         /\ \E s \in RecordReview(d, r).reviews :
              s.rev = rev /\ s.round = g.round /\ s.verdict = g.review
<1> DEFINE e == RecordReview(d, r)
<1>1. r.rev = rev /\ r.round = g.round /\ r.verdict = g.review
  OBVIOUS
<1>2. CASE \E s \in d.reviews : s.rev = r.rev /\ s.round = r.round
  <2>1. e = d
    BY <1>2 DEF RecordReview
  <2> QED BY <1>1, <1>2, <2>1 DEF Sound, AtNode
<1>3. CASE ~\E s \in d.reviews : s.rev = r.rev /\ s.round = r.round
  <2>1. e = [d EXCEPT !.reviews = d.reviews \union {r}]
    BY <1>3 DEF RecordReview
  <2>2. /\ e.reviews = d.reviews \union {r} /\ e.status = d.status
        /\ e.revisions = d.revisions /\ e.approvals = d.approvals /\ e.events = d.events
        /\ e.consumed = d.consumed
    BY <2>1 DEF StoreType
  <2>3. g.round \in Nat
    BY DEF StateType
  <2> HIDE DEF e
  <2>4. RowsAgree(e, g)
    BY <1>1, <2>2, <2>3 DEF Sound, RowsAgree, ConsumedOnce
  <2>5. AtNode(e, g)
    BY <1>1, <2>2 DEF Sound, AtNode
  <2>6. Sound(e, g) /\ r \in e.reviews /\ e.status = d.status
    BY <2>2, <2>4, <2>5 DEF Sound
  <2> QED BY <1>1, <2>6 DEF e
<1> QED BY <1>2, <1>3

\* A transition away from an open status: what it writes of the journal is its
\* key, and of the cycle its target.
LEMMA TransitionWrites ==
  ASSUME NEW d \in StoreType, NEW to \in Statuses, NEW key \in KeyType
  PROVE  LET e == Transition(d, to, key) IN
         /\ e.revisions = d.revisions /\ e.reviews = d.reviews /\ e.approvals = d.approvals
         /\ e.consumed = d.consumed
         /\ \/ e.status = to /\ e.events = d.events \union {key}
               /\ d.status # Absent /\ (d.status = to \/ ~IsTerminal(d.status))
            \/ e.status = d.status /\ e.events = d.events
               /\ (d.status = Absent \/ IsTerminal(d.status) \/ key \in d.events)
BY DEF Transition, Changes, StoreType, Statuses, TerminalStatuses, Absent

\* The rows the execution gate reads are the same in both stores.
SameAudit(d, e) ==
  e.revisions = d.revisions /\ e.reviews = d.reviews /\ e.approvals = d.approvals

\* The table of trades is no part of what is sound.
LEMMA SameRowsSound ==
  ASSUME NEW d, NEW e, NEW g, Sound(d, g),
         SameAudit(d, e), e.status = d.status, e.events = d.events, ConsumedOnce(e)
  PROVE  Sound(e, g)
BY DEF Sound, RowsAgree, AtNode, SameAudit

\* A closing transition ends in a terminal status, or finds no cycle: a terminal
\* key in the journal means that the cycle was closed before.
LEMMA CloseSound ==
  ASSUME NEW d \in StoreType, NEW g \in StateType, Sound(d, g), g.node \in WritingNodes,
         NEW to \in TerminalStatuses, NEW key \in KeyType, key.name = to,
         NEW e, e = Transition(d, to, key)
  PROVE  /\ Sound(e, g) /\ SameAudit(d, e) /\ (e.status = Absent \/ IsTerminal(e.status))
         /\ e.consumed = d.consumed
<1>1. to \in Statuses /\ IsTerminal(to)
  BY DEF Statuses, IsTerminal
<1>2. SameAudit(d, e) /\ e.consumed = d.consumed
  BY <1>1, TransitionWrites DEF SameAudit
<1>3. CASE /\ e.status = to /\ e.events = d.events \union {key}
           /\ d.status # Absent
  <2>1. RowsAgree(e, g)
    BY <1>1, <1>2, <1>3 DEF Sound, RowsAgree, SameAudit, TerminalStatuses, Absent, ConsumedOnce
  <2>2. AtNode(e, g)
    BY <1>1, <1>2, <1>3 DEF Sound, AtNode, SameAudit, WritingNodes, PlainNodes, TerminalStatuses
  <2> QED BY <1>1, <1>2, <1>3, <2>1, <2>2 DEF Sound
<1>4. CASE /\ e.status = d.status /\ e.events = d.events
           /\ (d.status = Absent \/ IsTerminal(d.status) \/ key \in d.events)
  <2>1. d.status = Absent \/ IsTerminal(d.status)
    BY <1>4 DEF Sound, RowsAgree
  <2>2. ConsumedOnce(e)
    BY <1>2, <1>4 DEF Sound, RowsAgree, ConsumedOnce
  <2> QED BY <1>2, <1>4, <2>1, <2>2, SameRowsSound
<1> QED BY <1>1, <1>2, <1>3, <1>4, TransitionWrites

\* So do the two transactions that close a cycle.
LEMMA CloseWritesSound ==
  ASSUME NEW d \in StoreType, NEW g \in StateType, Sound(d, g), g.node \in WritingNodes,
         NEW to \in TerminalStatuses, NEW key \in KeyType, key.name = to
  PROVE  \E t, e :
           /\ Close(d, to, key) = <<t, e>>
           /\ \A w \in {t, e} : /\ w \in StoreType /\ Sound(w, g) /\ SameAudit(d, w)
                                /\ w.status = Absent \/ IsTerminal(w.status)
<1> DEFINE t == Transition(d, to, key)
           e == Consume(d, t, to, key)
<1>1. /\ t \in StoreType /\ Sound(t, g) /\ SameAudit(d, t)
      /\ t.status = Absent \/ IsTerminal(t.status)
      /\ t.consumed = d.consumed
  <2>1. to \in Statuses
    BY DEF Statuses
  <2> QED BY <2>1, TransitionSafe, CloseSound
<1>2. \/ e = t
      \/ /\ e = [t EXCEPT !.consumed = t.consumed + 1]
         /\ ~IsTerminal(d.status) /\ t.status # Absent
  BY DEF Consume, Changes, Transition, StoreType, TerminalStatuses, Absent
<1>3. Close(d, to, key) = <<t, e>>
  BY DEF Close
<1> HIDE DEF t, e
<1>4. e \in StoreType /\ SameAudit(t, e) /\ e.status = t.status /\ e.events = t.events
  BY <1>1, <1>2 DEF StoreType, SameAudit
<1>5. ConsumedOnce(e)
  <2>1. CASE e = t
    BY <1>1, <2>1 DEF Sound, RowsAgree
  <2>2. CASE e # t
    <3>1. d.consumed = 0
      BY <1>2, <2>2 DEF Sound, RowsAgree, ConsumedOnce
    <3>2. e.consumed = 1 /\ IsTerminal(e.status)
      BY <1>1, <1>2, <1>4, <2>2, <3>1 DEF StoreType
    <3> QED BY <3>2 DEF ConsumedOnce
  <2> QED BY <2>1, <2>2
<1>6. Sound(e, g) /\ SameAudit(d, e) /\ (e.status = Absent \/ IsTerminal(e.status))
  BY <1>1, <1>4, <1>5, SameRowsSound DEF SameAudit
<1> QED BY <1>1, <1>3, <1>4, <1>6

-----------------------------------------------------------------------------
(* Where a checkpoint may move while the store is sound. *)

\* To a node of no claims, in the same round.
LEMMA MoveSound ==
  ASSUME NEW d \in StoreType, NEW g \in StateType, NEW h, Sound(d, g),
         h.round = g.round, h.node \in PlainNodes
  PROVE  Sound(d, h)
BY DEF Sound, RowsAgree, AtNode, PlainNodes

\* To the end, when the cycle is closed, was never opened, or was not to be executed.
LEMMA EndSound ==
  ASSUME NEW d \in StoreType, NEW g \in StateType, NEW h, Sound(d, g),
         h.round = g.round, h.node = "end",
         ~cfg.execute \/ d.status = Absent \/ IsTerminal(d.status)
  PROVE  Sound(d, h)
BY DEF Sound, RowsAgree, AtNode

\* Into the persisting of a new round, of which there are no rows yet.
LEMMA NextRoundSound ==
  ASSUME NEW d \in StoreType, NEW g \in StateType, NEW h, Sound(d, g),
         h.round = g.round + 1, h.node = "persist_decision"
  PROVE  Sound(d, h)
<1>1. /\ \A r \in d.reviews : r.round \in Nat
      /\ \A e \in d.events : e.round \in Nat
      /\ g.round \in Nat
  BY DEF StoreType, StateType
<1>2. RowsAgree(d, h)
  BY <1>1 DEF Sound, RowsAgree
<1>3. AtNode(d, h)
  BY <1>1 DEF Sound, RowsAgree, AtNode
<1> QED BY <1>2, <1>3 DEF Sound

-----------------------------------------------------------------------------
(* A step of the graph.  The stores a node passes through are sound where the
   checkpoint stands, and a store that closes the cycle changes nothing else. *)

SoundStores ==
  {d \in StoreType : Sound(d, gs) /\ (IsTerminal(d.status) => SameAudit(db, d))}

ChainStep ==
  /\ Sound(db', gs')
  /\ DrivenIsOpen'
  /\ IsTerminal(db'.status) => SameAudit(db, db')

\* A node that has work to do finds the cycle open, and a sound store.
LEMMA NodeIsOpen ==
  ASSUME ChainInv, NEW node, node # "end", At(node)
  PROVE  ~IsTerminal(db.status) /\ db \in SoundStores
BY DEF ChainInv, DrivenIsOpen, At, SoundStores, TypeOK

\* A node with sound writes and a sound end is a step of the chain, wherever it
\* dies.
LEMMA PerformChains ==
  ASSUME ChainInv, NEW node, NEW writes \in Seq(SoundStores), writes # << >>, NEW next,
         Sound(writes[Len(writes)], next),
         IsTerminal(writes[Len(writes)].status) => next.node = "end",
         Perform(node, writes, next)
  PROVE  ChainStep
<1>1. CASE Complete(writes, next)
  <2>1. db' = writes[Len(writes)] /\ gs' = next
    BY <1>1 DEF Complete
  <2>2. writes[Len(writes)] \in SoundStores
    OBVIOUS
  <2> QED BY <2>1, <2>2 DEF ChainStep, SoundStores, DrivenIsOpen
<1>2. CASE Die(writes)
  BY <1>2 DEF Die, ChainStep, SoundStores, DrivenIsOpen
<1> QED BY <1>1, <1>2 DEF Perform

\* The case of a node that writes nothing.
LEMMA SilentChains ==
  ASSUME ChainInv, NEW node, node # "end", NEW next, Sound(db, next),
         Perform(node, <<db>>, next)
  PROVE  ChainStep
<1>1. ~IsTerminal(db.status) /\ <<db>> \in Seq(SoundStores)
  BY NodeIsOpen DEF Perform
<1> QED BY <1>1, PerformChains

\* The checkpoint a node ends with, but for what it assigns.
LEMMA GoFields ==
  ASSUME TypeOK, NEW node \in Nodes
  PROVE  /\ Go(node) \in StateType /\ Go(node).node = node
         /\ Go(node).round = gs.round /\ Go(node).rev = gs.rev /\ Go(node).review = gs.review
BY DEF TypeOK, StateType, Go

\* A node that writes nothing and goes on to a node of no claims.
LEMMA SilentMoves ==
  ASSUME ChainInv, NEW node, node # "end", NEW next,
         next.round = gs.round, next.node \in PlainNodes, Perform(node, <<db>>, next)
  PROVE  ChainStep
<1>1. db \in StoreType /\ gs \in StateType /\ Sound(db, gs)
  BY DEF ChainInv, TypeOK
<1>2. Sound(db, next)
  BY <1>1, MoveSound
<1> QED BY <1>2, SilentChains

LEMMA AssembleContextChains == ASSUME ChainInv, AssembleContext PROVE ChainStep
<1>1. PICK next \in {"chief_decide", "end"} :
        Perform("assemble_context", <<db>>, Go(next))
  BY DEF AssembleContext
<1>2. TypeOK /\ db \in StoreType /\ gs \in StateType /\ Sound(db, gs)
  BY DEF ChainInv, TypeOK
<1>3. next \in Nodes
  BY DEF Nodes
<1>4. /\ Go(next).node = next /\ Go(next).round = gs.round
  BY <1>2, <1>3, GoFields
<1>5. db.status = Absent
  BY <1>1, <1>2 DEF Perform, At, Sound, AtNode
<1>6. Sound(db, Go(next))
  <2>1. CASE next = "end"
    BY <1>2, <1>4, <1>5, <2>1, EndSound
  <2>2. CASE next = "chief_decide"
    BY <1>2, <1>4, <2>2, MoveSound DEF PlainNodes, Nodes
  <2> QED BY <2>1, <2>2
<1> QED BY <1>1, <1>6, SilentChains

LEMMA ChiefDecideChains == ASSUME ChainInv, ChiefDecide PROVE ChainStep
<1>1. PICK c : Perform("chief_decide", <<db>>, [Go("risk_gate") EXCEPT !.content = c])
  BY DEF ChiefDecide
<1> DEFINE next == [Go("risk_gate") EXCEPT !.content = c]
<1>2. next.round = gs.round /\ next.node = "risk_gate"
  BY GoFields DEF ChainInv, Nodes, StateType
<1> HIDE DEF next
<1> QED BY <1>1, <1>2, SilentMoves DEF next, PlainNodes, Nodes

LEMMA ChiefReviseChains == ASSUME ChainInv, ChiefRevise PROVE ChainStep
<1>1. PICK c : Perform("chief_revise", <<db>>,
          [Go("risk_gate") EXCEPT !.content = c, !.approved = FALSE, !.parent = (gs.rev # 0)])
  BY DEF ChiefRevise
<1> DEFINE next == [Go("risk_gate") EXCEPT !.content = c, !.approved = FALSE,
                                           !.parent = (gs.rev # 0)]
<1>2. next.round = gs.round /\ next.node = "risk_gate"
  BY GoFields DEF ChainInv, Nodes, StateType
<1> HIDE DEF next
<1> QED BY <1>1, <1>2, SilentMoves DEF next, PlainNodes, Nodes

\* Every way through the risk gate begins a round.
LEMMA RiskGateChains == ASSUME ChainInv, RiskGate PROVE ChainStep
<1>1. TypeOK /\ db \in StoreType /\ gs \in StateType /\ Sound(db, gs)
  BY DEF ChainInv, TypeOK
<1>2. /\ Go("persist_decision") \in StateType
      /\ Go("persist_decision").node = "persist_decision"
      /\ Go("persist_decision").round = gs.round
  BY <1>1, GoFields DEF Nodes
<1>3. CASE PassThrough \/ RejectUnpriced
  <2>1. PICK next : /\ next.node = "persist_decision" /\ next.round = gs.round + 1
                    /\ Perform("risk_gate", <<db>>, next)
    BY <1>2, <1>3 DEF PassThrough, RejectUnpriced, StateType
  <2>2. Sound(db, next)
    BY <1>1, <2>1, NextRoundSound
  <2> QED BY <2>1, <2>2, SilentChains
<1>4. ASSUME NEW c \in Contents, NEW v \in {"approved", "rejected"}, ReviewRevision(c, v)
      PROVE  ChainStep
  <2> DEFINE created  == CreateCycle(db)
             appended == AppendRevision(created, c)
             next     == [Go("persist_decision") EXCEPT
                            !.content = c, !.approved = (v = "approved"),
                            !.rev = RevisionOf(appended, c),
                            !.round = @ + 1, !.review = v, !.normErr = FALSE, !.fresh = TRUE]
  <2>1. Perform("risk_gate", <<db, created, appended>>, next)
    BY <1>2, <1>4 DEF ReviewRevision
  <2>2. next.node = "persist_decision" /\ next.round = gs.round + 1
    BY <1>2 DEF StateType
  <2>3. gs.node \in WritingNodes
    BY <2>1 DEF Perform, At, WritingNodes, PlainNodes, Nodes
  <2>4. created \in StoreType /\ Sound(created, gs) /\ created.status # Absent
    BY <1>1, <2>3, CreateCycleSound, CreateCycleSafe
  <2>5. appended \in StoreType /\ Sound(appended, gs)
    BY <1>1, <2>4, AppendRevisionSafe, AppendRevisionSound DEF Proposed
  <2>6. db \in SoundStores /\ ~IsTerminal(db.status)
    BY <2>1, NodeIsOpen DEF Perform
  <2>7. ~IsTerminal(created.status) /\ appended.status = created.status
    BY <2>6 DEF CreateCycle, AppendRevision, StoreType, IsTerminal, TerminalStatuses
  <2> HIDE DEF created, appended, next
  <2>8. Sound(appended, next)
    BY <1>1, <2>2, <2>5, NextRoundSound
  <2>9. <<db, created, appended>> \in Seq(SoundStores)
    BY <2>4, <2>5, <2>6, <2>7 DEF SoundStores
  <2> QED BY <2>1, <2>7, <2>8, <2>9, PerformChains
<1> QED BY <1>3, <1>4 DEF RiskGate, ChainInv

\* A node whose last writes close the cycle and that ends there.
LEMMA ClosingChains ==
  ASSUME ChainInv, NEW node, node # "end", gs.node \in WritingNodes,
         NEW before \in Seq(SoundStores), before # << >>,
         NEW d \in SoundStores, SameAudit(db, d),
         NEW to \in TerminalStatuses, NEW key \in KeyType, key.name = to,
         NEW next, next.round = gs.round, next.node = "end",
         Perform(node, before \o Close(d, to, key), next)
  PROVE  ChainStep
<1>1. gs \in StateType /\ d \in StoreType /\ Sound(d, gs)
  BY DEF ChainInv, TypeOK, SoundStores
<1>2. PICK t, e :
        /\ Close(d, to, key) = <<t, e>>
        /\ \A w \in {t, e} : /\ w \in StoreType /\ Sound(w, gs) /\ SameAudit(d, w)
                             /\ w.status = Absent \/ IsTerminal(w.status)
  BY <1>1, CloseWritesSound
<1>3. t \in SoundStores /\ e \in SoundStores
  BY <1>2 DEF SoundStores, SameAudit
<1> DEFINE writes == before \o <<t, e>>
<1>4. writes \in Seq(SoundStores) /\ writes # << >> /\ writes[Len(writes)] = e
  BY <1>3
<1>5. Sound(e, next)
  BY <1>1, <1>2, EndSound
<1>6. Perform(node, writes, next)
  BY <1>2
<1> HIDE DEF writes
<1> QED BY <1>4, <1>5, <1>6, PerformChains

LEMMA ManualReviewChains == ASSUME ChainInv, ManualReview PROVE ChainStep
<1> DEFINE key == DefaultKey("manual_review")
<1>1. Perform("manual_review", <<db>> \o Close(db, "manual_review", key), Go("end"))
  BY DEF ManualReview
<1>2. "manual_review" \in TerminalStatuses /\ key \in KeyType /\ key.name = "manual_review"
  <2>1. "manual_review" \in TerminalStatuses /\ "manual_review" \in Statuses
    BY DEF TerminalStatuses, Statuses
  <2> QED BY <2>1, KeysTyped DEF DefaultKey, Key
<1>3. db \in SoundStores /\ SameAudit(db, db)
  BY <1>1, NodeIsOpen DEF Perform, SameAudit
<1>4. gs.node \in WritingNodes
  BY <1>1 DEF Perform, At, WritingNodes, PlainNodes, Nodes
<1>5. Go("end").round = gs.round /\ Go("end").node = "end"
  BY GoFields DEF ChainInv, Nodes
<1>6. <<db>> \in Seq(SoundStores) /\ <<db>> # << >>
  BY <1>3
<1> HIDE DEF key
<1> QED BY <1>1, <1>2, <1>3, <1>4, <1>5, <1>6, ClosingChains

\* Per-round persistence that closes the cycle, or hands an emptied proposal over.
LEMMA PersistEmptyChains ==
  ASSUME ChainInv, Supersede \/ PersistEmptied \/ NoAction
  PROVE  ChainStep
<1>1. At("persist_decision") /\ gs.node = "persist_decision" /\ gs.node \in WritingNodes
  BY DEF Supersede, PersistEmptied, NoAction, Perform, At, WritingNodes
<1>2. TypeOK /\ db \in StoreType /\ gs \in StateType /\ Sound(db, gs)
  BY DEF ChainInv, TypeOK
<1>3. db \in SoundStores /\ ~IsTerminal(db.status)
  BY <1>1, NodeIsOpen
<1> DEFINE created == CreateCycle(db)
<1>4. created \in SoundStores /\ SameAudit(db, created) /\ ~IsTerminal(created.status)
  <2>1. created \in StoreType /\ Sound(created, gs)
    BY <1>1, <1>2, CreateCycleSafe, CreateCycleSound
  <2>2. SameAudit(db, created) /\ ~IsTerminal(created.status)
    BY <1>2, <1>3 DEF CreateCycle, StoreType, SameAudit, IsTerminal, TerminalStatuses
  <2> QED BY <2>1, <2>2 DEF SoundStores
<1>5. \A node \in {"end", "manual_review"} :
        Go(node) \in StateType /\ Go(node).node = node /\ Go(node).round = gs.round
  BY <1>2, GoFields DEF Nodes
<1>6. CASE Supersede
  <2> DEFINE key   == DefaultKey("superseded")
             after == Transition(db, "superseded", key)
             next  == [Go("end") EXCEPT !.content = NoOrders, !.approved = FALSE]
  <2>1. /\ "superseded" \in TerminalStatuses /\ "superseded" \in Statuses
        /\ key \in KeyType /\ key.name = "superseded"
    <3>1. "superseded" \in TerminalStatuses /\ "superseded" \in Statuses
      BY DEF TerminalStatuses, Statuses
    <3> QED BY <3>1, KeysTyped DEF DefaultKey, Key
  <2>2. after \in StoreType
    BY <1>2, <2>1, TransitionSafe
  <2>3. Sound(after, gs) /\ SameAudit(db, after) /\ (after.status = Absent \/ IsTerminal(after.status))
    BY <1>1, <1>2, <2>1, CloseSound
  <2>4. next.node = "end" /\ next.round = gs.round
    BY <1>5 DEF StateType
  <2>5. Perform("persist_decision", <<db, after>>, next)
    BY <1>6 DEF Supersede
  <2> HIDE DEF after, next
  <2>6. Sound(after, next)
    BY <1>2, <2>2, <2>3, <2>4, EndSound
  <2>7. <<db, after>> \in Seq(SoundStores)
    BY <1>3, <2>2, <2>3 DEF SoundStores
  <2> QED BY <2>4, <2>5, <2>6, <2>7, PerformChains
<1>7. CASE PersistEmptied
  <2>1. Perform("persist_decision", <<db, created>>, Go("manual_review"))
    BY <1>7 DEF PersistEmptied
  <2> HIDE DEF created
  <2>2. created \in StoreType /\ Sound(created, gs)
    BY <1>4 DEF SoundStores
  <2>3. Sound(created, Go("manual_review"))
    BY <1>2, <1>5, <2>2, MoveSound DEF PlainNodes, Nodes
  <2>4. <<db, created>> \in Seq(SoundStores)
    BY <1>3, <1>4
  <2> QED BY <1>4, <2>1, <2>3, <2>4, PerformChains
<1>8. CASE NoAction
  <2> DEFINE key == DefaultKey("no_action")
  <2>1. "no_action" \in TerminalStatuses /\ key \in KeyType /\ key.name = "no_action"
    <3>1. "no_action" \in TerminalStatuses /\ "no_action" \in Statuses
      BY DEF TerminalStatuses, Statuses
    <3> QED BY <3>1, KeysTyped DEF DefaultKey, Key
  <2>2. Perform("persist_decision", <<db, created>> \o Close(created, "no_action", key), Go("end"))
    BY <1>8 DEF NoAction
  <2> HIDE DEF created, key
  <2>3. <<db, created>> \in Seq(SoundStores) /\ <<db, created>> # << >>
    BY <1>3, <1>4
  <2> QED BY <1>1, <1>4, <1>5, <2>1, <2>2, <2>3, ClosingChains
<1> QED BY <1>6, <1>7, <1>8

\* The transition that ends a round gives the cycle the status the round leads to.
LEMMA RoundTransition ==
  ASSUME NEW d \in StoreType, NEW g \in StateType, Sound(d, g), g.node = "persist_decision",
         d.status # Absent, ~IsTerminal(d.status), NEW rev \in Nat,
         NEW to, to = IF g.review = "approved" THEN "pending_approval" ELSE "risk_rejected",
         NEW e, e = Transition(d, to, Key(to, rev, g.round))
  PROVE  /\ e \in StoreType /\ Sound(e, g) /\ ~IsTerminal(e.status)
         /\ e.reviews = d.reviews
         /\ g.review = "approved" => e.status = "pending_approval"
<1> DEFINE key == Key(to, rev, g.round)
<1>1. to \in Statuses \ TerminalStatuses
  BY DEF Statuses, TerminalStatuses
<1>2. key \in KeyType /\ key.name = to /\ key.round = g.round
  BY <1>1, KeysTyped DEF Key, StateType
<1>3. e \in StoreType
  BY <1>1, <1>2, TransitionSafe
<1> HIDE DEF key
<1>4. /\ SameAudit(d, e) /\ e.consumed = d.consumed
      /\ \/ e.status = to /\ e.events = d.events \union {key}
         \/ e.status = d.status /\ e.events = d.events /\ key \in d.events
  BY <1>1, <1>2, TransitionWrites DEF SameAudit, key
<1>5. ~IsTerminal(e.status)
  BY <1>1, <1>4 DEF IsTerminal
<1>6. g.review = "approved" => e.status = "pending_approval"
  BY <1>2, <1>4 DEF Sound, AtNode
<1>7. RowsAgree(e, g)
  <2>1. g.round \in Nat /\ e.status # Absent
    BY <1>1, <1>4 DEF StateType, Statuses, Absent, TerminalStatuses
  <2> QED BY <1>1, <1>2, <1>4, <1>5, <2>1 DEF Sound, RowsAgree, SameAudit, ConsumedOnce
<1>8. AtNode(e, g)
  <2>1. \A x \in e.events : x.name = "pending_approval" /\ x.round = g.round =>
          g.review = "approved"
    BY <1>2, <1>4 DEF Sound, AtNode
  <2> QED BY <1>4, <1>6, <2>1 DEF Sound, AtNode, SameAudit
<1> QED BY <1>3, <1>4, <1>5, <1>6, <1>7, <1>8 DEF Sound, SameAudit

\* The revision, the review and the status of a round; a cycle that goes on to
\* the interrupt carries the passed review of this round.
LEMMA PersistRoundChains == ASSUME ChainInv, PersistRound PROVE ChainStep
<1> DEFINE to       == IF gs.review = "approved" THEN "pending_approval" ELSE "risk_rejected"
           created  == CreateCycle(db)
           appended == AppendRevision(created, gs.content)
           rev      == RevisionOf(appended, gs.content)
           review   == [rev |-> rev, round |-> gs.round, verdict |-> gs.review]
           reviewed == IF gs.normErr THEN appended ELSE RecordReview(appended, review)
           moved    == Transition(reviewed, to, Key(to, rev, gs.round))
           next     == [Go(RouteAfterPersist) EXCEPT !.rev = rev]
           writes   == <<db, created, appended, reviewed, moved>>
<1>1. Perform("persist_decision", writes, next)
  BY DEF PersistRound
<1>2. TypeOK /\ RoundReviewed /\ db \in StoreType /\ gs \in StateType /\ Sound(db, gs)
  BY DEF ChainInv, TypeOK
<1>3. gs.node = "persist_decision" /\ gs.node \in WritingNodes
  BY <1>1 DEF Perform, At, WritingNodes
<1>4. db \in SoundStores /\ ~IsTerminal(db.status)
  BY <1>1, NodeIsOpen DEF Perform
<1>5. gs.content \in Proposed /\ gs.review \in {"approved", "rejected"}
  BY <1>2, <1>3 DEF PersistRound, RoundReviewed, StateType, Proposed
<1>6. /\ created \in StoreType /\ Sound(created, gs)
      /\ created.status # Absent /\ ~IsTerminal(created.status)
  <2>1. created \in StoreType /\ Sound(created, gs) /\ created.status # Absent
    BY <1>2, <1>3, CreateCycleSafe, CreateCycleSound
  <2>2. ~IsTerminal(created.status)
    BY <1>2, <1>4 DEF CreateCycle, StoreType, IsTerminal, TerminalStatuses
  <2> QED BY <2>1, <2>2
<1>7. /\ appended \in StoreType /\ Sound(appended, gs)
      /\ appended.status = created.status /\ rev \in DOMAIN appended.revisions /\ rev \in Nat
  <2> HIDE DEF created
  <2>1. appended.status = created.status
    BY <1>6 DEF AppendRevision, StoreType
  <2> QED BY <1>2, <1>5, <1>6, <2>1, AppendRevisionSafe, AppendRevisionSound
<1> HIDE DEF created, appended, rev
<1>8. /\ reviewed \in StoreType /\ Sound(reviewed, gs) /\ reviewed.status = appended.status
      /\ gs.normErr \/ \E s \in reviewed.reviews :
                          s.rev = rev /\ s.round = gs.round /\ s.verdict = gs.review
  <2>1. CASE gs.normErr
    BY <1>7, <2>1
  <2>2. CASE ~gs.normErr
    <3>1. review \in [rev : Nat, round : Nat, verdict : {"approved", "rejected"}]
      BY <1>2, <1>5, <1>7 DEF StateType
    <3>2. reviewed = RecordReview(appended, review)
      BY <2>2
    <3>3. reviewed \in StoreType
      BY <1>7, <3>1, <3>2, RecordReviewSafe
    <3> QED BY <1>2, <1>3, <1>5, <1>7, <3>2, <3>3, RecordReviewSound
  <2> QED BY <2>1, <2>2
<1> HIDE DEF reviewed
<1>9. /\ moved \in StoreType /\ Sound(moved, gs) /\ ~IsTerminal(moved.status)
      /\ moved.reviews = reviewed.reviews
      /\ gs.review = "approved" => moved.status = "pending_approval"
  BY <1>2, <1>3, <1>6, <1>7, <1>8, RoundTransition
<1> HIDE DEF moved
<1>10. /\ next.node = RouteAfterPersist /\ next.rev = rev /\ next.round = gs.round
       /\ RouteAfterPersist \in {"end", "manual_review", "boss_review", "chief_revise"}
  <2>1. RouteAfterPersist \in {"end", "manual_review", "boss_review", "chief_revise"}
    BY DEF RouteAfterPersist
  <2>2. /\ Go(RouteAfterPersist) \in StateType /\ Go(RouteAfterPersist).node = RouteAfterPersist
        /\ Go(RouteAfterPersist).round = gs.round
    BY <1>2, <2>1, GoFields DEF Nodes
  <2> QED BY <2>1, <2>2 DEF StateType
<1> HIDE DEF next
<1>11. Sound(moved, next)
  <2>1. CASE next.node = "end"
    <3>1. ~cfg.execute
      BY <1>10, <2>1 DEF RouteAfterPersist
    <3> QED BY <1>2, <1>9, <1>10, <2>1, <3>1, EndSound
  <2>2. CASE next.node \in {"manual_review", "chief_revise"}
    <3>1. next.node \in PlainNodes
      BY <2>2 DEF PlainNodes, Nodes
    <3> QED BY <1>2, <1>9, <1>10, <3>1, MoveSound
  <2>3. CASE next.node = "boss_review"
    <3>1. ~gs.normErr /\ gs.review = "approved"
      BY <1>10, <2>3 DEF RouteAfterPersist
    <3>2. AtNode(moved, next)
      BY <1>8, <1>9, <1>10, <2>3, <3>1 DEF AtNode
    <3>3. RowsAgree(moved, next)
      BY <1>9, <1>10 DEF Sound, RowsAgree
    <3> QED BY <3>2, <3>3 DEF Sound
  <2> QED BY <1>10, <2>1, <2>2, <2>3
<1>12. writes \in Seq(SoundStores) /\ writes # << >> /\ writes[Len(writes)] = moved
  <2>1. created \in SoundStores /\ appended \in SoundStores
        /\ reviewed \in SoundStores /\ moved \in SoundStores
    BY <1>6, <1>7, <1>8, <1>9 DEF SoundStores
  <2> QED BY <1>4, <2>1
<1> HIDE DEF writes
<1> QED BY <1>1, <1>9, <1>11, <1>12, PerformChains

\* The verdict is recorded under the channel of the cycle, and answers the review
\* the interrupt waited with.
LEMMA BossReviewChains == ASSUME ChainInv, BossReview PROVE ChainStep
<1> DEFINE decision == IF cfg.auto THEN "approved" ELSE NarrowApproval(verdict.status)
           approval == [ rev |-> gs.rev, round |-> gs.round, decision |-> decision,
                         channel |-> IF cfg.auto THEN "auto" ELSE cfg.channel,
                         card    |-> IF cfg.auto THEN CurrentCard ELSE verdict.card ]
           after    == RecordApproval(db, approval)
           next     == [Go("trader") EXCEPT !.approval = decision]
<1>1. PICK recorded \in BOOLEAN :
        Perform("boss_review", IF recorded THEN <<db, after>> ELSE <<db>>, next)
  BY DEF BossReview
<1>2. TypeOK /\ db \in StoreType /\ gs \in StateType /\ Sound(db, gs)
  BY DEF ChainInv, TypeOK
<1>3. gs.node = "boss_review" /\ db \in SoundStores /\ ~IsTerminal(db.status)
  BY <1>1, NodeIsOpen DEF Perform, At
<1>4. next.round = gs.round /\ next.node = "trader"
  <2>1. Go("trader") \in StateType /\ Go("trader").node = "trader" /\ Go("trader").round = gs.round
    BY <1>2, GoFields DEF Nodes
  <2> QED BY <2>1 DEF StateType
<1>5. /\ approval.rev = gs.rev /\ approval.round = gs.round
      /\ approval.channel = ApprovalChannel
  BY DEF ApprovalChannel
<1>6. approval \in ApprovalType
  <2>1. decision \in {"approved", "rejected"}
    BY DEF NarrowApproval
  <2>2. gs.rev \in Nat /\ gs.round \in Nat /\ cfg.channel \in Channels
    BY <1>2 DEF TypeOK, StateType, ConfigType
  <2>3. CurrentCard \in RowKey /\ verdict.card \in RowKey
    BY <1>2 DEF TypeOK, StateType, CurrentCard, RowKey
  <2> HIDE DEF decision
  <2> QED BY <2>1, <2>2, <2>3 DEF ApprovalType
<1> HIDE DEF approval, next
<1>7. after \in StoreType
  BY <1>2, <1>6, RecordApprovalSafe
<1>8. /\ after.approvals \subseteq db.approvals \union {approval}
      /\ after.status = db.status /\ after.reviews = db.reviews
      /\ after.revisions = db.revisions /\ after.events = db.events
      /\ after.consumed = db.consumed
  BY <1>2 DEF RecordApproval, StoreType
<1> HIDE DEF after
<1>9. Sound(after, gs)
  <2>1. AtNode(after, gs)
    BY <1>2, <1>8 DEF Sound, AtNode
  <2>2. \A a \in after.approvals :
          /\ a.channel = ApprovalChannel
          /\ \E r \in after.reviews : r.rev = a.rev /\ r.round = a.round /\ r.verdict = "approved"
    BY <1>2, <1>3, <1>5, <1>8 DEF Sound, RowsAgree, AtNode
  <2>3. RowsAgree(after, gs)
    BY <1>2, <1>8, <2>2 DEF Sound, RowsAgree, ConsumedOnce
  <2> QED BY <2>1, <2>3 DEF Sound
<1>10. /\ ~IsTerminal(after.status) /\ after \in SoundStores
       /\ Sound(after, next) /\ Sound(db, next)
  <2>1. next.node \in PlainNodes
    BY <1>4 DEF PlainNodes, Nodes
  <2> QED BY <1>2, <1>3, <1>4, <1>7, <1>8, <1>9, <2>1, MoveSound DEF SoundStores
<1>11. CASE recorded
  <2>1. Perform("boss_review", <<db, after>>, next)
    BY <1>1, <1>11
  <2>2. <<db, after>> \in Seq(SoundStores)
    BY <1>3, <1>10
  <2> QED BY <1>10, <2>1, <2>2, PerformChains
<1>12. CASE ~recorded
  BY <1>1, <1>10, <1>12, SilentChains
<1> QED BY <1>11, <1>12

-----------------------------------------------------------------------------
(* The trader and the persisting of the outcome. *)

\* A trader that goes back to the risk gate, or on to a human, reopens the review.
LEMMA ReopenSound ==
  ASSUME NEW d \in StoreType, NEW g \in StateType, Sound(d, g), g.node = "trader",
         ~IsTerminal(d.status), NEW key \in KeyType,
         key.name \in {"pending_risk", "price_rejected"},
         NEW e, e = Transition(d, "pending_risk", key)
  PROVE  e \in StoreType /\ Sound(e, g) /\ ~IsTerminal(e.status)
<1>1. "pending_risk" \in Statuses \ TerminalStatuses
  BY DEF Statuses, TerminalStatuses
<1>2. e \in StoreType
  BY <1>1, TransitionSafe
<1>3. /\ SameAudit(d, e) /\ e.consumed = d.consumed
      /\ \/ e.status = "pending_risk" /\ e.events = d.events \union {key}
         \/ e.status = d.status /\ e.events = d.events
  BY <1>1, TransitionWrites DEF SameAudit
<1>4. ~IsTerminal(e.status)
  BY <1>1, <1>3 DEF IsTerminal
<1>5. RowsAgree(e, g)
  BY <1>3, <1>4 DEF Sound, RowsAgree, SameAudit, Absent, TerminalStatuses, ConsumedOnce
<1>6. AtNode(e, g)
  BY DEF AtNode
<1> QED BY <1>2, <1>4, <1>5, <1>6 DEF Sound

\* Saving trades rows changes nothing that is sound.
LEMMA SaveTradesSound ==
  ASSUME NEW d \in StoreType, NEW g, Sound(d, g), NEW rejected,
         NEW live \in SUBSET [rev : Nat, order : Orders],
         NEW e, e = SaveTrades(d, rejected, live)
  PROVE  e \in StoreType /\ Sound(e, g) /\ SameAudit(d, e) /\ e.status = d.status
<1>1. e \in StoreType
  BY SaveTradesSafe
<1>2. SameAudit(d, e) /\ e.status = d.status /\ e.events = d.events /\ e.consumed = d.consumed
  BY DEF SaveTrades, StoreType, SameAudit
<1>3. ConsumedOnce(e)
  BY <1>2 DEF Sound, RowsAgree, ConsumedOnce
<1> QED BY <1>1, <1>2, <1>3, SameRowsSound

LEMMA TraderEndsChains == ASSUME ChainInv, TraderCancels \/ TraderRefuses PROVE ChainStep
<1>1. PICK results : Perform("trader", <<db>>, [Go("persist") EXCEPT !.results = results])
  BY DEF TraderCancels, TraderRefuses
<1> DEFINE next == [Go("persist") EXCEPT !.results = results]
<1>2. next.round = gs.round /\ next.node = "persist"
  BY GoFields DEF ChainInv, Nodes, StateType
<1> HIDE DEF next
<1> QED BY <1>1, <1>2, SilentMoves DEF next, PlainNodes, Nodes

LEMMA TraderFindsStaleChains == ASSUME ChainInv, TraderFindsStale PROVE ChainStep
<1> DEFINE key   == Key("pending_risk", LatestRevision(db), gs.round)
           after == Transition(db, "pending_risk", key)
<1>1. Perform("trader", <<db, after>>, Go("risk_gate")) /\ gs.node = "trader"
  BY DEF TraderFindsStale, Perform, At
<1>2. TypeOK /\ db \in StoreType /\ gs \in StateType /\ Sound(db, gs)
  BY DEF ChainInv, TypeOK
<1>3. key \in KeyType /\ key.name = "pending_risk"
  <2>1. LatestRevision(db) \in Nat /\ gs.round \in Nat
    BY <1>2 DEF StoreType, StateType, LatestRevision
  <2> QED BY <2>1, KeysTyped DEF Key, Statuses
<1>4. db \in SoundStores /\ ~IsTerminal(db.status)
  BY <1>1, NodeIsOpen DEF Perform
<1> HIDE DEF key
<1>5. after \in StoreType /\ Sound(after, gs) /\ ~IsTerminal(after.status)
  BY <1>1, <1>2, <1>3, <1>4, ReopenSound
<1> HIDE DEF after
<1>6. Sound(after, Go("risk_gate"))
  <2>1. Go("risk_gate").node \in PlainNodes /\ Go("risk_gate").round = gs.round
    BY <1>2, GoFields DEF PlainNodes, Nodes
  <2> QED BY <1>2, <1>5, <2>1, MoveSound
<1>7. <<db, after>> \in Seq(SoundStores)
  BY <1>4, <1>5 DEF SoundStores
<1> QED BY <1>1, <1>5, <1>6, <1>7, PerformChains

LEMMA TraderPricedOutChains == ASSUME ChainInv, TraderPricedOut PROVE ChainStep
<1> DEFINE saved == SaveTrades(db, IntentsOf(gs.rev, Orders), {})
           key   == Key("price_rejected", gs.rev, gs.round)
           after == Transition(saved, "pending_risk", key)
           node  == IF gs.round < MaxRounds THEN "risk_gate" ELSE "manual_review"
           next  == [Go(node) EXCEPT !.content = Requested, !.results = AllOrders("rejected")]
<1>1. Perform("trader", <<db, saved, after>>, next) /\ gs.node = "trader"
  BY DEF TraderPricedOut, Perform, At
<1>2. TypeOK /\ db \in StoreType /\ gs \in StateType /\ Sound(db, gs)
  BY DEF ChainInv, TypeOK
<1>3. key \in KeyType /\ key.name = "price_rejected"
  <2>1. gs.rev \in Nat /\ gs.round \in Nat
    BY <1>2 DEF StateType
  <2> QED BY <2>1, KeysTyped DEF Key
<1>4. db \in SoundStores /\ ~IsTerminal(db.status)
  BY <1>1, NodeIsOpen DEF Perform
<1>5. saved \in StoreType /\ Sound(saved, gs) /\ ~IsTerminal(saved.status)
  BY <1>2, <1>4, SaveTradesSound
<1> HIDE DEF saved, key
<1>6. after \in StoreType /\ Sound(after, gs) /\ ~IsTerminal(after.status)
  BY <1>1, <1>2, <1>3, <1>5, ReopenSound
<1>7. next.node \in PlainNodes /\ next.round = gs.round
  <2>1. node \in {"risk_gate", "manual_review"}
    OBVIOUS
  <2>2. Go(node) \in StateType /\ Go(node).node = node /\ Go(node).round = gs.round
    BY <1>2, <2>1, GoFields DEF Nodes
  <2> HIDE DEF node
  <2> QED BY <2>1, <2>2 DEF PlainNodes, Nodes, StateType
<1> HIDE DEF after, next
<1>8. Sound(after, next)
  BY <1>2, <1>6, <1>7, MoveSound
<1>9. <<db, saved, after>> \in Seq(SoundStores)
  BY <1>4, <1>5, <1>6 DEF SoundStores
<1> QED BY <1>1, <1>6, <1>8, <1>9, PerformChains

\* A submission writes nothing to the store, whether or not the trader survives it.
LEMMA SubmitChains ==
  ASSUME ChainInv, NEW cut \in 1..NumOrders + 1, NEW failure \in {"rejected", "error"},
         Submit(cut, failure)
  PROVE  ChainStep
<1>1. /\ At("trader")
      /\ \/ Die(<<db>>)
         \/ \E results : Complete(<<db>>, [Go("persist") EXCEPT !.results = results])
  BY DEF Submit
<1>2. db \in SoundStores /\ ~IsTerminal(db.status)
  BY <1>1, NodeIsOpen
<1>3. db' = db /\ (gs' = gs \/ \E results : gs' = [Go("persist") EXCEPT !.results = results])
  BY <1>1 DEF Complete, Die
<1>4. TypeOK /\ db \in StoreType /\ gs \in StateType /\ Sound(db, gs)
  BY DEF ChainInv, TypeOK
<1>5. Sound(db, gs')
  <2>1. CASE gs' = gs
    BY <1>4, <2>1
  <2>2. CASE gs' # gs
    <3>1. gs'.node = "persist" /\ gs'.round = gs.round
      BY <1>3, <1>4, <2>2, GoFields DEF Nodes, StateType
    <3> QED BY <1>4, <3>1, MoveSound DEF PlainNodes, Nodes
  <2> QED BY <2>1, <2>2
<1> QED BY <1>2, <1>3, <1>5 DEF ChainStep, DrivenIsOpen

LEMMA TraderChains == ASSUME ChainInv, Trader PROVE ChainStep
BY TraderEndsChains, TraderFindsStaleChains, TraderPricedOutChains, SubmitChains DEF Trader

LEMMA PersistChains == ASSUME ChainInv, Persist PROVE ChainStep /\ SameAudit(db, db')
<1> DEFINE With(statuses) == {o \in Orders : gs.results[o] \in statuses}
           live  == IntentsOf(gs.rev, With({"submitted"}))
           saved == SaveTrades(db, IntentsOf(gs.rev, With({"cancelled", "rejected", "error"})), live)
           key   == Key(FinalStatus, gs.rev, 0)
<1>1. Perform("persist", <<db, saved>> \o Close(saved, FinalStatus, key), Go("end"))
  BY DEF Persist
<1>2. TypeOK /\ db \in StoreType /\ gs \in StateType /\ Sound(db, gs)
  BY DEF ChainInv, TypeOK
<1>3. gs.node \in WritingNodes /\ db \in SoundStores /\ ~IsTerminal(db.status)
  BY <1>1, NodeIsOpen DEF Perform, At, WritingNodes, PlainNodes, Nodes
<1>4. FinalStatus \in TerminalStatuses /\ key \in KeyType /\ key.name = FinalStatus
  <2>1. FinalStatus \in TerminalStatuses /\ FinalStatus \in Statuses /\ gs.rev \in Nat
    BY <1>2 DEF FinalStatus, Statuses, TerminalStatuses, StateType
  <2> QED BY <2>1, KeysTyped DEF Key
<1>5. saved \in StoreType /\ Sound(saved, gs) /\ SameAudit(db, saved) /\ saved.status = db.status
  <2>1. gs.rev \in Nat /\ With({"submitted"}) \in SUBSET Orders
    BY <1>2 DEF StateType
  <2>2. live \in SUBSET [rev : Nat, order : Orders]
    BY <2>1, IntentsTyped
  <2> HIDE DEF live
  <2> QED BY <1>2, <2>2, SaveTradesSound
<1>6. Go("end").round = gs.round /\ Go("end").node = "end"
  BY <1>2, GoFields DEF Nodes
<1> HIDE DEF saved, key
<1>7. saved \in SoundStores /\ <<db, saved>> \in Seq(SoundStores) /\ <<db, saved>> # << >>
  BY <1>3, <1>5 DEF SoundStores
<1>8. ChainStep
  BY <1>1, <1>3, <1>4, <1>5, <1>6, <1>7, ClosingChains
<1>9. PICK t, e : /\ Close(saved, FinalStatus, key) = <<t, e>>
                  /\ \A w \in {t, e} : SameAudit(saved, w)
  BY <1>2, <1>3, <1>4, <1>5, CloseWritesSound
<1>10. SameAudit(db, db')
  <2>1. db' \in {db, saved, t, e}
    BY <1>1, <1>9 DEF Perform, Complete, Die
  <2> QED BY <1>5, <1>9, <2>1 DEF SameAudit
<1> QED BY <1>8, <1>10

-----------------------------------------------------------------------------
(* The processes, the callbacks and the world, which write nothing. *)

\* What is authorized has an approval of the round a callback would answer.
LEMMA AuthorizedIsAnswered ==
  ASSUME ChainInv, Authorized(db)
  PROVE  /\ LatestRevision(db) \in Nat \ {0} /\ db.status # Absent
         /\ HasApproval(db, LatestRevision(db), ApprovalChannel,
                        AnsweredRound(db, LatestRevision(db)))
<1> DEFINE rev == LatestRevision(db)
<1>1. db \in StoreType /\ Sound(db, gs)
  BY DEF ChainInv, TypeOK
<1>2. PICK r \in EffectiveReview(db, rev), a \in EffectiveApproval(db, rev) :
        r.verdict = "approved" /\ a.round >= r.round
  BY DEF Authorized
<1>3. /\ r \in db.reviews /\ r.rev = rev /\ r.round \in Nat
      /\ \A s \in db.reviews : s.rev = rev => s.round <= r.round
  BY <1>1, <1>2 DEF EffectiveReview, LatestOf, StoreType
<1>4. a \in db.approvals /\ a.rev = rev /\ a.round \in Nat
  BY <1>1, <1>2 DEF EffectiveApproval, LatestOf, StoreType
<1>5. a.round = r.round /\ a.channel = ApprovalChannel
  BY <1>1, <1>2, <1>3, <1>4 DEF Sound, RowsAgree
<1>6. AnsweredRound(db, rev) = r.round
  <2>1. \A s \in EffectiveReview(db, rev) : s.round = r.round
    BY <1>1, <1>3 DEF EffectiveReview, LatestOf, StoreType
  <2>2. (CHOOSE s \in EffectiveReview(db, rev) : TRUE) \in EffectiveReview(db, rev)
    BY <1>2
  <2> QED BY <1>2, <2>1, <2>2 DEF AnsweredRound
<1>7. HasApproval(db, rev, ApprovalChannel, AnsweredRound(db, rev))
  BY <1>4, <1>5, <1>6 DEF HasApproval
<1>8. rev \in DOMAIN db.revisions
  BY <1>1, <1>3 DEF Sound, RowsAgree
<1>9. rev \in Nat \ {0}
  BY <1>1, <1>8 DEF LatestRevision, StoreType
<1>10. db.status # Absent
  BY <1>1, <1>8 DEF Sound, RowsAgree
<1> QED BY <1>7, <1>9, <1>10

\* So no callback is admitted to a cycle that is cleared for execution: the one
\* that was drove the trader, and nobody drives it a second time.
LEMMA ClearedAdmitsNobody ==
  ASSUME ChainInv, Authorized(db), NEW card \in cards, NEW status \in BossStatuses
  PROVE  ~Callback(card, status)
<1>1. ApprovalChannel = cfg.channel
  BY DEF ChainInv, AutoAsksNobody, ApprovalChannel
<1>2. ValidateCallback(db, Claim(card), cfg.channel) = "handled"
  BY <1>1, AuthorizedIsAnswered DEF ValidateCallback
<1> QED BY <1>2 DEF Callback

LEMMA ProcessesChain ==
  ASSUME ChainInv,
         \/ AskBoss \/ Suspend \/ Return
         \/ \E card \in cards, status \in BossStatuses : Callback(card, status)
         \/ SnapshotAges \/ ResearchMoves \/ UNCHANGED vars
  PROVE  ChainStep /\ UNCHANGED <<db, broker>>
<1>1. TypeOK /\ Sound(db, gs) /\ DrivenIsOpen
  BY DEF ChainInv
<1>2. SameAudit(db, db)
  BY DEF SameAudit
<1>3. CASE AskBoss \/ Suspend \/ Return \/ ResearchMoves \/ UNCHANGED vars
  <2>1. UNCHANGED <<db, gs, broker>> /\ (proc' = proc \/ proc' = "idle")
    BY <1>3 DEF AskBoss, Suspend, Return, ResearchMoves, vars
  <2> QED BY <1>1, <1>2, <2>1 DEF ChainStep, DrivenIsOpen
<1>4. ASSUME NEW card \in cards, NEW status \in BossStatuses, Callback(card, status)
      PROVE  ChainStep /\ UNCHANGED <<db, broker>>
  <2>1. UNCHANGED <<db, gs, broker>>
    BY <1>4 DEF Callback
  <2>2. ~IsTerminal(db.status)
    BY <1>4 DEF Callback, ValidateCallback, Absent, IsTerminal, TerminalStatuses
  <2> QED BY <1>1, <1>2, <2>1, <2>2 DEF ChainStep, DrivenIsOpen
<1>5. CASE SnapshotAges
  <2>1. /\ UNCHANGED <<db, proc, broker>> /\ gs'.node = gs.node /\ gs'.round = gs.round
        /\ gs'.review = gs.review /\ gs'.rev = gs.rev
    BY <1>1, <1>5 DEF SnapshotAges, TypeOK, StateType
  <2>2. Sound(db, gs')
    BY <1>1, <2>1 DEF Sound, RowsAgree, AtNode
  <2> QED BY <1>1, <1>2, <2>1, <2>2 DEF ChainStep, DrivenIsOpen
<1> QED BY <1>3, <1>4, <1>5

-----------------------------------------------------------------------------
(* Every step, and the invariant. *)

\* The nodes before the broker may hold an order of the cycle.
BeforeOrders ==
  \/ AssembleContext \/ ChiefDecide \/ RiskGate \/ PersistDecision \/ ChiefRevise
  \/ ManualReview \/ BossReview
  \/ TraderCancels \/ TraderRefuses \/ TraderFindsStale \/ TraderPricedOut

Submission ==
  \E cut \in 1..NumOrders + 1, failure \in {"rejected", "error"} : Submit(cut, failure)

\* Steps that write nothing and reach no broker.
Watching ==
  \/ AskBoss \/ Suspend \/ Return
  \/ \E card \in cards, status \in BossStatuses : Callback(card, status)
  \/ SnapshotAges \/ ResearchMoves \/ UNCHANGED vars

\* A step is one of a node before the orders, the submission, the persisting of
\* its outcome, or none of them.
LEMMA StepKinds ==
  ASSUME [Next]_vars
  PROVE  BeforeOrders \/ Submission \/ Persist \/ Watching
BY DEF Next, GraphStep, Trader, Rest, BeforeOrders, Submission, Watching

\* Until the trader submits, nothing is at the broker, and it stays so.
LEMMA BeforeOrdersFacts ==
  ASSUME ChainInv, BeforeOrders
  PROVE  /\ ChainStep /\ UNCHANGED <<cfg, cards, broker>>
         /\ broker.accepted = {} /\ ~IsTerminal(db.status)
<1>1. PICK node \in Nodes \ {"persist", "end"} :
        /\ At(node) /\ UNCHANGED <<cfg, cards, broker>>
  <2>1. CASE AssembleContext \/ ChiefDecide \/ ChiefRevise \/ ManualReview
    BY <2>1 DEF AssembleContext, ChiefDecide, ChiefRevise, ManualReview, Perform, Nodes
  <2>2. CASE RiskGate
    BY <2>2 DEF RiskGate, PassThrough, RejectUnpriced, ReviewRevision, Perform, Nodes
  <2>3. CASE PersistDecision
    BY <2>3 DEF PersistDecision, Supersede, PersistEmptied, NoAction, PersistRound, Perform, Nodes
  <2>4. CASE BossReview
    BY <2>4 DEF BossReview, Perform, Nodes
  <2>5. CASE TraderCancels \/ TraderRefuses \/ TraderFindsStale \/ TraderPricedOut
    BY <2>5 DEF TraderCancels, TraderRefuses, TraderFindsStale, TraderPricedOut, Perform, Nodes
  <2> QED BY <2>1, <2>2, <2>3, <2>4, <2>5 DEF BeforeOrders
<1>2. broker.accepted = {}
  BY <1>1 DEF ChainInv, AcceptedIsLast, At
<1>3. ~IsTerminal(db.status)
  BY <1>1, NodeIsOpen
<1>4. ChainStep
  BY AssembleContextChains, ChiefDecideChains, RiskGateChains, PersistEmptyChains,
     PersistRoundChains, ChiefReviseChains, ManualReviewChains, BossReviewChains,
     TraderChains DEF BeforeOrders, PersistDecision, Trader
<1> QED BY <1>1, <1>2, <1>3, <1>4

LEMMA SubmissionFacts ==
  ASSUME ChainInv, Submission
  PROVE  /\ ChainStep /\ UNCHANGED <<cfg, cards, db>> /\ ~IsTerminal(db.status)
         /\ Authorized(db)
         /\ \E orders \in SUBSET Orders :
              broker'.accepted = broker.accepted \union IntentsOf(LatestRevision(db), orders)
         /\ gs'.node = "persist" \/ (gs'.node = "trader" /\ proc' = "idle")
<1>1. PICK cut \in 1..NumOrders + 1, failure \in {"rejected", "error"} : Submit(cut, failure)
  BY DEF Submission
<1>2. ChainStep
  BY <1>1, SubmitChains
<1>3. /\ At("trader") /\ UNCHANGED <<cfg, cards>>
      /\ Authorized(db) /\ gs.rev = LatestRevision(db)
  BY <1>1 DEF Submit, MayPlace
<1>4. ~IsTerminal(db.status)
  BY <1>3, NodeIsOpen
<1>5. UNCHANGED db /\ (gs'.node = "persist" \/ (gs'.node = "trader" /\ proc' = "idle"))
  <2>1. \/ Die(<<db>>)
        \/ \E results : Complete(<<db>>, [Go("persist") EXCEPT !.results = results])
    BY <1>1 DEF Submit
  <2>2. Go("persist") \in StateType /\ Go("persist").node = "persist"
    BY GoFields DEF ChainInv, Nodes
  <2> QED BY <1>3, <2>1, <2>2 DEF Die, Complete, At, StateType
<1>6. \E orders \in SUBSET Orders :
        broker'.accepted = broker.accepted \union IntentsOf(LatestRevision(db), orders)
  <2> DEFINE orders == {o \in ToSubmit : o < cut}
  <2>1. broker'.accepted = broker.accepted \union IntentsOf(gs.rev, orders)
    BY <1>1 DEF Submit
  <2>2. orders \in SUBSET Orders
    BY DEF ToSubmit
  <2> QED BY <1>3, <2>1, <2>2
<1> QED BY <1>2, <1>3, <1>4, <1>5, <1>6

LEMMA PersistFacts ==
  ASSUME ChainInv, Persist
  PROVE  /\ ChainStep /\ SameAudit(db, db') /\ UNCHANGED <<cfg, cards, broker>>
         /\ ~IsTerminal(db.status) /\ gs'.node \in {"persist", "end"}
<1>1. At("persist") /\ UNCHANGED <<cfg, cards, broker>> /\ (gs' = gs \/ gs' = Go("end"))
  BY DEF Persist, Perform, Complete, Die
<1>2. gs'.node \in {"persist", "end"}
  BY <1>1, GoFields DEF ChainInv, Nodes, At
<1>3. ~IsTerminal(db.status)
  BY <1>1, NodeIsOpen
<1> QED BY <1>1, <1>2, <1>3, PersistChains

\* Rows that stay the same authorize the same.
LEMMA SameClearance ==
  ASSUME SameAudit(db, db')
  PROVE  Authorized(db') = Authorized(db) /\ LatestRevision(db') = LatestRevision(db)
BY DEF SameAudit, Authorized, LatestRevision, EffectiveReview, EffectiveApproval

LEMMA AcceptedStep ==
  ASSUME ChainInv, [Next]_vars
  PROVE  (AcceptedIsLast /\ AcceptedStaysCurrent)'
<1>1. CASE BeforeOrders
  BY <1>1, BeforeOrdersFacts DEF AcceptedIsLast, AcceptedStaysCurrent
<1>2. CASE Submission
  <2>1. PICK orders \in SUBSET Orders :
          broker'.accepted = broker.accepted \union IntentsOf(LatestRevision(db), orders)
    BY <1>2, SubmissionFacts
  <2>2. \A i \in IntentsOf(LatestRevision(db), orders) : i.rev = LatestRevision(db)
    BY DEF IntentsOf, Intent
  <2>3. \A i \in broker'.accepted : i.rev = LatestRevision(db)
    BY <2>1, <2>2 DEF ChainInv, AcceptedStaysCurrent
  <2>4. UNCHANGED db /\ Authorized(db)
    BY <1>2, SubmissionFacts
  <2> QED BY <1>2, <2>3, <2>4, SubmissionFacts DEF AcceptedIsLast, AcceptedStaysCurrent
<1>3. CASE Persist
  BY <1>3, PersistFacts, SameClearance DEF ChainInv, AcceptedIsLast, AcceptedStaysCurrent
<1>4. CASE Watching
  <2>1. UNCHANGED <<db, broker>>
    BY <1>4, ProcessesChain DEF Watching
  <2>2. CASE broker.accepted = {}
    BY <2>1, <2>2 DEF AcceptedIsLast, AcceptedStaysCurrent
  <2>3. CASE broker.accepted # {}
    <3>1. Authorized(db) /\ AcceptedIsLast
      BY <2>3 DEF ChainInv, AcceptedStaysCurrent
    <3>2. ~\E card \in cards, status \in BossStatuses : Callback(card, status)
      BY <3>1, ClearedAdmitsNobody
    <3>3. gs'.node = gs.node /\ (proc' = proc \/ proc' = "idle")
      BY <1>4, <3>2 DEF Watching, AskBoss, Suspend, Return, SnapshotAges, ResearchMoves, vars,
         ChainInv, TypeOK, StateType
    <3>4. AcceptedIsLast'
      BY <2>1, <2>3, <3>1, <3>3 DEF AcceptedIsLast
    <3> QED BY <2>1, <3>4 DEF ChainInv, AcceptedStaysCurrent
  <2> QED BY <2>2, <2>3
<1> QED BY <1>1, <1>2, <1>3, <1>4, StepKinds

LEMMA ChainStable == ASSUME ChainInv, [Next]_vars PROVE ChainInv' /\ ChainStep
<1>1. ChainStep /\ cfg' = cfg
  <2>1. CASE BeforeOrders \/ Submission \/ Persist
    BY <2>1, BeforeOrdersFacts, SubmissionFacts, PersistFacts
  <2>2. CASE Watching
    <3>1. cfg' = cfg
      BY <2>2 DEF Watching, AskBoss, Suspend, Return, Callback, SnapshotAges, ResearchMoves, vars
    <3> QED BY <2>2, <3>1, ProcessesChain DEF Watching
  <2> QED BY <2>1, <2>2, StepKinds
<1>2. TypeOK' /\ RoundReviewed'
  BY NextSafe, RoundReviewedStable DEF SafeStep, ChainInv
<1>3. Sound(db, gs)'
  BY <1>1 DEF ChainStep, Sound, RowsAgree, AtNode, ApprovalChannel
<1>4. AutoAsksNobody'
  <2>1. CASE BeforeOrders \/ Submission \/ Persist
    BY <2>1, BeforeOrdersFacts, SubmissionFacts, PersistFacts DEF ChainInv, AutoAsksNobody
  <2>2. CASE Watching
    BY <2>2 DEF Watching, AskBoss, Suspend, Return, Callback, SnapshotAges, ResearchMoves, vars,
       AtInterrupt, ChainInv, AutoAsksNobody
  <2> QED BY <2>1, <2>2, StepKinds
<1> QED BY <1>1, <1>2, <1>3, <1>4, AcceptedStep DEF ChainInv, ChainStep

LEMMA ChainInit == ASSUME Init PROVE ChainInv
<1>1. TypeOK /\ RoundReviewed
  BY InitSafe
<1>2. Sound(db, gs)
  BY DEF Init, EmptyStore, Sound, RowsAgree, AtNode, ConsumedOnce
<1>3. DrivenIsOpen /\ AutoAsksNobody /\ AcceptedIsLast /\ AcceptedStaysCurrent
  BY DEF Init, EmptyStore, DrivenIsOpen, AutoAsksNobody, AcceptedIsLast, AcceptedStaysCurrent,
         IsTerminal, TerminalStatuses, Absent
<1> QED BY <1>1, <1>2, <1>3 DEF ChainInv

\* The inductive invariant of the chain.
THEOREM ChainInvariance == Spec => []ChainInv
<1>1. Init => ChainInv
  BY ChainInit
<1>2. ChainInv /\ [Next]_vars => ChainInv'
  BY ChainStable
<1> QED BY <1>1, <1>2, PTL DEF Spec

-----------------------------------------------------------------------------
(* What follows of the invariant. *)

\* A graph that waits at the approval interrupt is a cycle pending approval whose
\* review of this round passed and is the effective one, whichever node died and
\* was run again on the way there (persist_decision).
THEOREM InterruptsAreReviewed == Spec => []InterruptIsReviewed
<1>1. ChainInv => InterruptIsReviewed
  <2> SUFFICES ASSUME ChainInv, gs.node = "boss_review" PROVE InterruptIsReviewed
    BY DEF InterruptIsReviewed
  <2>1. Sound(db, gs)
    BY DEF ChainInv
  <2>2. PICK r \in db.reviews : r.rev = gs.rev /\ r.round = gs.round /\ r.verdict = "approved"
    BY <2>1 DEF Sound, AtNode
  <2>3. r \in EffectiveReview(db, gs.rev)
    BY <2>1, <2>2 DEF Sound, RowsAgree, EffectiveReview, LatestOf
  <2> QED BY <2>1, <2>2, <2>3 DEF InterruptIsReviewed, Sound, AtNode
<1> QED BY <1>1, ChainInvariance, PTL

\* Every approval row answers the passed review of its own revision and round: no
\* crash, retry or second callback records one for a round that was not reviewed
\* (_record_approval).
THEOREM ApprovalsAnswerReviews == Spec => []ApprovalAnswersReview
<1>1. ChainInv => ApprovalAnswersReview
  BY DEF ChainInv, Sound, RowsAgree, ApprovalAnswersReview
<1> QED BY <1>1, ChainInvariance, PTL

\* A graph that ran to its end leaves no open cycle behind, for every number of
\* rounds: on no path is the closing transition swallowed by a key of the journal.
THEOREM EndsAreTerminal == Spec => []EndIsTerminal
<1>1. ChainInv => EndIsTerminal
  BY DEF ChainInv, Sound, AtNode, EndIsTerminal
<1> QED BY <1>1, ChainInvariance, PTL

\* The side effects of closing a cycle never happen twice, and not before it is
\* closed, whatever dies and is run again (persist, record_no_action,
\* manual_review).  That they happen at all is not so: SideEffectsHappened.
THEOREM EffectsAtMostOnce == Spec => []ConsumedOnce(db)
<1>1. ChainInv => ConsumedOnce(db)
  BY DEF ChainInv, Sound, RowsAgree
<1> QED BY <1>1, ChainInvariance, PTL

\* Behind an accepted order no other revision and no newer review is written: the
\* approval that let it through closes the cycle to every later callback
\* (validate_callback), so the trader is not driven a second time.
THEOREM AcceptedIsCurrent == Spec => []AcceptedStaysCurrent
<1>1. ChainInv => AcceptedStaysCurrent
  BY DEF ChainInv
<1> QED BY <1>1, ChainInvariance, PTL

\* Once a cycle is cleared for execution no callback enters it: a second tap, a
\* prefetched link or a delayed message cannot run the trader again.
THEOREM ClearedTakesNoCallback ==
  Spec => [][ Authorized(db) =>
                ~\E card \in cards, status \in BossStatuses : Callback(card, status) ]_vars
<1>1. ChainInv /\ [Next]_vars =>
        [ Authorized(db) =>
            ~\E card \in cards, status \in BossStatuses : Callback(card, status) ]_vars
  BY ClearedAdmitsNobody
<1> QED BY <1>1, ChainInvariance, PTL DEF Spec

\* A step that finds the cycle closed changes no row of its audit and hands nothing
\* to the broker.
LEMMA ClosedStep ==
  ASSUME ChainInv, [Next]_vars, IsTerminal(db.status)
  PROVE  UNCHANGED <<db, broker>>
BY StepKinds, BeforeOrdersFacts, SubmissionFacts, PersistFacts, ProcessesChain DEF Watching

\* A closed cycle is final, and no order of it reaches the broker any more, for all
\* invocations and any number of processes that died on the way.
THEOREM ClosedStaysFinal == Spec => ClosedIsFinal
<1>1. ChainInv /\ [Next]_vars =>
        [ IsTerminal(db.status) =>
            /\ db'.status = db.status
            /\ db'.revisions = db.revisions
            /\ db'.reviews = db.reviews
            /\ db'.approvals = db.approvals
            /\ broker' = broker ]_vars
  BY ClosedStep
<1> QED BY <1>1, ChainInvariance, PTL DEF Spec, ClosedIsFinal

-----------------------------------------------------------------------------
(* The refinement of ApprovalChain. *)

Cleared == IF Authorized(db) THEN LatestRevision(db) ELSE 0

\* A clearance names a revision.
LEMMA ClearedTyped == ASSUME ChainInv PROVE Cleared \in Nat /\ (Authorized(db) => Cleared # 0)
BY AuthorizedIsAnswered DEF Cleared

\* A step that closes the cycle and nothing else.
LEMMA ClosingImplements ==
  ASSUME ~IsTerminal(db.status), IsTerminal(db'.status), Cleared' = Cleared, broker' = broker
  PROVE  Chain!Next
<1>1. IsTerminal(db.status)' = TRUE
  BY DEF IsTerminal
<1> QED BY <1>1 DEF Chain!Next, Chain!Close, Cleared

\* A step that leaves the cycle open, or closed.
LEMMA SameClosure ==
  ASSUME IsTerminal(db.status) <=> IsTerminal(db'.status)
  PROVE  IsTerminal(db.status)' = IsTerminal(db.status)
BY DEF IsTerminal

\* Before the orders a step moves the clearance or closes the cycle, not both.
LEMMA BeforeOrdersImplement ==
  ASSUME ChainInv, TypeOK', BeforeOrders
  PROVE  [Chain!Next]_(Chain!chainVars)
<1>1. broker' = broker /\ broker.accepted = {} /\ ~IsTerminal(db.status) /\ ChainStep
  BY BeforeOrdersFacts
<1>2. CASE IsTerminal(db'.status)
  <2>1. Cleared' = Cleared
    BY <1>1, <1>2, SameClearance DEF ChainStep, Cleared
  <2> QED BY <1>1, <1>2, <2>1, ClosingImplements
<1>3. CASE ~IsTerminal(db'.status)
  <2>1. LatestRevision(db') \in Nat
    BY DEF TypeOK, StoreType, LatestRevision
  <2>2. Cleared' \in Nat
    BY <2>1 DEF Cleared
  <2>3. IsTerminal(db.status)' = IsTerminal(db.status)
    BY <1>1, <1>3, SameClosure
  <2> QED BY <1>1, <2>2, <2>3 DEF Chain!Next, Chain!Clear, Cleared
<1> QED BY <1>2, <1>3

\* The trader submits orders of the cleared revision.
LEMMA SubmissionImplements ==
  ASSUME ChainInv, Submission
  PROVE  [Chain!Next]_(Chain!chainVars)
<1>1. PICK orders \in SUBSET Orders :
        broker'.accepted = broker.accepted \union IntentsOf(LatestRevision(db), orders)
  BY SubmissionFacts
<1>2. UNCHANGED db /\ Authorized(db) /\ ~IsTerminal(db.status)
  BY SubmissionFacts
<1>3. Cleared = LatestRevision(db) /\ Cleared # 0
  BY <1>2, ClearedTyped DEF Cleared
<1>4. IntentsOf(Cleared, orders) = {[rev |-> Cleared, order |-> o] : o \in orders}
  BY DEF IntentsOf, Intent
<1>5. broker'.accepted = broker.accepted \union {[rev |-> Cleared, order |-> o] : o \in orders}
  BY <1>1, <1>3, <1>4
<1>6. Cleared' = Cleared
  BY <1>2 DEF Cleared
<1> QED BY <1>2, <1>3, <1>5, <1>6 DEF Chain!Next, Chain!Submit, Cleared

\* Persisting the outcome closes the cycle, or stutters where it dies.
LEMMA PersistImplements ==
  ASSUME ChainInv, Persist
  PROVE  [Chain!Next]_(Chain!chainVars)
<1>1. broker' = broker /\ SameAudit(db, db') /\ ~IsTerminal(db.status)
  BY PersistFacts
<1>2. Cleared' = Cleared
  BY <1>1, SameClearance DEF Cleared
<1>3. CASE IsTerminal(db'.status)
  BY <1>1, <1>2, <1>3, ClosingImplements
<1>4. CASE ~IsTerminal(db'.status)
  <2>1. IsTerminal(db.status)' = IsTerminal(db.status)
    BY <1>1, <1>4, SameClosure
  <2> QED BY <1>1, <1>2, <2>1 DEF Chain!chainVars, Cleared
<1> QED BY <1>3, <1>4

LEMMA WatchingImplements ==
  ASSUME ChainInv, Watching
  PROVE  [Chain!Next]_(Chain!chainVars)
BY ProcessesChain DEF Watching, Chain!chainVars

\* The graph, its processes, its crashes and the callbacks implement the abstract
\* chain: at most one revision is ever executed, under a clearance that is replaced
\* only while nothing was submitted under it, and nothing happens to a closed cycle.
THEOREM ImplementsChain == Spec => ChainSpec
<1>1. Init => Chain!Init
  BY DEF Init, Chain!Init, EmptyStore, Authorized, EffectiveReview, LatestOf,
         IsTerminal, TerminalStatuses, Absent
<1>2. ChainInv /\ ChainInv' /\ [Next]_vars => [Chain!Next]_(Chain!chainVars)
  <2>1. ChainInv' => TypeOK'
    BY DEF ChainInv
  <2> QED BY <2>1, StepKinds, BeforeOrdersImplement, SubmissionImplements,
            PersistImplements, WatchingImplements
<1> QED BY <1>1, <1>2, ChainInvariance, PTL DEF Spec, ChainSpec, Chain!Spec

-----------------------------------------------------------------------------
(* What is left of ApprovalIsFresh, which the code does not keep: a tap on a
   card of an earlier round is the only way to an approval on the wrong card. *)

\* A tap on a card of an earlier round, admitted while the graph waits for the
\* answer to another.
OldTap ==
  \E card \in cards, status \in BossStatuses :
    Callback(card, status) /\ gs.node = "boss_review" /\ card.round # gs.round

\* An approval row was given on the card of its own revision and round.
OnOwnCard == \A a \in db.approvals : a.card = [rev |-> a.rev, round |-> a.round]

\* The nodes at which the card of the current round may be out already.
AnsweringNodes == {"boss_review", "trader", "risk_gate", "manual_review", "persist", "end"}

\* A card the Boss holds is of an earlier round, or the current one.
CardsAge ==
  \A c \in cards : c.round < gs.round \/ (c = CurrentCard /\ gs.node \in AnsweringNodes)

\* A verdict on its way to the interrupt answers the current card.
VerdictFits == verdict # NoVerdict => gs.node = "boss_review" /\ verdict.card = CurrentCard

CardInv == CardsAge /\ VerdictFits /\ OnOwnCard

\* The stores with the approvals of the one a node finds.
Unanswered == {d \in StoreType : d.approvals = db.approvals}

\* Where the checkpoint may go without making the cards that are out wrong.
Ages(h) ==
  \/ h.round > gs.round
  \/ /\ h.round = gs.round
     /\ gs.node \in AnsweringNodes => h.rev = gs.rev /\ h.node \in AnsweringNodes

\* No operation but RecordApproval answers.
LEMMA OperationsUnanswered ==
  ASSUME NEW d \in Unanswered
  PROVE  /\ CreateCycle(d) \in Unanswered
         /\ \A c \in Proposed : /\ AppendRevision(d, c) \in Unanswered
                               /\ RevisionOf(AppendRevision(d, c), c) \in Nat
         /\ \A to \in Statuses, key \in KeyType :
               Transition(d, to, key) \in Unanswered /\ Close(d, to, key) \in Seq(Unanswered)
         /\ \A r \in [rev : Nat, round : Nat, verdict : {"approved", "rejected"}] :
               RecordReview(d, r) \in Unanswered
<1>1. d \in StoreType
  BY DEF Unanswered
<1>2. \A e \in StoreType : e.approvals = d.approvals => e \in Unanswered
  BY DEF Unanswered
<1>3. CreateCycle(d) \in Unanswered
  <2>1. CreateCycle(d).approvals = d.approvals
    BY <1>1 DEF CreateCycle, StoreType
  <2> QED BY <1>1, <1>2, <2>1, CreateCycleSafe
<1>4. ASSUME NEW c \in Proposed
      PROVE  /\ AppendRevision(d, c) \in Unanswered
             /\ RevisionOf(AppendRevision(d, c), c) \in Nat
  <2>1. AppendRevision(d, c).approvals = d.approvals
    BY <1>1 DEF AppendRevision, StoreType
  <2> QED BY <1>1, <1>2, <2>1, AppendRevisionSafe
<1>5. ASSUME NEW to \in Statuses, NEW key \in KeyType
      PROVE  Transition(d, to, key) \in Unanswered /\ Close(d, to, key) \in Seq(Unanswered)
  <2> DEFINE t == Transition(d, to, key)
             e == Consume(d, t, to, key)
  <2>1. t \in StoreType /\ t.approvals = d.approvals
    BY <1>1, TransitionSafe, TransitionWrites
  <2>2. e = t \/ e = [t EXCEPT !.consumed = t.consumed + 1]
    BY DEF Consume
  <2>3. Close(d, to, key) = <<t, e>>
    BY DEF Close
  <2> HIDE DEF t, e
  <2>4. e \in StoreType /\ e.approvals = d.approvals
    BY <2>1, <2>2 DEF StoreType
  <2>5. t \in Unanswered /\ e \in Unanswered
    BY <1>2, <2>1, <2>4
  <2> QED BY <2>3, <2>5 DEF t
<1>6. ASSUME NEW r \in [rev : Nat, round : Nat, verdict : {"approved", "rejected"}]
      PROVE  RecordReview(d, r) \in Unanswered
  <2>1. RecordReview(d, r).approvals = d.approvals
    BY <1>1 DEF RecordReview, StoreType
  <2> QED BY <1>1, <1>2, <2>1, RecordReviewSafe
<1> QED BY <1>3, <1>4, <1>5, <1>6

LEMMA SaveTradesUnanswered ==
  ASSUME NEW d \in Unanswered, NEW rejected,
         NEW live \in SUBSET [rev : Nat, order : Orders]
  PROVE  SaveTrades(d, rejected, live) \in Unanswered
<1>1. d \in StoreType /\ d.approvals = db.approvals
  BY DEF Unanswered
<1>2. SaveTrades(d, rejected, live) \in StoreType
  BY <1>1, SaveTradesSafe
<1>3. SaveTrades(d, rejected, live).approvals = d.approvals
  BY <1>1 DEF SaveTrades, StoreType
<1> QED BY <1>1, <1>2, <1>3 DEF Unanswered

\* Closing writes do not answer either.
LEMMA CloseUnanswered ==
  ASSUME NEW w \in Seq(Unanswered), NEW d \in Unanswered, NEW to \in Statuses, NEW key \in KeyType
  PROVE  w \o Close(d, to, key) \in Seq(Unanswered)
<1>1. Close(d, to, key) \in Seq(Unanswered)
  BY OperationsUnanswered
<1> HIDE DEF Close
<1> QED BY <1>1

\* What a node other than boss_review does to the cards.
QuietStep ==
  /\ db'.approvals = db.approvals /\ Ages(gs')
  /\ UNCHANGED cards /\ verdict' = NoVerdict

LEMMA PerformQuiet ==
  ASSUME TypeOK, NEW node, NEW writes \in Seq(Unanswered), writes # << >>, NEW next, Ages(next),
         Perform(node, writes, next)
  PROVE  QuietStep
<1>1. db' \in Unanswered
  BY DEF Perform, Complete, Die
<1>2. Ages(gs)
  BY DEF TypeOK, StateType, Ages
<1>3. gs' = gs \/ gs' = next
  BY DEF Perform, Complete, Die
<1>4. Ages(gs')
  BY <1>2, <1>3
<1> QED BY <1>1, <1>4 DEF Perform, Unanswered, QuietStep

LEMMA FindsUnanswered ==
  ASSUME TypeOK
  PROVE  db \in Unanswered /\ <<db>> \in Seq(Unanswered) /\ <<db>> # << >>
<1>1. db \in Unanswered
  BY DEF TypeOK, Unanswered
<1> QED BY <1>1

\* The nodes that write nothing.
LEMMA SilentQuiet ==
  ASSUME TypeOK,
         \/ AssembleContext \/ ChiefDecide \/ ChiefRevise \/ PassThrough \/ RejectUnpriced
         \/ TraderCancels \/ TraderRefuses
  PROVE  QuietStep
<1>1. \A node \in Nodes :
        /\ Go(node) \in StateType /\ Go(node).node = node
        /\ Go(node).round = gs.round /\ Go(node).rev = gs.rev
  BY GoFields
<1>2. gs.round \in Nat
  BY DEF TypeOK, StateType
<1>3. CASE AssembleContext
  <2>1. PICK next \in {"chief_decide", "end"} :
          Perform("assemble_context", <<db>>, Go(next)) /\ gs.node = "assemble_context"
    BY <1>3 DEF AssembleContext, Perform, At
  <2>2. Ages(Go(next))
    BY <1>1, <2>1 DEF Ages, AnsweringNodes, Nodes
  <2> QED BY <2>1, <2>2, FindsUnanswered, PerformQuiet
<1>4. CASE ChiefDecide
  <2>1. PICK c : /\ Perform("chief_decide", <<db>>, [Go("risk_gate") EXCEPT !.content = c])
                 /\ gs.node = "chief_decide"
    BY <1>4 DEF ChiefDecide, Perform, At
  <2>2. Ages([Go("risk_gate") EXCEPT !.content = c])
    BY <1>1, <2>1 DEF Ages, AnsweringNodes, Nodes, StateType
  <2> QED BY <2>1, <2>2, FindsUnanswered, PerformQuiet
<1>5. CASE ChiefRevise
  <2>1. PICK c : Perform("chief_revise", <<db>>,
          [Go("risk_gate") EXCEPT !.content = c, !.approved = FALSE, !.parent = (gs.rev # 0)])
    BY <1>5 DEF ChiefRevise
  <2> DEFINE next == [Go("risk_gate") EXCEPT !.content = c, !.approved = FALSE,
                                             !.parent = (gs.rev # 0)]
  <2>2. next.round = gs.round
    BY GoFields DEF Nodes, StateType
  <2> HIDE DEF next
  <2>3. gs.node = "chief_revise" /\ Perform("chief_revise", <<db>>, next)
    BY <2>1 DEF Perform, At, next
  <2>4. Ages(next)
    BY <2>2, <2>3 DEF Ages, AnsweringNodes
  <2> QED BY <2>3, <2>4, FindsUnanswered, PerformQuiet
<1>6. CASE PassThrough \/ RejectUnpriced
  <2> DEFINE passed   == [Go("persist_decision") EXCEPT !.approved = FALSE, !.round = @ + 1]
             rejected == [Go("persist_decision") EXCEPT !.approved = FALSE, !.round = @ + 1,
                            !.review = "rejected", !.normErr = TRUE]
  <2>1. passed.round = gs.round + 1 /\ rejected.round = gs.round + 1
    BY GoFields DEF Nodes, StateType
  <2>2. \E next \in {passed, rejected} : Perform("risk_gate", <<db>>, next)
    BY <1>6 DEF PassThrough, RejectUnpriced
  <2> HIDE DEF passed, rejected
  <2>3. PICK next : Perform("risk_gate", <<db>>, next) /\ next.round = gs.round + 1
    BY <2>1, <2>2
  <2>4. Ages(next)
    BY <1>2, <2>3 DEF Ages
  <2> QED BY <2>3, <2>4, FindsUnanswered, PerformQuiet
<1>7. CASE TraderCancels \/ TraderRefuses
  <2>1. PICK results : Perform("trader", <<db>>, [Go("persist") EXCEPT !.results = results])
    BY <1>7 DEF TraderCancels, TraderRefuses
  <2>2. Ages([Go("persist") EXCEPT !.results = results])
    BY <1>1 DEF Ages, AnsweringNodes, Nodes, StateType
  <2> QED BY <2>1, <2>2, FindsUnanswered, PerformQuiet
<1> QED BY <1>3, <1>4, <1>5, <1>6, <1>7

\* The new revision of a round that begins.
LEMMA ReviewRevisionQuiet ==
  ASSUME TypeOK, NEW c \in Contents, NEW v \in {"approved", "rejected"}, ReviewRevision(c, v)
  PROVE  QuietStep
<1> DEFINE created  == CreateCycle(db)
           appended == AppendRevision(created, c)
           next     == [Go("persist_decision") EXCEPT
                          !.content = c, !.approved = (v = "approved"),
                          !.rev = RevisionOf(appended, c),
                          !.round = @ + 1, !.review = v, !.normErr = FALSE, !.fresh = TRUE]
<1>1. Go("persist_decision") \in StateType /\ Go("persist_decision").round = gs.round
  BY GoFields DEF Nodes
<1>2. Perform("risk_gate", <<db, created, appended>>, next)
  BY <1>1 DEF ReviewRevision
<1>3. next.round = gs.round + 1 /\ gs.round \in Nat
  BY <1>1 DEF TypeOK, StateType
<1>4. created \in Unanswered /\ appended \in Unanswered /\ db \in Unanswered
  BY FindsUnanswered, OperationsUnanswered DEF Proposed
<1> HIDE DEF created, appended, next
<1>5. Ages(next) /\ <<db, created, appended>> \in Seq(Unanswered)
  BY <1>3, <1>4 DEF Ages
<1> QED BY <1>2, <1>5, PerformQuiet

\* Persisting a round ends in a checkpoint of the same round.
LEMMA PersistDecisionQuiet ==
  ASSUME TypeOK, RoundReviewed, PersistDecision
  PROVE  QuietStep
<1>1. db \in Unanswered /\ CreateCycle(db) \in Unanswered
  BY FindsUnanswered, OperationsUnanswered
<1>2. gs.node = "persist_decision"
  BY DEF PersistDecision, Supersede, PersistEmptied, NoAction, PersistRound, Perform, At
<1>3. \A next : next.round = gs.round => Ages(next)
  BY <1>2 DEF Ages, AnsweringNodes
<1>4. \A node \in Nodes : Go(node) \in StateType /\ Go(node).round = gs.round
  BY GoFields
<1>5. CASE Supersede
  <2> DEFINE after == Transition(db, "superseded", DefaultKey("superseded"))
             next  == [Go("end") EXCEPT !.content = NoOrders, !.approved = FALSE]
  <2>1. "superseded" \in Statuses /\ DefaultKey("superseded") \in KeyType
    BY KeysTyped DEF Statuses, TerminalStatuses
  <2>2. after \in Unanswered
    BY <1>1, <2>1, OperationsUnanswered
  <2>3. next.round = gs.round
    BY GoFields DEF Nodes, StateType
  <2>4. Perform("persist_decision", <<db, after>>, next)
    BY <1>5 DEF Supersede
  <2> HIDE DEF after, next
  <2>5. <<db, after>> \in Seq(Unanswered) /\ Ages(next)
    BY <1>1, <1>3, <2>2, <2>3
  <2> QED BY <2>4, <2>5, PerformQuiet
<1>6. CASE PersistEmptied
  <2>1. Perform("persist_decision", <<db, CreateCycle(db)>>, Go("manual_review"))
    BY <1>6 DEF PersistEmptied
  <2>2. Ages(Go("manual_review"))
    BY <1>3, <1>4 DEF Nodes
  <2>3. <<db, CreateCycle(db)>> \in Seq(Unanswered)
    BY <1>1
  <2> QED BY <2>1, <2>2, <2>3, PerformQuiet
<1>7. CASE NoAction
  <2> DEFINE created == CreateCycle(db)
             key     == DefaultKey("no_action")
             writes  == <<db, created>> \o Close(created, "no_action", key)
  <2>1. Perform("persist_decision", writes, Go("end"))
    BY <1>7 DEF NoAction
  <2>2. "no_action" \in Statuses /\ key \in KeyType
    BY KeysTyped DEF Statuses, TerminalStatuses
  <2>3. <<db, created>> \in Seq(Unanswered)
    BY <1>1
  <2>4. writes \in Seq(Unanswered)
    BY <1>1, <2>2, <2>3, CloseUnanswered
  <2>5. writes # << >>
    <3>1. Close(created, "no_action", key) \in Seq(Unanswered)
      BY <1>1, <2>2, OperationsUnanswered
    <3> HIDE DEF created, key
    <3> QED BY <2>3, <3>1
  <2>6. Ages(Go("end"))
    BY <1>3, <1>4 DEF Nodes
  <2> HIDE DEF writes
  <2> QED BY <2>1, <2>4, <2>5, <2>6, PerformQuiet
<1>8. CASE PersistRound
  <2> DEFINE to       == IF gs.review = "approved" THEN "pending_approval" ELSE "risk_rejected"
             created  == CreateCycle(db)
             appended == AppendRevision(created, gs.content)
             rev      == RevisionOf(appended, gs.content)
             review   == [rev |-> rev, round |-> gs.round, verdict |-> gs.review]
             reviewed == IF gs.normErr THEN appended ELSE RecordReview(appended, review)
             moved    == Transition(reviewed, to, Key(to, rev, gs.round))
             next     == [Go(RouteAfterPersist) EXCEPT !.rev = rev]
  <2>1. gs.content \in Proposed /\ gs.round \in Nat
        /\ gs.review \in {"approved", "rejected"}
    BY <1>8 DEF PersistRound, Perform, At, RoundReviewed, TypeOK, StateType, Proposed
  <2>2. appended \in Unanswered /\ rev \in Nat
    BY <1>1, <2>1, OperationsUnanswered
  <2>3. review \in [rev : Nat, round : Nat, verdict : {"approved", "rejected"}]
    BY <2>1, <2>2
  <2>4. reviewed \in Unanswered
    <3> HIDE DEF appended, review
    <3> QED BY <2>2, <2>3, OperationsUnanswered
  <2>5. to \in Statuses /\ Key(to, rev, gs.round) \in KeyType
    <3> HIDE DEF rev
    <3> QED BY <2>1, <2>2, KeysTyped DEF Statuses
  <2>6. moved \in Unanswered
    <3> HIDE DEF reviewed, rev, to
    <3> QED BY <2>4, <2>5, OperationsUnanswered
  <2>7. next.round = gs.round
    <3>1. RouteAfterPersist \in Nodes
      BY DEF RouteAfterPersist, Nodes
    <3>2. Go(RouteAfterPersist) \in StateType /\ Go(RouteAfterPersist).round = gs.round
      BY <1>4, <3>1
    <3> HIDE DEF rev
    <3> QED BY <3>2 DEF StateType
  <2>8. Perform("persist_decision", <<db, created, appended, reviewed, moved>>, next)
    BY <1>8 DEF PersistRound
  <2> HIDE DEF created, appended, rev, reviewed, moved, next
  <2>9. <<db, created, appended, reviewed, moved>> \in Seq(Unanswered) /\ Ages(next)
    BY <1>1, <1>3, <2>2, <2>4, <2>6, <2>7 DEF created
  <2> QED BY <2>8, <2>9, PerformQuiet
<1> QED BY <1>5, <1>6, <1>7, <1>8 DEF PersistDecision

\* The nodes that close the cycle stay in the round, and the trader that goes
\* back begins none itself.
LEMMA ClosingQuiet ==
  ASSUME TypeOK, ManualReview \/ Persist
  PROVE  QuietStep
<1>1. /\ Go("end") \in StateType /\ Go("end").node = "end"
      /\ Go("end").round = gs.round /\ Go("end").rev = gs.rev
  BY GoFields DEF Nodes
<1>2. Ages(Go("end"))
  BY <1>1 DEF Ages, AnsweringNodes
<1>3. CASE ManualReview
  <2>1. "manual_review" \in Statuses /\ DefaultKey("manual_review") \in KeyType
    BY KeysTyped DEF Statuses, TerminalStatuses
  <2> DEFINE writes == <<db>> \o Close(db, "manual_review", DefaultKey("manual_review"))
  <2>2. Close(db, "manual_review", DefaultKey("manual_review")) \in Seq(Unanswered)
    BY <2>1, FindsUnanswered, OperationsUnanswered
  <2>3. writes \in Seq(Unanswered) /\ writes # << >>
    <3> HIDE DEF Close
    <3> QED BY <2>2, FindsUnanswered
  <2>4. Perform("manual_review", writes, Go("end"))
    BY <1>3 DEF ManualReview
  <2> HIDE DEF writes
  <2> QED BY <1>2, <2>3, <2>4, PerformQuiet
<1>4. CASE Persist
  <2> DEFINE With(statuses) == {o \in Orders : gs.results[o] \in statuses}
             live  == IntentsOf(gs.rev, With({"submitted"}))
             saved == SaveTrades(db, IntentsOf(gs.rev, With({"cancelled", "rejected", "error"})),
                                 live)
             key   == Key(FinalStatus, gs.rev, 0)
             writes == <<db, saved>> \o Close(saved, FinalStatus, key)
  <2>1. Perform("persist", writes, Go("end"))
    BY <1>4 DEF Persist
  <2>2. FinalStatus \in Statuses /\ key \in KeyType
    <3>1. FinalStatus \in Statuses /\ gs.rev \in Nat
      BY DEF FinalStatus, Statuses, TerminalStatuses, TypeOK, StateType
    <3> QED BY <3>1, KeysTyped
  <2>3. live \in SUBSET [rev : Nat, order : Orders]
    <3>1. gs.rev \in Nat /\ With({"submitted"}) \in SUBSET Orders
      BY DEF TypeOK, StateType
    <3> QED BY <3>1, IntentsTyped
  <2> HIDE DEF live, key
  <2>4. saved \in Unanswered
    BY <2>3, FindsUnanswered, SaveTradesUnanswered
  <2> HIDE DEF saved
  <2>5. Close(saved, FinalStatus, key) \in Seq(Unanswered)
    BY <2>2, <2>4, OperationsUnanswered
  <2>6. writes \in Seq(Unanswered) /\ writes # << >>
    <3> HIDE DEF Close
    <3> QED BY <2>4, <2>5, FindsUnanswered
  <2> HIDE DEF writes
  <2> QED BY <1>2, <2>1, <2>6, PerformQuiet
<1> QED BY <1>3, <1>4

LEMMA TraderReturnsQuiet ==
  ASSUME TypeOK, TraderFindsStale \/ TraderPricedOut
  PROVE  QuietStep
<1>1. \A node \in Nodes :
        /\ Go(node) \in StateType /\ Go(node).node = node
        /\ Go(node).round = gs.round /\ Go(node).rev = gs.rev
  BY GoFields
<1>2. "pending_risk" \in Statuses
  BY DEF Statuses
<1>3. LatestRevision(db) \in Nat /\ gs.round \in Nat /\ gs.rev \in Nat
  BY DEF TypeOK, StateType, StoreType, LatestRevision
<1>4. CASE TraderFindsStale
  <2> DEFINE key   == Key("pending_risk", LatestRevision(db), gs.round)
             after == Transition(db, "pending_risk", key)
  <2>1. Perform("trader", <<db, after>>, Go("risk_gate"))
    BY <1>4 DEF TraderFindsStale
  <2>2. key \in KeyType
    BY <1>2, <1>3, KeysTyped
  <2> HIDE DEF key
  <2>3. after \in Unanswered
    BY <1>2, <2>2, FindsUnanswered, OperationsUnanswered
  <2> HIDE DEF after
  <2>4. <<db, after>> \in Seq(Unanswered)
    BY <2>3, FindsUnanswered
  <2>5. Ages(Go("risk_gate"))
    BY <1>1 DEF Ages, AnsweringNodes, Nodes
  <2> QED BY <2>1, <2>4, <2>5, PerformQuiet
<1>5. CASE TraderPricedOut
  <2> DEFINE saved == SaveTrades(db, IntentsOf(gs.rev, Orders), {})
             key   == Key("price_rejected", gs.rev, gs.round)
             after == Transition(saved, "pending_risk", key)
             node  == IF gs.round < MaxRounds THEN "risk_gate" ELSE "manual_review"
             next  == [Go(node) EXCEPT !.content = Requested, !.results = AllOrders("rejected")]
  <2>1. Perform("trader", <<db, saved, after>>, next)
    BY <1>5 DEF TraderPricedOut
  <2>2. key \in KeyType
    BY <1>3, KeysTyped
  <2>3. saved \in Unanswered
    BY FindsUnanswered, SaveTradesUnanswered
  <2> HIDE DEF key, saved
  <2>4. after \in Unanswered
    BY <1>2, <2>2, <2>3, OperationsUnanswered
  <2>5. Ages(next)
    <3>1. node \in {"risk_gate", "manual_review"}
      OBVIOUS
    <3>2. /\ Go(node) \in StateType /\ Go(node).node = node
          /\ Go(node).round = gs.round /\ Go(node).rev = gs.rev
      BY <1>1, <3>1 DEF Nodes
    <3> HIDE DEF node
    <3> QED BY <3>1, <3>2 DEF Ages, AnsweringNodes, StateType
  <2> HIDE DEF after, next
  <2>6. <<db, saved, after>> \in Seq(Unanswered)
    BY <2>3, <2>4, FindsUnanswered
  <2> QED BY <2>1, <2>5, <2>6, PerformQuiet
<1> QED BY <1>4, <1>5

LEMMA SubmissionQuiet == ASSUME TypeOK, Submission PROVE QuietStep
<1>1. PICK cut \in 1..NumOrders + 1, failure \in {"rejected", "error"} : Submit(cut, failure)
  BY DEF Submission
<1>2. /\ UNCHANGED <<db, cards>> /\ verdict' = NoVerdict
      /\ gs' = gs \/ \E results : gs' = [Go("persist") EXCEPT !.results = results]
  BY <1>1 DEF Submit, Complete, Die
<1>3. /\ Go("persist") \in StateType /\ Go("persist").node = "persist"
      /\ Go("persist").round = gs.round /\ Go("persist").rev = gs.rev
  BY GoFields DEF Nodes
<1>4. Ages(gs')
  BY <1>2, <1>3 DEF TypeOK, StateType, Ages, AnsweringNodes
<1> QED BY <1>2, <1>4 DEF QuietStep

LEMMA QuietNodes ==
  ASSUME TypeOK, RoundReviewed, (BeforeOrders /\ ~BossReview) \/ Submission \/ Persist
  PROVE  QuietStep
BY SilentQuiet, ReviewRevisionQuiet, PersistDecisionQuiet, ClosingQuiet, TraderReturnsQuiet,
   SubmissionQuiet DEF BeforeOrders, RiskGate

\* A checkpoint that ages leaves the cards that are out as old as they were.
LEMMA AgesKeepsCards ==
  ASSUME TypeOK, TypeOK', CardsAge, Ages(gs'), UNCHANGED cards
  PROVE  CardsAge'
<1>1. gs.round \in Nat /\ gs'.round \in Nat /\ \A c \in cards : c.round \in Nat
  BY DEF TypeOK, StateType, RowKey
<1> SUFFICES ASSUME NEW c \in cards
             PROVE  c.round < gs'.round
                    \/ (c = [rev |-> gs'.rev, round |-> gs'.round] /\ gs'.node \in AnsweringNodes)
  BY DEF CardsAge, CurrentCard
<1>2. CASE c.round < gs.round
  BY <1>1, <1>2 DEF Ages
<1>3. CASE c = CurrentCard /\ gs.node \in AnsweringNodes
  <2>1. c.round = gs.round
    BY <1>3 DEF CurrentCard
  <2> QED BY <1>1, <1>3, <2>1 DEF Ages, CurrentCard
<1> QED BY <1>2, <1>3 DEF CardsAge

LEMMA CardStable == ASSUME ChainInv, CardInv, [Next]_vars, ~OldTap PROVE CardInv'
<1>1. TypeOK /\ RoundReviewed /\ TypeOK'
  BY ChainStable DEF ChainInv
<1>2. CASE (BeforeOrders /\ ~BossReview) \/ Submission \/ Persist
  <2>1. QuietStep
    BY <1>1, <1>2, QuietNodes
  <2>2. CardsAge'
    BY <1>1, <2>1, AgesKeepsCards DEF QuietStep, CardInv
  <2> QED BY <2>1, <2>2 DEF QuietStep, CardInv, VerdictFits, OnOwnCard
<1>3. CASE BossReview
  <2> DEFINE decision == IF cfg.auto THEN "approved" ELSE NarrowApproval(verdict.status)
             approval == [ rev |-> gs.rev, round |-> gs.round, decision |-> decision,
                           channel |-> IF cfg.auto THEN "auto" ELSE cfg.channel,
                           card    |-> IF cfg.auto THEN CurrentCard ELSE verdict.card ]
             next     == [Go("trader") EXCEPT !.approval = decision]
  <2>1. PICK recorded \in BOOLEAN :
          Perform("boss_review",
            IF recorded THEN <<db, RecordApproval(db, approval)>> ELSE <<db>>, next)
    BY <1>3 DEF BossReview
  <2>2. UNCHANGED cards /\ verdict' = NoVerdict /\ gs.node = "boss_review"
    BY <2>1 DEF Perform, At
  <2>3. gs' = gs \/ gs' = next
    BY <2>1 DEF Perform, Complete, Die
  <2>4. next.node = "trader" /\ next.round = gs.round /\ next.rev = gs.rev
    BY <1>1, GoFields DEF Nodes, StateType
  <2>5. approval.card = [rev |-> approval.rev, round |-> approval.round]
    BY <1>3 DEF BossReview, CardInv, VerdictFits, CurrentCard
  <2> HIDE DEF next, approval
  <2>6. Ages(gs')
    BY <1>1, <2>2, <2>3, <2>4 DEF Ages, AnsweringNodes, TypeOK, StateType
  <2>7. db'.approvals \subseteq db.approvals \union {approval}
    <3>1. db' = db \/ db' = RecordApproval(db, approval)
      BY <2>1 DEF Perform, Complete, Die
    <3> QED BY <1>1, <3>1 DEF RecordApproval, TypeOK, StoreType
  <2>8. OnOwnCard'
    BY <2>5, <2>7 DEF CardInv, OnOwnCard
  <2>9. CardsAge'
    BY <1>1, <2>2, <2>6, AgesKeepsCards DEF CardInv
  <2> QED BY <2>2, <2>8, <2>9 DEF CardInv, VerdictFits
<1>4. CASE AskBoss
  <2>1. /\ UNCHANGED <<db, gs, cards>> /\ gs.node = "boss_review"
        /\ verdict'.card = CurrentCard
    BY <1>4 DEF AskBoss, AtInterrupt, At
  <2> QED BY <2>1 DEF CardInv, CardsAge, VerdictFits, OnOwnCard, CurrentCard
<1>5. CASE Suspend
  <2>1. /\ UNCHANGED <<db, gs, verdict>> /\ gs.node = "boss_review"
        /\ cards' \subseteq cards \union {CurrentCard}
    BY <1>5 DEF Suspend, AtInterrupt, At
  <2> QED BY <2>1 DEF CardInv, CardsAge, VerdictFits, OnOwnCard, CurrentCard, AnsweringNodes
<1>6. CASE Return \/ ResearchMoves \/ UNCHANGED vars
  <2>1. UNCHANGED <<db, gs, verdict, cards>>
    BY <1>6 DEF Return, ResearchMoves, vars
  <2> QED BY <2>1 DEF CardInv, CardsAge, VerdictFits, OnOwnCard, CurrentCard
<1>7. ASSUME NEW card \in cards, NEW status \in BossStatuses, Callback(card, status)
      PROVE  CardInv'
  <2>1. /\ UNCHANGED <<db, gs, cards>>
        /\ verdict' = IF gs.node = "boss_review"
                        THEN [status |-> status, card |-> card] ELSE NoVerdict
    BY <1>7 DEF Callback
  <2>2. gs.node = "boss_review" => card = CurrentCard
    <3>1. gs.node = "boss_review" => card.round = gs.round
      BY <1>7 DEF OldTap
    <3>2. gs.round \in Nat
      BY <1>1 DEF TypeOK, StateType
    <3> QED BY <3>1, <3>2 DEF CardInv, CardsAge
  <2> QED BY <2>1, <2>2 DEF CardInv, CardsAge, VerdictFits, OnOwnCard, CurrentCard
<1>8. CASE SnapshotAges
  <2>1. /\ UNCHANGED <<db, cards, verdict>> /\ gs'.node = gs.node /\ gs'.round = gs.round
        /\ gs'.rev = gs.rev
    BY <1>1, <1>8 DEF SnapshotAges, TypeOK, StateType
  <2> QED BY <2>1 DEF CardInv, CardsAge, VerdictFits, OnOwnCard, CurrentCard
<1> QED BY <1>2, <1>3, <1>4, <1>5, <1>6, <1>7, <1>8, StepKinds DEF Watching

\* As long as nobody taps a card of an earlier round while the graph waits for the
\* answer to another, every approval was given on the card of the revision and
\* round it is recorded for, and so is fresh: whatever dies, is resumed or reviewed
\* again, no other step mixes the rounds up (boss_review, validate_callback).
THEOREM OnlyOldTapsMislead == Spec /\ [][~OldTap]_vars => [](OnOwnCard /\ ApprovalIsFresh)
<1>1. Init => CardInv
  <2>1. Init => cards = {} /\ verdict = NoVerdict /\ db.approvals = {}
    BY DEF Init, EmptyStore
  <2> QED BY <2>1 DEF CardInv, CardsAge, VerdictFits, OnOwnCard
<1>2. ChainInv /\ [Next]_vars /\ [~OldTap]_vars /\ CardInv => CardInv'
  <2> SUFFICES ASSUME ChainInv, [Next]_vars, [~OldTap]_vars, CardInv PROVE CardInv'
    OBVIOUS
  <2>1. CASE ~OldTap
    BY <2>1, CardStable
  <2>2. CASE UNCHANGED vars
    BY <2>2 DEF vars, CardInv, CardsAge, VerdictFits, OnOwnCard, CurrentCard
  <2> QED BY <2>1, <2>2
<1>3. CardInv => OnOwnCard /\ ApprovalIsFresh
  <2>1. CardInv => OnOwnCard
    BY DEF CardInv
  <2>2. ASSUME OnOwnCard, NEW a \in db.approvals PROVE a.card.round = a.round
    <3>1. a.card = [rev |-> a.rev, round |-> a.round]
      BY <2>2 DEF OnOwnCard
    <3> QED BY <3>1
  <2> QED BY <2>1, <2>2 DEF ApprovalIsFresh
<1> QED BY <1>1, <1>2, <1>3, ChainInvariance, PTL DEF Spec
=============================================================================
