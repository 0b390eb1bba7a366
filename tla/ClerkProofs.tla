---------------------------- MODULE ClerkProofs ----------------------------
(***************************************************************************)
(* Theorems about Clerk, for every finite set of orders, however their     *)
(* order_ids are reused, every set of processes and every quantity.        *)
(*                                                                         *)
(* A run writes by what it read long before, and no lock keeps the broker, *)
(* the ledger or the other runs as they were.  What saves it is that       *)
(* evidence never expires: an execution that was returned has happened,    *)
(* and a terminal report stays true.  The invariant says so of everything  *)
(* that is carried from one step to another (Evidence), and that a run     *)
(* about to book has recorded what it books (RecordedFirst).  Executions   *)
(* and reports may go to the row of a namesake, and to no other (Aimed).   *)
(***************************************************************************)
EXTENDS Clerk, FiniteSetTheorems, TLAPS

\* The executions that have happened.
Happened == {e \in Execs : e[2] <= book[e[1]].done}

\* What a report says is so of the order or of a namesake.
Confirmed(o, report) ==
  /\ report = "filled" => \E n \in Namesakes(o) : book[n].done = Qty
  /\ report = "cancelled" => \E n \in Namesakes(o) : book[n].live = "withdrawn"

\* Every execution that is shown, recorded or carried by a run has happened,
\* and every report a run carries is true.
Evidence ==
  /\ shown \subseteq Happened
  /\ fills \subseteq Happened
  /\ \A p \in Procs : runs[p].got \subseteq Happened
  /\ \A p \in Procs : \A o \in Orders : Confirmed(o, runs[p].reports[o])

\* A run that is about to book has recorded the executions it goes by.
RecordedFirst == \A p \in Procs : runs[p].pc = "apply" => runs[p].got \subseteq fills

\* The executions of an order go to a row of its order_id.
Aimed == \A p \in Procs : \A o \in Orders : runs[p].to[o] \in Namesakes(o)

IInv ==
  /\ TypeOK
  /\ Evidence
  /\ Aimed
  /\ RecordedFirst
  /\ NoDoubleBooking
  /\ BasisHolds

-----------------------------------------------------------------------------
(* Orders with one order_id. *)

LEMMA NamesakeFacts ==
  ASSUME NEW o \in Orders
  PROVE  /\ o \in Namesakes(o) /\ Namesakes(o) \subseteq Orders
         /\ \A n \in Namesakes(o) : Namesakes(n) = Namesakes(o)
<1>1. o \in Namesakes(o) /\ Namesakes(o) \subseteq Orders
  BY ClerkAssumption DEF Namesakes
<1>2. ASSUME NEW n \in Namesakes(o), n # o
      PROVE  {g \in SameId : n \in g} = {g \in SameId : o \in g} /\ o \in UNION {g \in SameId : o \in g}
  BY <1>2, ClerkAssumption DEF Namesakes
<1>3. ASSUME NEW n \in Namesakes(o) PROVE Namesakes(n) = Namesakes(o)
  <2>1. CASE n = o
    BY <2>1
  <2>2. CASE n # o
    BY <1>2, <1>3, <2>2 DEF Namesakes
  <2> QED BY <2>1, <2>2
<1> QED BY <1>1, <1>3

-----------------------------------------------------------------------------
(* Counting executions. *)

LEMMA ExecsFinite == IsFiniteSet(Execs)
<1>1. IsFiniteSet(1 .. Qty)
  BY ClerkAssumption, FS_Interval
<1> QED BY <1>1, ClerkAssumption, FS_Product DEF Execs

\* Of fewer executions there are no more.
LEMMA Count ==
  ASSUME NEW many \in SUBSET Execs, NEW few \in SUBSET many
  PROVE  /\ Cardinality(few) \in Nat /\ Cardinality(many) \in Nat
         /\ Cardinality(few) <= Cardinality(many)
<1>1. IsFiniteSet(many)
  BY ExecsFinite, FS_Subset
<1>2. IsFiniteSet(few) /\ Cardinality(few) <= Cardinality(many)
  BY <1>1, FS_Subset
<1> QED BY <1>1, <1>2, FS_CardinalityType

\* Executions of one order with numbers up to n are n at most.
LEMMA ExecsCount ==
  ASSUME NEW o \in Orders, NEW n \in 0 .. Qty, NEW S \in SUBSET Execs,
         \A e \in S : e[1] = o /\ e[2] <= n
  PROVE  IsFiniteSet(S) /\ Cardinality(S) \in Nat /\ Cardinality(S) <= n
<1> DEFINE f == [e \in S |-> e[2]]
<1>1. n \in Nat /\ Qty \in Nat
  BY ClerkAssumption
<1>2. \A e \in S : e = <<o, e[2]>> /\ e[2] \in 1 .. n
  BY <1>1 DEF Execs
<1>3. f \in Injection(S, 1 .. n)
  <2>1. f \in [S -> 1 .. n]
    BY <1>2
  <2>2. \A d, e \in S : f[d] = f[e] => d = e
    BY <1>2
  <2> QED BY <2>1, <2>2 DEF Injection, IsInjective
<1>4. IsFiniteSet(1 .. n) /\ Cardinality(1 .. n) = n
  BY <1>1, FS_Interval
<1>5. IsFiniteSet(S) /\ Cardinality(S) <= Cardinality(1 .. n)
  BY <1>3, <1>4, FS_Injection
<1> QED BY <1>4, <1>5, FS_CardinalityType

\* An order that is done has been executed in full, and so have its namesakes
\* between them.
LEMMA DoneExecuted ==
  ASSUME NEW o \in Orders, NEW n \in Namesakes(o), book[n].done = Qty
  PROVE  Qty <= Cardinality(Executed(o))
<1> DEFINE S == {<<n, k>> : k \in 1 .. Qty}
           f == [k \in 1 .. Qty |-> <<n, k>>]
<1>1. n \in Orders /\ Qty \in Nat
  BY NamesakeFacts, ClerkAssumption
<1>2. S \in SUBSET Executed(o)
  BY <1>1 DEF Executed, Execs
<1>3. f \in Bijection(1 .. Qty, S)
  <2>1. f \in [1 .. Qty -> S] /\ \A j, k \in 1 .. Qty : f[j] = f[k] => j = k
    OBVIOUS
  <2>2. \A e \in S : \E k \in 1 .. Qty : f[k] = e
    OBVIOUS
  <2> QED BY <2>1, <2>2 DEF Bijection, Injection, Surjection, IsInjective
<1>4. Cardinality(S) = Qty
  <2>1. IsFiniteSet(1 .. Qty) /\ Cardinality(1 .. Qty) = Qty
    BY <1>1, FS_Interval
  <2> HIDE DEF f, S
  <2>2. ExistsBijection(1 .. Qty, S)
    BY <1>3 DEF ExistsBijection
  <2> QED BY <2>1, <2>2, FS_Bijection
<1>5. Executed(o) \in SUBSET Execs
  BY DEF Executed
<1> QED BY <1>2, <1>4, <1>5, Count

-----------------------------------------------------------------------------
(* What every step of the system does, whatever it writes. *)

\* The broker's side: what has happened stays so.
Onward ==
  \A o \in Orders :
    /\ book[o].done <= book'[o].done
    /\ book[o].done = Qty => book'[o].done = Qty
    /\ book[o].live = "withdrawn" => book'[o].live = "withdrawn"

\* A run carries what it carried, or what the broker says now.
Carries ==
  \A p \in Procs :
    /\ runs'[p].got \subseteq runs[p].got \union shown
    /\ \A o \in Orders :
         \/ runs'[p].reports[o] = "none"
         \/ \E n \in Namesakes(o) : runs'[p].reports[o] = runs[p].reports[n]
         \/ runs'[p].reports[o] = BrokerStatus(o) /\ UNCHANGED book

\* Executions are shown when they happen, and recorded when they were shown.
Records ==
  /\ shown' \subseteq shown \union Happened'
  /\ fills \subseteq fills'
  /\ \A e \in fills' : e \in fills \/ e \in shown \/ \E p \in Procs : e \in runs[p].got

\* A run comes to its booking with what is recorded, and adds nothing to it.
Prepares ==
  \A p \in Procs : runs'[p].pc = "apply" =>
    \/ runs'[p].got \subseteq fills'
    \/ runs[p].pc = "apply" /\ runs'[p].got \subseteq runs[p].got

Lawful == TypeOK' /\ Aimed' /\ Onward /\ Carries /\ Records /\ Prepares

\* The step books nothing.
BookingKept == \A o \in Orders : trades'[o].filled = trades[o].filled

\* The step settles nothing.
StatusKept ==
  \A o \in Orders : trades'[o].status = trades[o].status /\ trades'[o].basis = trades[o].basis

LEMMA HappenedGrows ==
  ASSUME TypeOK, TypeOK', Onward
  PROVE  Happened \subseteq Happened'
<1> SUFFICES ASSUME NEW e \in Happened PROVE e \in Happened'
  OBVIOUS
<1>1. e \in Execs /\ e[1] \in Orders /\ e[2] \in Nat /\ e[2] <= book[e[1]].done
  BY ClerkAssumption DEF Happened, Execs
<1>2. book[e[1]].done \in Nat /\ book'[e[1]].done \in Nat
  BY <1>1, ClerkAssumption DEF TypeOK
<1>3. book[e[1]].done <= book'[e[1]].done
  BY <1>1 DEF Onward
<1> QED BY <1>1, <1>2, <1>3 DEF Happened

\* Evidence outlives every step: nothing that has happened is undone.
LEMMA EvidenceStands ==
  ASSUME IInv, Lawful
  PROVE  Evidence' /\ RecordedFirst'
<1>0. TypeOK /\ TypeOK' /\ Evidence /\ Happened \subseteq Happened'
  BY HappenedGrows DEF IInv, Lawful
<1>1. shown' \subseteq Happened' /\ fills' \subseteq Happened'
  BY <1>0 DEF Evidence, Lawful, Records
<1>2. ASSUME NEW p \in Procs PROVE runs'[p].got \subseteq Happened'
  BY <1>0 DEF Evidence, Lawful, Carries
<1>3. ASSUME NEW p \in Procs, NEW o \in Orders
      PROVE  Confirmed(o, runs[p].reports[o])'
  <2>1. CASE runs'[p].reports[o] = "none"
    BY <2>1 DEF Confirmed
  <2>2. ASSUME NEW n \in Namesakes(o), runs'[p].reports[o] = runs[p].reports[n]
        PROVE  Confirmed(o, runs[p].reports[o])'
    <3>1. n \in Orders /\ Namesakes(n) = Namesakes(o) /\ Namesakes(o) \subseteq Orders
      BY NamesakeFacts
    <3>2. Confirmed(n, runs[p].reports[n])
      BY <1>0, <3>1 DEF Evidence
    <3> QED BY <2>2, <3>1, <3>2 DEF Confirmed, Lawful, Onward
  <2>3. CASE runs'[p].reports[o] = BrokerStatus(o) /\ UNCHANGED book
    BY <2>3, NamesakeFacts DEF Confirmed, BrokerStatus
  <2> QED BY <2>1, <2>2, <2>3 DEF Lawful, Carries
<1>4. RecordedFirst'
  BY DEF IInv, RecordedFirst, Lawful, Prepares, Records
<1> QED BY <1>1, <1>2, <1>3, <1>4 DEF Evidence

\* What is booked stays recorded.
LEMMA BookingStands ==
  ASSUME IInv, Lawful, BookingKept
  PROVE  NoDoubleBooking'
<1> SUFFICES ASSUME NEW o \in Orders
             PROVE  trades'[o].filled <= Cardinality({e \in fills' : e[1] \in Namesakes(o)})
  BY DEF NoDoubleBooking
<1> DEFINE few == {e \in fills : e[1] \in Namesakes(o)}
           many == {e \in fills' : e[1] \in Namesakes(o)}
<1>1. trades[o].filled \in Nat /\ trades'[o].filled = trades[o].filled
  BY DEF IInv, TypeOK, TradeType, BookingKept
<1>2. trades[o].filled <= Cardinality(few)
  BY DEF IInv, NoDoubleBooking
<1>3. many \in SUBSET Execs /\ few \in SUBSET many
  BY DEF Lawful, TypeOK, Records
<1> QED BY <1>1, <1>2, <1>3, Count

\* What has been executed stays executed.
LEMMA ExecutedGrows ==
  ASSUME TypeOK, TypeOK', Onward, NEW o \in Orders, Qty <= Cardinality(Executed(o))
  PROVE  Qty <= Cardinality(Executed(o)')
<1>1. Executed(o)' \in SUBSET Execs /\ Qty \in Nat
  BY ClerkAssumption DEF Executed
<1>2. Executed(o) \subseteq Executed(o)'
  <2> SUFFICES ASSUME NEW e \in Executed(o) PROVE e \in Executed(o)'
    OBVIOUS
  <2>1. e \in Execs /\ e[1] \in Namesakes(o) /\ e \in Happened
    BY DEF Executed, Happened
  <2> QED BY <2>1, HappenedGrows DEF Executed, Happened
<1> QED BY <1>1, <1>2, Count

\* What a row claims stays so.
LEMMA StatusStands ==
  ASSUME IInv, Lawful, StatusKept
  PROVE  BasisHolds'
<1> SUFFICES ASSUME NEW o \in Orders
             PROVE  /\ trades'[o].status = "filled" => Qty <= Cardinality(Executed(o)')
                    /\ trades'[o].status = "cancelled" => \E n \in Namesakes(o) : book'[n].live = "withdrawn"
                    /\ trades'[o].status = "expired" <=> trades'[o].basis = "inferred"
  BY DEF BasisHolds
<1>1. trades'[o].status = "filled" => Qty <= Cardinality(Executed(o)')
  BY ExecutedGrows DEF IInv, BasisHolds, Lawful, StatusKept
<1>2. trades'[o].status = "cancelled" => \E n \in Namesakes(o) : book'[n].live = "withdrawn"
  BY NamesakeFacts DEF IInv, BasisHolds, Lawful, Onward, StatusKept
<1> QED BY <1>1, <1>2 DEF IInv, BasisHolds, StatusKept

\* A step that touches no row, or only its age.
LEMMA QuietStep ==
  ASSUME IInv, Lawful, BookingKept, StatusKept
  PROVE  IInv'
BY EvidenceStands, BookingStands, StatusStands DEF IInv, Lawful

-----------------------------------------------------------------------------
(* Every step is lawful. *)

LEMMA BrokerStatusType ==
  ASSUME NEW o \in Orders
  PROVE  BrokerStatus(o) \in Ended \union {"submitted"}
BY DEF BrokerStatus, Ended

LEMMA InitInv == Init => IInv
<1> SUFFICES ASSUME Init PROVE IInv
  OBVIOUS
<1>1. TypeOK
  BY ClerkAssumption
  DEF Init, TypeOK, TradeType, RunType, NoTrade, Idle, Nothing, Statuses, Ended, Execs
<1>2. Evidence /\ Aimed /\ RecordedFirst
  BY NamesakeFacts DEF Init, Evidence, Aimed, RecordedFirst, Confirmed, Idle, Nothing
<1>3. NoDoubleBooking
  BY FS_EmptySet DEF Init, NoDoubleBooking, NoTrade
<1>4. BasisHolds
  BY DEF Init, BasisHolds, NoTrade
<1> QED BY <1>1, <1>2, <1>3, <1>4 DEF IInv

\* The market, the trader and the other writers of fills.
LEMMA MarketLawful ==
  ASSUME IInv, NEW o \in Orders, Place(o) \/ Execute(o) \/ Withdraw(o) \/ Save(o) \/ CollectFills
  PROVE  Lawful /\ BookingKept
<1>0. TypeOK
  BY DEF IInv
<1>1. TypeOK'
  <2>1. CASE Place(o)
    BY <1>0, <2>1 DEF TypeOK, Place
  <2>2. CASE Execute(o)
    BY <1>0, <2>2, ClerkAssumption DEF TypeOK, Execute, Execs
  <2>3. CASE Withdraw(o)
    BY <1>0, <2>3 DEF TypeOK, Withdraw
  <2>4. CASE Save(o)
    <3>1. PICK s \in {"error"} \union (IF book[o].live = "none" THEN {} ELSE {BrokerStatus(o)}) :
            trades' = [trades EXCEPT ![o].status = s]
      BY <2>4 DEF Save
    <3>2. s \in Statuses
      BY BrokerStatusType DEF Statuses
    <3>3. [trades[o] EXCEPT !.status = s] \in TradeType
      BY <1>0, <3>2 DEF TypeOK, TradeType
    <3>4. trades' = [trades EXCEPT ![o] = [trades[o] EXCEPT !.status = s]]
      BY <3>1
    <3>5. trades' \in [Orders -> TradeType]
      BY <1>0, <3>3, <3>4 DEF TypeOK
    <3> QED BY <1>0, <2>4, <3>5 DEF TypeOK, Save
  <2>5. CASE CollectFills
    BY <1>0, <2>5 DEF TypeOK, CollectFills
  <2> QED BY <2>1, <2>2, <2>3, <2>4, <2>5
<1>2. Onward
  BY <1>0, ClerkAssumption
  DEF TypeOK, Onward, Place, Execute, Withdraw, Save, CollectFills
<1>3. Records
  <2>1. CASE Execute(o)
    <3>1. book'[o].done = book[o].done + 1
      BY <1>0, <2>1 DEF TypeOK, Execute
    <3>2. <<o, book[o].done + 1>> \in Happened'
      BY <1>0, <2>1, <3>1, ClerkAssumption DEF TypeOK, Happened, Execs, Execute
    <3> QED BY <2>1, <3>2 DEF Records, Execute
  <2>2. CASE ~ Execute(o)
    BY <2>2 DEF Records, Place, Withdraw, Save, CollectFills
  <2> QED BY <2>1, <2>2
<1>4. Carries /\ Prepares /\ Aimed'
  <2>1. UNCHANGED runs
    BY DEF Place, Execute, Withdraw, Save, CollectFills
  <2> QED BY <2>1, NamesakeFacts DEF IInv, RecordedFirst, Carries, Prepares, Aimed
<1>5. BookingKept
  <2>1. CASE Save(o)
    BY <1>0, <2>1 DEF TypeOK, TradeType, BookingKept, Save
  <2>2. CASE UNCHANGED trades
    BY <2>2 DEF BookingKept
  <2> QED BY <2>1, <2>2 DEF Place, Execute, Withdraw, CollectFills
<1> QED BY <1>1, <1>2, <1>3, <1>4, <1>5 DEF Lawful

LEMMA NextDayLawful ==
  ASSUME IInv, NextDay
  PROVE  Lawful /\ BookingKept /\ StatusKept
<1>0. TypeOK
  BY DEF IInv
<1>1. \A o \in Orders :
        /\ trades'[o] \in TradeType
        /\ trades'[o].filled = trades[o].filled
        /\ trades'[o].status = trades[o].status /\ trades'[o].basis = trades[o].basis
  BY <1>0 DEF TypeOK, NextDay, TradeType
<1>2. \A p \in Procs :
        /\ runs'[p] \in RunType
        /\ runs'[p].pc = runs[p].pc /\ runs'[p].got = runs[p].got /\ runs'[p].to = runs[p].to
        /\ runs'[p].reports = runs[p].reports
  BY <1>0 DEF TypeOK, NextDay, RunType
<1>3. TypeOK'
  <2>1. trades' \in [Orders -> TradeType]
    BY <1>1 DEF NextDay
  <2>2. runs' \in [Procs -> RunType]
    BY <1>2 DEF NextDay
  <2> QED BY <1>0, <2>1, <2>2 DEF TypeOK, NextDay
<1>4. Onward
  BY <1>0, ClerkAssumption DEF TypeOK, Onward, NextDay
<1>5. Records /\ Carries /\ Prepares /\ Aimed'
  BY <1>2, NamesakeFacts DEF IInv, Records, Carries, Prepares, Aimed, NextDay
<1> QED BY <1>1, <1>3, <1>4, <1>5 DEF Lawful, BookingKept, StatusKept

\* A process that begins or is over carries nothing.
Carrying(r) ==
  /\ r \in RunType
  /\ r.got = {} /\ r.reports = Nothing /\ r.to = [o \in Orders |-> o]
  /\ r.pc \in {"idle", "register", "fills", "finish"}

LEMMA CarryingNothing ==
  ASSUME NEW today \in BOOLEAN
  PROVE  /\ Carrying(Idle)
         /\ Carrying([Idle EXCEPT !.pc = "register", !.today = TRUE])
         /\ Carrying([Idle EXCEPT !.pc = "fills"])
         /\ Carrying([Idle EXCEPT !.pc = "finish", !.today = today])
<1>1. Nothing \in [Orders -> Ended \union {"none", "submitted"}]
  BY DEF Nothing
<1>2. [o \in Orders |-> o] \in [Orders -> Orders]
  OBVIOUS
<1> QED BY <1>1, <1>2 DEF Carrying, Idle, RunType

\* What one run's step may make of what it carries.
Carried(p, r) ==
  /\ r \in RunType
  /\ r.got \subseteq runs[p].got \union shown
  /\ \A o \in Orders :
       /\ r.to[o] \in Namesakes(o)
       /\ \/ r.reports[o] \in {"none", BrokerStatus(o)}
          \/ \E n \in Namesakes(o) : r.reports[o] = runs[p].reports[n]
  /\ r.pc = "apply" => r.got \subseteq fills'

\* A step of one run, whatever it writes to the rows.
LEMMA RunStepLawful ==
  ASSUME IInv, NEW p \in Procs, NEW r, Carried(p, r), runs' = [runs EXCEPT ![p] = r],
         UNCHANGED <<book, shown>>, fills' = fills \/ fills' = fills \union runs[p].got,
         window' \in {"open", "completed"}, trades' \in [Orders -> TradeType]
  PROVE  Lawful
<1>0. TypeOK /\ Aimed /\ RecordedFirst
  BY DEF IInv
<1>1. runs'[p] = r /\ \A q \in Procs : q # p => runs'[q] = runs[q]
  BY <1>0 DEF TypeOK
<1>2. runs' \in [Procs -> RunType] /\ runs[p].got \in SUBSET Execs
  BY <1>0 DEF TypeOK, Carried, RunType
<1>3. TypeOK'
  BY <1>0, <1>2 DEF TypeOK
<1>4. Aimed'
  BY <1>0, <1>1 DEF Aimed, Carried
<1>5. Onward
  BY <1>0, ClerkAssumption DEF TypeOK, Onward
<1>6. Records
  BY DEF Records
<1>7. Carries
  BY <1>1, NamesakeFacts DEF Carries, Carried
<1>8. Prepares
  BY <1>1 DEF Prepares, Carried
<1> QED BY <1>3, <1>4, <1>5, <1>6, <1>7, <1>8 DEF Lawful

LEMMA NothingCarried ==
  ASSUME NEW p \in Procs, NEW r, Carrying(r)
  PROVE  Carried(p, r)
BY NamesakeFacts DEF Carrying, Carried, Nothing

\* A run's steps up to its booking: none of them writes a row.
RunsOn(p) ==
  /\ UNCHANGED trades
  /\ \/ Begin(p) \/ Start(p) \/ Register(p) \/ ReadFills(p) \/ ReadOrders(p)
     \/ BrokerUnavailable(p) \/ RecordFills(p) \/ StepRaises(p) \/ Finish(p) \/ Die(p)

LEMMA RunLawful ==
  ASSUME IInv, NEW p \in Procs, RunsOn(p)
  PROVE  Lawful
<1> DEFINE r == runs'[p]
<1>0. TypeOK /\ runs[p] \in RunType /\ Aimed
  BY DEF IInv, TypeOK
<1>1. UNCHANGED <<book, shown>> /\ trades' \in [Orders -> TradeType]
  BY <1>0
  DEF RunsOn, Begin, Start, Register, ReadFills, ReadOrders, BrokerUnavailable,
      RecordFills, StepRaises, Finish, Die, TypeOK
<1>2. runs' = [runs EXCEPT ![p] = r] /\ window' \in {"open", "completed"}
  BY <1>0 DEF TypeOK, RunsOn, Begin, Start, Register, ReadFills, ReadOrders, BrokerUnavailable,
              RecordFills, StepRaises, Finish, Die, Moves, Returns, Ends
<1>3. fills' = fills \/ fills' = fills \union runs[p].got
  BY DEF RunsOn, Begin, Start, Register, ReadFills, ReadOrders, BrokerUnavailable,
         RecordFills, StepRaises, Finish, Die
<1>4. Carried(p, r)
  <2>1. CASE Begin(p) \/ Start(p) \/ StepRaises(p) \/ Finish(p) \/ Die(p) \/ BrokerUnavailable(p)
    <3>1. \/ r = Idle
          \/ r = [Idle EXCEPT !.pc = "register", !.today = TRUE]
          \/ r = [Idle EXCEPT !.pc = "fills"]
          \/ r = [Idle EXCEPT !.pc = "finish", !.today = runs[p].today]
      BY <1>0, <2>1
      DEF TypeOK, Begin, Start, StepRaises, Finish, Die, BrokerUnavailable, Ends, Returns
    <3>2. runs[p].today \in BOOLEAN
      BY <1>0 DEF RunType
    <3> HIDE DEF r
    <3> QED BY <3>1, <3>2, CarryingNothing, NothingCarried
  <2>2. CASE Register(p) \/ ReadFills(p)
    <3>1. shown \in SUBSET Execs
      BY <1>0 DEF TypeOK
    <3>2. \/ r = [runs[p] EXCEPT !.pc = "fills"]
          \/ r = [runs[p] EXCEPT !.pc = "orders", !.got = shown]
      BY <1>0, <2>2 DEF TypeOK, Register, Moves, ReadFills
    <3> HIDE DEF r
    <3>3. /\ r \in RunType /\ r.got \subseteq runs[p].got \union shown
          /\ r.to = runs[p].to /\ r.reports = runs[p].reports /\ r.pc \in {"fills", "orders"}
      BY <1>0, <3>1, <3>2 DEF RunType
    <3> QED BY <1>0, <3>3, NamesakeFacts DEF Carried, Aimed
  <2>3. CASE ReadOrders(p)
    <3>1. PICK seen \in SUBSET {o \in Orders : book[o].live # "none"} :
            runs' = [runs EXCEPT
              ![p].pc = "record",
              ![p].reports = [o \in Orders |-> IF o \in seen THEN BrokerStatus(o) ELSE "none"]]
      BY <2>3 DEF ReadOrders
    <3> DEFINE seenNow == [o \in Orders |-> IF o \in seen THEN BrokerStatus(o) ELSE "none"]
    <3>2. seenNow \in [Orders -> Ended \union {"none", "submitted"}]
      BY BrokerStatusType
    <3>3. \A o \in Orders : seenNow[o] \in {"none", BrokerStatus(o)}
      OBVIOUS
    <3>4. runs' = [runs EXCEPT ![p].pc = "record", ![p].reports = seenNow]
      BY <3>1
    <3> HIDE DEF seenNow
    <3>5. r = [runs[p] EXCEPT !.pc = "record", !.reports = seenNow]
      BY <1>0, <3>4 DEF TypeOK
    <3>6. /\ r \in RunType /\ r.got = runs[p].got /\ r.to = runs[p].to
          /\ r.reports = seenNow /\ r.pc = "record"
      BY <1>0, <3>2, <3>5 DEF RunType
    <3> HIDE DEF r
    <3> QED BY <1>0, <3>3, <3>6 DEF Carried, Aimed
  <2>4. CASE RecordFills(p)
    <3>1. PICK to \in [Orders -> Orders], from \in [Orders -> Orders] :
            /\ \A o \in Orders : to[o] \in Matches(o) /\ from[o] \in Reporting(p, o)
            /\ runs' = [runs EXCEPT
                 ![p].pc = "apply",
                 ![p].to = to,
                 ![p].got = {e \in @ : Known(to[e[1]])},
                 ![p].reports = [o \in Orders |-> IF trades[o].status \in {"submitted", "partial"}
                                                    THEN @[from[o]] ELSE "none"],
                 ![p].open = {o \in Orders : trades[o].status = "submitted"}]
      BY <2>4 DEF RecordFills
    <3> DEFINE got == {e \in runs[p].got : Known(to[e[1]])}
               reports == [o \in Orders |-> IF trades[o].status \in {"submitted", "partial"}
                                              THEN runs[p].reports[from[o]] ELSE "none"]
               open == {o \in Orders : trades[o].status = "submitted"}
    <3>2. r = [runs[p] EXCEPT !.pc = "apply", !.to = to, !.got = got, !.reports = reports, !.open = open]
      BY <1>0, <3>1 DEF TypeOK
    <3>3. /\ got \subseteq runs[p].got /\ open \subseteq Orders
          /\ reports \in [Orders -> Ended \union {"none", "submitted"}]
      BY <1>0 DEF RunType
    <3>4. ASSUME NEW o \in Orders
          PROVE  /\ to[o] \in Namesakes(o)
                 /\ reports[o] = "none" \/ \E n \in Namesakes(o) : reports[o] = runs[p].reports[n]
      BY <3>1, NamesakeFacts DEF Matches, Reporting
    <3>5. got \subseteq fills'
      BY <2>4 DEF RecordFills
    <3> HIDE DEF got, reports, open
    <3>6. /\ r \in RunType
          /\ r.got = got /\ r.to = to /\ r.reports = reports
      BY <1>0, <3>2, <3>3 DEF RunType
    <3> HIDE DEF r
    <3> QED BY <3>3, <3>4, <3>5, <3>6 DEF Carried
  <2> QED BY <2>1, <2>2, <2>3, <2>4 DEF RunsOn
<1> QED BY <1>1, <1>2, <1>3, <1>4, RunStepLawful

-----------------------------------------------------------------------------
(* The booking. *)

\* What a row claims is so.
Claims(o, row) ==
  /\ row.status = "filled" => Qty <= Cardinality(Executed(o))
  /\ row.status = "cancelled" => \E n \in Namesakes(o) : book[n].live = "withdrawn"
  /\ row.status = "expired" <=> row.basis = "inferred"

\* A row as it may be: its quantity was recorded, and what it claims is so.
Sound(o, row) ==
  /\ row \in TradeType
  /\ row.filled <= Cardinality({e \in fills : e[1] \in Namesakes(o)})
  /\ Claims(o, row)

\* The shares that go to a row were recorded of its order and namesakes, and
\* executed.
LEMMA SharesRecorded ==
  ASSUME IInv, NEW p \in Procs, runs[p].pc = "apply", NEW o \in Orders
  PROVE  /\ Shares(p, o) \in Nat
         /\ Shares(p, o) <= Cardinality({e \in fills : e[1] \in Namesakes(o)})
         /\ Shares(p, o) <= Cardinality(Executed(o))
<1> DEFINE counted == {e \in runs[p].got : runs[p].to[e[1]] = o}
           recorded == {e \in fills : e[1] \in Namesakes(o)}
<1>0. /\ TypeOK /\ runs[p].got \subseteq fills /\ fills \subseteq Execs
      /\ fills \subseteq Happened
  BY DEF IInv, TypeOK, RecordedFirst, Evidence
<1>1. ASSUME NEW e \in counted PROVE e \in recorded
  <2>1. e \in Execs /\ e \in fills /\ e[1] \in Orders
    BY <1>0 DEF Execs
  <2>2. o \in Namesakes(e[1])
    BY <2>1 DEF IInv, Aimed
  <2>3. e[1] \in Namesakes(o)
    BY <2>1, <2>2, NamesakeFacts
  <2> QED BY <2>1, <2>3
<1>2. recorded \in SUBSET Execs /\ counted \in SUBSET recorded
  BY <1>0, <1>1
<1>3. Executed(o) \in SUBSET Execs /\ counted \in SUBSET Executed(o)
  BY <1>0, <1>2 DEF Executed, Happened
<1> HIDE DEF counted, recorded
<1>4. Cardinality(counted) \in Nat /\ Cardinality(counted) <= Cardinality(recorded)
  BY <1>2, Count
<1>5. Cardinality(counted) <= Cardinality(Executed(o))
  BY <1>3, Count
<1> QED BY <1>4, <1>5 DEF Shares, counted, recorded

\* What one row becomes after some of the statements: its quantity is the
\* recorded executions', its status the evidence's, or an inference that is
\* marked as one.
LEMMA RowBooked ==
  ASSUME IInv, NEW p \in Procs, runs[p].pc = "apply", NEW o \in Orders, NEW n \in 0 .. 3
  PROVE  Sound(o, Written(p, o, n))
<1> DEFINE T == trades[o]
           booked == IF n >= 1 THEN Booked(p, o, T) ELSE T
           resolved == IF n >= 2 THEN Resolved(p, o, booked) ELSE booked
           row == IF n = 3 THEN Inferred(p, o, resolved) ELSE resolved
           shares == Shares(p, o)
           recorded == Cardinality({e \in fills : e[1] \in Namesakes(o)})
           report == runs[p].reports[o]
<1>0. TypeOK /\ Evidence /\ Qty \in Nat \ {0}
  BY ClerkAssumption DEF IInv
<1>1. shares \in Nat /\ shares <= recorded /\ shares <= Cardinality(Executed(o))
  BY SharesRecorded
<1>2. Sound(o, T)
  BY <1>0 DEF IInv, TypeOK, NoDoubleBooking, BasisHolds, Sound, Claims
<1>3. Cardinality(Executed(o)) \in Nat
  BY Count DEF Executed
<1>4. Sound(o, Booked(p, o, T))
  <2>1. CASE shares > 0
    <3> HIDE DEF shares, recorded, T
    <3> DEFINE b == [T EXCEPT !.filled = shares, !.basis = "broker",
                              !.status = IF shares >= Qty THEN "filled" ELSE "partial"]
    <3>1. Booked(p, o, T) = b
      BY <2>1 DEF Booked, shares
    <3>2. b \in TradeType
      BY <1>1, <1>2 DEF TradeType, Statuses, Ended, Sound
    <3>3. /\ b.filled = shares /\ b.basis = "broker"
          /\ b.status = IF shares >= Qty THEN "filled" ELSE "partial"
      BY <1>2 DEF TradeType, Sound
    <3> HIDE DEF b
    <3>4. Claims(o, b)
      BY <1>0, <1>1, <1>3, <3>3 DEF Claims
    <3> QED BY <1>1, <3>1, <3>2, <3>3, <3>4 DEF Sound, recorded
  <2>2. CASE ~ (shares > 0)
    BY <1>2, <2>2 DEF Booked
  <2> QED BY <2>1, <2>2
<1>5. Sound(o, booked)
  BY <1>2, <1>4
<1>6. Sound(o, resolved)
  <2> HIDE DEF booked
  <2>1. CASE n >= 2 /\ report # "none"
    <3> DEFINE d == [booked EXCEPT !.status = report, !.basis = "broker"]
    <3>1. Confirmed(o, report) /\ report \in Ended \union {"submitted"}
      BY <1>0, <2>1 DEF Evidence, TypeOK, RunType
    <3>2. resolved = d
      BY <2>1 DEF Resolved
    <3> HIDE DEF report
    <3>3. d \in TradeType
      BY <1>5, <3>1 DEF TradeType, Statuses, Sound
    <3>4. d.filled = booked.filled /\ d.basis = "broker" /\ d.status = report
      BY <1>5 DEF TradeType, Sound
    <3> HIDE DEF d, resolved
    <3>5. Claims(o, d)
      BY <3>1, <3>4, DoneExecuted DEF Claims, Confirmed, Ended
    <3> QED BY <1>5, <3>2, <3>3, <3>4, <3>5 DEF Sound
  <2>2. CASE ~ (n >= 2 /\ report # "none")
    BY <1>5, <2>2 DEF Resolved
  <2> QED BY <2>1, <2>2
<1>7. Sound(o, row)
  <2> HIDE DEF resolved
  <2>1. CASE n = 3 /\ Expires(p, o)
    <3> DEFINE i == [resolved EXCEPT !.status = "expired", !.basis = "inferred"]
    <3>1. row = i
      BY <2>1 DEF Inferred
    <3>2. i \in TradeType /\ i.filled = resolved.filled /\ i.status = "expired" /\ i.basis = "inferred"
      BY <1>6 DEF TradeType, Statuses, Sound
    <3> HIDE DEF i, row
    <3>3. Claims(o, i)
      BY <3>2 DEF Claims
    <3> QED BY <1>6, <3>1, <3>2, <3>3 DEF Sound
  <2>2. CASE ~ (n = 3 /\ Expires(p, o))
    BY <1>6, <2>2 DEF Inferred
  <2> QED BY <2>1, <2>2
<1> QED BY <1>7 DEF Written

\* The booking, whole, or of a step that raised amid it.
Books(p) ==
  /\ runs[p].pc = "apply"
  /\ \E done \in [Orders -> 0 .. 3] : trades' = [o \in Orders |-> Written(p, o, done[o])]
  /\ \/ Returns(p) /\ UNCHANGED window
     \/ Ends(p, "open")
  /\ UNCHANGED <<book, shown, fills>>

LEMMA Bookings ==
  ASSUME NEW p \in Procs, Apply(p) \/ StepRaises(p)
  PROVE  RunsOn(p) \/ Books(p)
<1>1. CASE Apply(p)
  <2> DEFINE done == [o \in Orders |-> 3]
  <2>1. done \in [Orders -> 0 .. 3] /\ trades' = [o \in Orders |-> Written(p, o, done[o])]
    BY <1>1 DEF Apply
  <2> HIDE DEF done
  <2> QED BY <1>1, <2>1 DEF Apply, Books
<1>2. CASE StepRaises(p)
  BY <1>2 DEF StepRaises, RunsOn, Books
<1> QED BY <1>1, <1>2

LEMMA BooksInv ==
  ASSUME IInv, NEW p \in Procs, Books(p)
  PROVE  IInv'
<1>0. TypeOK /\ runs[p] \in RunType /\ UNCHANGED <<book, shown, fills>>
  BY DEF IInv, TypeOK, Books
<1>1. PICK done \in [Orders -> 0 .. 3] : trades' = [o \in Orders |-> Written(p, o, done[o])]
  BY DEF Books
<1>2. \A o \in Orders : Sound(o, Written(p, o, done[o]))
  BY <1>1, RowBooked DEF Books
<1>3. trades' \in [Orders -> TradeType] /\ \A o \in Orders : Sound(o, trades'[o])
  BY <1>1, <1>2 DEF Sound
<1> DEFINE r == runs'[p]
<1>4. runs' = [runs EXCEPT ![p] = r] /\ window' \in {"open", "completed"}
  BY <1>0 DEF TypeOK, Books, Returns, Ends
<1>5. r = Idle \/ r = [Idle EXCEPT !.pc = "finish", !.today = runs[p].today]
  BY <1>0 DEF TypeOK, Books, Returns, Ends
<1>6. runs[p].today \in BOOLEAN
  BY <1>0 DEF RunType
<1> HIDE DEF r
<1>7. Carried(p, r)
  BY <1>5, <1>6, CarryingNothing, NothingCarried
<1>8. Lawful
  BY <1>0, <1>3, <1>4, <1>7, RunStepLawful
<1>9. NoDoubleBooking' /\ BasisHolds'
  <2>1. \A o \in Orders : Executed(o)' = Executed(o)
    BY <1>0 DEF Executed
  <2> QED BY <1>0, <1>3, <2>1 DEF NoDoubleBooking, BasisHolds, Sound, Claims
<1> QED BY <1>8, <1>9, EvidenceStands DEF IInv, Lawful

-----------------------------------------------------------------------------
\* The trader's row: it claims no basis, and no more than the poll saw.
LEMMA SaveInv ==
  ASSUME IInv, NEW o \in Orders, Save(o)
  PROVE  IInv'
<1>0. TypeOK /\ UNCHANGED book
  BY DEF IInv, Save
<1>1. Lawful /\ BookingKept
  BY MarketLawful
<1>2. Evidence' /\ Aimed' /\ RecordedFirst' /\ NoDoubleBooking'
  BY <1>1, EvidenceStands, BookingStands DEF Lawful
<1>3. PICK s \in {"error"} \union (IF book[o].live = "none" THEN {} ELSE {BrokerStatus(o)}) :
        trades' = [trades EXCEPT ![o].status = s]
  BY DEF Save
<1>4. /\ trades'[o].status = s /\ trades'[o].basis = trades[o].basis
      /\ \A q \in Orders : q # o => trades'[q] = trades[q]
  BY <1>0, <1>3 DEF TypeOK, TradeType
<1>5. trades[o].status = "none" /\ trades[o].basis # "inferred"
  BY DEF IInv, BasisHolds, Save
<1>6. /\ s # "expired"
      /\ s = "filled" => book[o].done = Qty
      /\ s = "cancelled" => book[o].live = "withdrawn"
  BY <1>3 DEF BrokerStatus
<1>7. Claims(o, trades'[o])
  BY <1>4, <1>5, <1>6, NamesakeFacts, DoneExecuted DEF Claims
<1>8. BasisHolds'
  <2>1. \A q \in Orders : Executed(q)' = Executed(q)
    BY <1>0 DEF Executed
  <2>2. \A q \in Orders : Claims(q, trades'[q])
    BY <1>4, <1>7 DEF IInv, BasisHolds, Claims
  <2> QED BY <1>0, <2>1, <2>2 DEF BasisHolds, Claims
<1> QED BY <1>1, <1>2, <1>8 DEF IInv, Lawful

LEMMA StepInv == IInv /\ [Next]_vars => IInv'
<1> SUFFICES ASSUME IInv, [Next]_vars PROVE IInv'
  OBVIOUS
<1>1. ASSUME NEW o \in Orders, Place(o) \/ Execute(o) \/ Withdraw(o) \/ CollectFills
      PROVE  IInv'
  <2>1. StatusKept
    BY <1>1 DEF StatusKept, Place, Execute, Withdraw, CollectFills
  <2> QED BY <1>1, <2>1, MarketLawful, QuietStep
<1>2. ASSUME CollectFills PROVE IInv'
  <2>1. CASE Orders = {}
    <3>1. shown = {}
      BY <2>1 DEF IInv, TypeOK, Execs
    <3> QED BY <1>2, <3>1 DEF CollectFills
  <2>2. CASE \E o \in Orders : TRUE
    BY <1>1, <1>2, <2>2
  <2> QED BY <2>1, <2>2
<1>3. ASSUME NEW o \in Orders, Save(o) PROVE IInv'
  BY <1>3, SaveInv
<1>4. ASSUME NextDay PROVE IInv'
  BY <1>4, NextDayLawful, QuietStep
<1>5. ASSUME NEW p \in Procs, RunsOn(p) PROVE IInv'
  <2>1. Lawful /\ BookingKept /\ StatusKept
    BY <1>5, RunLawful DEF BookingKept, StatusKept, RunsOn
  <2> QED BY <2>1, QuietStep
<1>6. ASSUME NEW p \in Procs, Apply(p) \/ StepRaises(p) PROVE IInv'
  BY <1>5, <1>6, Bookings, BooksInv
<1>7. ASSUME UNCHANGED vars PROVE IInv'
  BY <1>7
  DEF vars, IInv, TypeOK, Evidence, Aimed, RecordedFirst, NoDoubleBooking, BasisHolds, Happened,
      Confirmed, Executed
<1>8. ASSUME NEW p \in Procs, Begin(p) \/ Start(p) \/ RunStep(p) PROVE IInv'
  <2>1. Apply(p) \/ StepRaises(p) \/ RunsOn(p)
    BY <1>8 DEF RunStep, RunsOn, Begin, Start, Register, ReadFills, ReadOrders, BrokerUnavailable,
                RecordFills, Finish, Die
  <2> QED BY <1>5, <1>6, <2>1
<1> QED BY <1>1, <1>2, <1>3, <1>4, <1>7, <1>8 DEF Next

LEMMA Invariance == Spec => []IInv
BY InitInv, StepInv, PTL DEF Spec

-----------------------------------------------------------------------------

\* Rows, fills and runs keep their types, whatever order_ids are reused.
THEOREM ClerkTypeCorrect == Spec => []TypeOK
<1>1. IInv => TypeOK
  BY DEF IInv
<1> QED BY <1>1, Invariance, PTL

\* No row is booked with more than was recorded of its order and of the orders
\* that cannot be told from it, however many runs book the same executions at
\* once, die between recording and booking, raise amid it, and begin again.
THEOREM BookedOnce == Spec => []NoDoubleBooking
<1>1. IInv => NoDoubleBooking
  BY DEF IInv
<1> QED BY <1>1, Invariance, PTL

\* A row that says filled or cancelled says what orders of its order_id and
\* symbol came to, and an expiry is always marked as inferred, whatever a run
\* read before.
THEOREM BasisStands == Spec => []BasisHolds
<1>1. IInv => BasisHolds
  BY DEF IInv
<1> QED BY <1>1, Invariance, PTL

\* Where no order_id is given twice, it says what the order itself came to: the
\* only rows settled by another order's report are those of reused order_ids.
THEOREM OwnBasisStands ==
  ASSUME SameId = {}
  PROVE  Spec => []BasisIsOwn
<1>1. ASSUME IInv PROVE BasisIsOwn
  <2>1. ASSUME NEW o \in Orders
        PROVE  Namesakes(o) = {o} /\ Cardinality(Executed(o)) <= book[o].done
    <3>1. Namesakes(o) = {o}
      BY DEF Namesakes
    <3>2. book[o].done \in 0 .. Qty
      BY <1>1 DEF IInv, TypeOK
    <3>3. Executed(o) \in SUBSET Execs /\ \A e \in Executed(o) : e[1] = o /\ e[2] <= book[o].done
      BY <3>1 DEF Executed
    <3> QED BY <3>1, <3>2, <3>3, ExecsCount
  <2>2. \A o \in Orders : book[o].done \in 0 .. Qty /\ Cardinality(Executed(o)) \in Nat
    BY <1>1, Count DEF IInv, TypeOK, Executed
  <2>3. \A o \in Orders : trades[o].status = "filled" => book[o].done = Qty
    BY <1>1, <2>1, <2>2, ClerkAssumption DEF IInv, BasisHolds
  <2> QED BY <1>1, <2>1, <2>3 DEF IInv, BasisHolds, BasisIsOwn, CancellationIsOwn
<1> QED BY <1>1, Invariance, PTL
=============================================================================
