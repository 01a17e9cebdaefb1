------------------------ MODULE ReservationLogProofs ------------------------
(***************************************************************************)
(* The event log accounts for the counters and replays legally, with any   *)
(* number of sweepers: a sweep that expires a finished reservation logs    *)
(* what it does to the counters.  The shadow records and the expiry metric *)
(* follow the log; while no sweeper runs so does every reservation.        *)
(***************************************************************************)
EXTENDS ReservationCountersProofs

\* A thread at product p has written the counters and not yet the event.
DuePoints == {"eventID", "append"}

DueAt(p, type) ==
  \E t \in Threads : pc[t] \in DuePoints /\ op[t].product = p /\ op[t].event = type

Due(p, type) == IF DueAt(p, type) THEN 1 ELSE 0

Accounted(p) ==
  /\ products[p].totalStock = Stock[p]
  /\ products[p].confirmedCount = LoggedConfirmed(p, Len(events)) + Due(p, "Confirmed")
  /\ products[p].activeReservationCount =
       LoggedActive(p, Len(events)) + Due(p, "Reserved") - Due(p, "Confirmed")
         - Due(p, "Cancelled") - Due(p, "Expired")

(* The event a thread will log is that of the counters it writes, and a    *)
(* rejection still has its reason when it is logged.                       *)
EventAgrees(t) ==
  /\ pc[t] \in {"save", "hold"} => op[t].event = "Reserved"
  /\ pc[t] = "sell" => op[t].event = "Confirmed"
  /\ pc[t] = "release" => op[t].event \in {"Cancelled", "Expired"}
  /\ pc[t] \in DuePoints /\ op[t].event = "ReserveRejected"
       => AvailableStock(products[op[t].product]) <= 0

\* The four counts of a product's log are numbers; a step leaves them.
LoggedNumbers(p) ==
  /\ Logged("Reserved", p, Len(events)) \in Int /\ Logged("Confirmed", p, Len(events)) \in Int
  /\ Logged("Cancelled", p, Len(events)) \in Int /\ Logged("Expired", p, Len(events)) \in Int

LoggedKept(p) ==
  /\ Logged("Reserved", p, Len(events))' = Logged("Reserved", p, Len(events))
  /\ Logged("Confirmed", p, Len(events))' = Logged("Confirmed", p, Len(events))
  /\ Logged("Cancelled", p, Len(events))' = Logged("Cancelled", p, Len(events))
  /\ Logged("Expired", p, Len(events))' = Logged("Expired", p, Len(events))

LogInv ==
  /\ \A p \in DOMAIN Stock : Accounted(p)
  /\ \A t \in Threads : EventAgrees(t)
  /\ LogReplaysLegally

-----------------------------------------------------------------------------

\* An event appended counts for its type and product and for no other.
LEMMA LoggedAppend ==
  ASSUME events \in Seq(InventoryEvent), NEW e, events' = Append(events, e), NEW type, NEW p
  PROVE  /\ \A n \in 0 .. Len(events) : Logged(type, p, n)' = Logged(type, p, n)
         /\ \A n \in 0 .. Len(events) : Logged(type, p, n) \in Nat
         /\ Logged(type, p, Len(events))' =
              Logged(type, p, Len(events)) + (IF e.type = type /\ e.product = p THEN 1 ELSE 0)
         /\ Len(events') = Len(events) + 1 /\ Len(events) \in Nat
  <1> DEFINE S(n) == {k \in 1 .. n : events[k].type = type /\ events[k].product = p}
             R == {k \in 1 .. Len(events) + 1 : events'[k].type = type /\ events'[k].product = p}
  <1>1. /\ Len(events) \in Nat /\ Len(events') = Len(events) + 1
        /\ \A k \in 1 .. Len(events) : events'[k] = events[k]
        /\ events'[Len(events) + 1] = e
    OBVIOUS
  <1>2. ASSUME NEW n \in 0 .. Len(events)
        PROVE  /\ IsFiniteSet(S(n)) /\ Cardinality(S(n)) \in Nat
               /\ S(n) = {k \in 1 .. n : events'[k].type = type /\ events'[k].product = p}
    <2>1. IsFiniteSet(1 .. n) /\ S(n) \in SUBSET (1 .. n)
      BY <1>1, FS_Interval
    <2>2. IsFiniteSet(S(n)) /\ Cardinality(S(n)) \in Nat
      BY <2>1, FS_Subset, FS_CardinalityType
    <2> QED BY <1>1, <2>2
  <1>3. R = IF e.type = type /\ e.product = p THEN S(Len(events)) \cup {Len(events) + 1}
                                              ELSE S(Len(events))
    BY <1>1
  <1>4. Len(events) + 1 \notin S(Len(events)) /\ Len(events) \in 0 .. Len(events)
    BY <1>1
  <1>5. Cardinality(R) = Cardinality(S(Len(events)))
                           + (IF e.type = type /\ e.product = p THEN 1 ELSE 0)
    <2> DEFINE T == S(Len(events))
    <2>1. IsFiniteSet(T) /\ Cardinality(T) \in Nat /\ Len(events) + 1 \notin T
      BY <1>2, <1>4
    <2>2. R = IF e.type = type /\ e.product = p THEN T \cup {Len(events) + 1} ELSE T
      BY <1>3
    <2> HIDE DEF T, R
    <2>3. Cardinality(T \cup {Len(events) + 1}) = Cardinality(T) + 1
      BY <2>1, FS_AddElement
    <2>4. Cardinality(R) = Cardinality(T) + (IF e.type = type /\ e.product = p THEN 1 ELSE 0)
      <3>1. CASE e.type = type /\ e.product = p
        BY <2>2, <2>3, <3>1
      <3>2. CASE ~ (e.type = type /\ e.product = p)
        BY <2>1, <2>2, <3>2
      <3> QED BY <3>1, <3>2
    <2> QED BY <2>4 DEF T
  <1>6. \A n \in 0 .. Len(events) :
          Logged(type, p, n)' = Logged(type, p, n) /\ Logged(type, p, n) \in Nat
    BY <1>2 DEF Logged
  <1>7. Logged(type, p, Len(events))' = Cardinality(R) /\ Logged(type, p, Len(events)) = Cardinality(S(Len(events)))
    BY <1>1 DEF Logged
  <1> HIDE DEF R, S
  <1> QED BY <1>1, <1>5, <1>6, <1>7

\* The counts of the log are numbers.
LEMMA LoggedType ==
  ASSUME events \in Seq(InventoryEvent), NEW n \in 0 .. Len(events), NEW type, NEW p
  PROVE  Logged(type, p, n) \in Nat
  <1>1. IsFiniteSet(1 .. n)
    BY FS_Interval
  <1>2. {k \in 1 .. n : events[k].type = type /\ events[k].product = p} \in SUBSET (1 .. n)
    OBVIOUS
  <1> QED BY <1>1, <1>2, FS_Subset, FS_CardinalityType DEF Logged

\* The steps by what they do to events due.
LEMMA DueCases ==
  ASSUME HistoryInv, NEW t \in Threads, LocalStep(t)
  PROVE  \/ HoldUnit(t) \/ Sell(t) \/ ReleaseHold(t) \/ RejectOutOfStock(t)
         \/ NextEventID(t) \/ AppendEventStep(t)
         \/ /\ UNCHANGED <<products, events>>
            /\ pc[t] \notin DuePoints /\ pc'[t] \notin DuePoints
  <1>0. pc \in [Threads -> ControlPoints]
    BY DEF HistoryInv, IInv, TypeOK
  <1> SUFFICES ASSUME ~ HoldUnit(t), ~ Sell(t), ~ ReleaseHold(t), ~ RejectOutOfStock(t),
                      ~ NextEventID(t), ~ AppendEventStep(t)
               PROVE  /\ UNCHANGED <<products, events>>
                      /\ pc[t] \notin DuePoints /\ pc'[t] \notin DuePoints
    OBVIOUS
  <1> QED
    BY <1>0 DEF DuePoints, repoVars, LocalStep, InsideStep, SharedStep, ExpireReservation,
       RecordShadow, LazyExpiryDone, RejectUnknownProduct, NextReservationID, SaveReserved,
       ConfirmExpiryDone, SweepExpiryDone, Confirm, Cancel, Goto, Acquire, Release,
       EnterStep, LockReserve, LockConfirm, LockConfirmLapsed, LockCancel, RejectFinalized,
       LockSweep, LeaveStep, Return, UnlockSweep, OutsideStep, BeginReserve, BeginFinalize,
       NextProduct, EndSweep, ReceiveTick, Snapshot

\* A step outside the due points moves no event due.
LEMMA DueKept ==
  ASSUME HistoryInv, NEW t \in Threads, LocalStep(t),
         pc[t] \notin DuePoints, pc'[t] \notin DuePoints, NEW p, NEW type
  PROVE  Due(p, type)' = Due(p, type)
  <1>1. DueAt(p, type)' <=> DueAt(p, type)
    BY OtherHands DEF DueAt
  <1> QED BY <1>1 DEF Due

\* What a step under the lock does to the events due.
LEMMA DueMoved ==
  ASSUME HistoryInv, NEW t \in Threads, LocalStep(t),
         pc[t] \in CriticalPoints, op'[t].product = op[t].product, NEW p, NEW type
  PROVE  /\ p # op[t].product => Due(p, type)' = Due(p, type)
         /\ p = op[t].product =>
              /\ Due(p, type) = IF pc[t] \in DuePoints /\ op[t].event = type THEN 1 ELSE 0
              /\ Due(p, type)' = IF pc'[t] \in DuePoints /\ op'[t].event = type THEN 1 ELSE 0
  <1>1. p # op[t].product => (DueAt(p, type)' <=> DueAt(p, type))
    BY OtherHands DEF DueAt
  <1>2. p = op[t].product => \A u \in Threads \ {t} : ~ (pc[u] \in DuePoints /\ op[u].product = p)
    BY DEF HistoryInv, IInv, LockInv, DuePoints, CriticalPoints
  <1>3. p = op[t].product =>
          /\ DueAt(p, type) <=> pc[t] \in DuePoints /\ op[t].event = type
          /\ DueAt(p, type)' <=> pc'[t] \in DuePoints /\ op'[t].event = type
    BY <1>2, OtherHands DEF DueAt
  <1> QED BY <1>1, <1>3 DEF Due

(* The event of a call follows the decision.                               *)
LEMMA EventAgreesStep ==
  ASSUME HistoryInv, \A u \in Threads : EventAgrees(u), NEW t \in Threads, LocalStep(t)
  PROVE  \A u \in Threads : EventAgrees(u)'
  <1>0. /\ TypeOK /\ pc \in [Threads -> ControlPoints] /\ op \in [Threads -> Op] /\ op[t] \in Op
        /\ LockInv /\ RefInv
    BY DEF HistoryInv, IInv, TypeOK
  <1>1. ASSUME NEW u \in Threads \ {t} PROVE EventAgrees(u)'
    <2>1. op'[u] = op[u] /\ pc'[u] = pc[u] /\ EventAgrees(u)
      BY OtherHands
    <2>2. pc[u] \in DuePoints => products'[op[u].product] = products[op[u].product]
      <3> SUFFICES ASSUME pc[u] \in DuePoints PROVE products'[op[u].product] = products[op[u].product]
        OBVIOUS
      <3>1. op[u].product \in DOMAIN Stock /\ lock[op[u].product] = u
        BY <1>0 DEF RefInv, Ref, StockPoints, CriticalPoints, DuePoints, LockInv
      <3>2. pc[t] \in CriticalPoints => op[t].product # op[u].product
        BY <1>0, <3>1 DEF LockInv
      <3> QED BY <3>1, <3>2, ProductWrites
    <2> QED BY <2>1, <2>2 DEF EventAgrees
  <1>2. EventAgrees(t)'
    <2> USE DEF EventAgrees, DuePoints
    <2>1. CASE HoldUnit(t) \/ Sell(t) \/ ReleaseHold(t)
      BY <1>0, <2>1 DEF HoldUnit, Sell, ReleaseHold, Goto
    <2>2. CASE RejectOutOfStock(t)
      <3>1. SameCall(t)
        BY <1>0, <2>2, CallEffect
      <3> QED BY <1>0, <2>2, <3>1 DEF RejectOutOfStock, Goto, SameCall, repoVars
    <2>3. CASE NextEventID(t)
      <3>1. SameCall(t) /\ op'[t].event = op[t].event
        BY <1>0, <2>3, CallEffect
      <3> QED BY <1>0, <2>3, <3>1 DEF NextEventID, Goto, SameCall, repoVars
    <2>4. CASE AppendEventStep(t)
      BY <1>0, <2>4 DEF AppendEventStep, Goto
    <2>5. CASE ExpireReservation(t) \/ Cancel(t) \/ Confirm(t)
      <3>1. CASE ExpireReservation(t)
        <4>1. op'[t].event = "Expired"
          BY <1>0, <3>1, CallEffect
        <4> QED BY <1>0, <3>1, <4>1 DEF ExpireReservation, Goto
      <3>2. CASE Cancel(t)
        <4>1. op'[t].event = "Cancelled"
          BY <1>0, <3>2, Zenon DEF Cancel, Op
        <4> QED BY <1>0, <3>2, <4>1 DEF Cancel, Goto
      <3>3. CASE Confirm(t)
        <4>1. op'[t].event = "Confirmed"
          BY <1>0, <3>3, Zenon DEF Confirm, Op
        <4> QED BY <1>0, <3>3, <4>1 DEF Confirm, Goto
      <3> QED BY <2>5, <3>1, <3>2, <3>3
    <2>6. CASE NextReservationID(t)
      <3>1. op'[t].event = "Reserved"
        BY <1>0, <2>6, Zenon DEF NextReservationID, Op
      <3> QED BY <1>0, <2>6, <3>1 DEF NextReservationID, Goto
    <2>7. CASE SaveReserved(t)
      BY <1>0, <2>7 DEF SaveReserved, Goto
    <2>8. ASSUME ~ HoldUnit(t), ~ Sell(t), ~ ReleaseHold(t), ~ RejectOutOfStock(t), ~ NextEventID(t),
                 ~ AppendEventStep(t), ~ ExpireReservation(t), ~ Cancel(t), ~ Confirm(t),
                 ~ NextReservationID(t), ~ SaveReserved(t)
          PROVE  EventAgrees(t)'
      <3>1. pc'[t] \notin {"save", "hold", "sell", "release", "eventID", "append"}
        BY <1>0, <2>8 DEF LocalStep, InsideStep, SharedStep,
           RecordShadow, LazyExpiryDone, RejectUnknownProduct,
           ConfirmExpiryDone, SweepExpiryDone, Goto, Acquire, Release,
           EnterStep, LockReserve, LockConfirm, LockConfirmLapsed, LockCancel, RejectFinalized,
           LockSweep, LeaveStep, Return, UnlockSweep, OutsideStep, BeginReserve, BeginFinalize,
           NextProduct, EndSweep, ReceiveTick, Snapshot
      <3> QED BY <3>1
    <2> QED BY <2>1, <2>2, <2>3, <2>4, <2>5, <2>6, <2>7, <2>8
  <1> QED BY <1>1, <1>2

(* Counters and log move together, with the event due in between.          *)
LEMMA AccountStep ==
  ASSUME HistoryInv, LogInv, NEW t \in Threads, LocalStep(t), NEW p \in DOMAIN Stock
  PROVE  Accounted(p)'
  <1> USE DEF LoggedConfirmed, LoggedActive
  <1> DEFINE n == Len(events)
             q == op[t].product
  <1>0. /\ TypeOK /\ pc \in [Threads -> ControlPoints] /\ op \in [Threads -> Op]
        /\ events \in Seq(InventoryEvent) /\ EventAgrees(t) /\ Accounted(p)
        /\ products[p].activeReservationCount \in Int /\ products[p].confirmedCount \in Int
    <2>1. products[p] \in ProductInventory
      BY DEF HistoryInv, IInv, TypeOK, RepoTypeOK
    <2> QED BY <2>1 DEF HistoryInv, IInv, TypeOK, RepoTypeOK, LogInv, ProductInventory
  <1>1. /\ \A type : Logged(type, p, n) \in Nat /\ Due(p, type) \in {0, 1}
        /\ op[t].event \in EventTypes
    <2>1. n \in 0 .. Len(events)
      BY <1>0
    <2>2. op[t] \in Op
      BY <1>0
    <2> QED BY <1>0, <2>1, <2>2, LoggedType DEF Due, Op
  <1>2. UNCHANGED events => \A type : Logged(type, p, n)' = Logged(type, p, n)
    BY DEF Logged
  <1>3. CASE /\ UNCHANGED <<products, events>>
             /\ pc[t] \notin DuePoints /\ pc'[t] \notin DuePoints
    <2>1. \A type : Due(p, type)' = Due(p, type) /\ Logged(type, p, n)' = Logged(type, p, n)
      BY <1>2, <1>3, DueKept
    <2> QED BY <1>0, <1>3, <2>1 DEF Accounted
  <1>4. CASE NextEventID(t) \/ RejectOutOfStock(t)
    <2>1. /\ SameCall(t) /\ UNCHANGED <<products, events>>
          /\ pc[t] \in {"eventID", "check"} /\ pc'[t] \in DuePoints
          /\ \/ pc[t] \in DuePoints /\ op'[t].event = op[t].event
             \/ pc[t] \notin DuePoints /\ op'[t].event = "ReserveRejected"
      BY <1>0, <1>4, CallEffect DEF NextEventID, RejectOutOfStock, Goto, repoVars, DuePoints
    <2>2. \A type : type # "ReserveRejected" => Due(p, type)' = Due(p, type)
      BY <2>1, DueMoved DEF SameCall, CriticalPoints
    <2>3. /\ \A type : Logged(type, p, Len(events))' = Logged(type, p, Len(events))
          /\ Due(p, "Reserved")' = Due(p, "Reserved") /\ Due(p, "Confirmed")' = Due(p, "Confirmed")
          /\ Due(p, "Cancelled")' = Due(p, "Cancelled") /\ Due(p, "Expired")' = Due(p, "Expired")
      BY <1>2, <2>1, <2>2
    <2> QED BY <1>0, <2>1, <2>3 DEF Accounted
  <1>5. CASE HoldUnit(t) \/ Sell(t) \/ ReleaseHold(t)
    <2>1. PICK a \in Int, c \in Int :
            \/ HoldUnit(t) /\ a = 1 /\ c = 0
            \/ Sell(t) /\ a = -1 /\ c = 1
            \/ ReleaseHold(t) /\ a = -1 /\ c = 0
      BY <1>5
    <2>2. /\ op' = op /\ events' = events /\ pc'[t] = "eventID" /\ pc[t] \notin DuePoints
          /\ pc[t] \in CriticalPoints
          /\ p # q => products'[p] = products[p]
          /\ p = q => /\ products'[p].totalStock = products[p].totalStock
                      /\ products'[p].activeReservationCount = products[p].activeReservationCount + a
                      /\ products'[p].confirmedCount = products[p].confirmedCount + c
      BY <2>1, CounterWrites DEF HoldUnit, Sell, ReleaseHold, Goto, DuePoints
    <2>3. \/ op[t].event = "Reserved" /\ a = 1 /\ c = 0
          \/ op[t].event = "Confirmed" /\ a = -1 /\ c = 1
          \/ op[t].event \in {"Cancelled", "Expired"} /\ a = -1 /\ c = 0
      BY <1>0, <2>1 DEF EventAgrees, HoldUnit, Sell, ReleaseHold, Goto
    <2>4. \A type : /\ p # q => Due(p, type)' = Due(p, type)
                    /\ p = q => Due(p, type) = 0 /\ Due(p, type)' = IF op[t].event = type THEN 1 ELSE 0
      BY <2>2, DueMoved DEF DuePoints
    <2>5. \A type : Logged(type, p, Len(events))' = Logged(type, p, Len(events))
      BY <1>2, <2>2
    <2>6. CASE p = q
      <3>1. /\ Due(p, "Reserved") = 0 /\ Due(p, "Confirmed") = 0
            /\ Due(p, "Cancelled") = 0 /\ Due(p, "Expired") = 0
            /\ Due(p, "Reserved")' = (IF op[t].event = "Reserved" THEN 1 ELSE 0)
            /\ Due(p, "Confirmed")' = (IF op[t].event = "Confirmed" THEN 1 ELSE 0)
            /\ Due(p, "Cancelled")' = (IF op[t].event = "Cancelled" THEN 1 ELSE 0)
            /\ Due(p, "Expired")' = (IF op[t].event = "Expired" THEN 1 ELSE 0)
        BY <2>4, <2>6
      <3>2. LoggedNumbers(p) /\ LoggedKept(p)
        BY <1>1, <2>5 DEF LoggedNumbers, LoggedKept
      <3>3. CASE op[t].event = "Reserved" /\ a = 1 /\ c = 0
        BY <1>0, <2>2, <2>6, <3>1, <3>2, <3>3 DEF Accounted, LoggedNumbers, LoggedKept
      <3>4. CASE op[t].event = "Confirmed" /\ a = -1 /\ c = 1
        BY <1>0, <2>2, <2>6, <3>1, <3>2, <3>4 DEF Accounted, LoggedNumbers, LoggedKept
      <3>5. CASE op[t].event = "Cancelled" /\ a = -1 /\ c = 0
        BY <1>0, <2>2, <2>6, <3>1, <3>2, <3>5 DEF Accounted, LoggedNumbers, LoggedKept
      <3>6. CASE op[t].event = "Expired" /\ a = -1 /\ c = 0
        BY <1>0, <2>2, <2>6, <3>1, <3>2, <3>6 DEF Accounted, LoggedNumbers, LoggedKept
      <3> QED BY <2>3, <3>3, <3>4, <3>5, <3>6
    <2>7. CASE p # q
      <3>1. /\ Due(p, "Reserved")' = Due(p, "Reserved") /\ Due(p, "Confirmed")' = Due(p, "Confirmed")
            /\ Due(p, "Cancelled")' = Due(p, "Cancelled") /\ Due(p, "Expired")' = Due(p, "Expired")
        BY <2>4, <2>7
      <3> QED BY <1>0, <2>2, <2>5, <2>7, <3>1 DEF Accounted
    <2> QED BY <2>6, <2>7
  <1>6. CASE AppendEventStep(t)
    <2>1. /\ op' = op /\ products' = products /\ pc[t] = "append" /\ pc'[t] \notin DuePoints
          /\ events' = Append(events, EventOf(t))
      BY <1>0, <1>6 DEF AppendEventStep, AppendEvent, Goto, DuePoints
    <2>2. EventOf(t).type = op[t].event /\ EventOf(t).product = q
      BY DEF EventOf
    <2>3. \A type : Logged(type, p, Len(events))' =
                      Logged(type, p, n) + (IF op[t].event = type /\ q = p THEN 1 ELSE 0)
      BY <1>0, <2>1, <2>2, LoggedAppend
    <2>4. \A type : /\ p # q => Due(p, type)' = Due(p, type)
                    /\ p = q => Due(p, type)' = 0 /\ Due(p, type) = IF op[t].event = type THEN 1 ELSE 0
      BY <2>1, DueMoved DEF DuePoints, CriticalPoints
    <2>5. CASE p = q
      <3>1. LoggedNumbers(p)
        BY <1>1 DEF LoggedNumbers
      <3>2. /\ Due(p, "Reserved")' = 0 /\ Due(p, "Confirmed")' = 0
            /\ Due(p, "Cancelled")' = 0 /\ Due(p, "Expired")' = 0
        BY <2>4, <2>5
      <3>3. ASSUME NEW type PROVE Logged(type, p, Len(events))' = Logged(type, p, Len(events)) + Due(p, type)
        BY <2>3, <2>4, <2>5
      <3>4. /\ Logged("Reserved", p, Len(events))' = Logged("Reserved", p, Len(events)) + Due(p, "Reserved")
            /\ Logged("Confirmed", p, Len(events))' = Logged("Confirmed", p, Len(events)) + Due(p, "Confirmed")
            /\ Logged("Cancelled", p, Len(events))' = Logged("Cancelled", p, Len(events)) + Due(p, "Cancelled")
            /\ Logged("Expired", p, Len(events))' = Logged("Expired", p, Len(events)) + Due(p, "Expired")
        BY <3>3
      <3>5. /\ Due(p, "Reserved") \in Int /\ Due(p, "Confirmed") \in Int
            /\ Due(p, "Cancelled") \in Int /\ Due(p, "Expired") \in Int
        BY DEF Due
      <3>6. /\ products'[p] = products[p] /\ products[p].totalStock = Stock[p]
            /\ products[p].confirmedCount = (LoggedConfirmed(p, Len(events)) + Due(p, "Confirmed"))
            /\ products[p].activeReservationCount =
                 (LoggedActive(p, Len(events)) + Due(p, "Reserved") - Due(p, "Confirmed")
                   - Due(p, "Cancelled") - Due(p, "Expired"))
        BY <1>0, <2>1 DEF Accounted
      <3>7. LoggedConfirmed(p, Len(events))' + Due(p, "Confirmed")'
              = LoggedConfirmed(p, Len(events)) + Due(p, "Confirmed")
        BY <3>1, <3>2, <3>4, <3>5 DEF LoggedNumbers
      <3>8. LoggedActive(p, Len(events))' + Due(p, "Reserved")' - Due(p, "Confirmed")'
                - Due(p, "Cancelled")' - Due(p, "Expired")'
              = LoggedActive(p, Len(events)) + Due(p, "Reserved") - Due(p, "Confirmed")
                  - Due(p, "Cancelled") - Due(p, "Expired")
        <4> DEFINE r == Logged("Reserved", p, Len(events))
                   k == Logged("Confirmed", p, Len(events))
                   c == Logged("Cancelled", p, Len(events))
                   x == Logged("Expired", p, Len(events))
                   dr == Due(p, "Reserved")
                   dk == Due(p, "Confirmed")
                   dc == Due(p, "Cancelled")
                   dx == Due(p, "Expired")
        <4>1. /\ r \in Int /\ k \in Int /\ c \in Int /\ x \in Int
              /\ dr \in Int /\ dk \in Int /\ dc \in Int /\ dx \in Int
          BY <3>1, <3>5 DEF LoggedNumbers
        <4>2. LoggedActive(p, Len(events))' + Due(p, "Reserved")' - Due(p, "Confirmed")'
                - Due(p, "Cancelled")' - Due(p, "Expired")'
              = (r + dr) - (k + dk) - (c + dc) - (x + dx) + 0 - 0 - 0 - 0
          BY <3>2, <3>4
        <4>3. LoggedActive(p, Len(events)) = r - k - c - x
          OBVIOUS
        <4> HIDE DEF r, k, c, x, dr, dk, dc, dx
        <4>4. (r + dr) - (k + dk) - (c + dc) - (x + dx) + 0 - 0 - 0 - 0
                = (r - k - c - x) + dr - dk - dc - dx
          BY <4>1
        <4> QED BY <4>2, <4>3, <4>4 DEF dr, dk, dc, dx
      <3> QED BY <3>6, <3>7, <3>8 DEF Accounted
    <2>6. CASE p # q
      <3>1. LoggedNumbers(p)
        BY <1>1 DEF LoggedNumbers
      <3>2. ASSUME NEW type PROVE Logged(type, p, Len(events))' = Logged(type, p, Len(events))
        <4>1. Logged(type, p, n) \in Nat
          BY <1>1
        <4> QED BY <2>3, <2>6, <4>1
      <3>3. LoggedKept(p)
        BY <3>2 DEF LoggedKept
      <3>4. /\ Due(p, "Reserved")' = Due(p, "Reserved") /\ Due(p, "Confirmed")' = Due(p, "Confirmed")
            /\ Due(p, "Cancelled")' = Due(p, "Cancelled") /\ Due(p, "Expired")' = Due(p, "Expired")
        BY <2>4, <2>6
      <3> QED BY <1>0, <2>1, <3>1, <3>3, <3>4 DEF Accounted, LoggedNumbers, LoggedKept
    <2> QED BY <2>5, <2>6
  <1> QED BY <1>3, <1>4, <1>5, <1>6, DueCases

\* The units that the events before the k-th leave free, and its legality.
FreeBefore(p, k) == Stock[p] - LoggedConfirmed(p, k - 1) - LoggedActive(p, k - 1)

Legal(k) ==
  /\ events[k].type = "Reserved" => FreeBefore(events[k].product, k) > 0
  /\ events[k].type = "ReserveRejected" => FreeBefore(events[k].product, k) <= 0

(* An event is appended under its product's lock, by a thread whose call   *)
(* the counters already tell; the events before it stay as they are.       *)
LEMMA ReplayStep ==
  ASSUME HistoryInv, LogInv, NEW t \in Threads, LocalStep(t)
  PROVE  LogReplaysLegally'
  <1>0. /\ events \in Seq(InventoryEvent) /\ Len(events) \in Nat
        /\ DOMAIN events = 1 .. Len(events) /\ \A k \in DOMAIN events : Legal(k)
    BY DEF HistoryInv, IInv, TypeOK, RepoTypeOK, LogInv, LogReplaysLegally, Legal, FreeBefore
  <1>1. CASE UNCHANGED events
    <2>1. \A type, p, k : Logged(type, p, k)' = Logged(type, p, k)
      BY <1>1 DEF Logged
    <2>2. \A p, k : FreeBefore(p, k)' = FreeBefore(p, k)
      BY <2>1 DEF FreeBefore, LoggedConfirmed, LoggedActive
    <2>3. \A k \in DOMAIN events' : Legal(k)'
      BY <1>0, <1>1, <2>2 DEF Legal
    <2> QED BY <2>3 DEF LogReplaysLegally, Legal, FreeBefore
  <1>2. CASE AppendEventStep(t)
    <2> DEFINE q == op[t].product
               e == EventOf(t)
    <2>1. /\ events' = Append(events, e) /\ pc[t] = "append"
          /\ e.type = op[t].event /\ e.product = q
      BY <1>2 DEF AppendEventStep, AppendEvent, Goto, EventOf
    <2>2. /\ DOMAIN events' = 1 .. Len(events) + 1 /\ events'[Len(events) + 1] = e
          /\ \A k \in 1 .. Len(events) : events'[k] = events[k]
      BY <1>0, <2>1
    <2>3. \A type, p : \A k \in 0 .. Len(events) : Logged(type, p, k)' = Logged(type, p, k)
      BY <1>0, <2>1, LoggedAppend
    <2>4. \A p : \A k \in 0 .. Len(events) : /\ LoggedConfirmed(p, k)' = LoggedConfirmed(p, k)
                                            /\ LoggedActive(p, k)' = LoggedActive(p, k)
      BY <2>3 DEF LoggedConfirmed, LoggedActive
    <2>5. ASSUME NEW k \in 1 .. Len(events) PROVE Legal(k)'
      <3>1. k - 1 \in 0 .. Len(events) /\ k \in DOMAIN events
        BY <1>0
      <3>2. Legal(k) /\ events'[k] = events[k]
        BY <1>0, <2>2, <3>1
      <3>3. \A p : FreeBefore(p, k)' = FreeBefore(p, k)
        BY <2>4, <3>1 DEF FreeBefore
      <3> QED BY <3>2, <3>3 DEF Legal
    <2>6. /\ e.type = "Reserved" => FreeBefore(q, Len(events) + 1) > 0
          /\ e.type = "ReserveRejected" => FreeBefore(q, Len(events) + 1) <= 0
      <3>1. q \in DOMAIN Stock
        BY <2>1 DEF HistoryInv, IInv, RefInv, Ref, StockPoints, CriticalPoints
      <3>2. products[q] \in ProductInventory
        BY <3>1 DEF HistoryInv, IInv, TypeOK, RepoTypeOK
      <3>3. /\ products[q].totalStock \in Int /\ products[q].activeReservationCount \in Int
            /\ products[q].confirmedCount \in Int
        BY <3>2, StockAssumption DEF ProductInventory
      <3>4. AvailableStock(products[q]) >= 0
        BY <3>1 DEF HistoryInv, IInv, TypeOK, RepoTypeOK, StockNeverNegative
      <3>5. op[t].event = "ReserveRejected" => AvailableStock(products[q]) <= 0
        BY <2>1 DEF LogInv, EventAgrees, DuePoints
      <3>6. Accounted(q)
        BY <3>1 DEF LogInv
      <3>7. LoggedNumbers(q)
        BY <1>0, LoggedType DEF LoggedNumbers
      <3>8. DueAt(q, op[t].event)
        BY <2>1 DEF DueAt, DuePoints
      <3>9. \A type : type # op[t].event => ~ DueAt(q, type)
        BY <2>1 DEF DueAt, DuePoints, HistoryInv, IInv, LockInv, CriticalPoints
      <3>10. FreeBefore(q, Len(events) + 1) = products[q].totalStock
               - (LoggedConfirmed(q, Len(events)) + LoggedActive(q, Len(events)))
        <4>1. Len(events) + 1 - 1 = Len(events)
          BY <1>0
        <4> QED BY <3>3, <3>6, <3>7, <4>1 DEF FreeBefore, Accounted, LoggedConfirmed, LoggedActive, LoggedNumbers
      <3>11. LoggedConfirmed(q, Len(events)) \in Int /\ LoggedActive(q, Len(events)) \in Int
        BY <3>7 DEF LoggedConfirmed, LoggedActive, LoggedNumbers
      <3>12. CASE op[t].event = "Reserved"
        <4>1. Due(q, "Reserved") = 1 /\ Due(q, "Confirmed") = 0 /\ Due(q, "Cancelled") = 0
              /\ Due(q, "Expired") = 0
          BY <3>8, <3>9, <3>12 DEF Due
        <4> HIDE DEF q
        <4>2. /\ products[q].confirmedCount = LoggedConfirmed(q, Len(events))
              /\ products[q].activeReservationCount = LoggedActive(q, Len(events)) + 1
          BY <3>6, <3>11, <4>1 DEF Accounted
        <4>3. FreeBefore(q, Len(events) + 1) > 0
          BY <3>3, <3>4, <3>10, <3>11, <4>2 DEF AvailableStock
        <4> QED BY <2>1, <3>12, <4>3
      <3>13. CASE op[t].event = "ReserveRejected"
        <4>1. Due(q, "Reserved") = 0 /\ Due(q, "Confirmed") = 0 /\ Due(q, "Cancelled") = 0
              /\ Due(q, "Expired") = 0
          BY <3>9, <3>13 DEF Due
        <4> HIDE DEF q
        <4>2. /\ products[q].confirmedCount = LoggedConfirmed(q, Len(events))
              /\ products[q].activeReservationCount = LoggedActive(q, Len(events))
          BY <3>6, <3>11, <4>1 DEF Accounted
        <4>3. FreeBefore(q, Len(events) + 1) <= 0
          BY <3>3, <3>5, <3>10, <3>13, <3>11, <4>2 DEF AvailableStock
        <4> QED BY <2>1, <3>13, <4>3
      <3> QED BY <2>1, <3>12, <3>13
    <2>7. ASSUME NEW k, k = Len(events) + 1 PROVE Legal(k)'
      <3>1. k - 1 \in 0 .. Len(events) /\ events'[k] = e
        BY <1>0, <2>2, <2>7
      <3>2. \A p : FreeBefore(p, k)' = FreeBefore(p, k)
        BY <2>4, <3>1 DEF FreeBefore
      <3>3. FreeBefore(q, k) = FreeBefore(q, Len(events) + 1)
        BY <2>7
      <3> QED BY <2>1, <2>6, <3>1, <3>2, <3>3 DEF Legal
    <2>8. \A k \in DOMAIN events' : Legal(k)'
      BY <1>0, <2>2, <2>5, <2>7
    <2> QED BY <2>8 DEF LogReplaysLegally, Legal, FreeBefore
  <1>3. UNCHANGED events \/ AppendEventStep(t)
    BY DueCases DEF HoldUnit, Sell, ReleaseHold, RejectOutOfStock, NextEventID, repoVars
  <1> QED BY <1>1, <1>2, <1>3

\* Every step keeps the invariant of the log.
LEMMA LogStep == RecordInv /\ LogInv /\ [Next]_vars => LogInv'
  <1> SUFFICES ASSUME RecordInv, LogInv, [Next]_vars PROVE LogInv'
    OBVIOUS
  <1>1. ASSUME NEW t \in Threads, LocalStep(t) PROVE LogInv'
    <2>1. \A p \in DOMAIN Stock : Accounted(p)'
      BY <1>1, AccountStep DEF RecordInv
    <2>2. \A u \in Threads : EventAgrees(u)'
      BY <1>1, EventAgreesStep DEF RecordInv, LogInv
    <2>3. LogReplaysLegally'
      BY <1>1, ReplayStep DEF RecordInv
    <2> QED BY <2>1, <2>2, <2>3 DEF LogInv
  <1>2. CASE EnvStep
    <2>1. UNCHANGED <<products, events, pc, op>>
      BY <1>2 DEF EnvStep, repoVars
    <2>2. /\ \A type, p, k : Logged(type, p, k)' = Logged(type, p, k)
          /\ \A type, p : Due(p, type)' = Due(p, type)
      BY <2>1 DEF Logged, Due, DueAt
    <2>3. \A p \in DOMAIN Stock : Accounted(p)'
      BY <2>1, <2>2 DEF LogInv, Accounted, LoggedConfirmed, LoggedActive
    <2>4. \A u \in Threads : EventAgrees(u)'
      BY <2>1 DEF LogInv, EventAgrees
    <2>5. LogReplaysLegally'
      BY <2>1, <2>2 DEF LogInv, LogReplaysLegally, LoggedConfirmed, LoggedActive
    <2> QED BY <2>3, <2>4, <2>5 DEF LogInv
  <1> QED BY <1>1, <1>2, StepCases

\* The log is empty and no event due at the start.
LEMMA LogInitially == Init => LogInv
  <1> SUFFICES ASSUME Init PROVE LogInv
    OBVIOUS
  <1>1. events = << >> /\ \A t \in Threads : pc[t] = "idle"
    BY DEF Init, RepoInit
  <1>2. \A type, p : Logged(type, p, Len(events)) = 0 /\ Due(p, type) = 0
    <2>1. Len(events) = 0 /\ 1 .. Len(events) = {}
      BY <1>1
    <2>2. \A type, p : ~ DueAt(p, type)
      BY <1>1 DEF DueAt, DuePoints
    <2> QED BY <2>1, <2>2, FS_EmptySet DEF Logged, Due
  <1>3. \A p \in DOMAIN Stock : Accounted(p)
    BY <1>2 DEF Init, RepoInit, Accounted, LoggedConfirmed, LoggedActive
  <1>4. \A t \in Threads : EventAgrees(t)
    BY <1>1 DEF EventAgrees, DuePoints
  <1>5. LogReplaysLegally
    BY <1>1 DEF LogReplaysLegally
  <1> QED BY <1>3, <1>4, <1>5 DEF LogInv

-----------------------------------------------------------------------------
(* In every reachable state the log, with the events due, accounts for the *)
(* counters.                                                               *)
THEOREM LogInvariance == Spec => [](RecordInv /\ LogInv)
  <1>1. Init => RecordInv /\ LogInv
    BY RecordInitially, LogInitially
  <1>2. RecordInv /\ LogInv /\ [Next]_vars => (RecordInv /\ LogInv)'
    BY RecordStep, LogStep
  <1> QED BY <1>1, <1>2, PTL DEF Spec

(* While no call is in progress on a product its counters are those of its *)
(* event log, although a sweep may release a hold twice.                   *)
THEOREM LogAgrees == Spec => []CountersMatchLog
  <1>1. RecordInv /\ LogInv => CountersMatchLog
    <2> SUFFICES ASSUME RecordInv, LogInv, NEW p \in DOMAIN products, LockFree(p)
                 PROVE  /\ products[p].confirmedCount = LoggedConfirmed(p, Len(events))
                        /\ products[p].activeReservationCount = LoggedActive(p, Len(events))
      BY DEF CountersMatchLog
    <2>1. p \in DOMAIN Stock /\ events \in Seq(InventoryEvent) /\ Accounted(p)
      BY DEF LogInv, RecordInv, HistoryInv, IInv, TypeOK, RepoTypeOK
    <2>2. \A type : Due(p, type) = 0
      BY ThreadAssumption DEF RecordInv, HistoryInv, IInv, LockInv, Due, DueAt, DuePoints,
         CriticalPoints, LockFree, Threads
    <2>3. LoggedNumbers(p)
      BY <2>1, LoggedType DEF LoggedNumbers
    <2> QED BY <2>1, <2>2, <2>3 DEF Accounted, LoggedConfirmed, LoggedActive, LoggedNumbers
  <1> QED BY <1>1, LogInvariance, PTL

(* The order of the log agrees with the decisions: a Reserved event stands *)
(* only where the events before it leave a unit free, a ReserveRejected    *)
(* only where they leave none.                                             *)
THEOREM LogReplays == Spec => []LogReplaysLegally
  <1>1. RecordInv /\ LogInv => LogReplaysLegally
    BY DEF LogInv
  <1> QED BY <1>1, LogInvariance, PTL

-----------------------------------------------------------------------------
(* The shadow records.                                                     *)

\* A step appends at most one event and leaves those of the log as they are.
LEMMA EventsKept ==
  ASSUME HistoryInv, NEW t \in Threads, LocalStep(t)
  PROVE  /\ events \in Seq(InventoryEvent)
         /\ \A k \in DOMAIN events : k \in DOMAIN events' /\ events'[k] = events[k]
         /\ \A type, p : \A n \in 0 .. Len(events) : Logged(type, p, n)' = Logged(type, p, n)
         /\ \/ UNCHANGED events
            \/ /\ AppendEventStep(t) /\ pc[t] = "append" /\ events' = Append(events, EventOf(t))
               /\ UNCHANGED <<products, reservations, op>>
  <1>0. events \in Seq(InventoryEvent)
    BY DEF HistoryInv, IInv, TypeOK, RepoTypeOK
  <1>1. CASE UNCHANGED events
    BY <1>0, <1>1 DEF Logged
  <1>2. CASE AppendEventStep(t)
    <2>1. /\ events' = Append(events, EventOf(t)) /\ pc[t] = "append"
          /\ UNCHANGED <<products, reservations, op>>
      BY <1>2 DEF AppendEventStep, AppendEvent, Goto
    <2>2. \A type, p : \A n \in 0 .. Len(events) : Logged(type, p, n)' = Logged(type, p, n)
      BY <1>0, <2>1, LoggedAppend
    <2>3. \A k \in DOMAIN events : k \in DOMAIN events' /\ events'[k] = events[k]
      BY <1>0, <2>1
    <2> QED BY <1>0, <1>2, <2>1, <2>2, <2>3
  <1>3. UNCHANGED events \/ AppendEventStep(t)
    BY DueCases DEF HoldUnit, Sell, ReleaseHold, RejectOutOfStock, NextEventID, repoVars
  <1> QED BY <1>1, <1>2, <1>3

\* The counters of a product are those that the first n events give.
CountedAt(p, n) ==
  /\ products[p].confirmedCount = LoggedConfirmed(p, n)
  /\ products[p].activeReservationCount = LoggedActive(p, n)

(* From the append of its event to the read for the shadow record the      *)
(* counters of the product stay those of that event.                       *)
ShadowDue(t) ==
  pc[t] = "shadow" =>
    \E n \in DOMAIN events : /\ events[n].id = op[t].eventID /\ events[n].product = op[t].product
                             /\ CountedAt(op[t].product, n)

ShadowInv == ShadowMatchesLog /\ \A t \in Threads : ShadowDue(t)

\* The records already handed over, and those still due to other threads, stand.
LEMMA ShadowKept ==
  ASSUME HistoryInv, ShadowInv, NEW t \in Threads, LocalStep(t)
  PROVE  /\ UNCHANGED shadow => ShadowMatchesLog'
         /\ \A u \in Threads \ {t} : ShadowDue(u)'
  <1>1. /\ \A n \in DOMAIN events : n \in DOMAIN events' /\ events'[n] = events[n] /\ n \in 0 .. Len(events)
        /\ \A p : \A n \in DOMAIN events : LoggedConfirmed(p, n)' = LoggedConfirmed(p, n)
                                           /\ LoggedActive(p, n)' = LoggedActive(p, n)
    BY EventsKept DEF LoggedConfirmed, LoggedActive
  <1>2. UNCHANGED shadow => ShadowMatchesLog'
    BY <1>1 DEF ShadowInv, ShadowMatchesLog
  <1>3. ASSUME NEW u \in Threads \ {t} PROVE ShadowDue(u)'
    <2>1. op'[u] = op[u] /\ pc'[u] = pc[u] /\ ShadowDue(u)
      BY OtherHands DEF ShadowInv
    <2>2. pc[u] = "shadow" => products'[op[u].product] = products[op[u].product]
      <3>1. pc[u] = "shadow" => op[u].product \in DOMAIN Stock /\ lock[op[u].product] = u
        BY DEF HistoryInv, IInv, RefInv, Ref, StockPoints, CriticalPoints, LockInv
      <3>2. pc[t] \in CriticalPoints => lock[op[t].product] = t
        BY DEF HistoryInv, IInv, LockInv
      <3> QED BY <3>1, <3>2, ProductWrites
    <2> QED BY <1>1, <2>1, <2>2 DEF ShadowDue, CountedAt
  <1> QED BY <1>2, <1>3

\* An event appended for a change of the counters tells them as they are.
LEMMA ShadowMade ==
  ASSUME HistoryInv, LogInv, NEW t \in Threads, LocalStep(t)
  PROVE  ShadowDue(t)'
  <1>0. pc \in [Threads -> ControlPoints] /\ events \in Seq(InventoryEvent)
    BY DEF HistoryInv, IInv, TypeOK, RepoTypeOK
  <1>1. CASE ~ AppendEventStep(t)
    <2>1. pc'[t] # "shadow"
      BY <1>0, <1>1 DEF LocalStep, InsideStep, SharedStep, Goto, ExpireReservation, ReleaseHold,
         NextEventID, RecordShadow, LazyExpiryDone, RejectUnknownProduct,
         RejectOutOfStock, NextReservationID, SaveReserved, HoldUnit, ConfirmExpiryDone,
         Confirm, Sell, Cancel, SweepExpiryDone, EnterStep, LockReserve, LockConfirm,
         LockConfirmLapsed, LockCancel, RejectFinalized, LockSweep, LeaveStep, Return,
         UnlockSweep, OutsideStep, BeginReserve, BeginFinalize, NextProduct, EndSweep,
         ReceiveTick, Snapshot, Acquire, Release
    <2> QED BY <2>1 DEF ShadowDue
  <1>2. CASE AppendEventStep(t)
    <2> DEFINE p == op[t].product
    <2>0. PICK n : n = Len(events) + 1
      OBVIOUS
    <2>1. /\ op' = op /\ products' = products /\ pc[t] = "append" /\ pc'[t] \notin DuePoints
          /\ events' = Append(events, EventOf(t))
      BY <1>0, <1>2 DEF AppendEventStep, AppendEvent, Goto, DuePoints
    <2>2. p \in DOMAIN Stock
      BY <2>1 DEF HistoryInv, IInv, RefInv, Ref, StockPoints, CriticalPoints
    <2>3. Accounted(p)'
      BY <2>1, <2>2, AccountStep
    <2>4. /\ Due(p, "Reserved")' = 0 /\ Due(p, "Confirmed")' = 0
          /\ Due(p, "Cancelled")' = 0 /\ Due(p, "Expired")' = 0
      BY <2>1, DueMoved DEF DuePoints, CriticalPoints
    <2>5. /\ n \in DOMAIN events' /\ events'[n].id = op'[t].eventID /\ events'[n].product = p
          /\ Len(events') = n
      BY <1>0, <2>0, <2>1 DEF EventOf
    <2>6. /\ \A type : Logged(type, p, n)' = Logged(type, p, Len(events))'
          /\ \A type : Logged(type, p, Len(events))' \in Int
      <3> SUFFICES ASSUME NEW type
                   PROVE  /\ Logged(type, p, n)' = Logged(type, p, Len(events))'
                          /\ Logged(type, p, Len(events))' \in Int
        OBVIOUS
      <3>1. Logged(type, p, Len(events)) \in Nat /\ Len(events) \in 0 .. Len(events)
        BY <1>0, LoggedType
      <3>2. Logged(type, p, Len(events))' \in Int
        BY <1>0, <2>1, <3>1, LoggedAppend
      <3>3. Logged(type, p, n)' = Logged(type, p, Len(events))'
        BY <2>5 DEF Logged
      <3> QED BY <3>2, <3>3
    <2>7. /\ LoggedConfirmed(p, n)' = LoggedConfirmed(p, Len(events))'
          /\ LoggedActive(p, n)' = LoggedActive(p, Len(events))'
          /\ LoggedConfirmed(p, Len(events))' \in Int /\ LoggedActive(p, Len(events))' \in Int
      BY <2>6 DEF LoggedConfirmed, LoggedActive
    <2>8. CountedAt(p, n)'
      BY <2>1, <2>3, <2>4, <2>7 DEF Accounted, CountedAt
    <2> QED BY <2>1, <2>5, <2>8 DEF ShadowDue
  <1> QED BY <1>1, <1>2

\* Every step keeps the shadow records those of their events.
LEMMA ShadowStep == RecordInv /\ LogInv /\ ShadowInv /\ [Next]_vars => ShadowInv'
  <1> SUFFICES ASSUME RecordInv, LogInv, ShadowInv, [Next]_vars PROVE ShadowInv'
    OBVIOUS
  <1>1. ASSUME NEW t \in Threads, LocalStep(t) PROVE ShadowInv'
    <2>0. HistoryInv /\ shadow \in Seq(ShadowRecord) /\ Hands(t)
      BY DEF RecordInv, HistoryInv, IInv, TypeOK
    <2>1. \A u \in Threads : ShadowDue(u)'
      BY <1>1, <2>0, ShadowKept, ShadowMade
    <2>2. CASE RecordShadow(t)
      <3>1. /\ pc[t] = "shadow" /\ UNCHANGED events
            /\ shadow' = Append(shadow, [event |-> op[t].eventID,
                                         product |-> products[reservations[op[t].res].product]])
        BY <2>2 DEF RecordShadow, Goto, repoVars
      <3>2. reservations[op[t].res].product = op[t].product
        BY <2>0, <3>1 DEF Hands, HasReservation
      <3>3. ShadowDue(t)
        BY DEF ShadowInv
      <3>4. \A p, n : LoggedConfirmed(p, n)' = LoggedConfirmed(p, n) /\ LoggedActive(p, n)' = LoggedActive(p, n)
        BY <3>1 DEF LoggedConfirmed, LoggedActive, Logged
      <3>5. ShadowMatchesLog'
        <4> DEFINE rec == [event |-> op[t].eventID, product |-> products[op[t].product]]
        <4>1. /\ DOMAIN shadow' = DOMAIN shadow \cup {Len(shadow) + 1}
              /\ \A k \in DOMAIN shadow : shadow'[k] = shadow[k]
              /\ shadow'[Len(shadow) + 1] = rec
          BY <2>0, <3>1, <3>2
        <4>2. rec.event = op[t].eventID /\ rec.product = products[op[t].product]
          OBVIOUS
        <4> HIDE DEF rec
        <4> QED BY <3>1, <3>3, <3>4, <4>1, <4>2 DEF ShadowMatchesLog, ShadowInv, ShadowDue, CountedAt
      <3> QED BY <2>1, <3>5 DEF ShadowInv
    <2>3. CASE ~ RecordShadow(t)
      <3>1. UNCHANGED shadow
        BY <1>1, <2>3 DEF LocalStep, InsideStep, SharedStep, ExpireReservation, ReleaseHold, NextEventID,
           AppendEventStep, LazyExpiryDone, RejectUnknownProduct, RejectOutOfStock,
           NextReservationID, SaveReserved, HoldUnit, ConfirmExpiryDone,
           Confirm, Sell, Cancel, SweepExpiryDone, EnterStep, LockReserve, LockConfirm,
           LockConfirmLapsed, LockCancel, RejectFinalized, LockSweep, LeaveStep, Return,
           UnlockSweep, OutsideStep, BeginReserve, BeginFinalize, NextProduct, EndSweep,
           ReceiveTick, Snapshot
      <3> QED BY <1>1, <2>0, <2>1, <3>1, ShadowKept DEF ShadowInv
    <2> QED BY <2>2, <2>3
  <1>2. CASE EnvStep
    <2>1. UNCHANGED <<products, events, shadow, pc, op>>
      BY <1>2 DEF EnvStep, repoVars
    <2>2. \A p, n : LoggedConfirmed(p, n)' = LoggedConfirmed(p, n) /\ LoggedActive(p, n)' = LoggedActive(p, n)
      BY <2>1 DEF LoggedConfirmed, LoggedActive, Logged
    <2> QED BY <2>1, <2>2 DEF ShadowInv, ShadowMatchesLog, ShadowDue, CountedAt
  <1> QED BY <1>1, <1>2, StepCases

(* The counters that recordShadow reads after the event was appended are   *)
(* those of the event, with any sweepers: the lock is still held.          *)
THEOREM ShadowAgrees == Spec => []ShadowMatchesLog
  <1>1. Init => ShadowInv
    BY DEF Init, ShadowInv, ShadowMatchesLog, ShadowDue
  <1>2. ShadowInv => ShadowMatchesLog
    BY DEF ShadowInv
  <1> QED BY <1>1, <1>2, LogInvariance, ShadowStep, PTL DEF Spec

-----------------------------------------------------------------------------
(* The expiry metric.                                                      *)

(* The expiries a sweep has logged and not yet added to the metric: all it *)
(* has counted but the one in progress.                                    *)
ReportDue(t) ==
  IF op[t].kind # "sweep" THEN 0
  ELSE IF pc[t] \in {"release", "eventID", "append"} THEN op[t].total - 1 ELSE op[t].total

\* One pair for each, so that a sum over the sweepers is a cardinality.
Unreported == {x \in Threads \X Nat : 1 <= x[2] /\ x[2] <= ReportDue(x[1])}

LoggedExpiries == {k \in DOMAIN events : events[k].type = "Expired"}

MetricInv ==
  /\ IsFiniteSet(Unreported)
  /\ expiredTotal + Cardinality(Unreported) <= Cardinality(LoggedExpiries)

\* The total of a sweep rises with an expiry only and starts at zero.
LEMMA TotalEffect ==
  ASSUME TypeOK, NEW t \in Threads
  PROVE  /\ ExpireReservation(t) => op'[t].total = op[t].total + 1
         /\ \/ NextEventID(t) \/ LockReserve(t) \/ LazyExpiryDone(t) \/ RejectUnknownProduct(t)
            \/ RejectOutOfStock(t) \/ NextReservationID(t) \/ LockConfirm(t) \/ LockCancel(t)
            \/ RejectFinalized(t) \/ LockConfirmLapsed(t) \/ Confirm(t) \/ Cancel(t)
            \/ Snapshot(t) \/ NextProduct(t)
            => op'[t].total = op[t].total /\ op'[t].kind = op[t].kind
         /\ ReceiveTick(t) => op'[t].total = 0
  <1>0. op \in [Threads -> Op] /\ op[t] \in Op
    BY DEF TypeOK
  <1>1. ExpireReservation(t) => op'[t].total = op[t].total + 1
    <2> SUFFICES ASSUME ExpireReservation(t) PROVE op'[t].total = op[t].total + 1
      OBVIOUS
    <2>1. PICK i \in Remaining(t) :
            op' = [op EXCEPT ![t].res = i, ![t].todo = @ \ {i}, ![t].event = "Expired",
                             ![t].total = @ + 1]
      BY DEF ExpireReservation
    <2> QED BY <1>0, <2>1, Zenon DEF Op
  <1>2. ASSUME NextEventID(t) \/ LazyExpiryDone(t) \/ RejectUnknownProduct(t) \/ RejectOutOfStock(t)
               \/ NextReservationID(t)
        PROVE  op'[t].total = op[t].total /\ op'[t].kind = op[t].kind
    <2>1. CASE NextEventID(t)
      BY <1>0, <2>1, Zenon DEF NextEventID, Op
    <2>2. CASE LazyExpiryDone(t)
      BY <1>0, <2>2, Zenon DEF LazyExpiryDone, Op
    <2>3. CASE RejectUnknownProduct(t)
      BY <1>0, <2>3, Zenon DEF RejectUnknownProduct, Op
    <2>4. CASE RejectOutOfStock(t)
      BY <1>0, <2>4, Zenon DEF RejectOutOfStock, Op
    <2>5. CASE NextReservationID(t)
      BY <1>0, <2>5, Zenon DEF NextReservationID, Op
    <2> QED BY <1>2, <2>1, <2>2, <2>3, <2>4, <2>5
  <1>3. ASSUME LockReserve(t) \/ LockConfirm(t) \/ LockCancel(t) \/ RejectFinalized(t)
        PROVE  op'[t].total = op[t].total /\ op'[t].kind = op[t].kind
    BY <1>0, <1>3, Zenon DEF LockReserve, LockConfirm, LockCancel, RejectFinalized, Op
  <1>4. ASSUME LockConfirmLapsed(t) PROVE op'[t].total = op[t].total /\ op'[t].kind = op[t].kind
    <2>1. op' = [op EXCEPT ![t].now = clock, ![t].todo = {op[t].res},
                           ![t].err = "ErrReservationExpired"]
      BY <1>4 DEF LockConfirmLapsed
    <2> QED BY <1>0, <2>1 DEF Op
  <1>5. ASSUME Confirm(t) \/ Cancel(t) \/ Snapshot(t) \/ NextProduct(t)
        PROVE  op'[t].total = op[t].total /\ op'[t].kind = op[t].kind
    BY <1>0, <1>5, Zenon DEF Confirm, Cancel, Snapshot, NextProduct, Op
  <1>6. ReceiveTick(t) => op'[t].total = 0
    BY <1>0, Zenon DEF ReceiveTick, NoOp
  <1> QED BY <1>1, <1>2, <1>3, <1>4, <1>5, <1>6

(* A step logs an expiry of its sweep, reports all of them at its end, or  *)
(* adds none.                                                              *)
LEMMA ReportStep ==
  ASSUME HistoryInv, AllTell, NEW t \in Threads, LocalStep(t)
  PROVE  /\ \A u \in Threads \ {t} : ReportDue(u)' = ReportDue(u)
         /\ ReportDue(t) \in Int
         /\ \/ ReportDue(t)' <= ReportDue(t) /\ ReportDue(t)' \in Int /\ UNCHANGED expiredTotal
            \/ /\ AppendEventStep(t) /\ op[t].event = "Expired"
               /\ ReportDue(t)' = ReportDue(t) + 1 /\ UNCHANGED expiredTotal
            \/ /\ EndSweep(t) /\ op[t].total \in Nat /\ ReportDue(t) = op[t].total
               /\ ReportDue(t)' = 0 /\ expiredTotal' = expiredTotal + op[t].total
  <1>0. /\ TypeOK /\ pc \in [Threads -> ControlPoints] /\ op[t] \in Op /\ op[t].total \in Nat
        /\ Tells(t) /\ Ref(t) /\ op[t].todo \subseteq DOMAIN reservations
    <2>1. /\ TypeOK /\ pc \in [Threads -> ControlPoints] /\ op[t] \in Op /\ Tells(t) /\ Ref(t)
      BY DEF HistoryInv, IInv, TypeOK, AllTell, RefInv
    <2> QED BY <2>1 DEF Op, Ref
  <1>1. \A u \in Threads \ {t} : ReportDue(u)' = ReportDue(u)
    BY OtherHands DEF ReportDue
  <1>2. ReportDue(t) \in Int
    BY <1>0 DEF ReportDue
  <1>3. ASSUME ~ EndSweep(t) PROVE UNCHANGED expiredTotal
    BY <1>3 DEF envVars, LocalStep, InsideStep, SharedStep, ExpireReservation, ReleaseHold,
       NextEventID, AppendEventStep, RecordShadow, LazyExpiryDone, RejectUnknownProduct,
       RejectOutOfStock, NextReservationID, SaveReserved, HoldUnit, ConfirmExpiryDone,
       Confirm, Sell, Cancel, SweepExpiryDone, EnterStep, LockReserve, LockConfirm,
       LockConfirmLapsed, LockCancel, RejectFinalized, LockSweep, LeaveStep, Return,
       UnlockSweep, OutsideStep, BeginReserve, BeginFinalize, NextProduct, ReceiveTick, Snapshot
  <1>4. CASE EndSweep(t)
    <2>1. pc[t] = "next" /\ op[t].kind = "sweep" /\ expiredTotal' = expiredTotal + op[t].total
      BY <1>0, <1>4 DEF EndSweep, Goto, Ref
    <2>2. op'[t] = NoOp
      BY <1>0, <1>4, BoundaryEffect
    <2>3. ReportDue(t)' = 0 /\ ReportDue(t) = op[t].total
      BY <2>1, <2>2 DEF ReportDue, NoOp
    <2> QED BY <1>0, <1>1, <1>2, <1>4, <2>1, <2>3
  <1>5. CASE AppendEventStep(t)
    <2>1. op' = op /\ pc[t] = "append" /\ pc'[t] \in {"shadow", "unlock"}
      BY <1>0, <1>5 DEF AppendEventStep, Goto
    <2>2. op[t].kind = "sweep" => op[t].event = "Expired"
      BY <1>0, <2>1 DEF Tells, SweepTells, CriticalPoints, LoggingPoints
    <2>3. ~ EndSweep(t)
      BY <2>1 DEF EndSweep, Goto
    <2>4. CASE op[t].kind = "sweep"
      BY <1>0, <1>1, <1>2, <1>3, <1>5, <2>1, <2>2, <2>3, <2>4 DEF ReportDue
    <2>5. CASE op[t].kind # "sweep"
      BY <1>1, <1>2, <1>3, <2>1, <2>3, <2>5 DEF ReportDue
    <2> QED BY <2>4, <2>5
  <1>6. ASSUME \/ ReleaseHold(t) \/ RecordShadow(t) \/ SaveReserved(t) \/ HoldUnit(t)
               \/ ConfirmExpiryDone(t) \/ Sell(t) \/ SweepExpiryDone(t) \/ LockSweep(t) \/ UnlockSweep(t)
        PROVE  ReportDue(t)' <= ReportDue(t) /\ ReportDue(t)' \in Int
    <2>1. op' = op
      BY <1>0, <1>6, AnswerFields
    <2>2. pc[t] \in {"release", "eventID", "append"} => pc'[t] \in {"release", "eventID", "append"}
      BY <1>0, <1>6 DEF ReleaseHold, RecordShadow, SaveReserved, HoldUnit, ConfirmExpiryDone, Sell,
                        SweepExpiryDone, LockSweep, UnlockSweep, Acquire, Release, Goto
    <2> QED BY <1>0, <2>1, <2>2 DEF ReportDue
  <1>7. ASSUME \/ NextEventID(t) \/ LockReserve(t) \/ LazyExpiryDone(t) \/ RejectUnknownProduct(t)
               \/ RejectOutOfStock(t) \/ NextReservationID(t) \/ LockConfirm(t) \/ LockCancel(t)
               \/ RejectFinalized(t) \/ LockConfirmLapsed(t) \/ Confirm(t) \/ Cancel(t)
               \/ Snapshot(t) \/ NextProduct(t)
        PROVE  ReportDue(t)' <= ReportDue(t) /\ ReportDue(t)' \in Int
    <2>1. op'[t].total = op[t].total /\ op'[t].kind = op[t].kind
      BY <1>0, <1>7, TotalEffect
    <2>2. pc[t] \in {"release", "eventID", "append"} => pc'[t] \in {"release", "eventID", "append"}
      BY <1>0, <1>7 DEF NextEventID, LockReserve, LazyExpiryDone, RejectUnknownProduct, RejectOutOfStock,
         NextReservationID, LockConfirm, LockCancel, RejectFinalized, LockConfirmLapsed, Confirm,
         Cancel, Snapshot, NextProduct, Acquire, Goto
    <2> QED BY <1>0, <2>1, <2>2 DEF ReportDue
  <1>8. ASSUME ExpireReservation(t) PROVE ReportDue(t)' <= ReportDue(t) /\ ReportDue(t)' \in Int
    <2>1. op'[t].total = op[t].total + 1 /\ op'[t].kind = op[t].kind
      BY <1>0, <1>8, TotalEffect, CallEffect DEF SameCall
    <2>2. pc[t] = "expire" /\ pc'[t] = "release"
      BY <1>0, <1>8 DEF ExpireReservation, Goto
    <2> QED BY <1>0, <2>1, <2>2 DEF ReportDue
  <1>9. ASSUME BeginReserve(t) \/ BeginFinalize(t) \/ Return(t) \/ (t \in Sweepers /\ ReceiveTick(t))
        PROVE  ReportDue(t)' <= ReportDue(t) /\ ReportDue(t)' \in Int
    <2>1. ReportDue(t)' = 0
      <3>1. CASE BeginReserve(t) \/ BeginFinalize(t)
        BY <1>0, <3>1, AnswerBounds DEF ReportDue
      <3>2. CASE Return(t)
        BY <1>0, <3>2, BoundaryEffect DEF ReportDue, NoOp
      <3>3. CASE ReceiveTick(t)
        BY <1>0, <3>3, TotalEffect DEF ReportDue, ReceiveTick, Goto
      <3> QED BY <1>9, <3>1, <3>2, <3>3
    <2>2. pc[t] \notin {"release", "eventID", "append"}
      BY <1>0, <1>9 DEF BeginReserve, BeginFinalize, Return, ReceiveTick, Release, Goto
    <2> QED BY <1>0, <2>1, <2>2 DEF ReportDue
  <1> QED BY <1>1, <1>2, <1>3, <1>4, <1>5, <1>6, <1>7, <1>8, <1>9
          DEF LocalStep, InsideStep, SharedStep, EnterStep, LeaveStep, OutsideStep

\* The log has an end, so the expiries in it are finitely many.
LEMMA FiniteExpiries ==
  ASSUME events \in Seq(InventoryEvent)
  PROVE  /\ LoggedExpiries \in SUBSET (1 .. Len(events))
         /\ IsFiniteSet(LoggedExpiries) /\ Cardinality(LoggedExpiries) \in Nat
  <1>1. Len(events) \in Int /\ DOMAIN events = 1 .. Len(events)
    OBVIOUS
  <1>2. LoggedExpiries \in SUBSET (1 .. Len(events))
    BY <1>1 DEF LoggedExpiries
  <1>3. IsFiniteSet(1 .. Len(events))
    BY <1>1, FS_Interval
  <1>4. IsFiniteSet(LoggedExpiries)
    BY <1>2, <1>3, FS_Subset
  <1> QED BY <1>2, <1>4, FS_CardinalityType

\* Logged expiries only become more, by one with an Expired event.
LEMMA ExpiriesStep ==
  ASSUME HistoryInv, NEW t \in Threads, LocalStep(t)
  PROVE  /\ Cardinality(LoggedExpiries) \in Nat /\ Cardinality(LoggedExpiries') \in Nat
         /\ Cardinality(LoggedExpiries') >= Cardinality(LoggedExpiries)
         /\ AppendEventStep(t) /\ op[t].event = "Expired" =>
              Cardinality(LoggedExpiries') = Cardinality(LoggedExpiries) + 1
  <1> DEFINE n == Len(events) + 1
  <1>1. /\ events \in Seq(InventoryEvent) /\ IsFiniteSet(LoggedExpiries)
        /\ n \notin LoggedExpiries
    <2>1. events \in Seq(InventoryEvent)
      BY DEF HistoryInv, IInv, TypeOK, RepoTypeOK
    <2>2. LoggedExpiries \in SUBSET (1 .. Len(events)) /\ IsFiniteSet(LoggedExpiries)
      BY <2>1, FiniteExpiries
    <2> QED BY <2>1, <2>2
  <1>2. CASE UNCHANGED events
    <2>1. LoggedExpiries' = LoggedExpiries
      BY <1>2 DEF LoggedExpiries
    <2>2. ~ AppendEventStep(t)
      BY <1>1, <1>2 DEF AppendEventStep, AppendEvent
    <2> QED BY <1>1, <2>1, <2>2, FS_CardinalityType
  <1>3. CASE AppendEventStep(t)
    <2>1. events' = Append(events, EventOf(t)) /\ EventOf(t).type = op[t].event
      BY <1>3 DEF AppendEventStep, AppendEvent, EventOf
    <2>2. LoggedExpiries' = IF op[t].event = "Expired" THEN LoggedExpiries \cup {n} ELSE LoggedExpiries
      BY <1>1, <2>1 DEF LoggedExpiries
    <2>3. Cardinality(LoggedExpiries) \in Nat
      BY <1>1, FS_CardinalityType
    <2>4. Cardinality(LoggedExpiries \cup {n}) = Cardinality(LoggedExpiries) + 1
      BY <1>1, FS_AddElement
    <2> HIDE DEF n
    <2> QED BY <2>2, <2>3, <2>4
  <1> QED BY <1>2, <1>3, EventsKept

\* Every step keeps the metric at or below the logged expiries.
LEMMA MetricStep == RecordInv /\ AllTell /\ MetricInv /\ [Next]_vars => MetricInv'
  <1> SUFFICES ASSUME RecordInv, AllTell, MetricInv, [Next]_vars PROVE MetricInv'
    OBVIOUS
  <1>0. HistoryInv /\ expiredTotal \in Nat
    BY DEF RecordInv, HistoryInv, IInv, TypeOK
  <1>1. ASSUME NEW t \in Threads, LocalStep(t) PROVE MetricInv'
    <2> DEFINE U == Unreported
               V == Unreported'
               d == ReportDue(t)
    <2>1. /\ IsFiniteSet(U) /\ Cardinality(U) \in Nat
          /\ expiredTotal + Cardinality(U) <= Cardinality(LoggedExpiries)
          /\ Cardinality(LoggedExpiries) \in Nat /\ Cardinality(LoggedExpiries') \in Nat
          /\ Cardinality(LoggedExpiries') >= Cardinality(LoggedExpiries)
      BY <1>0, <1>1, FS_CardinalityType, ExpiriesStep DEF MetricInv
    <2>2. d \in Int /\ \A u \in Threads \ {t} : ReportDue(u)' = ReportDue(u)
      BY <1>0, <1>1, ReportStep
    <2>3. CASE d' <= d /\ d' \in Int /\ UNCHANGED expiredTotal
      <3>1. V \in SUBSET U
        BY <2>2, <2>3 DEF Unreported
      <3>2. IsFiniteSet(V) /\ Cardinality(V) <= Cardinality(U) /\ Cardinality(V) \in Nat
        BY <2>1, <3>1, FS_Subset, FS_CardinalityType
      <3> QED BY <1>0, <2>1, <2>3, <3>2 DEF MetricInv
    <2>4. CASE AppendEventStep(t) /\ op[t].event = "Expired" /\ d' = d + 1 /\ UNCHANGED expiredTotal
      <3> DEFINE x == <<t, d + 1>>
      <3>1. V \in SUBSET (U \cup {x})
        BY <2>2, <2>4 DEF Unreported
      <3>2. IsFiniteSet(U \cup {x}) /\ Cardinality(U \cup {x}) \in {Cardinality(U), Cardinality(U) + 1}
        BY <2>1, FS_AddElement
      <3> HIDE DEF x
      <3>3. IsFiniteSet(V) /\ Cardinality(V) <= Cardinality(U \cup {x}) /\ Cardinality(V) \in Nat
        BY <3>1, <3>2, FS_Subset, FS_CardinalityType
      <3>4. Cardinality(LoggedExpiries') = Cardinality(LoggedExpiries) + 1
        BY <1>0, <1>1, <2>4, ExpiriesStep
      <3> QED BY <1>0, <2>1, <2>4, <3>2, <3>3, <3>4 DEF MetricInv
    <2>5. CASE /\ op[t].total \in Nat /\ d = op[t].total
               /\ d' = 0 /\ expiredTotal' = expiredTotal + op[t].total
      <3> DEFINE M == {t} \X (1 .. d)
      <3>1. V = U \ M /\ U \cap M = M
        BY <2>2, <2>5 DEF Unreported
      <3>2. IsFiniteSet(M) /\ Cardinality(M) = d
        <4>1. PICK k \in Nat : k = d
          BY <2>5
        <4>2. IsFiniteSet({t}) /\ Cardinality({t}) = 1
          BY FS_Singleton
        <4>3. IsFiniteSet(1 .. k) /\ Cardinality(1 .. k) = k
          <5>1. k \in Int /\ k >= 0
            BY <4>1
          <5> HIDE DEF d
          <5> QED BY <4>1, <5>1, FS_Interval
        <4>4. IsFiniteSet({t} \X (1 .. k)) /\ Cardinality({t} \X (1 .. k)) = 1 * k
          <5>1. ASSUME NEW S, NEW T, IsFiniteSet(S), IsFiniteSet(T)
                PROVE  IsFiniteSet(S \X T) /\ Cardinality(S \X T) = Cardinality(S) * Cardinality(T)
            BY <5>1, FS_Product, Zenon
          <5>2. /\ IsFiniteSet({t} \X (1 .. k))
                /\ Cardinality({t} \X (1 .. k)) = Cardinality({t}) * Cardinality(1 .. k)
            BY <4>2, <4>3, <5>1, Zenon
          <5> QED BY <4>2, <4>3, <5>2
        <4> QED BY <4>1, <4>4
      <3>3. IsFiniteSet(V) /\ Cardinality(V) = Cardinality(U) - Cardinality(U \cap M)
        BY <2>1, <3>1, FS_Difference
      <3>4. Cardinality(V) = Cardinality(U) - d
        BY <3>1, <3>2, <3>3
      <3> HIDE DEF U, V, d
      <3>5. expiredTotal' + Cardinality(V) <= Cardinality(LoggedExpiries')
        BY <1>0, <2>1, <2>2, <2>5, <3>4
      <3> QED BY <3>3, <3>5 DEF MetricInv, V
    <2> QED BY <1>0, <1>1, <2>3, <2>4, <2>5, ReportStep
  <1>2. CASE EnvStep
    <2>1. UNCHANGED <<events, pc, op, expiredTotal>>
      BY <1>2 DEF EnvStep, repoVars, vars, AdvanceClock, RejectUnknownReservation, Tick
    <2>2. Unreported' = Unreported /\ LoggedExpiries' = LoggedExpiries
      BY <2>1 DEF Unreported, ReportDue, LoggedExpiries
    <2> QED BY <2>1, <2>2 DEF MetricInv
  <1> QED BY <1>1, <1>2, StepCases

(* Every reservation that inventory_expired_reservations_total counts has  *)
(* its Expired event in the log, for any number of concurrent sweeps.      *)
THEOREM MetricLogged == Spec => []ExpiredMetricLogged
  <1>1. Init => MetricInv
    <2> SUFFICES ASSUME Init PROVE MetricInv
      OBVIOUS
    <2>1. \A t \in Threads : ReportDue(t) = 0
      BY DEF Init, ReportDue, NoOp
    <2>2. Unreported = {} /\ LoggedExpiries = {}
      BY <2>1 DEF Unreported, LoggedExpiries, Init, RepoInit
    <2> QED BY <2>2, FS_EmptySet DEF MetricInv, Init
  <1>2. RecordInv /\ MetricInv => ExpiredMetricLogged
    <2> SUFFICES ASSUME RecordInv, MetricInv PROVE ExpiredMetricLogged
      OBVIOUS
    <2>1. /\ Cardinality(Unreported) \in Nat /\ expiredTotal \in Nat
          /\ events \in Seq(InventoryEvent)
      BY FS_CardinalityType DEF MetricInv, RecordInv, HistoryInv, IInv, TypeOK, RepoTypeOK
    <2>2. Cardinality(LoggedExpiries) \in Nat
      BY <2>1, FiniteExpiries
    <2>3. expiredTotal <= Cardinality(LoggedExpiries)
      BY <2>1, <2>2 DEF MetricInv
    <2> QED BY <2>3 DEF ExpiredMetricLogged, LoggedExpiries
  <1> QED BY <1>1, <1>2, AnswerInvariance, MetricStep, PTL DEF Spec

-----------------------------------------------------------------------------
(* The log tells the story of every reservation, while no sweeper runs.    *)

(* A call has written the reservation and not yet logged it.               *)
Pending(t) ==
  \/ pc[t] \in {"hold", "sell", "release"}
  \/ pc[t] \in DuePoints /\ op[t].event # "ReserveRejected"

\* The log knows of the reservation that it was made.
Begun(i) == \E first \in EventsOf(i) : events[first].type = "Reserved" /\ EventsOf(i) = {first}

\* The log knows of it what LogMatchesReservations asks for.
Told(i) ==
  \E first \in EventsOf(i) :
    /\ events[first].type = "Reserved"
    /\ \/ IsActive(reservations[i]) /\ EventsOf(i) = {first}
       \/ \E last \in EventsOf(i) :
            /\ first < last /\ EventsOf(i) = {first, last}
            /\ events[last].type = reservations[i].state

\* The event a call owes is the one the log lacks.
Owes(t) ==
  Pending(t) =>
    \/ op[t].event = "Reserved" /\ IsActive(reservations[op[t].res]) /\ EventsOf(op[t].res) = {}
    \/ /\ op[t].event \in TerminalStates /\ op[t].event = reservations[op[t].res].state
       /\ Begun(op[t].res)

\* The event of a rejection names no reservation, every other one a real one.
Names(t) ==
  /\ pc[t] = "check" \/ (pc[t] \in DuePoints /\ op[t].event = "ReserveRejected") => op[t].res = 0
  /\ pc[t] = "save" => op[t].res # 0

StoryInv ==
  /\ \A k \in DOMAIN events : events[k].res \in DOMAIN reservations \cup {0}
  /\ 0 \notin DOMAIN reservations
  /\ \A i \in DOMAIN reservations : Told(i) \/ \E t \in Threads : Pending(t) /\ op[t].res = i
  /\ \A t \in Threads : Owes(t) /\ Names(t)

\* A call that owes an event holds the lock of the reservation's product.
LEMMA PendingHolds ==
  ASSUME HistoryInv, NEW t \in Threads, Pending(t)
  PROVE  /\ pc[t] \in CriticalPoints /\ op[t].res \in DOMAIN reservations
         /\ reservations[op[t].res].product = op[t].product
  <1>1. HasReservation(t) /\ pc[t] \in CriticalPoints
    BY DEF Pending, HasReservation, DuePoints, CriticalPoints
  <1>2. Hands(t) /\ Ref(t)
    BY DEF HistoryInv, IInv, RefInv
  <1> QED BY <1>1, <1>2 DEF Hands, Ref, HasReservation

(* The steps by what they do to the story: a reservation is made, finished *)
(* or logged, or everything stays as it was told.                          *)
LEMMA StoryCases ==
  ASSUME Sweepers = {}, HistoryInv, StoryInv, \A u \in Threads : EventAgrees(u),
         NEW t \in Threads, LocalStep(t)
  PROVE  \/ SaveReserved(t)
         \/ /\ UNCHANGED events /\ pc[t] \in {"expire", "confirm", "cancel"} /\ Pending(t)' /\ Names(t)'
            /\ Finishes(t, op'[t].res) /\ op'[t].event = reservations'[op'[t].res].state
            /\ op'[t].event \in TerminalStates
         \/ AppendEventStep(t)
         \/ /\ UNCHANGED <<reservations, events>> /\ (Pending(t)' <=> Pending(t)) /\ Names(t)'
            /\ Pending(t) => op'[t].res = op[t].res /\ op'[t].event = op[t].event
  <1>0. /\ TypeOK /\ pc \in [Threads -> ControlPoints] /\ op[t] \in Op /\ idCounter \in Nat
        /\ reservations \in [DOMAIN reservations -> Reservation]
        /\ Ref(t) /\ Hands(t) /\ Names(t) /\ EventAgrees(t)
    BY DEF HistoryInv, IInv, TypeOK, RepoTypeOK, RefInv, StoryInv
  <1> USE DEF Pending, Names, DuePoints
  <1>1. CASE ExpireReservation(t)
    <2>1. /\ op'[t].event = "Expired" /\ op'[t].res \in Remaining(t) /\ MarkExpired(op'[t].res, op[t].now)
      BY <1>0, <1>1, AnswerFields
    <2>2. pc[t] = "expire" /\ pc'[t] = "release" /\ UNCHANGED events
      BY <1>0, <1>1 DEF ExpireReservation, Goto
    <2>3. Finishes(t, op'[t].res)
      BY <1>0, <2>1, <2>2 DEF Finishes, Remaining, Ref, CriticalPoints
    <2>4. reservations'[op'[t].res].state = "Expired"
      BY <1>0, <2>2, <2>3, FinishEffect
    <2> QED BY <2>1, <2>2, <2>3, <2>4 DEF TerminalStates
  <1>2. CASE Confirm(t) \/ Cancel(t)
    <2>1. /\ op'[t].res = op[t].res
          /\ Confirm(t) => op'[t].event = "Confirmed"
          /\ Cancel(t) => op'[t].event = "Cancelled"
      BY <1>0, <1>2, AnswerFields
    <2>2. /\ Confirm(t) => pc[t] = "confirm" /\ pc'[t] = "sell"
          /\ Cancel(t) => pc[t] = "cancel" /\ pc'[t] = "release"
          /\ UNCHANGED events
      BY <1>0, <1>2 DEF Confirm, Cancel, Goto
    <2>3. /\ op[t].res \in DOMAIN reservations /\ reservations[op[t].res].product = op[t].product
      BY <1>0, <1>2, <2>2 DEF Ref, Hands, HasReservation
    <2>4. Finishes(t, op[t].res)
      BY <1>0, <1>2, <2>2, <2>3 DEF Finishes, Confirm, Cancel, CriticalPoints
    <2>5. /\ Confirm(t) => reservations'[op[t].res].state = "Confirmed"
          /\ Cancel(t) => reservations'[op[t].res].state = "Cancelled"
      BY <1>0, <2>2, <2>4, FinishEffect
    <2> QED BY <1>2, <2>1, <2>2, <2>4, <2>5 DEF TerminalStates
  <1>3. CASE HoldUnit(t) \/ Sell(t) \/ ReleaseHold(t)
    <2>1. UNCHANGED <<op, reservations, events>>
      BY <1>3 DEF HoldUnit, Sell, ReleaseHold
    <2>2. pc[t] \in {"hold", "sell", "release"} /\ pc'[t] = "eventID"
      BY <1>0, <1>3 DEF HoldUnit, Sell, ReleaseHold, Goto
    <2> QED BY <1>0, <2>1, <2>2 DEF EventAgrees
  <1>4. CASE NextEventID(t)
    <2>1. op'[t].event = op[t].event /\ op'[t].res = op[t].res
      BY <1>0, <1>4, AnswerFields
    <2>2. pc[t] = "eventID" /\ pc'[t] = "append" /\ UNCHANGED <<reservations, events>>
      BY <1>0, <1>4 DEF NextEventID, Goto, repoVars
    <2> QED BY <1>0, <2>1, <2>2
  <1>5. CASE RejectOutOfStock(t)
    <2>1. op'[t].event = "ReserveRejected" /\ op'[t].res = op[t].res
      BY <1>0, <1>5, AnswerFields
    <2>2. pc[t] = "check" /\ pc'[t] = "eventID" /\ UNCHANGED <<reservations, events>>
      BY <1>0, <1>5 DEF RejectOutOfStock, Goto, repoVars
    <2> QED BY <1>0, <2>1, <2>2
  <1>6. CASE LazyExpiryDone(t)
    <2>1. op'[t].res = 0
      BY <1>0, <1>6, AnswerFields
    <2>2. pc[t] = "expire" /\ pc'[t] = "check" /\ UNCHANGED <<reservations, events>>
      BY <1>0, <1>6 DEF LazyExpiryDone, Goto, repoVars
    <2> QED BY <1>0, <2>1, <2>2
  <1>7. CASE NextReservationID(t)
    <2>1. op'[t].res = idCounter + 1 /\ idCounter + 1 # 0
      BY <1>0, <1>7, InsideCall DEF InsideStep
    <2>2. pc[t] = "check" /\ pc'[t] = "save" /\ UNCHANGED <<reservations, events>>
      BY <1>0, <1>7 DEF NextReservationID, Goto, repoVars
    <2> QED BY <1>0, <2>1, <2>2
  <1>8. ASSUME ~ ExpireReservation(t), ~ Confirm(t), ~ Cancel(t), ~ HoldUnit(t), ~ Sell(t),
               ~ ReleaseHold(t), ~ NextEventID(t), ~ RejectOutOfStock(t), ~ LazyExpiryDone(t),
               ~ NextReservationID(t), ~ SaveReserved(t), ~ AppendEventStep(t)
        PROVE  /\ UNCHANGED <<reservations, events>>
               /\ pc[t] \notin {"hold", "sell", "release"} \cup DuePoints
               /\ pc'[t] \notin {"hold", "sell", "release", "check", "save"} \cup DuePoints
    BY <1>0, <1>8 DEF repoVars, LocalStep, InsideStep, SharedStep, RecordShadow,
       RejectUnknownProduct, ConfirmExpiryDone, SweepExpiryDone, Goto, Acquire, Release,
       EnterStep, LockReserve, LockConfirm, LockConfirmLapsed, LockCancel, RejectFinalized,
       LockSweep, LeaveStep, Return, UnlockSweep, OutsideStep, BeginReserve, BeginFinalize,
       NextProduct, EndSweep, ReceiveTick, Snapshot
  <1> QED BY <1>1, <1>2, <1>3, <1>4, <1>5, <1>6, <1>7, <1>8

\* Another thread's debts and the reservations under its lock are left alone.
LEMMA OtherOwes ==
  ASSUME HistoryInv, StoryInv, NEW t \in Threads, LocalStep(t), NEW u \in Threads \ {t}
  PROVE  /\ Pending(u)' <=> Pending(u)
         /\ op'[u] = op[u] /\ Names(u)'
         /\ Pending(u) => /\ op[u].res \in DOMAIN reservations
                          /\ reservations'[op[u].res] = reservations[op[u].res]
                          /\ pc[t] \in CriticalPoints => reservations[op[u].res].product # op[t].product
  <1>1. op'[u] = op[u] /\ pc'[u] = pc[u] /\ Names(u)
    BY OtherHands DEF StoryInv
  <1>2. ASSUME Pending(u)
        PROVE  /\ op[u].res \in DOMAIN reservations
               /\ reservations'[op[u].res] = reservations[op[u].res]
               /\ pc[t] \in CriticalPoints => reservations[op[u].res].product # op[t].product
    <2>1. /\ pc[u] \in CriticalPoints /\ op[u].res \in DOMAIN reservations
          /\ reservations[op[u].res].product = op[u].product
      BY <1>2, PendingHolds
    <2>2. pc[t] \in CriticalPoints => reservations[op[u].res].product # op[t].product
      BY <2>1 DEF HistoryInv, IInv, LockInv
    <2> QED BY <2>1, <2>2, KeptStep DEF Kept
  <1> QED BY <1>1, <1>2 DEF Pending, Names

\* The story of a reservation stands on what it is and on its events.
LEMMA SameStory ==
  ASSUME NEW i, reservations'[i] = reservations[i], EventsOf(i)' = EventsOf(i),
         \A k \in DOMAIN events : events'[k] = events[k]
  PROVE  (Told(i)' <=> Told(i)) /\ (Begun(i)' <=> Begun(i))
  <1>1. \A k \in EventsOf(i) : events'[k] = events[k]
    BY DEF EventsOf
  <1> QED BY <1>1 DEF Told, Begun, IsActive

(* Every step of a thread goes on with the story.                          *)
LEMMA StoryStep ==
  ASSUME Sweepers = {}, RecordInv, StoryInv, \A u \in Threads : EventAgrees(u),
         NEW t \in Threads, LocalStep(t)
  PROVE  StoryInv'
  <1>0. /\ HistoryInv /\ Names(t) /\ Owes(t) /\ EventAgrees(t) /\ op[t] \in Op
        /\ reservations \in [DOMAIN reservations -> Reservation]
        /\ events \in Seq(InventoryEvent) /\ pc \in [Threads -> ControlPoints]
    BY DEF RecordInv, HistoryInv, IInv, TypeOK, RepoTypeOK, StoryInv
  <1>1. ASSUME NEW u \in Threads \ {t}
        PROVE  /\ Pending(u)' <=> Pending(u)
               /\ op'[u] = op[u] /\ Names(u)' /\ Owes(u)
               /\ Pending(u) => /\ op[u].res \in DOMAIN reservations
                                /\ reservations'[op[u].res] = reservations[op[u].res]
                                /\ pc[t] \in CriticalPoints =>
                                     reservations[op[u].res].product # op[t].product
    BY <1>0, OtherOwes DEF StoryInv
  <1>2. CASE SaveReserved(t)
    <2> DEFINE i == op[t].res
    <2>1. /\ i \notin DOMAIN reservations /\ i # 0 /\ pc[t] = "save" /\ pc'[t] = "hold"
          /\ op' = op /\ events' = events /\ op[t].event = "Reserved"
      BY <1>0, <1>2 DEF SaveReserved, Goto, HistoryInv, FreshIDs, Names, EventAgrees
    <2>2. /\ DOMAIN reservations' = DOMAIN reservations \cup {i}
          /\ IsActive(reservations'[i])
          /\ \A j \in DOMAIN reservations : reservations'[j] = reservations[j]
      BY <1>2, <2>1 DEF SaveReserved, SaveReservation, IsActive
    <2>3. EventsOf(i) = {} /\ \A j : EventsOf(j)' = EventsOf(j)
      BY <2>1 DEF StoryInv, EventsOf
    <2>4. \A j \in DOMAIN reservations : (Told(j)' <=> Told(j)) /\ (Begun(j)' <=> Begun(j))
      BY <2>1, <2>2, <2>3, SameStory
    <2>5. Pending(t)' /\ ~ Pending(t) /\ Owes(t)' /\ Names(t)'
      BY <2>1, <2>2, <2>3 DEF Pending, Owes, Names, DuePoints
    <2>6. ASSUME NEW u \in Threads \ {t} PROVE Owes(u)'
      BY <1>1, <2>2, <2>3, <2>4 DEF Owes
    <2>7. \A j \in DOMAIN reservations' : Told(j)' \/ \E u \in Threads : Pending(u)' /\ op'[u].res = j
      BY <1>1, <2>1, <2>2, <2>4, <2>5 DEF StoryInv
    <2>8. /\ \A k \in DOMAIN events' : events'[k].res \in DOMAIN reservations' \cup {0}
          /\ 0 \notin DOMAIN reservations'
      BY <2>1, <2>2 DEF StoryInv
    <2>9. \A u \in Threads : Owes(u)' /\ Names(u)'
      BY <1>1, <2>5, <2>6
    <2> QED BY <2>7, <2>8, <2>9 DEF StoryInv
  <1>3. CASE /\ UNCHANGED events /\ pc[t] \in {"expire", "confirm", "cancel"} /\ Pending(t)' /\ Names(t)'
             /\ Finishes(t, op'[t].res) /\ op'[t].event = reservations'[op'[t].res].state
             /\ op'[t].event \in TerminalStates
    <2> DEFINE i == op'[t].res
    <2>1. /\ i \in DOMAIN reservations /\ reservations[i].product = op[t].product
          /\ pc[t] \in CriticalPoints /\ IsActive(reservations[i]) /\ ~ Pending(t)
      BY <1>0, <1>3, FinishesActive DEF Finishes, Pending, DuePoints
    <2>2. /\ DOMAIN reservations' = DOMAIN reservations
          /\ \A j \in DOMAIN reservations \ {i} : reservations'[j] = reservations[j]
      BY <1>0, <1>3, FinishEffect
    <2>3. \A j : EventsOf(j)' = EventsOf(j) /\ (Begun(j)' <=> Begun(j))
      BY <1>3 DEF EventsOf, Begun
    <2>4. \A j \in DOMAIN reservations \ {i} : Told(j)' <=> Told(j)
      BY <1>3, <2>2, <2>3, SameStory
    <2>5. \A u \in Threads : Pending(u) => op[u].res # i
      BY <1>1, <2>1
    <2>6. Begun(i)
      <3>1. Told(i)
        BY <2>1, <2>5 DEF StoryInv
      <3>2. ASSUME NEW first, NEW last, events[last].type = "Active", EventsOf(i) = {first, last}
            PROVE  FALSE
        <4>1. last \in DOMAIN events
          BY <3>2 DEF EventsOf
        <4>2. events[last] \in InventoryEvent
          BY <1>0, <4>1
        <4> QED BY <3>2, <4>2 DEF InventoryEvent, EventTypes
      <3> QED BY <2>1, <3>1, <3>2 DEF Told, Begun, IsActive
    <2>7. Owes(t)'
      BY <1>3, <2>3, <2>6 DEF Owes
    <2>8. ASSUME NEW u \in Threads \ {t} PROVE Owes(u)'
      BY <1>1, <2>3 DEF Owes
    <2>9. \A j \in DOMAIN reservations' : Told(j)' \/ \E u \in Threads : Pending(u)' /\ op'[u].res = j
      BY <1>1, <1>3, <2>1, <2>2, <2>4 DEF StoryInv
    <2>10. /\ \A k \in DOMAIN events' : events'[k].res \in DOMAIN reservations' \cup {0}
           /\ 0 \notin DOMAIN reservations'
      BY <1>3, <2>2 DEF StoryInv
    <2>11. \A u \in Threads : Owes(u)' /\ Names(u)'
      BY <1>1, <1>3, <2>7, <2>8
    <2> QED BY <2>9, <2>10, <2>11 DEF StoryInv
  <1>4. CASE AppendEventStep(t)
    <2> DEFINE i == op[t].res
    <2>1. PICK n : n = Len(events) + 1
      OBVIOUS
    <2>2. /\ op' = op /\ reservations' = reservations /\ events' = Append(events, EventOf(t))
          /\ pc[t] = "append" /\ pc'[t] \in {"shadow", "unlock"}
      BY <1>0, <1>4 DEF AppendEventStep, AppendEvent, Goto
    <2>3. /\ EventOf(t).res = i /\ EventOf(t).type = op[t].event
      BY DEF EventOf
    <2>4. /\ DOMAIN events' = DOMAIN events \cup {n} /\ n \notin DOMAIN events /\ events'[n] = EventOf(t)
          /\ \A k \in DOMAIN events : events'[k] = events[k] /\ k < n
      BY <1>0, <2>1, <2>2
    <2>5. /\ EventsOf(i)' = EventsOf(i) \cup {n}
          /\ \A j : j # i => EventsOf(j)' = EventsOf(j)
      BY <2>2, <2>3, <2>4 DEF EventsOf
    <2>6. \A j : j # i => (Told(j)' <=> Told(j)) /\ (Begun(j)' <=> Begun(j))
      BY <2>2, <2>4, <2>5, SameStory
    <2>7. ~ Pending(t)' /\ Names(t)'
      BY <2>2 DEF Pending, Names, DuePoints
    <2>8. CASE op[t].event = "ReserveRejected"
      <3>1. i = 0 /\ ~ Pending(t) /\ i \notin DOMAIN reservations
        BY <1>0, <2>2, <2>8 DEF Names, DuePoints, Pending, StoryInv
      <3>2. ASSUME NEW u \in Threads \ {t} PROVE Owes(u)'
        BY <1>1, <2>2, <2>5, <2>6, <3>1 DEF Owes
      <3>3. \A j \in DOMAIN reservations' : Told(j)' \/ \E u \in Threads : Pending(u)' /\ op'[u].res = j
        BY <1>1, <2>2, <2>6, <3>1 DEF StoryInv
      <3>4. /\ \A k \in DOMAIN events' : events'[k].res \in DOMAIN reservations' \cup {0}
            /\ 0 \notin DOMAIN reservations'
        BY <2>2, <2>3, <2>4, <3>1 DEF StoryInv
      <3>5. \A u \in Threads : Owes(u)' /\ Names(u)'
        BY <1>1, <2>7, <3>2 DEF Owes
      <3> QED BY <3>3, <3>4, <3>5 DEF StoryInv
    <2>9. CASE op[t].event # "ReserveRejected"
      <3>1. /\ Pending(t) /\ i \in DOMAIN reservations /\ reservations[i].product = op[t].product
            /\ pc[t] \in CriticalPoints
        <4>1. Pending(t)
          BY <2>2, <2>9 DEF Pending, DuePoints
        <4> QED BY <1>0, <4>1, PendingHolds
      <3>2. Told(i)'
        <4>1. CASE op[t].event = "Reserved" /\ IsActive(reservations[i]) /\ EventsOf(i) = {}
          BY <2>2, <2>3, <2>4, <2>5, <4>1 DEF Told
        <4>2. CASE op[t].event = reservations[i].state /\ Begun(i)
          <5>1. PICK first \in EventsOf(i) : events[first].type = "Reserved" /\ EventsOf(i) = {first}
            BY <4>2 DEF Begun
          <5>2. first \in DOMAIN events
            BY <5>1 DEF EventsOf
          <5>3. /\ first \in EventsOf(i)' /\ events'[first].type = "Reserved"
                /\ n \in EventsOf(i)' /\ first < n /\ EventsOf(i)' = {first, n}
                /\ events'[n].type = reservations'[i].state
            <6>1. first \in EventsOf(i)' /\ n \in EventsOf(i)' /\ EventsOf(i)' = {first, n}
              BY <2>5, <5>1
            <6>2. events'[first].type = "Reserved" /\ first < n
              BY <2>4, <5>1, <5>2
            <6>3. events'[n].type = reservations'[i].state
              BY <2>2, <2>3, <2>4, <4>2
            <6> QED BY <6>1, <6>2, <6>3
          <5> QED BY <2>2, <5>3 DEF Told
        <4> QED BY <1>0, <3>1, <4>1, <4>2 DEF Owes
      <3>3. ASSUME NEW u \in Threads \ {t} PROVE Owes(u)'
        <4>1. Pending(u) => op[u].res # i
          BY <1>1, <3>1
        <4> QED BY <1>1, <2>2, <2>5, <2>6, <4>1 DEF Owes
      <3>4. \A j \in DOMAIN reservations' : Told(j)' \/ \E u \in Threads : Pending(u)' /\ op'[u].res = j
        BY <1>1, <2>2, <2>6, <3>2 DEF StoryInv
      <3>5. /\ \A k \in DOMAIN events' : events'[k].res \in DOMAIN reservations' \cup {0}
            /\ 0 \notin DOMAIN reservations'
        BY <2>2, <2>3, <2>4, <3>1 DEF StoryInv
      <3>6. \A u \in Threads : Owes(u)' /\ Names(u)'
        BY <1>1, <2>7, <3>3 DEF Owes
      <3> QED BY <3>4, <3>5, <3>6 DEF StoryInv
    <2> QED BY <2>8, <2>9
  <1>5. CASE /\ UNCHANGED <<reservations, events>> /\ (Pending(t)' <=> Pending(t)) /\ Names(t)'
             /\ Pending(t) => op'[t].res = op[t].res /\ op'[t].event = op[t].event
    <2>1. \A j : /\ EventsOf(j)' = EventsOf(j) /\ (Told(j)' <=> Told(j)) /\ (Begun(j)' <=> Begun(j))
      BY <1>5 DEF EventsOf, Told, Begun
    <2>2. \A u \in Threads : (Pending(u)' <=> Pending(u))
                             /\ (Pending(u) => op'[u].res = op[u].res /\ op'[u].event = op[u].event)
      BY <1>1, <1>5
    <2>3. \A u \in Threads : Owes(u)'
      BY <1>5, <2>1, <2>2 DEF Owes, StoryInv
    <2>4. \A j \in DOMAIN reservations' : Told(j)' \/ \E u \in Threads : Pending(u)' /\ op'[u].res = j
      BY <1>5, <2>1, <2>2 DEF StoryInv
    <2>5. /\ \A k \in DOMAIN events' : events'[k].res \in DOMAIN reservations' \cup {0}
          /\ 0 \notin DOMAIN reservations'
      BY <1>5 DEF StoryInv
    <2> QED BY <1>1, <1>5, <2>3, <2>4, <2>5 DEF StoryInv
  <1> QED BY <1>0, <1>2, <1>3, <1>4, <1>5, StoryCases

(* Every reservation at rest has its Reserved event in the log and, once   *)
(* it is terminal, exactly one more, of its state: with no sweeper.        *)
THEOREM StoryComplete ==
  ASSUME Sweepers = {}
  PROVE  Spec => []LogMatchesReservations
  <1>1. Init => StoryInv
    <2> SUFFICES ASSUME Init PROVE StoryInv
      OBVIOUS
    <2>1. /\ DOMAIN events = {} /\ DOMAIN reservations = {}
          /\ \A t \in Threads : pc[t] = "idle"
      BY DEF Init, RepoInit
    <2> QED BY <2>1 DEF StoryInv, Owes, Names, Pending, DuePoints
  <1>2. RecordInv /\ LogInv /\ StoryInv /\ [Next]_vars => StoryInv'
    <2> SUFFICES ASSUME RecordInv, LogInv, StoryInv, [Next]_vars PROVE StoryInv'
      OBVIOUS
    <2>1. CASE EnvStep
      <3>1. UNCHANGED <<reservations, events, pc, op>>
        BY <2>1 DEF EnvStep, repoVars, vars, AdvanceClock, RejectUnknownReservation, Tick
      <3> QED BY <3>1 DEF StoryInv, Owes, Names, Pending, Told, Begun, EventsOf
    <2>2. ASSUME NEW t \in Threads, LocalStep(t) PROVE StoryInv'
      BY <2>2, StoryStep DEF LogInv
    <2> QED BY <2>1, <2>2, StepCases
  <1>3. RecordInv /\ StoryInv => LogMatchesReservations
    <2> SUFFICES ASSUME RecordInv, StoryInv, NEW i \in DOMAIN reservations,
                        LockFree(reservations[i].product)
                 PROVE  Told(i)
      BY DEF LogMatchesReservations, Told
    <2>1. HistoryInv
      BY DEF RecordInv
    <2>2. ASSUME NEW t \in Threads, Pending(t), op[t].res = i PROVE FALSE
      <3>1. pc[t] \in CriticalPoints /\ op[t].product = reservations[i].product
        BY <2>1, <2>2, PendingHolds
      <3>2. lock[op[t].product] = t /\ NoThread \notin Threads
        BY <2>1, <3>1, ThreadAssumption DEF HistoryInv, IInv, LockInv, Threads
      <3> QED BY <3>1, <3>2 DEF LockFree
    <2> QED BY <2>2 DEF StoryInv
  <1> QED BY <1>1, <1>2, <1>3, LogInvariance, PTL DEF Spec

=============================================================================
