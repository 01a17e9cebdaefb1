---------------------- MODULE ReservationCountersProofs ----------------------
(***************************************************************************)
(* Without a sweeper (--expiry-interval 0) the counters count the          *)
(* reservations, no unit is granted twice and the service implements the   *)
(* ledger, for any clients, products, stock, hold and requests.            *)
(***************************************************************************)
EXTENDS ReservationHistoryProofs, FiniteSetTheorems

(* The points between the two writes of a decision, where the counters lag *)
(* behind the reservations.                                                *)
LagPoints == {"hold", "sell", "release"}

At(p, point) == \E t \in Threads : pc[t] = point /\ op[t].product = p

Lag(p, point) == IF At(p, point) THEN 1 ELSE 0

Active(p) == ReservationsIn("Active", p)
Confirmed(p) == ReservationsIn("Confirmed", p)

(* The counters of a product are its reservations of that state, less what *)
(* the holder of the lock has still to write.                              *)
Counted(p) ==
  /\ products[p].totalStock = Stock[p]
  /\ Cardinality(Active(p)) =
       products[p].activeReservationCount + Lag(p, "hold") - Lag(p, "sell") - Lag(p, "release")
  /\ Cardinality(Confirmed(p)) = products[p].confirmedCount + Lag(p, "sell")

CountInv == \A p \in DOMAIN Stock : Counted(p)

(* A decision uses a reading of the clock of the recent past.              *)
ReadInv == \A t \in Threads : op[t].now \in 0 .. clock

-----------------------------------------------------------------------------

\* The stored reservations are finitely many, since their ids are numbered.
LEMMA FiniteReservations ==
  ASSUME HistoryInv, NEW S \in SUBSET DOMAIN reservations
  PROVE  IsFiniteSet(S) /\ Cardinality(S) \in Nat
  <1>1. S \in SUBSET Nat /\ idCounter \in Nat /\ \A i \in S : i <= idCounter
    BY DEF HistoryInv, IInv, TypeOK, RepoTypeOK, FreshIDs
  <1> QED BY <1>1, FS_BoundedSetOfNaturals, FS_CardinalityType

(* A step that is not one of a decision's two writes moves no lag.         *)
LEMMA LagKept ==
  ASSUME HistoryInv, NEW t \in Threads, LocalStep(t),
         pc[t] \notin LagPoints, pc'[t] \notin LagPoints,
         NEW p, NEW point \in LagPoints
  PROVE  Lag(p, point)' = Lag(p, point)
  <1>1. At(p, point)' <=> At(p, point)
    BY OtherHands DEF At
  <1> QED BY <1>1 DEF Lag

(* What a step at a decision's writes does to the lags.                    *)
LEMMA LagMoved ==
  ASSUME HistoryInv, NEW t \in Threads, LocalStep(t),
         pc[t] \in CriticalPoints, op'[t].product = op[t].product,
         NEW p, NEW point \in LagPoints
  PROVE  /\ p # op[t].product => Lag(p, point)' = Lag(p, point)
         /\ p = op[t].product => /\ Lag(p, point) = IF pc[t] = point THEN 1 ELSE 0
                                 /\ Lag(p, point)' = IF pc'[t] = point THEN 1 ELSE 0
  <1>1. p # op[t].product => (At(p, point)' <=> At(p, point))
    BY OtherHands DEF At
  <1>2. p = op[t].product => \A u \in Threads \ {t} : ~ (pc[u] = point /\ op[u].product = p)
    BY DEF HistoryInv, IInv, LockInv, LagPoints, CriticalPoints
  <1>3. p = op[t].product => (At(p, point) <=> pc[t] = point) /\ (At(p, point)' <=> pc'[t] = point)
    BY <1>2, OtherHands DEF At
  <1> QED BY <1>1, <1>3 DEF Lag

(* Only the two writes of a decision change reservations or counters.      *)
LEMMA DecisionWrites ==
  ASSUME HistoryInv, NEW t \in Threads, LocalStep(t)
  PROVE  \/ SaveReserved(t) \/ ExpireReservation(t) \/ Confirm(t) \/ Cancel(t)
         \/ HoldUnit(t) \/ Sell(t) \/ ReleaseHold(t)
         \/ /\ UNCHANGED <<reservations, products>>
            /\ pc[t] \notin LagPoints /\ pc'[t] \notin LagPoints
  <1>0. pc \in [Threads -> ControlPoints]
    BY DEF HistoryInv, IInv, TypeOK
  <1> SUFFICES ASSUME ~ SaveReserved(t), ~ ExpireReservation(t), ~ Confirm(t), ~ Cancel(t),
                      ~ HoldUnit(t), ~ Sell(t), ~ ReleaseHold(t)
               PROVE  /\ UNCHANGED <<reservations, products>>
                      /\ pc[t] \notin LagPoints /\ pc'[t] \notin LagPoints
    OBVIOUS
  <1> QED
    BY <1>0 DEF LagPoints, repoVars, LocalStep, InsideStep, SharedStep, NextEventID,
       AppendEventStep, RecordShadow, LazyExpiryDone, RejectUnknownProduct, RejectOutOfStock,
       NextReservationID, ConfirmExpiryDone, SweepExpiryDone, Goto, Acquire, Release,
       EnterStep, LockReserve, LockConfirm, LockConfirmLapsed, LockCancel, RejectFinalized,
       LockSweep, LeaveStep, Return, UnlockSweep, OutsideStep, BeginReserve, BeginFinalize,
       NextProduct, EndSweep, ReceiveTick, Snapshot

(* A new reservation is one more Active one of its product.                *)
LEMMA SavedSets ==
  ASSUME HistoryInv, NEW t \in Threads, Saves(t), NEW p
  PROVE  /\ Confirmed(p)' = Confirmed(p)
         /\ Active(p)' = IF p = op[t].product THEN Active(p) \cup {op[t].res} ELSE Active(p)
         /\ op[t].res \notin Active(p)
  <1>1. op[t].res \notin DOMAIN reservations
    BY DEF HistoryInv, FreshIDs, Saves
  <1> QED BY <1>1 DEF Saves, SaveReservation, Active, Confirmed, ReservationsIn

(* A finished reservation is one Active one of its product less, and if it *)
(* is confirmed one Confirmed more.                                        *)
LEMMA FinishedSets ==
  ASSUME HistoryInv, NEW t \in Threads, NEW i, Finishes(t, i), IsActive(reservations[i]), NEW p
  PROVE  /\ Active(p)' = IF p = op[t].product THEN Active(p) \ {i} ELSE Active(p)
         /\ Confirmed(p)' = IF p = op[t].product /\ pc[t] = "confirm"
                              THEN Confirmed(p) \cup {i} ELSE Confirmed(p)
         /\ i \in Active(op[t].product) /\ i \notin Confirmed(p)
  <1>1. /\ DOMAIN reservations' = DOMAIN reservations
        /\ \A j \in DOMAIN reservations \ {i} : reservations'[j] = reservations[j]
        /\ reservations'[i].product = reservations[i].product
        /\ reservations'[i].state \in TerminalStates
        /\ reservations'[i].state = "Confirmed" <=> pc[t] = "confirm"
    BY FinishEffect DEF HistoryInv, IInv, TypeOK, RepoTypeOK, TerminalStates
  <1>2. i \in DOMAIN reservations /\ reservations[i].product = op[t].product
    BY DEF Finishes
  <1> QED BY <1>1, <1>2 DEF IsActive, TerminalStates, Active, Confirmed, ReservationsIn

(* What a write of the counters does, at the product of the call.          *)
LEMMA CounterWrites ==
  ASSUME HistoryInv, NEW t \in Threads, NEW a \in Int, NEW c \in Int,
         \/ HoldUnit(t) /\ a = 1 /\ c = 0
         \/ Sell(t) /\ a = -1 /\ c = 1
         \/ ReleaseHold(t) /\ a = -1 /\ c = 0
  PROVE  /\ reservations' = reservations /\ op' = op /\ pc'[t] = "eventID"
         /\ pc[t] \in CriticalPoints /\ op[t].product \in DOMAIN Stock
         /\ \A p \in DOMAIN Stock \ {op[t].product} : products'[p] = products[p]
         /\ LET old == products[op[t].product]
                new == products'[op[t].product]
            IN  /\ new.totalStock = old.totalStock
                /\ new.activeReservationCount = old.activeReservationCount + a
                /\ new.confirmedCount = old.confirmedCount + c
  <1>0. /\ pc \in [Threads -> ControlPoints] /\ Hands(t) /\ Ref(t)
        /\ products \in [DOMAIN Stock -> ProductInventory]
    BY DEF HistoryInv, IInv, TypeOK, RepoTypeOK, RefInv
  <1>1. /\ reservations' = reservations /\ op' = op /\ pc'[t] = "eventID"
        /\ pc[t] \in {"hold", "sell", "release"}
    BY <1>0 DEF HoldUnit, Sell, ReleaseHold, Goto
  <1>2. /\ pc[t] \in CriticalPoints /\ op[t].product \in DOMAIN Stock
        /\ reservations[op[t].res].product = op[t].product
    BY <1>0, <1>1 DEF CriticalPoints, StockPoints, Ref, Hands, HasReservation
  <1>3. UpdateProduct(op[t].product, a, c)
    BY <1>2 DEF HoldUnit, Sell, ReleaseHold
  <1> QED BY <1>0, <1>1, <1>2, <1>3, UpdateProductEffect

(* What a thread finishes is Active while no sweep runs.                   *)
LEMMA FinishesActive ==
  ASSUME HistoryInv, Sweepers = {}, NEW t \in Threads, NEW i, Finishes(t, i)
  PROVE  IsActive(reservations[i])
  BY DEF HistoryInv, Hands, Finishes

(* A decision's two writes: the reservation first, which adds a lag, then  *)
(* the counters, which takes it back; no other step moves either.          *)
LEMMA CountStep ==
  ASSUME HistoryInv, Sweepers = {}, CountInv, NEW t \in Threads, LocalStep(t)
  PROVE  CountInv'
  <1> SUFFICES ASSUME NEW p \in DOMAIN Stock PROVE Counted(p)'
    <2>1. DOMAIN Stock' = DOMAIN Stock
      OBVIOUS
    <2> QED BY DEF CountInv
  <1>0. /\ pc \in [Threads -> ControlPoints] /\ TypeOK
        /\ Counted(p) /\ products[p].activeReservationCount \in Int /\ products[p].confirmedCount \in Int
    <2>1. products[p] \in ProductInventory
      BY DEF HistoryInv, IInv, TypeOK, RepoTypeOK
    <2> QED BY <2>1 DEF HistoryInv, IInv, TypeOK, CountInv, ProductInventory
  <1>1. /\ IsFiniteSet(Active(p)) /\ IsFiniteSet(Confirmed(p))
        /\ Cardinality(Active(p)) \in Nat /\ Cardinality(Confirmed(p)) \in Nat
    BY FiniteReservations DEF Active, Confirmed, ReservationsIn
  <1>2. CASE /\ UNCHANGED <<reservations, products>>
             /\ pc[t] \notin LagPoints /\ pc'[t] \notin LagPoints
    <2>1. Lag(p, "hold")' = Lag(p, "hold") /\ Lag(p, "sell")' = Lag(p, "sell")
          /\ Lag(p, "release")' = Lag(p, "release")
      BY <1>2, LagKept DEF LagPoints
    <2>2. Active(p)' = Active(p) /\ Confirmed(p)' = Confirmed(p)
      BY <1>2 DEF Active, Confirmed, ReservationsIn
    <2> QED BY <1>0, <1>2, <2>1, <2>2 DEF Counted
  <1>3. CASE SaveReserved(t)
    <2>1. /\ Saves(t) /\ pc[t] = "save" /\ pc'[t] = "hold" /\ op' = op /\ products' = products
      BY <1>0, <1>3 DEF SaveReserved, Saves, Goto
    <2>2. \A point \in LagPoints :
            /\ p # op[t].product => Lag(p, point)' = Lag(p, point)
            /\ p = op[t].product => /\ Lag(p, point) = 0
                                    /\ Lag(p, point)' = IF point = "hold" THEN 1 ELSE 0
      BY <2>1, LagMoved DEF CriticalPoints, LagPoints
    <2>3. CASE p = op[t].product
      <3>1. /\ Cardinality(Active(p)') = Cardinality(Active(p)) + 1
            /\ Cardinality(Confirmed(p)') = Cardinality(Confirmed(p))
        BY <1>1, <2>1, <2>3, SavedSets, FS_AddElement
      <3> QED BY <1>0, <1>1, <2>1, <2>2, <2>3, <3>1 DEF Counted, LagPoints
    <2>4. CASE p # op[t].product
      <3>1. Active(p)' = Active(p) /\ Confirmed(p)' = Confirmed(p)
        BY <2>1, <2>4, SavedSets
      <3> QED BY <1>0, <2>1, <2>2, <2>4, <3>1 DEF Counted, LagPoints
    <2> QED BY <2>3, <2>4
  <1>4. CASE ExpireReservation(t) \/ Confirm(t) \/ Cancel(t)
    <2>1. /\ pc[t] \in {"expire", "confirm", "cancel"} /\ products' = products
          /\ pc'[t] = IF pc[t] = "confirm" THEN "sell" ELSE "release"
          /\ InsideStep(t)
      BY <1>0, <1>4 DEF ExpireReservation, Confirm, Cancel, Goto, InsideStep, SharedStep
    <2>2. op'[t].product = op[t].product
      BY <1>0, <2>1, SameCallEffect DEF SameCall
    <2>3. \A point \in LagPoints :
            /\ p # op[t].product => Lag(p, point)' = Lag(p, point)
            /\ p = op[t].product => /\ Lag(p, point) = 0
                                    /\ Lag(p, point)' = IF point = pc'[t] THEN 1 ELSE 0
      BY <2>1, <2>2, LagMoved DEF CriticalPoints, LagPoints
    <2>4. PICK i : Finishes(t, i)
      <3>1. ~ UNCHANGED reservations \/ \E i : Finishes(t, i)
        BY <1>4, <2>1 DEF ExpireReservation, Confirm, Cancel, Finishes, Goto, Remaining,
                          CriticalPoints, HistoryInv, IInv, RefInv, Ref, Hands, HasReservation
      <3>2. ~ Saves(t)
        BY <2>1 DEF Saves
      <3> QED BY <3>1, <3>2, ReservationCases
    <2>5. IsActive(reservations[i])
      BY <2>4, FinishesActive
    <2>6. CASE p = op[t].product
      <3>1. /\ Cardinality(Active(p)') = Cardinality(Active(p)) - 1
            /\ Cardinality(Confirmed(p)') = IF pc[t] = "confirm" THEN Cardinality(Confirmed(p)) + 1
                                                                 ELSE Cardinality(Confirmed(p))
        BY <1>1, <2>4, <2>5, <2>6, FinishedSets, FS_AddElement, FS_RemoveElement
      <3> QED BY <1>0, <1>1, <2>1, <2>3, <2>6, <3>1 DEF Counted, LagPoints
    <2>7. CASE p # op[t].product
      <3>1. Active(p)' = Active(p) /\ Confirmed(p)' = Confirmed(p)
        BY <2>4, <2>5, <2>7, FinishedSets
      <3> QED BY <1>0, <2>1, <2>3, <2>7, <3>1 DEF Counted, LagPoints
    <2> QED BY <2>6, <2>7
  <1>5. CASE HoldUnit(t) \/ Sell(t) \/ ReleaseHold(t)
    <2>1. PICK a \in Int, c \in Int :
            \/ HoldUnit(t) /\ a = 1 /\ c = 0
            \/ Sell(t) /\ a = -1 /\ c = 1
            \/ ReleaseHold(t) /\ a = -1 /\ c = 0
      BY <1>5
    <2>2. /\ pc[t] \in {"hold", "sell", "release"} /\ pc'[t] = "eventID"
          /\ a = IF pc[t] = "hold" THEN 1 ELSE -1
          /\ c = IF pc[t] = "sell" THEN 1 ELSE 0
      BY <2>1, CounterWrites DEF HoldUnit, Sell, ReleaseHold, Goto
    <2>3. /\ reservations' = reservations /\ op' = op
          /\ p # op[t].product => products'[p] = products[p]
          /\ p = op[t].product =>
               /\ products'[p].totalStock = products[p].totalStock
               /\ products'[p].activeReservationCount = products[p].activeReservationCount + a
               /\ products'[p].confirmedCount = products[p].confirmedCount + c
      BY <2>1, CounterWrites
    <2>4. \A point \in LagPoints :
            /\ p # op[t].product => Lag(p, point)' = Lag(p, point)
            /\ p = op[t].product => /\ Lag(p, point) = IF point = pc[t] THEN 1 ELSE 0
                                    /\ Lag(p, point)' = 0
      BY <2>2, <2>3, LagMoved DEF CriticalPoints, LagPoints
    <2>5. Active(p)' = Active(p) /\ Confirmed(p)' = Confirmed(p)
      BY <2>3 DEF Active, Confirmed, ReservationsIn
    <2>6. CASE p = op[t].product
      BY <1>0, <1>1, <2>2, <2>3, <2>4, <2>5, <2>6 DEF Counted, LagPoints
    <2>7. CASE p # op[t].product
      BY <1>0, <2>3, <2>4, <2>5, <2>7 DEF Counted, LagPoints
    <2> QED BY <2>6, <2>7
  <1> QED BY <1>2, <1>3, <1>4, <1>5, DecisionWrites

(* A call uses the reading it took under the lock.                         *)
LEMMA ReadStep ==
  ASSUME HistoryInv, Sweepers = {}, ReadInv, NEW t \in Threads, LocalStep(t)
  PROVE  ReadInv' /\ clock' = clock
  <1>0. TypeOK /\ clock \in Nat /\ op \in [Threads -> Op] /\ op[t].now \in 0 .. clock
    BY DEF HistoryInv, IInv, TypeOK, ReadInv
  <1>1. clock' = clock
    BY DEF envVars, LocalStep, InsideStep, SharedStep, ExpireReservation, ReleaseHold,
       NextEventID, AppendEventStep, RecordShadow, LazyExpiryDone, RejectUnknownProduct,
       RejectOutOfStock, NextReservationID, SaveReserved, HoldUnit, ConfirmExpiryDone,
       Confirm, Sell, Cancel, SweepExpiryDone, EnterStep, LockReserve, LockConfirm,
       LockConfirmLapsed, LockCancel, RejectFinalized, LockSweep, LeaveStep, Return,
       UnlockSweep, OutsideStep, BeginReserve, BeginFinalize, NextProduct, EndSweep,
       ReceiveTick, Snapshot
  <1>2. op'[t].now \in {0, clock, op[t].now}
    <2>1. CASE InsideStep(t)
      BY <1>0, <2>1, InsideCall
    <2>2. CASE EnterStep(t) \/ UnlockSweep(t) \/ Snapshot(t) \/ NextProduct(t)
      BY <1>0, <2>2, EnterCall DEF EnterStep, UnlockSweep
    <2>3. CASE BeginReserve(t)
      <3>1. PICK p \in ProductIDs :
              op' = [op EXCEPT ![t] = [NoOp EXCEPT !.kind = "reserve", !.product = p]]
        BY <2>3 DEF BeginReserve
      <3> QED BY <1>0, <3>1 DEF NoOp
    <2>4. CASE BeginFinalize(t)
      <3>1. PICK k \in {"confirm", "cancel"}, i \in DOMAIN reservations :
              op' = [op EXCEPT ![t] = [NoOp EXCEPT !.kind = k, !.res = i,
                                                   !.product = reservations[i].product]]
        BY <2>4 DEF BeginFinalize
      <3> QED BY <1>0, <3>1 DEF NoOp
    <2>5. CASE Return(t) \/ EndSweep(t)
      BY <1>0, <2>5 DEF Return, EndSweep, NoOp
    <2> QED BY <2>1, <2>2, <2>3, <2>4, <2>5 DEF LocalStep, LeaveStep, OutsideStep
  <1>3. op'[t].now \in 0 .. clock
    BY <1>0, <1>2
  <1> QED BY <1>1, <1>3, OtherHands DEF ReadInv

CountersInv == RecordInv /\ CountInv /\ ReadInv

\* Every step keeps the invariant of the counters.
LEMMA CountersStep ==
  ASSUME Sweepers = {}, CountersInv, [Next]_vars
  PROVE  CountersInv'
  <1>1. RecordInv'
    BY RecordStep DEF CountersInv
  <1>2. ASSUME NEW t \in Threads, LocalStep(t) PROVE CountersInv'
    BY <1>1, <1>2, CountStep, ReadStep DEF CountersInv, RecordInv
  <1>3. CASE EnvStep
    <2>1. UNCHANGED <<products, reservations, pc, op>>
      BY <1>3 DEF EnvStep, repoVars
    <2>2. ASSUME NEW p \in DOMAIN Stock PROVE Counted(p)'
      <3>1. /\ Active(p)' = Active(p) /\ Confirmed(p)' = Confirmed(p) /\ products'[p] = products[p]
            /\ \A point : Lag(p, point)' = Lag(p, point)
        BY <2>1 DEF Active, Confirmed, ReservationsIn, Lag, At
      <3> QED BY <3>1 DEF CountersInv, CountInv, Counted
    <2>3. clock \in Nat /\ clock' \in {clock, clock + 1}
      BY <1>3 DEF EnvStep, vars, AdvanceClock, RejectUnknownReservation, Tick,
         CountersInv, RecordInv, HistoryInv, IInv, TypeOK
    <2>4. ReadInv'
      BY <2>1, <2>3 DEF CountersInv, ReadInv
    <2> QED BY <1>1, <2>2, <2>4 DEF CountersInv, CountInv
  <1> QED BY <1>2, <1>3, StepCases

\* Nothing is reserved, sold or under way at the start.
LEMMA CountersInitially == Init => CountersInv
  <1> SUFFICES ASSUME Init PROVE CountersInv
    OBVIOUS
  <1>1. RecordInv
    BY RecordInitially
  <1>2. DOMAIN reservations = {} /\ \A t \in Threads : pc[t] = "idle" /\ op[t].now = 0
    BY DEF Init, RepoInit, NoOp
  <1>3. ASSUME NEW p \in DOMAIN Stock PROVE Counted(p)
    <2>1. Active(p) = {} /\ Confirmed(p) = {}
      BY <1>2 DEF Active, Confirmed, ReservationsIn
    <2>2. \A point \in LagPoints : Lag(p, point) = 0
      BY <1>2 DEF Lag, At, LagPoints
    <2> QED BY <2>1, <2>2, FS_EmptySet DEF Counted, LagPoints, Init, RepoInit
  <1>4. ReadInv
    BY <1>2 DEF ReadInv, Init
  <1> QED BY <1>1, <1>3, <1>4 DEF CountersInv, CountInv

(* Without a sweeper the counters count the reservations, up to the write  *)
(* that the holder of the lock still owes, in every reachable state.       *)
THEOREM CountersInvariance ==
  ASSUME Sweepers = {}
  PROVE  Spec => []CountersInv
  <1>1. CountersInv /\ [Next]_vars => CountersInv'
    BY Sweepers = {}, CountersStep
  <1> QED BY <1>1, CountersInitially, PTL DEF Spec

(* RL-R1 to RL-R4: while no call is in progress on a product its counters  *)
(* count its Active and its Confirmed reservations.                        *)
THEOREM CountersAgree ==
  ASSUME Sweepers = {}
  PROVE  Spec => []CountersMatchReservations
  <1>1. CountersInv => CountersMatchReservations
    <2> SUFFICES ASSUME CountersInv, NEW p \in DOMAIN products, LockFree(p)
                 PROVE  /\ products[p].activeReservationCount = Cardinality(Active(p))
                        /\ products[p].confirmedCount = Cardinality(Confirmed(p))
      BY DEF CountersMatchReservations, Active, Confirmed
    <2>1. products[p] \in ProductInventory /\ p \in DOMAIN Stock
      BY DEF CountersInv, RecordInv, HistoryInv, IInv, TypeOK, RepoTypeOK
    <2>2. \A point \in LagPoints : Lag(p, point) = 0
      BY ThreadAssumption DEF CountersInv, RecordInv, HistoryInv, IInv, LockInv, Lag, At, LagPoints,
         CriticalPoints, LockFree, Threads
    <2>3. Counted(p)
      BY <2>1 DEF CountersInv, CountInv
    <2> QED BY <2>1, <2>2, <2>3 DEF Counted, LagPoints, ProductInventory
  <1> QED BY <1>1, CountersInvariance, Sweepers = {}, PTL

\* The units taken of a product, by what the thread at its lock has written.
LEMMA TakenUnits ==
  ASSUME CountersInv, NEW p \in DOMAIN Stock
  PROVE  /\ Cardinality(Active(p)) \in Nat /\ Cardinality(Confirmed(p)) \in Nat
         /\ Stock[p] \in Nat
         /\ Cardinality(Active(p)) + Cardinality(Confirmed(p))
              = Stock[p] - AvailableStock(products[p]) + Lag(p, "hold") - Lag(p, "release")
         /\ AvailableStock(products[p]) \in Int /\ AvailableStock(products[p]) >= 0
  <1>1. products[p] \in ProductInventory /\ products[p].totalStock = Stock[p]
    BY DEF CountersInv, CountInv, Counted, RecordInv, HistoryInv, IInv, TypeOK, RepoTypeOK
  <1>2. /\ products[p].activeReservationCount \in Int /\ products[p].confirmedCount \in Int
        /\ Stock[p] \in Nat
    BY <1>1, StockAssumption DEF ProductInventory
  <1>3. Cardinality(Active(p)) \in Nat /\ Cardinality(Confirmed(p)) \in Nat
    BY FiniteReservations DEF Active, Confirmed, ReservationsIn, CountersInv, RecordInv
  <1>4. \A point : Lag(p, point) \in Int
    BY DEF Lag
  <1>5. Counted(p) /\ AvailableStock(products[p]) >= 0
    BY DEF CountersInv, CountInv, RecordInv, HistoryInv, IInv, StockNeverNegative, TypeOK, RepoTypeOK
  <1> QED BY <1>1, <1>2, <1>3, <1>4, <1>5 DEF Counted, AvailableStock

(* CO-R4 (specs/06): the units held and sold never exceed the stock, at    *)
(* every point of every call and for any number of concurrent clients.     *)
THEOREM NeverOversold ==
  ASSUME Sweepers = {}
  PROVE  Spec => []NoOversell
  <1>1. CountersInv => NoOversell
    <2> SUFFICES ASSUME CountersInv, NEW p \in DOMAIN products
                 PROVE  Cardinality(Active(p)) + Cardinality(Confirmed(p)) <= products[p].totalStock
      BY DEF NoOversell, Active, Confirmed
    <2>1. p \in DOMAIN Stock /\ products[p].totalStock = Stock[p]
      BY DEF CountersInv, CountInv, Counted, RecordInv, HistoryInv, IInv, TypeOK, RepoTypeOK
    <2>2. At(p, "hold") => AvailableStock(products[p]) > 0
      BY DEF At, CountersInv, RecordInv, HistoryInv, IInv, DecisionInv
    <2> QED BY <2>1, <2>2, TakenUnits DEF Lag
  <1> QED BY <1>1, CountersInvariance, Sweepers = {}, PTL

-----------------------------------------------------------------------------
(* The ledger.                                                             *)

(* A reservation is granted while the ledger has a free unit: the lock     *)
(* carries ReserveItem's check over to its save.                           *)
LEMMA LedgerReserve ==
  ASSUME CountersInv, NEW t \in Threads, Saves(t)
  PROVE  op[t].product \in DOMAIN Stock /\ Ledger!Reserve(op[t].product, op[t].now)
  <1> DEFINE p == op[t].product
             id == op[t].res
  <1>1. /\ p \in DOMAIN Stock /\ AvailableStock(products[p]) > 0 /\ pc[t] = "save"
    BY DEF Saves, CountersInv, RecordInv, HistoryInv, IInv, DecisionInv, RefInv, Ref, StockPoints,
           CriticalPoints
  <1>2. Lag(p, "hold") = 0
    <2>1. \A u \in Threads : ~ (pc[u] = "hold" /\ op[u].product = p)
      BY <1>1 DEF CountersInv, RecordInv, HistoryInv, IInv, LockInv, CriticalPoints
    <2> QED BY <2>1 DEF Lag, At
  <1>3. Lag(p, "release") \in {0, 1}
    BY DEF Lag
  <1>4. Cardinality(Active(p)) + Cardinality(Confirmed(p)) < Stock[p]
    BY <1>1, <1>2, <1>3, TakenUnits
  <1>5. Cardinality(Ledger!Taken(p)) < Stock[p]
    <2>1. Ledger!Taken(p) = Active(p) \cup Confirmed(p) /\ Active(p) \cap Confirmed(p) = {}
      BY DEF Ledger!Taken, Active, Confirmed, ReservationsIn
    <2>2. IsFiniteSet(Active(p)) /\ IsFiniteSet(Confirmed(p))
      BY FiniteReservations DEF Active, Confirmed, ReservationsIn, CountersInv, RecordInv
    <2>3. Cardinality(Ledger!Taken(p)) = Cardinality(Active(p)) + Cardinality(Confirmed(p)) - Cardinality({})
      BY <2>1, <2>2, FS_Union
    <2> QED BY <1>1, <1>4, <2>3, FS_EmptySet, TakenUnits
  <1>6. id \in DOMAIN reservations' \ DOMAIN reservations
    BY DEF Saves, SaveReservation, CountersInv, RecordInv, HistoryInv, FreshIDs
  <1>7. reservations' = [i \in DOMAIN reservations \cup {id} |->
          IF i = id
          THEN [product |-> p, state |-> "Active", expiresAt |-> op[t].now + Hold,
                confirmedAt |-> NoTime, cancelledAt |-> NoTime, expiredAt |-> NoTime]
          ELSE reservations[i]]
    BY DEF Saves, SaveReservation
  <1>8. Ledger!Cardinality(Ledger!Taken(p)) = Cardinality(Ledger!Taken(p))
    BY DEF Ledger!Cardinality, Cardinality
  <1> HIDE DEF id
  <1> QED BY <1>1, <1>5, <1>6, <1>7, <1>8 DEF Ledger!Reserve, Ledger!NoTime, NoTime

(* A reservation is finished as the ledger allows, on the right side of    *)
(* its expiry and once.                                                    *)
LEMMA LedgerFinish ==
  ASSUME CountersInv, Sweepers = {}, NEW t \in Threads, NEW i, Finishes(t, i)
  PROVE  i \in DOMAIN reservations
         /\ (Ledger!Confirm(i, op[t].now) \/ Ledger!Cancel(i, op[t].now) \/ Ledger!Expire(i, op[t].now))
  <1>1. HistoryInv /\ Hands(t) /\ i \in DOMAIN reservations
    BY DEF CountersInv, RecordInv, HistoryInv, Finishes
  <1>2. IsActive(reservations[i])
    BY <1>1, FinishesActive
  <1>3. CASE pc[t] = "expire"
    BY <1>1, <1>2, <1>3
    DEF Finishes, MarkExpired, Hands, Ledger!Expire, Ledger!IsActive, Ledger!Lapsed, IsActive, Lapsed
  <1>4. CASE pc[t] = "confirm"
    BY <1>1, <1>2, <1>4
    DEF Finishes, MarkConfirmed, Hands, Ledger!Confirm, Ledger!IsActive, Ledger!Lapsed, IsActive, Lapsed
  <1>5. CASE pc[t] = "cancel"
    BY <1>1, <1>2, <1>5 DEF Finishes, MarkCancelled, Ledger!Cancel, Ledger!IsActive, IsActive
  <1> QED BY <1>1, <1>3, <1>4, <1>5 DEF Finishes

(* Each step of the service is a step of the ledger or leaves it as it is. *)
LEMMA LedgerStep ==
  ASSUME CountersInv, Sweepers = {}, [Next]_vars
  PROVE  [Ledger!Next]_(Ledger!ledgerVars)
  <1> USE DEF Ledger!Next, Ledger!ledgerVars
  <1>1. CASE EnvStep
    <2>1. reservations' = reservations /\ clock' \in {clock, clock + 1}
      BY <1>1 DEF EnvStep, repoVars, vars, AdvanceClock, RejectUnknownReservation, Tick
    <2> QED BY <2>1 DEF Ledger!Pass
  <1>2. ASSUME NEW t \in Threads, LocalStep(t)
        PROVE  [Ledger!Next]_(Ledger!ledgerVars)
    <2>1. HistoryInv /\ clock' = clock /\ op[t].now \in 0 .. clock
      BY <1>2, ReadStep DEF CountersInv, RecordInv, ReadInv
    <2>2. CASE UNCHANGED reservations
      BY <2>1, <2>2
    <2>3. CASE Saves(t)
      BY <2>1, <2>3, LedgerReserve DEF Ledger!Decide
    <2>4. ASSUME NEW i, Finishes(t, i) PROVE Ledger!Decide
      BY <2>1, <2>4, LedgerFinish DEF Ledger!Decide
    <2> QED BY <1>2, <2>1, <2>2, <2>3, <2>4, ReservationCases
  <1> QED BY <1>1, <1>2, StepCases

(* Without a sweeper the service, whatever its interleavings, implements   *)
(* the abstract ledger: each grant and each end of a reservation is one    *)
(* atomic step that the ledger allows.                                     *)
THEOREM LedgerRefined ==
  ASSUME Sweepers = {}
  PROVE  Spec => ImplementsLedger
  <1>1. Init => Ledger!Init
    BY DEF Init, RepoInit, Ledger!Init
  <1>2. CountersInv /\ [Next]_vars => [Ledger!Next]_(Ledger!ledgerVars)
    BY Sweepers = {}, LedgerStep
  <1> QED BY <1>1, <1>2, CountersInvariance, Sweepers = {}, PTL
      DEF Spec, ImplementsLedger, Ledger!Spec

=============================================================================
