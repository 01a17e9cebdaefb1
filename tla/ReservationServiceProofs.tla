----------------------- MODULE ReservationServiceProofs -----------------------
(***************************************************************************)
(* The service is well typed, never answers a negative stock and uses its  *)
(* locks properly, for any clients, sweepers, products, stock and hold.    *)
(***************************************************************************)
EXTENDS ReservationServiceProperties, TLAPS

(* The control points at which the product of the call is known to be      *)
(* seeded.                                                                 *)
StockPoints == CriticalPoints \ {"expire", "check", "unlock"}

(* A thread inside the closure of LockManager.With holds the lock of its   *)
(* product.                                                                *)
LockInv ==
  \A t \in Threads :
    /\ pc[t] = "lock" => op[t].product \in ProductIDs
    /\ pc[t] \in CriticalPoints => op[t].product \in ProductIDs /\ lock[op[t].product] = t

(* What the local variables of a call refer to: the ids still to be        *)
(* expired are stored (reservations are never deleted), and so is the      *)
(* reservation of the call at every point where the code reads or writes   *)
(* it.                                                                     *)
Ref(t) ==
  /\ op[t].todo \subseteq DOMAIN reservations
  /\ pc[t] \in {"snapshot", "next"} => op[t].kind = "sweep"
  /\ pc[t] = "lock" /\ op[t].kind \in {"confirm", "cancel"} =>
       op[t].res \in DOMAIN reservations /\ op[t].product \in DOMAIN Stock
  /\ pc[t] \in StockPoints => op[t].product \in DOMAIN Stock
  /\ pc[t] \in {"hold", "confirm", "sell", "cancel", "release", "shadow"} =>
       op[t].res \in DOMAIN reservations
  /\ pc[t] \in {"eventID", "append"} /\ op[t].event # "ReserveRejected" =>
       op[t].res \in DOMAIN reservations

RefInv == \A t \in Threads : Ref(t)

(* ReserveItem's check stays true until its ActiveReservationCount++: the  *)
(* lock is held from one to the other. This is what makes                  *)
(* StockNeverNegative inductive.                                           *)
DecisionInv ==
  \A t \in Threads : pc[t] \in {"save", "hold"} => AvailableStock(products[op[t].product]) > 0

(* The inductive invariant.                                                *)
IInv == TypeOK /\ LockInv /\ RefInv /\ DecisionInv /\ StockNeverNegative

(* UpdateProduct writes one product and moves its available stock by what  *)
(* its callback adds to the counters.                                      *)
LEMMA UpdateProductEffect ==
  ASSUME products \in [DOMAIN Stock -> ProductInventory],
         NEW p \in DOMAIN Stock, NEW a \in Int, NEW c \in Int, UpdateProduct(p, a, c)
  PROVE  /\ products' \in [DOMAIN Stock -> ProductInventory]
         /\ \A q \in DOMAIN Stock \ {p} : products'[q] = products[q]
         /\ products'[p].totalStock = products[p].totalStock
         /\ products'[p].activeReservationCount = products[p].activeReservationCount + a
         /\ products'[p].confirmedCount = products[p].confirmedCount + c
         /\ AvailableStock(products'[p]) = AvailableStock(products[p]) - a - c
  <1> DEFINE old == products[p]
             new == [old EXCEPT !.activeReservationCount = old.activeReservationCount + a,
                                !.confirmedCount = old.confirmedCount + c]
  <1>1. old \in ProductInventory
    OBVIOUS
  <1>2. products' = [products EXCEPT ![p] = new]
    BY <1>1 DEF UpdateProduct, ProductInventory
  <1>3. /\ old.activeReservationCount \in Int /\ old.confirmedCount \in Int
        /\ old.totalStock \in Int
    BY <1>1 DEF ProductInventory
  <1>4. /\ old.activeReservationCount + a \in Int
        /\ old.confirmedCount + c \in Int
    BY <1>3
  <1>5. /\ new \in ProductInventory
        /\ new.totalStock = old.totalStock
        /\ new.activeReservationCount = old.activeReservationCount + a
        /\ new.confirmedCount = old.confirmedCount + c
    BY <1>1, <1>4, Zenon DEF ProductInventory
  <1>6. AvailableStock(new) = AvailableStock(old) - a - c
    <2> HIDE DEF new, old
    <2> QED BY <1>3, <1>5 DEF AvailableStock
  <1> QED
    <2> HIDE DEF new
    <2> QED BY <1>2, <1>5, <1>6

(* UpdateReservation keeps the reservations well typed and their products. *)
LEMMA MarkEffect ==
  ASSUME reservations \in [DOMAIN reservations -> Reservation],
         NEW i \in DOMAIN reservations, NEW now \in Int,
         MarkConfirmed(i, now) \/ MarkCancelled(i, now) \/ MarkExpired(i, now)
  PROVE  /\ reservations' \in [DOMAIN reservations -> Reservation]
         /\ \A j \in DOMAIN reservations : reservations'[j].product = reservations[j].product
  <1>1. CASE MarkConfirmed(i, now)
    BY <1>1 DEF MarkConfirmed, Reservation, ReservationStates, TerminalStates
  <1>2. CASE MarkCancelled(i, now)
    BY <1>2 DEF MarkCancelled, Reservation, ReservationStates, TerminalStates
  <1>3. CASE MarkExpired(i, now)
    BY <1>3 DEF MarkExpired, Reservation, ReservationStates, TerminalStates
  <1> QED BY <1>1, <1>2, <1>3

(* SaveReservation keeps every stored id and adds its own.                 *)
LEMMA SaveEffect ==
  ASSUME reservations \in [DOMAIN reservations -> Reservation], DOMAIN reservations \subseteq Nat,
         NEW id \in Nat, NEW r \in Reservation, SaveReservation(id, r)
  PROVE  /\ DOMAIN reservations' = DOMAIN reservations \cup {id}
         /\ DOMAIN reservations' \subseteq Nat
         /\ reservations' \in [DOMAIN reservations' -> Reservation]
  BY DEF SaveReservation

(* An idle thread's record is a record of Op.                              *)
LEMMA NoOpType == NoOp \in Op
  BY DEF NoOp, Op, Kinds, Errors, EventTypes

(* A step of t leaves the local variables of the other threads alone.      *)
OpFrame(t) ==
  /\ op' \in [Threads -> Op]
  /\ \A u \in Threads \ {t} : op'[u] = op[u]

(* The step goes on with the same call on the same product.                *)
SameCall(t) ==
  /\ OpFrame(t)
  /\ op'[t].product = op[t].product
  /\ op'[t].kind = op[t].kind

(* What each step within a call does to the local variables of the call.   *)
LEMMA CallEffect ==
  ASSUME TypeOK, NEW t \in Threads
  PROVE  /\ ExpireReservation(t) =>
              /\ SameCall(t)
              /\ op'[t].todo \subseteq op[t].todo
              /\ op'[t].res \in Remaining(t)
              /\ op'[t].event = "Expired"
         /\ NextEventID(t) =>
              /\ SameCall(t)
              /\ op'[t].todo = op[t].todo
              /\ op'[t].res = op[t].res
              /\ op'[t].event = op[t].event
         /\ LockReserve(t) => SameCall(t) /\ op'[t].todo \subseteq DOMAIN reservations
         /\ LazyExpiryDone(t) => SameCall(t) /\ op'[t].todo = op[t].todo
         /\ RejectUnknownProduct(t) => SameCall(t) /\ op'[t].todo = op[t].todo
         /\ RejectOutOfStock(t) =>
              /\ SameCall(t)
              /\ op'[t].todo = op[t].todo
              /\ op'[t].event = "ReserveRejected"
         /\ NextReservationID(t) => SameCall(t) /\ op'[t].todo = op[t].todo
         /\ LockConfirm(t) \/ LockCancel(t) \/ RejectFinalized(t) \/ Confirm(t) \/ Cancel(t) =>
              SameCall(t) /\ op'[t].todo = op[t].todo /\ op'[t].res = op[t].res
         /\ LockConfirmLapsed(t) =>
              SameCall(t) /\ op'[t].todo = {op[t].res} /\ op'[t].res = op[t].res
         /\ Snapshot(t) => SameCall(t) /\ op'[t].todo \subseteq DOMAIN reservations
  <1> USE DEF SameCall, OpFrame
  <1>0. /\ op \in [Threads -> Op] /\ op[t] \in Op
        /\ clock \in Int /\ idCounter + 1 \in Nat
        /\ DOMAIN reservations \subseteq Nat
        /\ op[t].todo \in SUBSET Nat /\ op[t].res \in Nat /\ op[t].total + 1 \in Nat
    <2>1. op \in [Threads -> Op] /\ clock \in Nat /\ idCounter \in Nat /\ DOMAIN reservations \subseteq Nat
      BY DEF TypeOK, RepoTypeOK
    <2>2. op[t] \in Op
      BY <2>1
    <2>3. op[t].todo \in SUBSET Nat /\ op[t].res \in Nat /\ op[t].total \in Nat
      BY <2>2 DEF Op
    <2> QED BY <2>1, <2>2, <2>3
  <1>1. ASSUME ExpireReservation(t)
        PROVE  /\ SameCall(t)
               /\ op'[t].todo \subseteq op[t].todo
               /\ op'[t].res \in Remaining(t)
               /\ op'[t].event = "Expired"
    <2>1. PICK i \in Remaining(t) :
            op' = [op EXCEPT ![t].res = i, ![t].todo = @ \ {i}, ![t].event = "Expired",
                             ![t].total = @ + 1]
      BY <1>1 DEF ExpireReservation
    <2>2. i \in Nat /\ op[t].todo \ {i} \in SUBSET Nat
      BY <1>0 DEF Remaining
    <2> QED BY <1>0, <2>1, <2>2, Zenon DEF Op, EventTypes
  <1>2. ASSUME NextEventID(t)
        PROVE  /\ SameCall(t)
               /\ op'[t].todo = op[t].todo
               /\ op'[t].res = op[t].res
               /\ op'[t].event = op[t].event
    BY <1>0, <1>2, Zenon DEF NextEventID, Op
  <1>3. ASSUME LockReserve(t)
        PROVE  SameCall(t) /\ op'[t].todo \subseteq DOMAIN reservations
    <2>1. PICK S \in SUBSET DOMAIN reservations : op' = [op EXCEPT ![t].now = clock, ![t].todo = S]
      BY <1>3, Zenon DEF LockReserve, LapsedOf, ActiveReservationsByProduct, AllActiveReservations
    <2> QED BY <1>0, <2>1, Zenon DEF Op
  <1>4. ASSUME LazyExpiryDone(t) PROVE SameCall(t) /\ op'[t].todo = op[t].todo
    BY <1>0, <1>4, 0 \in Nat, Zenon DEF LazyExpiryDone, Op
  <1>5. ASSUME RejectUnknownProduct(t) PROVE SameCall(t) /\ op'[t].todo = op[t].todo
    BY <1>0, <1>5, Zenon DEF RejectUnknownProduct, Op, Errors
  <1>6. ASSUME RejectOutOfStock(t)
        PROVE  SameCall(t) /\ op'[t].todo = op[t].todo /\ op'[t].event = "ReserveRejected"
    BY <1>0, <1>6, Zenon DEF RejectOutOfStock, Op, Errors, EventTypes
  <1>7. ASSUME NextReservationID(t) PROVE SameCall(t) /\ op'[t].todo = op[t].todo
    BY <1>0, <1>7, Zenon DEF NextReservationID, Op, EventTypes
  <1>8. ASSUME LockConfirm(t) \/ LockCancel(t)
        PROVE  SameCall(t) /\ op'[t].todo = op[t].todo /\ op'[t].res = op[t].res
    <2>1. op' = [op EXCEPT ![t].now = clock]
      BY <1>8 DEF LockConfirm, LockCancel
    <2> QED BY <1>0, <2>1, Zenon DEF Op
  <1>9. ASSUME RejectFinalized(t)
        PROVE  SameCall(t) /\ op'[t].todo = op[t].todo /\ op'[t].res = op[t].res
    <2>1. PICK e \in Errors : op' = [op EXCEPT ![t].err = e]
      BY <1>9, Zenon DEF RejectFinalized, FinalizedError, Errors
    <2> QED BY <1>0, <2>1, Zenon DEF Op
  <1>10. ASSUME Confirm(t) \/ Cancel(t)
         PROVE  SameCall(t) /\ op'[t].todo = op[t].todo /\ op'[t].res = op[t].res
    <2>1. PICK e \in EventTypes : op' = [op EXCEPT ![t].event = e]
      BY <1>10, Zenon DEF Confirm, Cancel, EventTypes
    <2> QED BY <1>0, <2>1, Zenon DEF Op
  <1>11. ASSUME LockConfirmLapsed(t)
         PROVE  SameCall(t) /\ op'[t].todo = {op[t].res} /\ op'[t].res = op[t].res
    <2>1. op' = [op EXCEPT ![t].now = clock, ![t].todo = {op[t].res},
                           ![t].err = "ErrReservationExpired"]
      BY <1>11 DEF LockConfirmLapsed
    <2> QED BY <1>0, <2>1, {op[t].res} \in SUBSET Nat, Zenon DEF Op, Errors
  <1>12. ASSUME Snapshot(t) PROVE SameCall(t) /\ op'[t].todo \subseteq DOMAIN reservations
    <2>1. PICK S \in SUBSET DOMAIN reservations : op' = [op EXCEPT ![t].todo = S]
      BY <1>12, Zenon DEF Snapshot, LapsedOf, AllActiveReservations
    <2> QED BY <1>0, <2>1, Zenon DEF Op
  <1> QED BY <1>1, <1>2, <1>3, <1>4, <1>5, <1>6, <1>7, <1>8, <1>9, <1>10, <1>11, <1>12

(* What the steps that start a call, end it or move it to the next product *)
(* do to its local variables.                                              *)
LEMMA BoundaryEffect ==
  ASSUME TypeOK, NEW t \in Threads, op[t].todo \subseteq DOMAIN reservations
  PROVE  /\ BeginReserve(t) =>
              /\ OpFrame(t)
              /\ op'[t].kind = "reserve" /\ op'[t].todo = {}
              /\ op'[t].product \in ProductIDs
         /\ BeginFinalize(t) =>
              /\ OpFrame(t)
              /\ op'[t].res \in DOMAIN reservations /\ op'[t].todo = {}
              /\ op'[t].product \in DOMAIN Stock
         /\ t \in Sweepers /\ ReceiveTick(t) =>
              OpFrame(t) /\ op'[t].kind = "sweep" /\ op'[t].todo = {}
         /\ NextProduct(t) =>
              /\ OpFrame(t)
              /\ op'[t].kind = op[t].kind /\ op'[t].res = op[t].res /\ op'[t].todo = op[t].todo
              /\ op'[t].product \in DOMAIN Stock
         /\ Return(t) \/ EndSweep(t) => OpFrame(t) /\ op'[t] = NoOp
  <1> USE DEF OpFrame
  <1>0. /\ op \in [Threads -> Op] /\ NoOp \in Op
        /\ DOMAIN reservations \subseteq Nat
        /\ \A i \in DOMAIN reservations : reservations[i].product \in DOMAIN Stock
        /\ \A p \in DOMAIN Stock : p \in ProductIDs
    <2>1. /\ op \in [Threads -> Op] /\ DOMAIN reservations \subseteq Nat
          /\ reservations \in [DOMAIN reservations -> Reservation]
      BY DEF TypeOK, RepoTypeOK
    <2>2. \A i \in DOMAIN reservations : reservations[i] \in Reservation
      BY <2>1
    <2>3. \A i \in DOMAIN reservations : reservations[i].product \in DOMAIN Stock
      BY <2>2 DEF Reservation
    <2> QED BY <2>1, <2>3, NoOpType, StockAssumption
  <1>1. ASSUME BeginReserve(t)
        PROVE  /\ OpFrame(t)
               /\ op'[t].kind = "reserve" /\ op'[t].todo = {}
               /\ op'[t].product \in ProductIDs
    <2>1. PICK p \in ProductIDs :
            op' = [op EXCEPT ![t] = [NoOp EXCEPT !.kind = "reserve", !.product = p]]
      BY <1>1 DEF BeginReserve
    <2> QED BY <1>0, <2>1, Zenon DEF Op, NoOp, Kinds
  <1>2. ASSUME BeginFinalize(t)
        PROVE  /\ OpFrame(t)
               /\ op'[t].res \in DOMAIN reservations /\ op'[t].todo = {}
               /\ op'[t].product \in DOMAIN Stock
    <2>1. PICK k \in {"confirm", "cancel"}, i \in DOMAIN reservations :
            op' = [op EXCEPT ![t] = [NoOp EXCEPT !.kind = k, !.res = i,
                                                 !.product = reservations[i].product]]
      BY <1>2 DEF BeginFinalize
    <2>2. k \in Kinds /\ i \in Nat /\ reservations[i].product \in DOMAIN Stock
      BY <1>0 DEF Kinds
    <2> QED BY <1>0, <2>1, <2>2, Zenon DEF Op, NoOp
  <1>3. ASSUME t \in Sweepers, ReceiveTick(t)
        PROVE  OpFrame(t) /\ op'[t].kind = "sweep" /\ op'[t].todo = {}
    <2>1. tick[t] \in Int
      BY <1>3 DEF TypeOK
    <2>2. op' = [op EXCEPT ![t] = [NoOp EXCEPT !.kind = "sweep", !.now = tick[t]]]
      BY <1>3 DEF ReceiveTick
    <2> QED BY <1>0, <2>1, <2>2, Zenon DEF Op, NoOp, Kinds
  <1>4. ASSUME NextProduct(t)
        PROVE  /\ OpFrame(t)
               /\ op'[t].kind = op[t].kind /\ op'[t].res = op[t].res /\ op'[t].todo = op[t].todo
               /\ op'[t].product \in DOMAIN Stock
    <2>1. PICK i \in op[t].todo : op' = [op EXCEPT ![t].product = reservations[i].product]
      BY <1>4 DEF NextProduct
    <2>2. reservations[i].product \in DOMAIN Stock
      BY <1>0
    <2> QED BY <1>0, <2>1, <2>2, Zenon DEF Op
  <1>5. ASSUME Return(t) \/ EndSweep(t) PROVE OpFrame(t) /\ op'[t] = NoOp
    BY <1>0, <1>5 DEF Return, EndSweep
  <1> QED BY <1>1, <1>2, <1>3, <1>4, <1>5

(* The steps of Next by what they do to the locks: those taken while the   *)
(* lock is held, those that take it, those that release it, those taken    *)
(* without one, and those that change no control state.                    *)
InsideStep(t) ==
  \/ SharedStep(t) \/ LazyExpiryDone(t) \/ RejectUnknownProduct(t) \/ RejectOutOfStock(t)
  \/ NextReservationID(t) \/ SaveReserved(t) \/ HoldUnit(t)
  \/ ConfirmExpiryDone(t) \/ Confirm(t) \/ Sell(t) \/ Cancel(t) \/ SweepExpiryDone(t)

EnterStep(t) ==
  \/ LockReserve(t) \/ LockConfirm(t) \/ LockConfirmLapsed(t) \/ LockCancel(t)
  \/ RejectFinalized(t) \/ LockSweep(t)

LeaveStep(t) == Return(t) \/ UnlockSweep(t)

OutsideStep(t) ==
  \/ BeginReserve(t) \/ BeginFinalize(t) \/ NextProduct(t) \/ EndSweep(t)
  \/ (t \in Sweepers /\ ReceiveTick(t)) \/ Snapshot(t)

LocalStep(t) == InsideStep(t) \/ EnterStep(t) \/ LeaveStep(t) \/ OutsideStep(t)

EnvStep ==
  /\ UNCHANGED <<repoVars, idCounter, lock, pc, op, shadow>>
  /\ UNCHANGED vars \/ AdvanceClock \/ (\E t \in Threads : RejectUnknownReservation(t))
       \/ (\E s \in Sweepers : Tick(s))

(* Every step of the service is a step of the environment or a local step  *)
(* of one thread.                                                          *)
LEMMA StepCases ==
  ASSUME [Next]_vars
  PROVE  EnvStep \/ \E t \in Threads : LocalStep(t)
  <1> USE DEF Threads
  <1>1. ASSUME NEW t \in Clients, Request(t) \/ ClientStep(t)
        PROVE  EnvStep \/ LocalStep(t)
    BY <1>1 DEF Request, ClientStep, ReserveStep, FinalizeStep, LocalStep, InsideStep,
                EnterStep, LeaveStep, OutsideStep, EnvStep, RejectUnknownReservation, repoVars
  <1>2. ASSUME NEW s \in Sweepers, Tick(s) \/ SweepStep(s)
        PROVE  EnvStep \/ LocalStep(s)
    BY <1>2 DEF SweepStep, LocalStep, InsideStep, EnterStep, LeaveStep, OutsideStep,
                EnvStep, Tick, repoVars
  <1>3. AdvanceClock => EnvStep
    BY DEF AdvanceClock, EnvStep
  <1>4. UNCHANGED vars => EnvStep
    BY DEF vars, EnvStep, repoVars
  <1> QED BY <1>1, <1>2, <1>3, <1>4 DEF Next, Quiescent

(* The effect of each group on the control point and the lock.             *)
Inside(t) == \E to \in CriticalPoints :
  pc[t] \in CriticalPoints /\ pc' = [pc EXCEPT ![t] = to] /\ UNCHANGED lock
Enter(t) == \E to \in CriticalPoints : Acquire(t, to)
Leave(t) == \E to \in {"idle", "next"} : Release(t, to)
Outside(t) == \E to \in {"idle", "lock", "snapshot", "next"} :
  pc[t] \notin CriticalPoints \cup {"lock"} /\ pc' = [pc EXCEPT ![t] = to] /\ UNCHANGED lock

(* The steps of each group have the effect of the group.                   *)
LEMMA ControlEffect ==
  ASSUME NEW t \in Threads
  PROVE  /\ InsideStep(t) => Inside(t)
         /\ EnterStep(t) => Enter(t)
         /\ LeaveStep(t) => Leave(t)
         /\ OutsideStep(t) => Outside(t)
  <1>1. InsideStep(t) => Inside(t)
    BY DEF InsideStep, Inside, CriticalPoints, Goto, SharedStep, ExpireReservation, ReleaseHold,
           NextEventID, AppendEventStep, RecordShadow, LazyExpiryDone, RejectUnknownProduct,
           RejectOutOfStock, NextReservationID, SaveReserved, HoldUnit, ConfirmExpiryDone,
           Confirm, Sell, Cancel, SweepExpiryDone
  <1>2. EnterStep(t) => Enter(t)
    BY DEF EnterStep, Enter, CriticalPoints, LockReserve, LockConfirm, LockConfirmLapsed,
           LockCancel, RejectFinalized, LockSweep
  <1>3. LeaveStep(t) => Leave(t)
    BY DEF LeaveStep, Leave, Return, UnlockSweep
  <1>4. OutsideStep(t) => Outside(t)
    BY DEF OutsideStep, Outside, CriticalPoints, Goto, BeginReserve, BeginFinalize, NextProduct,
           EndSweep, ReceiveTick, Snapshot
  <1> QED BY <1>1, <1>2, <1>3, <1>4

(* A step between the first acquisition and the release goes on with the   *)
(* same call.                                                              *)
LEMMA SameCallEffect ==
  ASSUME TypeOK, NEW t \in Threads,
         InsideStep(t) \/ EnterStep(t) \/ UnlockSweep(t) \/ Snapshot(t)
  PROVE  SameCall(t)
  <1>1. op \in [Threads -> Op]
    BY DEF TypeOK
  <1>2. op' = op => SameCall(t)
    BY <1>1 DEF SameCall, OpFrame
  <1>3. ASSUME \/ ReleaseHold(t) \/ AppendEventStep(t) \/ RecordShadow(t) \/ SaveReserved(t)
               \/ HoldUnit(t) \/ ConfirmExpiryDone(t) \/ Sell(t) \/ SweepExpiryDone(t)
               \/ LockSweep(t) \/ UnlockSweep(t)
        PROVE  SameCall(t)
    BY <1>2, <1>3 DEF ReleaseHold, AppendEventStep, RecordShadow, SaveReserved, HoldUnit,
                      ConfirmExpiryDone, Sell, SweepExpiryDone, LockSweep, UnlockSweep
  <1>4. ASSUME \/ ExpireReservation(t) \/ NextEventID(t) \/ LockReserve(t) \/ LazyExpiryDone(t)
               \/ RejectUnknownProduct(t) \/ RejectOutOfStock(t) \/ NextReservationID(t)
               \/ LockConfirm(t) \/ LockConfirmLapsed(t) \/ LockCancel(t) \/ RejectFinalized(t)
               \/ Confirm(t) \/ Cancel(t) \/ Snapshot(t)
        PROVE  SameCall(t)
    BY <1>4, CallEffect
  <1> QED BY <1>3, <1>4 DEF InsideStep, EnterStep, SharedStep

(* A local step keeps LockInv and the types of pc and lock.                *)
LEMMA LockInvStep ==
  ASSUME IInv, NEW t \in Threads, LocalStep(t)
  PROVE  LockInv' /\ pc' \in [Threads -> ControlPoints] /\ lock' \in [ProductIDs -> Threads \cup {NoThread}]
  <1>0. /\ pc \in [Threads -> ControlPoints] /\ lock \in [ProductIDs -> Threads \cup {NoThread}]
        /\ LockInv /\ TypeOK /\ NoThread \notin Threads
    BY ThreadAssumption DEF IInv, TypeOK, Threads
  <1>1. op[t].todo \subseteq DOMAIN reservations
    BY DEF IInv, RefInv, Ref
  <1>2. CASE InsideStep(t)
    <2>1. Inside(t) /\ SameCall(t)
      BY <1>0, <1>2, ControlEffect, SameCallEffect
    <2> QED BY <1>0, <2>1 DEF Inside, SameCall, OpFrame, LockInv, ControlPoints
  <1>3. CASE EnterStep(t)
    <2>1. Enter(t) /\ SameCall(t)
      BY <1>0, <1>3, ControlEffect, SameCallEffect
    <2> QED BY <1>0, <2>1 DEF Enter, Acquire, Goto, SameCall, OpFrame, LockInv, ControlPoints, CriticalPoints
  <1>4. CASE LeaveStep(t)
    <2>1. Leave(t) /\ OpFrame(t)
      BY <1>0, <1>1, <1>4, ControlEffect, SameCallEffect, BoundaryEffect DEF LeaveStep, SameCall
    <2> QED BY <1>0, <2>1 DEF Leave, Release, Goto, OpFrame, LockInv, ControlPoints, CriticalPoints
  <1>5. CASE OutsideStep(t)
    <2>1. Outside(t) /\ OpFrame(t)
      BY <1>0, <1>1, <1>5, ControlEffect, SameCallEffect, BoundaryEffect DEF OutsideStep, SameCall
    <2>2. pc'[t] = "lock" => op'[t].product \in ProductIDs
      <3>1. CASE BeginReserve(t)
        BY <1>0, <1>1, <3>1, BoundaryEffect
      <3>2. CASE BeginFinalize(t) \/ NextProduct(t)
        BY <1>0, <1>1, <3>2, BoundaryEffect, StockAssumption
      <3>3. CASE EndSweep(t) \/ ReceiveTick(t) \/ Snapshot(t)
        BY <1>0, <3>3 DEF EndSweep, ReceiveTick, Snapshot, Goto
      <3> QED BY <1>5, <3>1, <3>2, <3>3 DEF OutsideStep
    <2> QED BY <1>0, <2>1, <2>2 DEF Outside, OpFrame, LockInv, ControlPoints, CriticalPoints
  <1> QED BY <1>2, <1>3, <1>4, <1>5 DEF LocalStep

(* A local step keeps the type of op and the calls of the other threads.   *)
LEMMA OpTypeStep ==
  ASSUME IInv, NEW t \in Threads, LocalStep(t)
  PROVE  OpFrame(t)
  <1>1. TypeOK /\ op[t].todo \subseteq DOMAIN reservations
    BY DEF IInv, RefInv, Ref
  <1>2. CASE InsideStep(t) \/ EnterStep(t) \/ UnlockSweep(t) \/ Snapshot(t)
    BY <1>1, <1>2, SameCallEffect DEF SameCall
  <1>3. CASE \/ BeginReserve(t) \/ BeginFinalize(t) \/ NextProduct(t) \/ EndSweep(t)
             \/ (t \in Sweepers /\ ReceiveTick(t)) \/ Return(t)
    BY <1>1, <1>3, BoundaryEffect
  <1> QED BY <1>2, <1>3 DEF LocalStep, LeaveStep, OutsideStep

(* A stored id is a number and its reservation is one of a seeded product. *)
LEMMA StoredType ==
  ASSUME TypeOK, NEW i \in DOMAIN reservations
  PROVE  i \in Nat /\ reservations[i].product \in DOMAIN Stock
  <1>1. /\ DOMAIN reservations \subseteq Nat
        /\ reservations \in [DOMAIN reservations -> Reservation]
    BY DEF TypeOK, RepoTypeOK
  <1>2. reservations[i] \in Reservation
    BY <1>1
  <1> QED BY <1>1, <1>2 DEF Reservation

(* A local step keeps the repository well typed and deletes no             *)
(* reservation.                                                            *)
LEMMA RepoStep ==
  ASSUME IInv, NEW t \in Threads, LocalStep(t)
  PROVE  RepoTypeOK' /\ DOMAIN reservations \subseteq DOMAIN reservations'
  <1>0. /\ TypeOK /\ RepoTypeOK /\ Ref(t) /\ op[t] \in Op
        /\ op[t].res \in Nat /\ op[t].now \in Int /\ op[t].eventID \in Nat
        /\ products \in [DOMAIN Stock -> ProductInventory]
    <2>1. /\ TypeOK /\ RepoTypeOK /\ Ref(t) /\ op \in [Threads -> Op]
          /\ products \in [DOMAIN Stock -> ProductInventory]
      BY DEF IInv, TypeOK, RepoTypeOK, RefInv
    <2>2. op[t] \in Op
      BY <2>1
    <2> QED BY <2>1, <2>2 DEF Op
  <1>1. CASE UNCHANGED repoVars
    BY <1>0, <1>1 DEF repoVars, RepoTypeOK
  <1>2. CASE ReleaseHold(t) \/ Sell(t)
    <2> DEFINE p == reservations[op[t].res].product
    <2>1. p \in DOMAIN Stock
      BY <1>0, <1>2, StoredType DEF ReleaseHold, Sell, Goto, Ref
    <2>2. PICK c \in Int : UpdateProduct(p, -1, c)
      BY <1>2 DEF ReleaseHold, Sell
    <2>3. products' \in [DOMAIN Stock -> ProductInventory]
      BY <1>0, <2>1, <2>2, -1 \in Int, UpdateProductEffect
    <2> QED BY <1>0, <1>2, <2>3 DEF ReleaseHold, Sell, RepoTypeOK
  <1>3. CASE HoldUnit(t)
    <2>1. op[t].product \in DOMAIN Stock
      BY <1>0, <1>3 DEF HoldUnit, Goto, Ref, StockPoints, CriticalPoints
    <2>2. products' \in [DOMAIN Stock -> ProductInventory]
      BY <1>0, <1>3, <2>1, 0 \in Int, 1 \in Int, UpdateProductEffect DEF HoldUnit
    <2> QED BY <1>0, <1>3, <2>2 DEF HoldUnit, RepoTypeOK
  <1>4. CASE ExpireReservation(t) \/ Confirm(t) \/ Cancel(t)
    <2>1. PICK i \in DOMAIN reservations :
            MarkConfirmed(i, op[t].now) \/ MarkCancelled(i, op[t].now) \/ MarkExpired(i, op[t].now)
      BY <1>0, <1>4 DEF ExpireReservation, Remaining, Confirm, Cancel, Goto, Ref
    <2>2. reservations' \in [DOMAIN reservations -> Reservation]
      BY <1>0, <2>1, MarkEffect DEF RepoTypeOK
    <2>3. UNCHANGED <<products, events>>
      BY <1>4 DEF ExpireReservation, Confirm, Cancel
    <2> QED BY <1>0, <2>2, <2>3 DEF RepoTypeOK
  <1>5. CASE SaveReserved(t)
    <2> DEFINE r == [product |-> op[t].product, state |-> "Active", expiresAt |-> op[t].now + Hold,
                     confirmedAt |-> NoTime, cancelledAt |-> NoTime, expiredAt |-> NoTime]
    <2>1. op[t].product \in DOMAIN Stock /\ op[t].now + Hold \in Int /\ NoTime \in Int
      BY <1>0, <1>5, HoldAssumption
      DEF SaveReserved, Goto, Ref, StockPoints, CriticalPoints, NoTime
    <2>2. r \in Reservation
      BY <2>1, Zenon DEF Reservation, ReservationStates
    <2>3. SaveReservation(op[t].res, r)
      BY <1>5 DEF SaveReserved
    <2>4. /\ DOMAIN reservations' = DOMAIN reservations \cup {op[t].res}
          /\ DOMAIN reservations' \subseteq Nat
          /\ reservations' \in [DOMAIN reservations' -> Reservation]
      <3> HIDE DEF r
      <3> QED BY <1>0, <2>2, <2>3, SaveEffect DEF RepoTypeOK
    <2> QED BY <1>0, <1>5, <2>4 DEF SaveReserved, RepoTypeOK
  <1>6. CASE AppendEventStep(t)
    <2>1. op[t].product \in DOMAIN Stock
      BY <1>0, <1>6 DEF AppendEventStep, Goto, Ref, StockPoints, CriticalPoints
    <2>2. EventOf(t) \in InventoryEvent
      BY <1>0, <2>1, Zenon DEF EventOf, InventoryEvent, Op
    <2>3. events' \in Seq(InventoryEvent)
      BY <1>0, <1>6, <2>2 DEF AppendEventStep, AppendEvent, RepoTypeOK
    <2> QED BY <1>0, <1>6, <2>3 DEF AppendEventStep, RepoTypeOK
  <1>7. ASSUME \/ NextEventID(t) \/ RecordShadow(t) \/ LazyExpiryDone(t) \/ RejectUnknownProduct(t)
               \/ RejectOutOfStock(t) \/ NextReservationID(t) \/ ConfirmExpiryDone(t)
               \/ SweepExpiryDone(t) \/ EnterStep(t) \/ LeaveStep(t) \/ OutsideStep(t)
        PROVE  UNCHANGED repoVars
    BY <1>7 DEF NextEventID, RecordShadow, LazyExpiryDone, RejectUnknownProduct,
         RejectOutOfStock, NextReservationID, ConfirmExpiryDone, SweepExpiryDone,
         EnterStep, LockReserve, LockConfirm, LockConfirmLapsed, LockCancel, RejectFinalized,
         LockSweep, LeaveStep, Return, UnlockSweep, OutsideStep, BeginReserve, BeginFinalize,
         NextProduct, EndSweep, ReceiveTick, Snapshot
  <1> QED BY <1>1, <1>2, <1>3, <1>4, <1>5, <1>6, <1>7 DEF LocalStep, InsideStep, SharedStep

(* A local step keeps the type invariant.                                  *)
LEMMA TypeStep ==
  ASSUME IInv, NEW t \in Threads, LocalStep(t)
  PROVE  TypeOK'
  <1>0. /\ clock \in Nat /\ idCounter \in Nat /\ requests \in Nat /\ tick \in [Sweepers -> Int]
        /\ shadow \in Seq(ShadowRecord) /\ expiredTotal \in Nat /\ op[t] \in Op
        /\ products \in [DOMAIN Stock -> ProductInventory] /\ TypeOK /\ Ref(t)
    BY DEF IInv, TypeOK, RepoTypeOK, RefInv
  <1>1. RepoTypeOK'
    BY RepoStep
  <1>2. pc' \in [Threads -> ControlPoints] /\ lock' \in [ProductIDs -> Threads \cup {NoThread}]
    BY LockInvStep
  <1>3. op' \in [Threads -> Op]
    BY OpTypeStep DEF OpFrame
  <1>4. clock' \in Nat /\ requests' \in Nat /\ tick' \in [Sweepers -> Int]
    <2>1. BeginReserve(t) \/ BeginFinalize(t) => UNCHANGED <<clock, tick>> /\ requests' = requests + 1
      BY DEF BeginReserve, BeginFinalize
    <2>2. ReceiveTick(t) => UNCHANGED <<clock, requests>> /\ tick' = [tick EXCEPT ![t] = NoTime]
      BY DEF ReceiveTick
    <2>3. ASSUME ~ BeginReserve(t), ~ BeginFinalize(t), ~ ReceiveTick(t)
          PROVE  UNCHANGED <<clock, requests, tick>>
      BY <2>3 DEF envVars, LocalStep, InsideStep, SharedStep, ExpireReservation, ReleaseHold,
         NextEventID, AppendEventStep, RecordShadow, LazyExpiryDone, RejectUnknownProduct,
         RejectOutOfStock, NextReservationID, SaveReserved, HoldUnit, ConfirmExpiryDone,
         Confirm, Sell, Cancel, SweepExpiryDone, EnterStep, LockReserve, LockConfirm,
         LockConfirmLapsed, LockCancel, RejectFinalized, LockSweep, LeaveStep, Return,
         UnlockSweep, OutsideStep, NextProduct, EndSweep, Snapshot
    <2> QED BY <1>0, <2>1, <2>2, <2>3 DEF NoTime
  <1>5. idCounter' \in Nat
    <2>1. NextEventID(t) \/ NextReservationID(t) => idCounter' = idCounter + 1
      BY DEF NextEventID, NextReservationID
    <2>2. ASSUME ~ NextEventID(t), ~ NextReservationID(t) PROVE UNCHANGED idCounter
      BY <2>2 DEF LocalStep, InsideStep, SharedStep, ExpireReservation, ReleaseHold,
         AppendEventStep, RecordShadow, LazyExpiryDone, RejectUnknownProduct,
         RejectOutOfStock, SaveReserved, HoldUnit, ConfirmExpiryDone,
         Confirm, Sell, Cancel, SweepExpiryDone, EnterStep, LockReserve, LockConfirm,
         LockConfirmLapsed, LockCancel, RejectFinalized, LockSweep, LeaveStep, Return,
         UnlockSweep, OutsideStep, BeginReserve, BeginFinalize, NextProduct, EndSweep,
         ReceiveTick, Snapshot
    <2> QED BY <1>0, <2>1, <2>2
  <1>6. shadow' \in Seq(ShadowRecord)
    <2>1. ASSUME RecordShadow(t) PROVE shadow' \in Seq(ShadowRecord)
      <3> DEFINE p == reservations[op[t].res].product
      <3>1. p \in DOMAIN Stock
        BY <1>0, <2>1, StoredType DEF RecordShadow, Goto, Ref
      <3>2. products[p] \in ProductInventory /\ op[t].eventID \in Nat
        BY <1>0, <3>1 DEF Op
      <3>3. [event |-> op[t].eventID, product |-> products[p]] \in ShadowRecord
        BY <3>2, Zenon DEF ShadowRecord
      <3> QED BY <1>0, <2>1, <3>3 DEF RecordShadow
    <2>2. ASSUME ~ RecordShadow(t) PROVE UNCHANGED shadow
      BY <2>2 DEF LocalStep, InsideStep, SharedStep, ExpireReservation, ReleaseHold, NextEventID,
         AppendEventStep, LazyExpiryDone, RejectUnknownProduct, RejectOutOfStock,
         NextReservationID, SaveReserved, HoldUnit, ConfirmExpiryDone,
         Confirm, Sell, Cancel, SweepExpiryDone, EnterStep, LockReserve, LockConfirm,
         LockConfirmLapsed, LockCancel, RejectFinalized, LockSweep, LeaveStep, Return,
         UnlockSweep, OutsideStep, BeginReserve, BeginFinalize, NextProduct, EndSweep,
         ReceiveTick, Snapshot
    <2> QED BY <1>0, <2>1, <2>2
  <1>7. expiredTotal' \in Nat
    <2>1. EndSweep(t) => expiredTotal' = expiredTotal + op[t].total
      BY DEF EndSweep
    <2>2. ASSUME ~ EndSweep(t) PROVE UNCHANGED expiredTotal
      BY <2>2 DEF envVars, LocalStep, InsideStep, SharedStep, ExpireReservation, ReleaseHold,
         NextEventID, AppendEventStep, RecordShadow, LazyExpiryDone, RejectUnknownProduct,
         RejectOutOfStock, NextReservationID, SaveReserved, HoldUnit, ConfirmExpiryDone,
         Confirm, Sell, Cancel, SweepExpiryDone, EnterStep, LockReserve, LockConfirm,
         LockConfirmLapsed, LockCancel, RejectFinalized, LockSweep, LeaveStep, Return,
         UnlockSweep, OutsideStep, BeginReserve, BeginFinalize, NextProduct, ReceiveTick, Snapshot
    <2>3. op[t].total \in Nat
      BY <1>0 DEF Op
    <2> QED BY <1>0, <2>1, <2>2, <2>3
  <1> QED BY <1>1, <1>2, <1>3, <1>4, <1>5, <1>6, <1>7 DEF TypeOK

(* A local step keeps RefInv.                                              *)
LEMMA RefStep ==
  ASSUME IInv, NEW t \in Threads, LocalStep(t)
  PROVE  RefInv'
  <1>0. /\ TypeOK /\ Ref(t) /\ RefInv /\ pc \in [Threads -> ControlPoints]
        /\ DOMAIN reservations \subseteq DOMAIN reservations'
    BY RepoStep DEF IInv, RefInv, TypeOK
  <1>1. ASSUME NEW u \in Threads, u # t PROVE Ref(u)'
    <2>1. op'[u] = op[u] /\ pc'[u] = pc[u]
      <3>1. op'[u] = op[u]
        BY <1>1, OpTypeStep DEF OpFrame
      <3>2. Inside(t) \/ Enter(t) \/ Leave(t) \/ Outside(t)
        BY ControlEffect DEF LocalStep
      <3> QED BY <1>0, <1>1, <3>1, <3>2 DEF Inside, Enter, Leave, Outside, Acquire, Release, Goto
    <2>2. Ref(u)
      BY <1>0 DEF RefInv
    <2> QED BY <1>0, <2>1, <2>2 DEF Ref
  <1>2. Ref(t)'
    <2> USE DEF Ref, Goto, StockPoints, CriticalPoints, ControlPoints
    <2>1. CASE ExpireReservation(t)
      <3>1. /\ SameCall(t) /\ op'[t].todo \subseteq op[t].todo
            /\ op'[t].res \in Remaining(t) /\ op'[t].event = "Expired"
        BY <1>0, <2>1, CallEffect
      <3>2. op'[t].res \in DOMAIN reservations /\ op'[t].product \in DOMAIN Stock
        BY <1>0, <3>1, StoredType DEF Remaining, SameCall
      <3> QED BY <1>0, <2>1, <3>1, <3>2 DEF ExpireReservation, SameCall
    <2>2. CASE ReleaseHold(t) \/ Sell(t)
      BY <1>0, <2>2 DEF ReleaseHold, Sell
    <2>3. CASE NextEventID(t)
      BY <1>0, <2>3, CallEffect DEF NextEventID, SameCall
    <2>4. CASE AppendEventStep(t) \/ RecordShadow(t)
      BY <1>0, <2>4 DEF AppendEventStep, RecordShadow
    <2>5. CASE LazyExpiryDone(t) \/ RejectUnknownProduct(t)
      BY <1>0, <2>5, CallEffect DEF LazyExpiryDone, RejectUnknownProduct, SameCall
    <2>6. CASE RejectOutOfStock(t) \/ NextReservationID(t)
      <3>1. SameCall(t) /\ op'[t].todo = op[t].todo
        BY <1>0, <2>6, CallEffect
      <3>2. RejectOutOfStock(t) => op'[t].event = "ReserveRejected"
        BY <1>0, CallEffect
      <3>3. op[t].product \in DOMAIN Stock
        BY <1>0, <2>6 DEF RejectOutOfStock, NextReservationID, TypeOK, RepoTypeOK
      <3> QED BY <1>0, <2>6, <3>1, <3>2, <3>3 DEF RejectOutOfStock, NextReservationID, SameCall
    <2>7. CASE SaveReserved(t)
      <3>1. op[t].res \in DOMAIN reservations'
        BY <2>7 DEF SaveReserved, SaveReservation
      <3> QED BY <1>0, <2>7, <3>1 DEF SaveReserved
    <2>8. CASE HoldUnit(t)
      BY <1>0, <2>8 DEF HoldUnit
    <2>9. CASE LockReserve(t)
      BY <1>0, <2>9, CallEffect DEF LockReserve, Acquire, SameCall
    <2>10. CASE LockConfirm(t) \/ LockCancel(t) \/ RejectFinalized(t)
      BY <1>0, <2>10, CallEffect DEF LockConfirm, LockCancel, RejectFinalized, Acquire, SameCall
    <2>11. CASE LockConfirmLapsed(t)
      <3>1. SameCall(t) /\ op'[t].todo = {op[t].res} /\ op'[t].res = op[t].res
        BY <1>0, <2>11, CallEffect
      <3>2. pc[t] = "lock" /\ pc'[t] = "expire"
        BY <1>0, <2>11 DEF LockConfirmLapsed, Acquire
      <3>3. op[t].res \in DOMAIN reservations
        BY <1>0, <2>11, <3>2 DEF LockConfirmLapsed
      <3> QED BY <1>0, <3>1, <3>2, <3>3 DEF SameCall
    <2>12. CASE Confirm(t) \/ Cancel(t)
      BY <1>0, <2>12, CallEffect DEF Confirm, Cancel, SameCall
    <2>13. CASE ConfirmExpiryDone(t) \/ SweepExpiryDone(t) \/ LockSweep(t) \/ UnlockSweep(t)
      BY <1>0, <2>13 DEF ConfirmExpiryDone, SweepExpiryDone, LockSweep, UnlockSweep, Acquire, Release
    <2>14. CASE BeginReserve(t)
      BY <1>0, <2>14, BoundaryEffect DEF BeginReserve
    <2>15. CASE BeginFinalize(t)
      BY <1>0, <2>15, BoundaryEffect DEF BeginFinalize
    <2>16. CASE t \in Sweepers /\ ReceiveTick(t)
      BY <1>0, <2>16, BoundaryEffect DEF ReceiveTick
    <2>17. CASE Snapshot(t)
      BY <1>0, <2>17, CallEffect DEF Snapshot, SameCall
    <2>18. CASE NextProduct(t)
      BY <1>0, <2>18, BoundaryEffect DEF NextProduct
    <2>19. CASE Return(t) \/ EndSweep(t)
      <3>1. op'[t].todo = {} /\ pc'[t] = "idle"
        BY <1>0, <2>19, BoundaryEffect DEF NoOp, Return, EndSweep, Release
      <3> QED BY <1>0, <3>1
    <2> QED BY <2>1, <2>2, <2>3, <2>4, <2>5, <2>6, <2>7, <2>8, <2>9, <2>10, <2>11, <2>12,
               <2>13, <2>14, <2>15, <2>16, <2>17, <2>18, <2>19
        DEF LocalStep, InsideStep, SharedStep, EnterStep, LeaveStep, OutsideStep
  <1> QED BY <1>1, <1>2 DEF RefInv

(* The available stock of a product changes only at two places: a hold     *)
(* released adds a unit, HoldUnit of the product takes one, and a sale     *)
(* leaves it as it is.                                                     *)
LEMMA StockStep ==
  ASSUME IInv, NEW t \in Threads, LocalStep(t), NEW p \in DOMAIN Stock
  PROVE  /\ AvailableStock(products[p]) \in Int
         /\ \/ AvailableStock(products'[p]) = AvailableStock(products[p])
            \/ /\ pc[t] = "release"
               /\ AvailableStock(products'[p]) = AvailableStock(products[p]) + 1
            \/ /\ pc[t] = "hold" /\ op[t].product = p
               /\ AvailableStock(products'[p]) = AvailableStock(products[p]) - 1
  <1>0. /\ products \in [DOMAIN Stock -> ProductInventory] /\ TypeOK /\ Ref(t)
    BY DEF IInv, TypeOK, RepoTypeOK, RefInv
  <1>1. \A q \in DOMAIN Stock : AvailableStock(products[q]) \in Int
    <2>1. ASSUME NEW q \in DOMAIN Stock PROVE AvailableStock(products[q]) \in Int
      <3>1. products[q] \in ProductInventory
        BY <1>0
      <3>2. /\ products[q].totalStock \in Int /\ products[q].confirmedCount \in Int
            /\ products[q].activeReservationCount \in Int
        BY <3>1 DEF ProductInventory
      <3> QED BY <3>2 DEF AvailableStock
    <2> QED BY <2>1
  <1>2. CASE UNCHANGED products
    BY <1>1, <1>2
  <1>3. CASE ReleaseHold(t) \/ Sell(t)
    <2> DEFINE q == reservations[op[t].res].product
    <2>1. q \in DOMAIN Stock
      BY <1>0, <1>3, StoredType DEF ReleaseHold, Sell, Goto, Ref
    <2>2. /\ \A r \in DOMAIN Stock \ {q} : products'[r] = products[r]
          /\ \/ pc[t] = "release" /\ AvailableStock(products'[q]) = AvailableStock(products[q]) - (-1) - 0
             \/ AvailableStock(products'[q]) = AvailableStock(products[q]) - (-1) - 1
      BY <1>0, <1>3, <2>1, -1 \in Int, 0 \in Int, 1 \in Int, UpdateProductEffect
      DEF ReleaseHold, Sell, Goto
    <2> HIDE DEF q
    <2> QED BY <1>1, <2>1, <2>2
  <1>4. CASE HoldUnit(t)
    <2> DEFINE q == op[t].product
    <2>1. q \in DOMAIN Stock
      BY <1>0, <1>4 DEF HoldUnit, Goto, Ref, StockPoints, CriticalPoints
    <2>2. /\ \A r \in DOMAIN Stock \ {q} : products'[r] = products[r]
          /\ pc[t] = "hold" /\ AvailableStock(products'[q]) = AvailableStock(products[q]) - 1 - 0
      BY <1>0, <1>4, <2>1, 0 \in Int, 1 \in Int, UpdateProductEffect DEF HoldUnit, Goto
    <2> QED BY <1>1, <2>1, <2>2
  <1>5. ASSUME ~ ReleaseHold(t), ~ Sell(t), ~ HoldUnit(t) PROVE UNCHANGED products
    BY <1>5 DEF repoVars, LocalStep, InsideStep, SharedStep, ExpireReservation, NextEventID,
         AppendEventStep, RecordShadow, LazyExpiryDone, RejectUnknownProduct, RejectOutOfStock,
         NextReservationID, SaveReserved, ConfirmExpiryDone, Confirm, Cancel, SweepExpiryDone,
         EnterStep, LockReserve, LockConfirm, LockConfirmLapsed, LockCancel, RejectFinalized,
         LockSweep, LeaveStep, Return, UnlockSweep, OutsideStep, BeginReserve, BeginFinalize,
         NextProduct, EndSweep, ReceiveTick, Snapshot
  <1> QED BY <1>2, <1>3, <1>4, <1>5

(* A local step keeps the stock above zero wherever a unit is about to be  *)
(* taken, because no other thread can take one of the same product, and so *)
(* never makes it negative.                                                *)
LEMMA DecisionStep ==
  ASSUME IInv, NEW t \in Threads, LocalStep(t)
  PROVE  DecisionInv' /\ StockNeverNegative'
  <1>0. /\ LockInv /\ RefInv /\ DecisionInv /\ StockNeverNegative /\ TypeOK
        /\ pc \in [Threads -> ControlPoints] /\ DOMAIN products = DOMAIN Stock
        /\ LockInv' /\ RefInv' /\ DOMAIN products' = DOMAIN Stock /\ OpFrame(t)
    <2>1. RepoTypeOK' /\ LockInv' /\ RefInv' /\ OpFrame(t)
      BY RepoStep, LockInvStep, RefStep, OpTypeStep
    <2> QED BY <2>1 DEF IInv, TypeOK, RepoTypeOK
  <1>1. StockNeverNegative'
    <2>1. ASSUME NEW p \in DOMAIN Stock PROVE AvailableStock(products'[p]) >= 0
      <3>1. AvailableStock(products[p]) >= 0
        BY <1>0 DEF StockNeverNegative
      <3>2. pc[t] = "hold" /\ op[t].product = p => AvailableStock(products[p]) > 0
        BY <1>0 DEF DecisionInv
      <3> QED BY <3>1, <3>2, StockStep
    <2> QED BY <1>0, <2>1 DEF StockNeverNegative
  <1>2. ASSUME NEW u \in Threads, pc'[u] \in {"save", "hold"}
        PROVE  AvailableStock(products'[op'[u].product]) > 0
    <2>1. op'[u].product \in DOMAIN Stock
      BY <1>0, <1>2 DEF RefInv, Ref, StockPoints, CriticalPoints
    <2>2. CASE u # t
      <3>1. op'[u] = op[u]
        BY <1>0, <2>2 DEF OpFrame
      <3>2. pc'[u] = pc[u]
        <4>1. Inside(t) \/ Enter(t) \/ Leave(t) \/ Outside(t)
          BY ControlEffect DEF LocalStep
        <4> QED BY <1>0, <2>2, <4>1 DEF Inside, Enter, Leave, Outside, Acquire, Release, Goto
      <3>3. AvailableStock(products[op[u].product]) > 0
        BY <1>0, <1>2, <3>2 DEF DecisionInv
      <3>4. ~ (pc[t] = "hold" /\ op[t].product = op[u].product)
        BY <1>0, <1>2, <2>2, <3>2 DEF LockInv, CriticalPoints
      <3> QED BY <2>1, <3>1, <3>3, <3>4, StockStep
    <2>3. CASE u = t
      <3>1. NextReservationID(t) \/ SaveReserved(t)
        <4>1. CASE InsideStep(t)
          BY <1>0, <1>2, <2>3, <4>1 DEF InsideStep, SharedStep, Goto, ExpireReservation, ReleaseHold,
             NextEventID, AppendEventStep, RecordShadow, LazyExpiryDone, RejectUnknownProduct,
             RejectOutOfStock, HoldUnit, ConfirmExpiryDone, Confirm, Sell, Cancel, SweepExpiryDone
        <4>2. CASE EnterStep(t) \/ LeaveStep(t) \/ OutsideStep(t)
          BY <1>0, <1>2, <2>3, <4>2 DEF EnterStep, LeaveStep, OutsideStep, Goto, Acquire, Release,
             LockReserve, LockConfirm, LockConfirmLapsed, LockCancel, RejectFinalized, LockSweep,
             Return, UnlockSweep, BeginReserve, BeginFinalize, NextProduct, EndSweep, ReceiveTick,
             Snapshot
        <4> QED BY <4>1, <4>2 DEF LocalStep
      <3>2. op'[t].product = op[t].product /\ UNCHANGED products
        <4>1. SameCall(t)
          BY <1>0, <3>1, SameCallEffect DEF InsideStep
        <4> QED BY <3>1, <4>1 DEF SameCall, NextReservationID, SaveReserved, repoVars
      <3>3. AvailableStock(products[op[t].product]) > 0
        BY <1>0, <3>1 DEF NextReservationID, SaveReserved, Goto, DecisionInv
      <3> QED BY <2>3, <3>2, <3>3
    <2> QED BY <2>2, <2>3
  <1> QED BY <1>1, <1>2 DEF DecisionInv

(* IInv is inductive.                                                      *)
LEMMA InductiveStep == IInv /\ [Next]_vars => IInv'
  <1> SUFFICES ASSUME IInv, [Next]_vars PROVE IInv'
    OBVIOUS
  <1>1. ASSUME NEW t \in Threads, LocalStep(t) PROVE IInv'
    BY <1>1, TypeStep, LockInvStep, RefStep, DecisionStep DEF IInv
  <1>2. CASE EnvStep
    <2>1. /\ RepoTypeOK' /\ UNCHANGED <<products, reservations, lock, pc, op, shadow, idCounter>>
      BY <1>2 DEF EnvStep, IInv, TypeOK, RepoTypeOK, repoVars
    <2>2. clock' \in Nat /\ requests' \in Nat /\ tick' \in [Sweepers -> Int] /\ expiredTotal' \in Nat
      BY <1>2 DEF EnvStep, IInv, TypeOK, vars, AdvanceClock, RejectUnknownReservation, Tick
    <2>3. TypeOK'
      BY <2>1, <2>2 DEF IInv, TypeOK
    <2> QED BY <2>1, <2>3 DEF IInv, LockInv, RefInv, Ref, DecisionInv, StockNeverNegative
  <1> QED BY <1>1, <1>2, StepCases

(* IInv holds when the server starts.                                      *)
LEMMA InitialStep == Init => IInv
  <1> SUFFICES ASSUME Init PROVE IInv
    OBVIOUS
  <1>1. RepoTypeOK
    BY StockAssumption DEF Init, RepoInit, RepoTypeOK, ProductInventory
  <1>2. op \in [Threads -> Op] /\ \A t \in Threads : op[t] = NoOp
    BY NoOpType DEF Init
  <1>3. TypeOK
    BY <1>1, <1>2 DEF Init, TypeOK, ControlPoints, NoTime
  <1>4. \A t \in Threads : pc[t] = "idle" /\ op[t].todo = {}
    BY <1>2 DEF Init, NoOp
  <1>5. LockInv /\ RefInv /\ DecisionInv
    BY <1>4 DEF LockInv, RefInv, Ref, DecisionInv, CriticalPoints, StockPoints
  <1>6. StockNeverNegative
    BY StockAssumption DEF Init, RepoInit, StockNeverNegative, AvailableStock
  <1> QED BY <1>3, <1>5, <1>6 DEF IInv

(* The type invariant of the service. Beside the types it says that no     *)
(* call ever reads a reservation or a product that is not stored, the      *)
(* "unreachable" case of the comments in ConfirmReservation and            *)
(* CancelReservation.                                                      *)
THEOREM TypeCorrect == Spec => []TypeOK
  <1>1. IInv => TypeOK
    BY DEF IInv
  <1> QED BY <1>1, InitialStep, InductiveStep, PTL DEF Spec

(* SF-R2: GetAvailableStock, which takes no lock, never answers a negative *)
(* number, for any number of clients, sweepers, products and units and at  *)
(* every point of every call, and although a sweep may corrupt the         *)
(* counters.                                                               *)
THEOREM NeverNegative == Spec => []StockNeverNegative
  <1>1. IInv => StockNeverNegative
    BY DEF IInv
  <1> QED BY <1>1, InitialStep, InductiveStep, PTL DEF Spec

(* A step into a closure takes the lock of the call's product, a step out  *)
(* of it gives the same lock back, and no other step touches a lock.       *)
LEMMA MutexStep == IInv /\ [Next]_vars => [Mutex!Next]_(Mutex!mutexVars)
  <1> DEFINE inside == [t \in Threads |-> IF pc[t] \in CriticalPoints THEN op[t].product ELSE NoProduct]
  <1> SUFFICES ASSUME IInv, [Next]_vars PROVE Mutex!Next \/ UNCHANGED <<lock, inside>>
    BY DEF Mutex!mutexVars
  <1>1. CASE EnvStep
    BY <1>1 DEF EnvStep
  <1>2. ASSUME NEW t \in Threads, LocalStep(t) PROVE Mutex!Next \/ UNCHANGED <<lock, inside>>
    <2>0. /\ TypeOK /\ LockInv /\ pc \in [Threads -> ControlPoints] /\ NoProduct \notin ProductIDs
          /\ lock \in [ProductIDs -> Threads \cup {NoThread}] /\ OpFrame(t)
      BY <1>2, OpTypeStep, ThreadAssumption DEF IInv, TypeOK
    <2>1. \A u \in Threads \ {t} : pc'[u] = pc[u] /\ op'[u].product = op[u].product
      <3>1. Inside(t) \/ Enter(t) \/ Leave(t) \/ Outside(t)
        BY <1>2, ControlEffect DEF LocalStep
      <3> QED BY <2>0, <3>1 DEF Inside, Enter, Leave, Outside, Acquire, Release, Goto, OpFrame
    <2>2. CASE InsideStep(t)
      <3>1. Inside(t) /\ op'[t].product = op[t].product
        BY <2>0, <2>2, ControlEffect, SameCallEffect DEF SameCall
      <3>2. pc[t] \in CriticalPoints /\ pc'[t] \in CriticalPoints /\ lock' = lock
        BY <2>0, <3>1 DEF Inside
      <3> QED BY <2>1, <3>1, <3>2
    <2>3. CASE OutsideStep(t)
      <3>1. pc[t] \notin CriticalPoints /\ pc'[t] \notin CriticalPoints /\ lock' = lock
        BY <2>0, <2>3, ControlEffect DEF Outside, CriticalPoints
      <3> QED BY <2>1, <3>1
    <2>4. CASE EnterStep(t)
      <3>1. Enter(t) /\ op'[t].product = op[t].product
        BY <2>0, <2>4, ControlEffect, SameCallEffect DEF SameCall
      <3>2. PICK p \in ProductIDs : p = op[t].product
        BY <2>0, <3>1 DEF Enter, Acquire, Goto, LockInv
      <3>3. /\ pc[t] = "lock" /\ pc'[t] \in CriticalPoints
            /\ lock[p] = NoThread /\ lock' = [lock EXCEPT ![p] = t]
        BY <2>0, <3>1, <3>2 DEF Enter, Acquire, Goto
      <3>4. inside[t] = NoProduct
        BY <3>3 DEF CriticalPoints
      <3>5. inside' = [inside EXCEPT ![t] = p]
        BY <2>1, <3>1, <3>3, <3>2
      <3>6. Mutex!Enter(t, p)
        BY <3>3, <3>4, <3>5 DEF Mutex!Enter
      <3> QED BY <3>6 DEF Mutex!Next
    <2>5. CASE LeaveStep(t)
      <3>1. Leave(t)
        BY <2>5, ControlEffect
      <3>2. /\ pc[t] \in CriticalPoints /\ pc'[t] \notin CriticalPoints
            /\ lock' = [lock EXCEPT ![op[t].product] = NoThread]
        BY <2>0, <3>1 DEF Leave, Release, Goto, CriticalPoints
      <3>3. PICK p \in ProductIDs : p = op[t].product /\ lock[p] = t
        BY <2>0, <3>2 DEF LockInv
      <3>4. inside[t] = p
        BY <3>2, <3>3
      <3>5. inside' = [inside EXCEPT ![t] = NoProduct]
        BY <2>1, <3>2
      <3>6. Mutex!Leave(t, p)
        BY <3>2, <3>3, <3>4, <3>5 DEF Mutex!Leave
      <3> QED BY <3>6 DEF Mutex!Next
    <2> QED BY <1>2, <2>2, <2>3, <2>4, <2>5 DEF LocalStep
  <1> QED BY <1>1, <1>2, StepCases

(* The service uses its product locks as KeyedMutex allows: a thread is    *)
(* inside at most one closure, takes its product's lock on the way in, and *)
(* on every path out gives back that lock and no other; a lock is neither  *)
(* kept nor freed by a thread that does not hold it.                       *)
THEOREM MutexRefined == Spec => UsesKeyedMutex
  <1>1. Init => Mutex!Init
    BY DEF Init, Mutex!Init, CriticalPoints
  <1> QED BY <1>1, InitialStep, InductiveStep, MutexStep, PTL DEF Spec, UsesKeyedMutex, Mutex!Spec

=============================================================================
