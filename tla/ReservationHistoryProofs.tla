----------------------- MODULE ReservationHistoryProofs -----------------------
(***************************************************************************)
(* What may happen to a stored reservation and to the log: writes under    *)
(* the lock, expiry windows, the one overwrite of a terminal state, the    *)
(* order of event ids, and that every answer is true, for any clients,     *)
(* sweepers, products and hold.                                            *)
(***************************************************************************)
EXTENDS ReservationServiceProofs

\* The points at which the reservation of the call is stored.
HasReservation(t) ==
  \/ pc[t] \in {"hold", "confirm", "sell", "cancel", "release", "shadow"}
  \/ pc[t] \in {"eventID", "append"} /\ op[t].event # "ReserveRejected"

(* What a thread knows of the reservations in its hands: the one of its    *)
(* call is of the product it has locked, the listed ones have lapsed by    *)
(* the reading of the clock they will be expired with, and outside a       *)
(* sweep what it is about to finish is Active.                             *)
Hands(t) ==
  /\ op[t].kind = "sweep" => t \in Sweepers
  /\ \A i \in op[t].todo : Lapsed(reservations[i], op[t].now)
  /\ pc[t] = "lock" /\ op[t].kind \in {"confirm", "cancel"} =>
       op[t].todo = {} /\ reservations[op[t].res].product = op[t].product
  /\ HasReservation(t) => reservations[op[t].res].product = op[t].product
  /\ pc[t] \in {"confirm", "cancel"} => IsActive(reservations[op[t].res]) /\ op[t].todo = {}
  /\ pc[t] = "confirm" => ~ Lapsed(reservations[op[t].res], op[t].now)
  /\ pc[t] \in CriticalPoints /\ op[t].kind # "sweep" =>
       \A i \in op[t].todo : IsActive(reservations[i]) /\ reservations[i].product = op[t].product

(* Numbers come from one counter, so an id that is about to be saved is    *)
(* new and no other thread has it.                                         *)
FreshIDs ==
  /\ \A i \in DOMAIN reservations : i <= idCounter
  /\ \A t \in Threads : pc[t] = "save" => op[t].res <= idCounter /\ op[t].res \notin DOMAIN reservations
  /\ \A t, u \in Threads : pc[t] = "save" /\ pc[u] = "save" /\ t # u => op[t].res # op[u].res

(* An event number is drawn under the product's lock, so it exceeds those  *)
(* in the product's log until the event is appended.                       *)
NumberOrdered(t) ==
  /\ op[t].eventID <= idCounter
  /\ \A k \in DOMAIN events :
       /\ events[k].id # op[t].eventID
       /\ events[k].product = op[t].product => events[k].id < op[t].eventID

FreshNumbers ==
  /\ \A k \in DOMAIN events : events[k].id <= idCounter
  /\ \A t \in Threads : pc[t] = "append" => NumberOrdered(t)
  /\ \A t, u \in Threads : pc[t] = "append" /\ pc[u] = "append" /\ t # u
                            => op[t].eventID # op[u].eventID

HistoryInv == IInv /\ (\A t \in Threads : Hands(t)) /\ FreshIDs /\ WindowRespected

-----------------------------------------------------------------------------
(* What the steps do to the time, the list and the ids of a call.          *)

\* Inside the critical section a call keeps its time, draws each number from
\* idCounter, and only shortens its list.
LEMMA InsideCall ==
  ASSUME TypeOK, NEW t \in Threads, InsideStep(t)
  PROVE  /\ SameCall(t) /\ op'[t].now = op[t].now /\ op'[t].todo \subseteq op[t].todo
         /\ ~ ExpireReservation(t) /\ ~ LazyExpiryDone(t) /\ ~ NextReservationID(t)
              => op'[t].res = op[t].res
         /\ NextReservationID(t) => op'[t].res = idCounter + 1
         /\ NextEventID(t) => op'[t].eventID = idCounter + 1
         /\ ~ NextEventID(t) => op'[t].eventID = op[t].eventID
  <1>1. SameCall(t) /\ op \in [Threads -> Op] /\ op[t] \in Op
    BY SameCallEffect DEF TypeOK
  <1>2. CASE \/ ReleaseHold(t) \/ AppendEventStep(t) \/ RecordShadow(t) \/ SaveReserved(t)
             \/ HoldUnit(t) \/ ConfirmExpiryDone(t) \/ Sell(t) \/ SweepExpiryDone(t)
    <2>1. op' = op /\ ~ NextReservationID(t) /\ ~ NextEventID(t)
      BY <1>2 DEF Goto, ReleaseHold, AppendEventStep, RecordShadow, SaveReserved, HoldUnit,
                  ConfirmExpiryDone, Sell, SweepExpiryDone, NextReservationID, NextEventID
    <2> QED BY <1>1, <2>1
  <1>3. CASE ExpireReservation(t)
    <2>1. PICK i \in Remaining(t) :
            op' = [op EXCEPT ![t].res = i, ![t].todo = @ \ {i}, ![t].event = "Expired",
                             ![t].total = @ + 1]
      BY <1>3 DEF ExpireReservation
    <2>2. op'[t].now = op[t].now /\ op'[t].todo \subseteq op[t].todo /\ op'[t].eventID = op[t].eventID
      BY <1>1, <2>1, Zenon DEF Op
    <2>3. ~ NextReservationID(t) /\ ~ NextEventID(t)
      BY <1>3 DEF ExpireReservation, NextReservationID, NextEventID, Goto
    <2> QED BY <1>1, <1>3, <2>2, <2>3
  <1>4. CASE LazyExpiryDone(t) \/ RejectUnknownProduct(t) \/ RejectOutOfStock(t) \/ Confirm(t) \/ Cancel(t)
    <2>1. /\ op'[t].now = op[t].now /\ op'[t].todo = op[t].todo /\ op'[t].eventID = op[t].eventID
          /\ ~ LazyExpiryDone(t) => op'[t].res = op[t].res
      <3>1. CASE LazyExpiryDone(t)
        BY <1>1, <3>1, Zenon DEF LazyExpiryDone, Op
      <3>2. CASE RejectUnknownProduct(t)
        BY <1>1, <3>2, Zenon DEF RejectUnknownProduct, Op
      <3>3. CASE RejectOutOfStock(t)
        BY <1>1, <3>3, Zenon DEF RejectOutOfStock, Op
      <3>4. CASE Confirm(t)
        BY <1>1, <3>4, Zenon DEF Confirm, Op
      <3>5. CASE Cancel(t)
        BY <1>1, <3>5, Zenon DEF Cancel, Op
      <3> QED BY <1>4, <3>1, <3>2, <3>3, <3>4, <3>5
    <2>2. ~ NextReservationID(t) /\ ~ NextEventID(t)
      <3>1. idCounter' = idCounter /\ idCounter + 1 # idCounter
        BY <1>4 DEF LazyExpiryDone, RejectUnknownProduct, RejectOutOfStock, Confirm, Cancel, TypeOK
      <3> QED BY <3>1 DEF NextReservationID, NextEventID
    <2> QED BY <1>1, <2>1, <2>2
  <1>5. CASE NextReservationID(t)
    <2>1. /\ op'[t].now = op[t].now /\ op'[t].todo = op[t].todo /\ op'[t].eventID = op[t].eventID
          /\ op'[t].res = idCounter + 1
      BY <1>1, <1>5, Zenon DEF NextReservationID, Op
    <2>2. ~ NextEventID(t)
      BY <1>5 DEF NextReservationID, NextEventID, Goto
    <2> QED BY <1>1, <1>5, <2>1, <2>2
  <1>6. CASE NextEventID(t)
    <2>1. /\ op'[t].now = op[t].now /\ op'[t].todo = op[t].todo /\ op'[t].res = op[t].res
          /\ op'[t].eventID = idCounter + 1
      BY <1>1, <1>6, Zenon DEF NextEventID, Op
    <2>2. ~ NextReservationID(t)
      BY <1>6 DEF NextReservationID, NextEventID, Goto
    <2> QED BY <1>1, <1>6, <2>1, <2>2
  <1> QED BY <1>2, <1>3, <1>4, <1>5, <1>6 DEF InsideStep, SharedStep

\* Taking the lock reads the clock and lists the lapsed holds of the product.
LEMMA EnterCall ==
  ASSUME TypeOK, NEW t \in Threads
  PROVE  /\ LockReserve(t) =>
              /\ op'[t].now = clock
              /\ op'[t].todo = LapsedOf(ActiveReservationsByProduct(op[t].product), clock)
         /\ LockConfirm(t) \/ LockCancel(t) =>
              op'[t].now = clock /\ op'[t].todo = op[t].todo /\ op'[t].res = op[t].res
         /\ LockConfirmLapsed(t) => op'[t].now = clock /\ op'[t].todo = {op[t].res}
         /\ RejectFinalized(t) => op'[t].now = op[t].now /\ op'[t].todo = op[t].todo
         /\ LockSweep(t) => op' = op
         /\ Snapshot(t) => op'[t].now = op[t].now
                           /\ op'[t].todo = LapsedOf(AllActiveReservations, op[t].now)
         /\ NextProduct(t) => op'[t].now = op[t].now /\ op'[t].todo = op[t].todo
  <1>1. op \in [Threads -> Op] /\ op[t] \in Op
    BY DEF TypeOK
  <1>2. LockReserve(t) =>
              /\ op'[t].now = clock
              /\ op'[t].todo = LapsedOf(ActiveReservationsByProduct(op[t].product), clock)
    BY <1>1, Zenon DEF LockReserve, Op
  <1>3. LockConfirm(t) \/ LockCancel(t) =>
              op'[t].now = clock /\ op'[t].todo = op[t].todo /\ op'[t].res = op[t].res
    BY <1>1, Zenon DEF LockConfirm, LockCancel, Op
  <1>4. LockConfirmLapsed(t) => op'[t].now = clock /\ op'[t].todo = {op[t].res}
    <2>1. LockConfirmLapsed(t) => op' = [op EXCEPT ![t].now = clock, ![t].todo = {op[t].res},
                                                   ![t].err = "ErrReservationExpired"]
      BY DEF LockConfirmLapsed
    <2> QED BY <1>1, <2>1 DEF Op
  <1>5. RejectFinalized(t) => op'[t].now = op[t].now /\ op'[t].todo = op[t].todo
    BY <1>1, Zenon DEF RejectFinalized, Op
  <1>6. LockSweep(t) => op' = op
    BY DEF LockSweep
  <1>7. Snapshot(t) => op'[t].now = op[t].now
                       /\ op'[t].todo = LapsedOf(AllActiveReservations, op[t].now)
    BY <1>1, Zenon DEF Snapshot, Op
  <1>8. NextProduct(t) => op'[t].now = op[t].now /\ op'[t].todo = op[t].todo
    BY <1>1, Zenon DEF NextProduct, Op
  <1> QED BY <1>2, <1>3, <1>4, <1>5, <1>6, <1>7, <1>8

-----------------------------------------------------------------------------
(* What a step does to the reservations.                                   *)

(* t gives reservation i one of the terminal states, and may do so.        *)
Finishes(t, i) ==
  /\ i \in DOMAIN reservations /\ reservations[i].product = op[t].product
  /\ pc[t] \in CriticalPoints /\ pc'[t] # pc[t]
  /\ \/ pc[t] = "expire" /\ i \in op[t].todo /\ MarkExpired(i, op[t].now)
     \/ pc[t] = "confirm" /\ i = op[t].res /\ MarkConfirmed(i, op[t].now)
     \/ pc[t] = "cancel" /\ i = op[t].res /\ MarkCancelled(i, op[t].now)

(* t saves a new reservation of its product.                               *)
Saves(t) ==
  /\ pc[t] = "save" /\ pc'[t] # pc[t]
  /\ SaveReservation(op[t].res,
       [product |-> op[t].product, state |-> "Active", expiresAt |-> op[t].now + Hold,
        confirmedAt |-> NoTime, cancelledAt |-> NoTime, expiredAt |-> NoTime])

\* A step stores one new reservation, finishes one the call knows, or writes none.
LEMMA ReservationCases ==
  ASSUME HistoryInv, NEW t \in Threads, LocalStep(t)
  PROVE  UNCHANGED reservations \/ Saves(t) \/ \E i \in op[t].todo \cup {op[t].res} : Finishes(t, i)
  <1>0. pc \in [Threads -> ControlPoints] /\ Ref(t) /\ Hands(t)
    BY DEF HistoryInv, IInv, TypeOK, RefInv
  <1>1. CASE ExpireReservation(t)
    BY <1>0, <1>1 DEF ExpireReservation, Goto, Remaining, Finishes, Ref, CriticalPoints
  <1>2. CASE Confirm(t) \/ Cancel(t)
    <2>1. /\ op[t].res \in DOMAIN reservations /\ reservations[op[t].res].product = op[t].product
          /\ pc[t] \in CriticalPoints /\ pc'[t] # pc[t]
      BY <1>0, <1>2 DEF Confirm, Cancel, Goto, Ref, Hands, HasReservation, CriticalPoints
    <2>2. Finishes(t, op[t].res)
      BY <1>2, <2>1 DEF Confirm, Cancel, Goto, Finishes
    <2> QED BY <2>2
  <1>3. CASE SaveReserved(t)
    BY <1>0, <1>3 DEF SaveReserved, Goto, Saves
  <1>4. ASSUME ~ ExpireReservation(t), ~ Confirm(t), ~ Cancel(t), ~ SaveReserved(t)
        PROVE  UNCHANGED reservations
    BY <1>4 DEF repoVars, LocalStep, InsideStep, SharedStep, ReleaseHold, NextEventID,
         AppendEventStep, RecordShadow, LazyExpiryDone, RejectUnknownProduct, RejectOutOfStock,
         NextReservationID, HoldUnit, ConfirmExpiryDone, Sell, SweepExpiryDone,
         EnterStep, LockReserve, LockConfirm, LockConfirmLapsed, LockCancel, RejectFinalized,
         LockSweep, LeaveStep, Return, UnlockSweep, OutsideStep, BeginReserve, BeginFinalize,
         NextProduct, EndSweep, ReceiveTick, Snapshot
  <1> QED BY <1>1, <1>2, <1>3, <1>4

(* What Mark* changes.                                                     *)
LEMMA FinishEffect ==
  ASSUME reservations \in [DOMAIN reservations -> Reservation],
         NEW t \in Threads, NEW i, Finishes(t, i)
  PROVE  /\ DOMAIN reservations' = DOMAIN reservations
         /\ \A j \in DOMAIN reservations \ {i} : reservations'[j] = reservations[j]
         /\ reservations'[i].product = reservations[i].product
         /\ reservations'[i].expiresAt = reservations[i].expiresAt
         /\ \/ /\ pc[t] = "expire" /\ reservations'[i].state = "Expired"
               /\ reservations'[i].expiredAt = op[t].now
               /\ reservations'[i].confirmedAt = reservations[i].confirmedAt
            \/ /\ pc[t] = "confirm" /\ reservations'[i].state = "Confirmed"
               /\ reservations'[i].confirmedAt = op[t].now
               /\ reservations'[i].expiredAt = reservations[i].expiredAt
            \/ /\ pc[t] = "cancel" /\ reservations'[i].state = "Cancelled"
               /\ reservations'[i].confirmedAt = reservations[i].confirmedAt
               /\ reservations'[i].expiredAt = reservations[i].expiredAt
  <1>1. reservations[i] \in Reservation /\ i \in DOMAIN reservations
    BY DEF Finishes
  <1>2. CASE pc[t] = "expire"
    <2>1. MarkExpired(i, op[t].now)
      BY <1>2 DEF Finishes
    <2> QED BY <1>1, <1>2, <2>1 DEF MarkExpired, Reservation
  <1>3. CASE pc[t] = "confirm"
    BY <1>1, <1>3 DEF Finishes, MarkConfirmed, Reservation
  <1>4. CASE pc[t] = "cancel"
    BY <1>1, <1>4 DEF Finishes, MarkCancelled, Reservation
  <1> QED BY <1>2, <1>3, <1>4 DEF Finishes

(* A stored reservation keeps its product and its expiry, changes only     *)
(* under its product's lock, and leaves a terminal state only by a sweep.  *)
Kept(t, i) ==
  /\ i \in DOMAIN reservations'
  /\ reservations'[i].product = reservations[i].product
  /\ reservations'[i].expiresAt = reservations[i].expiresAt
  /\ reservations'[i] # reservations[i] =>
       /\ pc[t] \in CriticalPoints /\ pc'[t] # pc[t] /\ reservations[i].product = op[t].product
       /\ \/ IsActive(reservations[i])
          \/ /\ t \in Sweepers /\ pc[t] = "expire" /\ i \in op[t].todo
             /\ reservations'[i].state = "Expired"

(* A stored reservation is left alone, finished once while Active by the   *)
(* holder of its lock, or overwritten by a sweep that listed it.           *)
LEMMA KeptStep ==
  ASSUME HistoryInv, NEW t \in Threads, LocalStep(t), NEW i \in DOMAIN reservations
  PROVE  Kept(t, i)
  <1>0. /\ reservations \in [DOMAIN reservations -> Reservation] /\ Hands(t) /\ FreshIDs
    BY DEF HistoryInv, IInv, TypeOK, RepoTypeOK
  <1>1. CASE UNCHANGED reservations
    BY <1>1 DEF Kept
  <1>2. CASE Saves(t)
    <2>1. i # op[t].res
      BY <1>0, <1>2 DEF Saves, FreshIDs
    <2> QED BY <1>2, <2>1 DEF Saves, SaveReservation, Kept
  <1>3. ASSUME NEW j, Finishes(t, j) PROVE Kept(t, i)
    <2>1. IsActive(reservations[j]) \/ (t \in Sweepers /\ pc[t] = "expire" /\ j \in op[t].todo)
      BY <1>0, <1>3 DEF Finishes, Hands
    <2> QED BY <1>0, <1>3, <2>1, FinishEffect DEF Kept, Finishes
  <1> QED BY <1>1, <1>2, <1>3, ReservationCases

(* A step of t disturbs no other thread's reservations.                    *)
LEMMA OtherHands ==
  ASSUME HistoryInv, NEW t \in Threads, LocalStep(t), NEW u \in Threads \ {t}
  PROVE  Hands(u)' /\ op'[u] = op[u] /\ pc'[u] = pc[u]
  <1>0. Hands(u) /\ Ref(u) /\ LockInv /\ pc \in [Threads -> ControlPoints]
    BY DEF HistoryInv, IInv, RefInv, TypeOK
  <1>1. op'[u] = op[u]
    BY OpTypeStep DEF OpFrame, HistoryInv
  <1>2. pc'[u] = pc[u]
    <2>1. Inside(t) \/ Enter(t) \/ Leave(t) \/ Outside(t)
      BY ControlEffect DEF LocalStep
    <2> QED BY <1>0, <2>1 DEF Inside, Enter, Leave, Outside, Acquire, Release, Goto
  <1>3. \A i \in DOMAIN reservations :
          /\ reservations'[i].product = reservations[i].product
          /\ reservations'[i].expiresAt = reservations[i].expiresAt
    BY KeptStep DEF Kept
  <1>4. pc[u] \in CriticalPoints =>
          \A i \in DOMAIN reservations :
            reservations[i].product = op[u].product => reservations'[i] = reservations[i]
    BY <1>0, KeptStep DEF Kept, LockInv
  <1>5. /\ op[u].todo \subseteq DOMAIN reservations
        /\ HasReservation(u) => op[u].res \in DOMAIN reservations
        /\ pc[u] = "lock" /\ op[u].kind \in {"confirm", "cancel"} => op[u].res \in DOMAIN reservations
    BY <1>0 DEF Ref, HasReservation
  <1>6. \A i \in op[u].todo : Lapsed(reservations'[i], op[u].now)
    BY <1>0, <1>3, <1>5 DEF Hands, Lapsed
  <1>7. pc[u] \in {"confirm", "cancel"} => reservations'[op[u].res] = reservations[op[u].res]
    <2> SUFFICES ASSUME pc[u] \in {"confirm", "cancel"}
                 PROVE  reservations'[op[u].res] = reservations[op[u].res]
      OBVIOUS
    <2>1. HasReservation(u) /\ pc[u] \in CriticalPoints
      BY DEF HasReservation, CriticalPoints
    <2>2. op[u].res \in DOMAIN reservations /\ reservations[op[u].res].product = op[u].product
      BY <1>0, <1>5, <2>1 DEF Hands
    <2> QED BY <1>4, <2>1, <2>2
  <1> QED BY <1>0, <1>1, <1>2, <1>3, <1>4, <1>5, <1>6, <1>7 DEF Hands, HasReservation

(* The writes that finish a reservation, in a thread's own hands.          *)
LEMMA FinishHands ==
  ASSUME HistoryInv, NEW t \in Threads, ExpireReservation(t) \/ Confirm(t) \/ Cancel(t)
  PROVE  Hands(t)'
  <1>0. /\ reservations \in [DOMAIN reservations -> Reservation] /\ Hands(t) /\ TypeOK
        /\ pc \in [Threads -> ControlPoints] /\ op \in [Threads -> Op] /\ op[t] \in Op
        /\ Ref(t)
    BY DEF HistoryInv, IInv, TypeOK, RepoTypeOK, RefInv
  <1>1. /\ SameCall(t) /\ op'[t].now = op[t].now
        /\ ~ ExpireReservation(t) => op'[t].res = op[t].res
    <2>1. InsideStep(t)
      BY DEF InsideStep, SharedStep
    <2>2. ~ ExpireReservation(t) => ~ LazyExpiryDone(t) /\ ~ NextReservationID(t)
      BY DEF Confirm, Cancel, LazyExpiryDone, NextReservationID, Goto
    <2> QED BY <1>0, <2>1, <2>2, InsideCall
  <1>2. CASE ExpireReservation(t)
    <2>1. PICK i \in Remaining(t) :
            /\ Goto(t, "expire", "release") /\ MarkExpired(i, op[t].now)
            /\ op' = [op EXCEPT ![t].res = i, ![t].todo = @ \ {i}, ![t].event = "Expired",
                                ![t].total = @ + 1]
      BY <1>2 DEF ExpireReservation
    <2>2. op'[t].res = i /\ op'[t].todo = op[t].todo \ {i}
      BY <1>0, <2>1, Zenon DEF Op
    <2>3. /\ i \in DOMAIN reservations /\ i \in op[t].todo /\ reservations[i].product = op[t].product
          /\ op[t].todo \subseteq DOMAIN reservations
      BY <1>0 DEF Remaining, Ref
    <2>4. Finishes(t, i)
      BY <1>0, <2>1, <2>3 DEF Finishes, Goto, CriticalPoints
    <2>5. /\ \A j \in op'[t].todo : reservations'[j] = reservations[j]
          /\ reservations'[i].product = reservations[i].product
      BY <1>0, <2>2, <2>3, <2>4, FinishEffect
    <2>6. pc'[t] = "release" /\ pc[t] = "expire"
      BY <1>0, <2>1 DEF Goto
    <2> QED BY <1>0, <1>1, <2>2, <2>3, <2>5, <2>6 DEF Hands, HasReservation, SameCall, Lapsed, CriticalPoints
  <1>3. CASE Confirm(t) \/ Cancel(t)
    <2>1. op'[t].todo = {}
      <3>1. op'[t].todo = op[t].todo
        BY <1>0, <1>3, CallEffect
      <3> QED BY <1>0, <1>3, <3>1 DEF Hands, Confirm, Cancel, Goto
    <2>2. /\ pc[t] \in {"confirm", "cancel"} /\ pc'[t] \in {"sell", "release"}
      BY <1>0, <1>3 DEF Confirm, Cancel, Goto
    <2>3. op[t].res \in DOMAIN reservations /\ reservations[op[t].res].product = op[t].product
      BY <1>0, <2>2 DEF Hands, HasReservation, Ref
    <2>4. Finishes(t, op[t].res)
      BY <1>0, <1>3, <2>2, <2>3 DEF Finishes, Confirm, Cancel, Goto, CriticalPoints
    <2>5. reservations'[op[t].res].product = reservations[op[t].res].product
      BY <1>0, <2>4, FinishEffect
    <2>6. op'[t].res = op[t].res
      <3>1. ~ ExpireReservation(t)
        BY <2>2 DEF ExpireReservation, Goto
      <3> QED BY <1>1, <3>1
    <2> QED BY <1>0, <1>1, <2>1, <2>2, <2>3, <2>5, <2>6 DEF Hands, HasReservation, SameCall
  <1> QED BY <1>2, <1>3

(* The steps under the lock that finish nothing.                           *)
LEMMA InsideHands ==
  ASSUME HistoryInv, NEW t \in Threads, InsideStep(t),
         ~ ExpireReservation(t), ~ Confirm(t), ~ Cancel(t)
  PROVE  Hands(t)'
  <1>0. /\ Hands(t) /\ TypeOK /\ pc \in [Threads -> ControlPoints] /\ Ref(t)
        /\ LocalStep(t)
    BY DEF HistoryInv, IInv, TypeOK, RefInv, LocalStep
  <1>1. /\ SameCall(t) /\ op'[t].now = op[t].now /\ op'[t].todo \subseteq op[t].todo
        /\ pc[t] \in CriticalPoints /\ pc'[t] \in CriticalPoints
    BY <1>0, InsideCall, ControlEffect DEF Inside
  <1>2. \A i \in DOMAIN reservations : reservations'[i] = reservations[i]
    <2>1. CASE SaveReserved(t)
      <3>1. op[t].res \notin DOMAIN reservations
        BY <2>1 DEF SaveReserved, Goto, HistoryInv, FreshIDs
      <3> QED BY <2>1, <3>1 DEF SaveReserved, SaveReservation
    <2>2. CASE ~ SaveReserved(t)
      BY <2>2 DEF InsideStep, SharedStep, ReleaseHold, NextEventID, AppendEventStep, RecordShadow,
                  LazyExpiryDone, RejectUnknownProduct, RejectOutOfStock, NextReservationID,
                  HoldUnit, ConfirmExpiryDone, Sell, SweepExpiryDone, repoVars
    <2> QED BY <2>1, <2>2
  <1>3. HasReservation(t)' =>
          op'[t].res \in DOMAIN reservations' /\ reservations'[op'[t].res].product = op'[t].product
    <2>1. CASE \/ ReleaseHold(t) \/ AppendEventStep(t) \/ RecordShadow(t) \/ HoldUnit(t)
               \/ ConfirmExpiryDone(t) \/ Sell(t) \/ SweepExpiryDone(t)
      <3>1. op' = op /\ reservations' = reservations
        BY <2>1 DEF ReleaseHold, AppendEventStep, RecordShadow, HoldUnit, ConfirmExpiryDone, Sell,
                    SweepExpiryDone, repoVars
      <3>2. HasReservation(t)' => HasReservation(t)
        BY <1>0, <2>1, <3>1
        DEF HasReservation, ReleaseHold, AppendEventStep, RecordShadow, HoldUnit, ConfirmExpiryDone,
            Sell, SweepExpiryDone, Goto
      <3> QED BY <1>0, <3>1, <3>2 DEF Hands, HasReservation, Ref
    <2>2. CASE SaveReserved(t)
      BY <2>2 DEF SaveReserved, SaveReservation
    <2>3. CASE NextEventID(t)
      <3>1. op'[t].res = op[t].res /\ op'[t].event = op[t].event
        BY <1>0, <2>3, CallEffect
      <3>2. HasReservation(t)' => HasReservation(t)
        BY <1>0, <2>3, <3>1 DEF HasReservation, NextEventID, Goto
      <3>3. reservations' = reservations
        BY <2>3 DEF NextEventID, repoVars
      <3> QED BY <1>0, <1>1, <3>1, <3>2, <3>3 DEF Hands, HasReservation, Ref, SameCall
    <2>4. CASE RejectOutOfStock(t)
      <3>1. op'[t].event = "ReserveRejected" /\ pc'[t] = "eventID"
        BY <1>0, <2>4, CallEffect DEF RejectOutOfStock, Goto
      <3> QED BY <3>1 DEF HasReservation
    <2>5. CASE LazyExpiryDone(t) \/ RejectUnknownProduct(t) \/ NextReservationID(t)
      <3>1. pc'[t] \in {"check", "unlock", "save"}
        BY <1>0, <2>5 DEF LazyExpiryDone, RejectUnknownProduct, NextReservationID, Goto
      <3> QED BY <3>1 DEF HasReservation
    <2> QED BY <2>1, <2>2, <2>3, <2>4, <2>5 DEF InsideStep, SharedStep
  <1>4. pc'[t] \notin {"confirm", "cancel", "lock"}
    BY <1>0 DEF InsideStep, SharedStep, Goto, ReleaseHold, NextEventID, AppendEventStep, RecordShadow,
           LazyExpiryDone, RejectUnknownProduct, RejectOutOfStock, NextReservationID, SaveReserved,
           HoldUnit, ConfirmExpiryDone, Sell, SweepExpiryDone
  <1>5. \A i \in op'[t].todo :
          /\ Lapsed(reservations'[i], op'[t].now)
          /\ op[t].kind # "sweep" => IsActive(reservations'[i]) /\ reservations'[i].product = op[t].product
    BY <1>0, <1>1, <1>2 DEF Hands, Ref, Lapsed
  <1>6. (op[t].kind = "sweep" => t \in Sweepers) /\ op'[t].kind = op[t].kind /\ op'[t].product = op[t].product
    BY <1>0, <1>1 DEF Hands, SameCall
  <1> QED BY <1>3, <1>4, <1>5, <1>6 DEF Hands

(* The reads under the lock: what is listed or decided on was tested at    *)
(* that moment.                                                            *)
LEMMA EnterHands ==
  ASSUME HistoryInv, NEW t \in Threads, EnterStep(t)
  PROVE  Hands(t)'
  <1>0. /\ Hands(t) /\ TypeOK /\ pc \in [Threads -> ControlPoints] /\ Ref(t) /\ SameCall(t)
    BY SameCallEffect DEF HistoryInv, IInv, TypeOK, RefInv
  <1>1. /\ reservations' = reservations /\ pc[t] = "lock"
        /\ (op[t].kind = "sweep" => t \in Sweepers) /\ op'[t].kind = op[t].kind
        /\ op'[t].product = op[t].product
    BY <1>0 DEF EnterStep, LockReserve, LockConfirm, LockConfirmLapsed, LockCancel, RejectFinalized,
                LockSweep, Acquire, Goto, repoVars, Hands, SameCall
  <1>2. CASE LockReserve(t)
    <2>1. pc'[t] = "expire"
      BY <1>0, <1>2 DEF LockReserve, Acquire, Goto
    <2>2. /\ op'[t].now = clock
          /\ op'[t].todo = LapsedOf(ActiveReservationsByProduct(op[t].product), clock)
      BY <1>0, <1>2, EnterCall
    <2>3. \A i \in op'[t].todo :
            /\ Lapsed(reservations[i], clock)
            /\ IsActive(reservations[i]) /\ reservations[i].product = op[t].product
      BY <2>2 DEF LapsedOf, ActiveReservationsByProduct, AllActiveReservations
    <2> QED BY <1>1, <2>1, <2>2, <2>3 DEF Hands, HasReservation
  <1>3. CASE LockConfirm(t) \/ LockCancel(t)
    <2>1. /\ (pc'[t] = "confirm" /\ LockConfirm(t)) \/ pc'[t] = "cancel"
          /\ op[t].kind \in {"confirm", "cancel"} /\ IsActive(reservations[op[t].res])
      BY <1>0, <1>3 DEF LockConfirm, LockCancel, Acquire, Goto
    <2>2. op'[t].now = clock /\ op'[t].todo = op[t].todo /\ op'[t].res = op[t].res
      BY <1>0, <1>3, EnterCall
    <2>3. op[t].todo = {} /\ reservations[op[t].res].product = op[t].product
      BY <1>0, <1>1, <2>1 DEF Hands
    <2>4. LockConfirm(t) => ~ Lapsed(reservations[op[t].res], clock)
      BY DEF LockConfirm
    <2> QED BY <1>1, <2>1, <2>2, <2>3, <2>4 DEF Hands, HasReservation
  <1>4. CASE LockConfirmLapsed(t)
    <2>1. /\ pc'[t] = "expire" /\ op[t].kind = "confirm"
          /\ IsActive(reservations[op[t].res]) /\ Lapsed(reservations[op[t].res], clock)
      BY <1>0, <1>4 DEF LockConfirmLapsed, Acquire, Goto
    <2>2. op'[t].now = clock /\ op'[t].todo = {op[t].res}
      BY <1>0, <1>4, EnterCall
    <2>3. reservations[op[t].res].product = op[t].product
      BY <1>0, <1>1, <2>1 DEF Hands
    <2> QED BY <1>1, <2>1, <2>2, <2>3 DEF Hands, HasReservation
  <1>5. CASE RejectFinalized(t)
    <2>1. pc'[t] = "unlock" /\ op[t].kind \in {"confirm", "cancel"}
      BY <1>0, <1>5 DEF RejectFinalized, Acquire, Goto
    <2>2. op'[t].now = op[t].now /\ op'[t].todo = op[t].todo
      BY <1>0, <1>5, EnterCall
    <2>3. op[t].todo = {}
      BY <1>0, <1>1, <2>1 DEF Hands
    <2> QED BY <1>1, <2>1, <2>2, <2>3 DEF Hands, HasReservation
  <1>6. CASE LockSweep(t)
    <2>1. pc'[t] = "expire" /\ op[t].kind = "sweep" /\ op' = op
      BY <1>0, <1>6 DEF LockSweep, Acquire, Goto
    <2> QED BY <1>0, <1>1, <2>1 DEF Hands, HasReservation
  <1> QED BY <1>2, <1>3, <1>4, <1>5, <1>6 DEF EnterStep

(* The steps outside the lock: a sweep lists what has lapsed by its tick.  *)
LEMMA OutsideHands ==
  ASSUME HistoryInv, NEW t \in Threads, LeaveStep(t) \/ OutsideStep(t)
  PROVE  Hands(t)'
  <1>0. /\ Hands(t) /\ TypeOK /\ pc \in [Threads -> ControlPoints] /\ Ref(t)
        /\ op[t].todo \subseteq DOMAIN reservations /\ op[t] \in Op /\ op \in [Threads -> Op]
    BY DEF HistoryInv, IInv, TypeOK, RefInv, Ref
  <1>1. reservations' = reservations
    BY DEF LeaveStep, Return, UnlockSweep, OutsideStep, BeginReserve, BeginFinalize, NextProduct,
           EndSweep, ReceiveTick, Snapshot, repoVars
  <1>2. pc'[t] \in {"idle", "lock", "snapshot", "next"}
    BY <1>0, ControlEffect DEF Leave, Outside, Release, Goto
  <1>3. CASE Return(t) \/ EndSweep(t)
    <2>1. op'[t] = NoOp
      BY <1>0, <1>3, BoundaryEffect
    <2>2. pc'[t] = "idle"
      BY <1>0, <1>3 DEF Return, EndSweep, Release, Goto
    <2> QED BY <2>1, <2>2 DEF NoOp, Hands, HasReservation, CriticalPoints
  <1>4. CASE UnlockSweep(t) \/ NextProduct(t) \/ Snapshot(t)
    <2>1. /\ pc'[t] \in {"next", "lock"} /\ op[t].kind = "sweep"
      BY <1>0, <1>4 DEF UnlockSweep, NextProduct, Snapshot, Release, Goto, Ref
    <2>2. op'[t].kind = op[t].kind
      BY <1>0, <1>4, BoundaryEffect, SameCallEffect DEF SameCall
    <2>3. op'[t].now = op[t].now /\ \A i \in op'[t].todo : Lapsed(reservations[i], op[t].now)
      BY <1>0, <1>4, EnterCall DEF LapsedOf, Hands, UnlockSweep
    <2> QED BY <1>0, <1>1, <2>1, <2>2, <2>3 DEF Hands, HasReservation, CriticalPoints
  <1>5. CASE BeginReserve(t)
    <2>1. op'[t].kind = "reserve" /\ op'[t].todo = {}
      BY <1>0, <1>5, BoundaryEffect
    <2> QED BY <1>2, <2>1 DEF Hands, HasReservation, CriticalPoints
  <1>6. CASE BeginFinalize(t)
    <2>1. PICK k \in {"confirm", "cancel"}, i \in DOMAIN reservations :
            op' = [op EXCEPT ![t] = [NoOp EXCEPT !.kind = k, !.res = i,
                                                 !.product = reservations[i].product]]
      BY <1>6 DEF BeginFinalize
    <2>2. /\ op'[t].kind = k /\ op'[t].res = i /\ op'[t].product = reservations[i].product
          /\ op'[t].todo = {}
      BY <1>0, <2>1, Zenon DEF NoOp
    <2> QED BY <1>1, <1>2, <2>2 DEF Hands, HasReservation, CriticalPoints
  <1>7. CASE t \in Sweepers /\ ReceiveTick(t)
    <2>1. op'[t].kind = "sweep" /\ op'[t].todo = {}
      BY <1>0, <1>7, BoundaryEffect
    <2> QED BY <1>2, <1>7, <2>1 DEF Hands, HasReservation, CriticalPoints
  <1> QED BY <1>3, <1>4, <1>5, <1>6, <1>7 DEF LeaveStep, OutsideStep

\* A step keeps what every thread knows of the reservations in its hands.
LEMMA HandsStep ==
  ASSUME HistoryInv, NEW t \in Threads, LocalStep(t)
  PROVE  \A u \in Threads : Hands(u)'
  <1>1. Hands(t)'
    BY FinishHands, InsideHands, EnterHands, OutsideHands DEF LocalStep
  <1> QED BY <1>1, OtherHands

-----------------------------------------------------------------------------
(* The counter of ids.                                                     *)

\* A number is drawn by two steps; a step moves no other thread.
LEMMA CounterStep ==
  ASSUME HistoryInv, NEW t \in Threads, LocalStep(t)
  PROVE  /\ idCounter \in Nat /\ idCounter' \in {idCounter, idCounter + 1}
         /\ pc'[t] = "save" => NextReservationID(t) /\ op'[t].res = idCounter + 1
         /\ pc'[t] = "append" =>
              NextEventID(t) /\ op'[t].eventID = idCounter + 1 /\ op'[t].product = op[t].product
         /\ NextReservationID(t) \/ NextEventID(t) =>
              idCounter' = idCounter + 1 /\ UNCHANGED <<reservations, events>>
  <1>0. TypeOK /\ idCounter \in Nat /\ pc \in [Threads -> ControlPoints]
    BY DEF HistoryInv, IInv, TypeOK
  <1>1. NextReservationID(t) \/ NextEventID(t) =>
          /\ idCounter' = idCounter + 1 /\ UNCHANGED <<reservations, events>>
          /\ InsideStep(t)
    BY DEF NextReservationID, NextEventID, repoVars, InsideStep, SharedStep
  <1>2. ~ NextReservationID(t) /\ ~ NextEventID(t) =>
          UNCHANGED idCounter /\ pc'[t] \notin {"save", "append"}
    BY <1>0 DEF LocalStep, InsideStep, SharedStep, Goto, ExpireReservation, ReleaseHold,
         AppendEventStep, RecordShadow, LazyExpiryDone, RejectUnknownProduct,
         RejectOutOfStock, SaveReserved, HoldUnit, ConfirmExpiryDone,
         Confirm, Sell, Cancel, SweepExpiryDone, EnterStep, LockReserve, LockConfirm,
         LockConfirmLapsed, LockCancel, RejectFinalized, LockSweep, LeaveStep, Return,
         UnlockSweep, OutsideStep, BeginReserve, BeginFinalize, NextProduct, EndSweep,
         ReceiveTick, Snapshot, Acquire, Release
  <1>3. /\ NextReservationID(t) => pc'[t] = "save" /\ op'[t].res = idCounter + 1
        /\ NextEventID(t) => /\ pc'[t] = "append" /\ op'[t].eventID = idCounter + 1
                             /\ op'[t].product = op[t].product
    BY <1>0, <1>1, InsideCall DEF NextReservationID, NextEventID, Goto, SameCall
  <1> QED BY <1>0, <1>1, <1>2, <1>3

\* A drawn reservation id stays new until it is saved: numbers only rise.
LEMMA FreshIDsStep ==
  ASSUME HistoryInv, NEW t \in Threads, LocalStep(t)
  PROVE  FreshIDs'
  <1>0. /\ FreshIDs /\ idCounter \in Nat /\ idCounter' \in {idCounter, idCounter + 1}
        /\ DOMAIN reservations \subseteq Nat
        /\ \A u \in Threads : op[u].res \in Nat
    <2>1. \A u \in Threads : op[u] \in Op
      BY DEF HistoryInv, IInv, TypeOK
    <2>2. \A u \in Threads : op[u].res \in Nat
      BY <2>1 DEF Op
    <2> QED BY <2>2, CounterStep DEF HistoryInv, IInv, TypeOK, RepoTypeOK
  <1>1. \/ DOMAIN reservations' = DOMAIN reservations
        \/ pc[t] = "save" /\ pc'[t] # "save" /\ DOMAIN reservations' = DOMAIN reservations \cup {op[t].res}
    <2>1. CASE Saves(t)
      BY <2>1 DEF Saves, SaveReservation
    <2>2. ASSUME NEW i, Finishes(t, i) PROVE DOMAIN reservations' = DOMAIN reservations
      BY <2>2, FinishEffect DEF HistoryInv, IInv, TypeOK, RepoTypeOK
    <2> QED BY <2>1, <2>2, ReservationCases
  <1>2. \A i \in DOMAIN reservations' : i <= idCounter'
    BY <1>0, <1>1 DEF FreshIDs
  <1>3. ASSUME NEW u \in Threads, pc'[u] = "save"
        PROVE  op'[u].res <= idCounter' /\ op'[u].res \notin DOMAIN reservations'
    <2>1. CASE u = t
      BY <1>0, <1>3, <2>1, CounterStep DEF FreshIDs
    <2>2. CASE u # t
      BY <1>0, <1>1, <1>3, <2>2, OtherHands DEF FreshIDs
    <2> QED BY <2>1, <2>2
  <1>4. ASSUME NEW u \in Threads, NEW v \in Threads, pc'[u] = "save", pc'[v] = "save", u # v
        PROVE  op'[u].res # op'[v].res
    <2>1. CASE u # t /\ v # t
      BY <1>0, <1>4, <2>1, OtherHands DEF FreshIDs
    <2>2. CASE u = t
      BY <1>0, <1>4, <2>2, OtherHands, CounterStep DEF FreshIDs
    <2>3. CASE v = t
      BY <1>0, <1>4, <2>3, OtherHands, CounterStep DEF FreshIDs
    <2> QED BY <2>1, <2>2, <2>3
  <1> QED BY <1>2, <1>3, <1>4 DEF FreshIDs

(* An event is appended with the number drawn for it, which no other       *)
(* event of the log has and which is the highest of its product.           *)
LEMMA FreshNumbersStep ==
  ASSUME HistoryInv, FreshNumbers, EventIDsOrdered, NEW t \in Threads, LocalStep(t)
  PROVE  FreshNumbers' /\ EventIDsOrdered'
  <1>0. /\ idCounter \in Nat /\ idCounter' \in {idCounter, idCounter + 1}
        /\ events \in Seq(InventoryEvent) /\ LockInv /\ pc \in [Threads -> ControlPoints]
        /\ \A k \in DOMAIN events : events[k].id \in Nat
        /\ \A u \in Threads : op[u].eventID \in Nat
    <2>1. (\A u \in Threads : op[u] \in Op) /\ events \in Seq(InventoryEvent)
      BY DEF HistoryInv, IInv, TypeOK, RepoTypeOK
    <2>2. \A k \in DOMAIN events : events[k] \in InventoryEvent
      BY <2>1
    <2>3. /\ \A k \in DOMAIN events : events[k].id \in Nat
          /\ \A u \in Threads : op[u].eventID \in Nat
      BY <2>1, <2>2 DEF InventoryEvent, Op
    <2> QED BY <2>1, <2>3, CounterStep DEF HistoryInv, IInv, TypeOK
  <1>1. CASE AppendEventStep(t)
    <2> DEFINE e == EventOf(t)
               n == Len(events) + 1
    <2>1. /\ e.id = op[t].eventID /\ e.product = op[t].product
          /\ events' = Append(events, e) /\ pc[t] = "append" /\ pc'[t] # "append"
          /\ idCounter' = idCounter /\ NumberOrdered(t) /\ op'[t] = op[t]
      BY <1>0, <1>1 DEF AppendEventStep, AppendEvent, EventOf, Goto, FreshNumbers
    <2> HIDE DEF e
    <2>2. /\ DOMAIN events' = DOMAIN events \cup {n} /\ DOMAIN events = 1 .. Len(events)
          /\ events'[n] = e /\ n \notin DOMAIN events
          /\ \A k \in DOMAIN events : events'[k] = events[k]
      BY <1>0, <2>1
    <2>3. EventIDsOrdered'
      <3> SUFFICES ASSUME NEW j \in DOMAIN events', NEW k \in DOMAIN events', j < k
                   PROVE  /\ events'[j].id # events'[k].id
                          /\ events'[j].product = events'[k].product => events'[j].id < events'[k].id
        BY DEF EventIDsOrdered
      <3>1. j \in DOMAIN events
        BY <1>0, <2>2
      <3>2. CASE k = n
        BY <2>1, <2>2, <3>1, <3>2 DEF NumberOrdered
      <3>3. CASE k \in DOMAIN events
        BY <2>2, <3>1, <3>3 DEF EventIDsOrdered
      <3> QED BY <2>2, <3>2, <3>3
    <2>4. \A k \in DOMAIN events' : events'[k].id <= idCounter'
      BY <2>1, <2>2 DEF FreshNumbers, NumberOrdered
    <2>5. ASSUME NEW u \in Threads, pc'[u] = "append" PROVE NumberOrdered(u)'
      <3>1. u # t /\ op'[u] = op[u] /\ pc[u] = "append"
        BY <2>1, <2>5, OtherHands
      <3>2. op[u].product # op[t].product
        BY <1>0, <2>1, <3>1 DEF LockInv, CriticalPoints
      <3>3. op[u].eventID # op[t].eventID /\ NumberOrdered(u)
        BY <2>1, <3>1 DEF FreshNumbers
      <3> QED BY <2>1, <2>2, <3>1, <3>2, <3>3 DEF NumberOrdered
    <2>6. ASSUME NEW u \in Threads, NEW v \in Threads, pc'[u] = "append", pc'[v] = "append", u # v
          PROVE  op'[u].eventID # op'[v].eventID
      BY <2>1, <2>6, OtherHands DEF FreshNumbers
    <2> QED BY <2>3, <2>4, <2>5, <2>6 DEF FreshNumbers
  <1>2. CASE ~ AppendEventStep(t)
    <2>1. events' = events
      BY <1>2 DEF LocalStep, InsideStep, SharedStep, ExpireReservation, ReleaseHold, NextEventID,
         RecordShadow, LazyExpiryDone, RejectUnknownProduct,
         RejectOutOfStock, NextReservationID, SaveReserved, HoldUnit, ConfirmExpiryDone,
         Confirm, Sell, Cancel, SweepExpiryDone, EnterStep, LockReserve, LockConfirm,
         LockConfirmLapsed, LockCancel, RejectFinalized, LockSweep, LeaveStep, Return,
         UnlockSweep, OutsideStep, BeginReserve, BeginFinalize, NextProduct, EndSweep,
         ReceiveTick, Snapshot, repoVars
    <2>2. EventIDsOrdered' /\ \A k \in DOMAIN events' : events'[k].id <= idCounter'
      BY <1>0, <2>1 DEF EventIDsOrdered, FreshNumbers
    <2>3. ASSUME NEW u \in Threads, pc'[u] = "append" PROVE NumberOrdered(u)'
      <3>1. CASE u = t
        <4>1. /\ op'[t].eventID = idCounter + 1 /\ idCounter' = idCounter + 1
          BY <2>3, <3>1, CounterStep
        <4> QED BY <1>0, <2>1, <3>1, <4>1 DEF NumberOrdered, FreshNumbers
      <3>2. CASE u # t
        BY <1>0, <2>1, <2>3, <3>2, OtherHands DEF NumberOrdered, FreshNumbers
      <3> QED BY <3>1, <3>2
    <2>4. ASSUME NEW u \in Threads, NEW v \in Threads, pc'[u] = "append", pc'[v] = "append", u # v
          PROVE  op'[u].eventID # op'[v].eventID
      <3>1. \A w \in Threads \ {t} : pc'[w] = "append" => op'[w].eventID <= idCounter /\ op'[w] = op[w]
                                                          /\ pc[w] = "append"
        BY OtherHands DEF FreshNumbers, NumberOrdered
      <3>2. pc'[t] = "append" => op'[t].eventID = idCounter + 1
        BY CounterStep
      <3> QED BY <1>0, <2>4, <3>1, <3>2 DEF FreshNumbers
    <2> QED BY <2>2, <2>3, <2>4 DEF FreshNumbers
  <1> QED BY <1>1, <1>2

(* Nothing is confirmed late or expired early by the reading of the clock  *)
(* the thread has in its hands.                                            *)
LEMMA WindowStep ==
  ASSUME HistoryInv, NEW t \in Threads, LocalStep(t)
  PROVE  WindowRespected'
  <1>0. /\ WindowRespected /\ Hands(t)
        /\ reservations \in [DOMAIN reservations -> Reservation]
    BY DEF HistoryInv, IInv, TypeOK, RepoTypeOK
  <1>1. CASE UNCHANGED reservations
    BY <1>0, <1>1 DEF WindowRespected
  <1>2. CASE Saves(t)
    BY <1>0, <1>2 DEF Saves, SaveReservation, WindowRespected
  <1>3. ASSUME NEW i, Finishes(t, i) PROVE WindowRespected'
    <2>1. /\ i \in DOMAIN reservations
          /\ pc[t] = "expire" => Lapsed(reservations[i], op[t].now)
          /\ pc[t] = "confirm" => ~ Lapsed(reservations[i], op[t].now)
      BY <1>0, <1>3 DEF Finishes, Hands
    <2>2. op[t].now \in Int /\ reservations[i].expiresAt \in Int
      <3>1. op[t] \in Op /\ reservations[i] \in Reservation
        BY <1>0, <2>1 DEF HistoryInv, IInv, TypeOK
      <3> QED BY <3>1 DEF Op, Reservation
    <2> QED BY <1>0, <1>3, <2>1, <2>2, FinishEffect DEF WindowRespected, Lapsed
  <1> QED BY <1>1, <1>2, <1>3, ReservationCases

(* Counters are written at the product of the call, under its lock.        *)
LEMMA ProductWrites ==
  ASSUME HistoryInv, NEW t \in Threads, LocalStep(t), NEW p \in DOMAIN Stock,
         products'[p] # products[p]
  PROVE  p = op[t].product /\ pc[t] \in CriticalPoints /\ pc'[t] # pc[t]
  <1>0. Hands(t) /\ pc \in [Threads -> ControlPoints] /\ products \in [DOMAIN Stock -> ProductInventory]
    BY DEF HistoryInv, IInv, TypeOK, RepoTypeOK
  <1>1. ReleaseHold(t) \/ Sell(t) \/ HoldUnit(t)
    BY DEF repoVars, LocalStep, InsideStep, SharedStep, ExpireReservation, NextEventID,
       AppendEventStep, RecordShadow, LazyExpiryDone, RejectUnknownProduct, RejectOutOfStock,
       NextReservationID, SaveReserved, ConfirmExpiryDone, Confirm, Cancel, SweepExpiryDone,
       EnterStep, LockReserve, LockConfirm, LockConfirmLapsed, LockCancel, RejectFinalized,
       LockSweep, LeaveStep, Return, UnlockSweep, OutsideStep, BeginReserve, BeginFinalize,
       NextProduct, EndSweep, ReceiveTick, Snapshot
  <1>2. pc[t] \in {"release", "sell", "hold"} /\ pc'[t] = "eventID"
    BY <1>0, <1>1 DEF ReleaseHold, Sell, HoldUnit, Goto
  <1>3. reservations[op[t].res].product = op[t].product
    BY <1>0, <1>2 DEF Hands, HasReservation
  <1>4. p = op[t].product
    <2>1. PICK a \in Int, c \in Int : UpdateProduct(op[t].product, a, c)
      BY <1>1, <1>3, -1 \in Int, 0 \in Int, 1 \in Int DEF ReleaseHold, Sell, HoldUnit
    <2> QED BY <1>0, <2>1 DEF UpdateProduct
  <1> QED BY <1>2, <1>4 DEF CriticalPoints

-----------------------------------------------------------------------------

RecordInv == HistoryInv /\ FreshNumbers /\ EventIDsOrdered

(* RecordInv is inductive.                                                 *)
LEMMA RecordStep == RecordInv /\ [Next]_vars => RecordInv'
  <1> SUFFICES ASSUME RecordInv, [Next]_vars PROVE RecordInv'
    OBVIOUS
  <1>1. IInv'
    BY InductiveStep DEF RecordInv, HistoryInv
  <1>2. ASSUME NEW t \in Threads, LocalStep(t) PROVE RecordInv'
    BY <1>1, <1>2, HandsStep, FreshIDsStep, FreshNumbersStep, WindowStep DEF RecordInv, HistoryInv
  <1>3. CASE EnvStep
    <2>1. UNCHANGED <<products, reservations, events, idCounter, pc, op>>
      BY <1>3 DEF EnvStep, repoVars
    <2>2. \A t \in Threads : Hands(t)'
      BY <2>1 DEF RecordInv, HistoryInv, Hands, HasReservation
    <2>3. FreshIDs' /\ WindowRespected' /\ FreshNumbers' /\ EventIDsOrdered'
      BY <2>1 DEF RecordInv, HistoryInv, FreshIDs, WindowRespected, FreshNumbers, NumberOrdered,
                  EventIDsOrdered
    <2> QED BY <1>1, <2>2, <2>3 DEF RecordInv, HistoryInv
  <1> QED BY <1>2, <1>3, StepCases

(* RecordInv holds when the server starts.                                 *)
LEMMA RecordInitially == Init => RecordInv
  <1> SUFFICES ASSUME Init PROVE RecordInv
    OBVIOUS
  <1>1. IInv
    BY InitialStep
  <1>2. \A t \in Threads : pc[t] = "idle" /\ op[t].todo = {} /\ op[t].kind = "none"
    BY DEF Init, NoOp
  <1>3. DOMAIN reservations = {} /\ events = << >>
    BY DEF Init, RepoInit
  <1>4. (\A t \in Threads : Hands(t)) /\ FreshIDs /\ WindowRespected
    BY <1>2, <1>3 DEF Hands, HasReservation, CriticalPoints, FreshIDs, WindowRespected
  <1>5. FreshNumbers /\ EventIDsOrdered
    BY <1>2, <1>3 DEF FreshNumbers, EventIDsOrdered
  <1> QED BY <1>1, <1>4, <1>5 DEF RecordInv, HistoryInv

(* In every reachable state the threads have the right reservations in     *)
(* their hands and all numbers are fresh.                                  *)
THEOREM RecordInvariance == Spec => []RecordInv
  BY RecordInitially, RecordStep, PTL DEF Spec

(* EX-R1, RL-R6 and CC-R2: no reservation is ever confirmed at or after    *)
(* its expiry or expired before it, with any sweepers and late ticks.      *)
THEOREM WindowsKept == Spec => []WindowRespected
  <1>1. RecordInv => WindowRespected
    BY DEF RecordInv, HistoryInv
  <1> QED BY <1>1, RecordInvariance, PTL

(* Event ids are unique and rise within a product, for any number of       *)
(* products that share idCounter.                                          *)
THEOREM EventsOrdered == Spec => []EventIDsOrdered
  <1>1. RecordInv => EventIDsOrdered
    BY DEF RecordInv
  <1> QED BY <1>1, RecordInvariance, PTL

(* CO-R2 (specs/06): counters and reservations of a product are written by *)
(* the holder of its lock only, the assumption under which a read that     *)
(* follows the acquisition is one step with it.                            *)
THEOREM LockedWrites == Spec => WritesUnderLock
  <1> DEFINE Locked == /\ \A p \in DOMAIN products : products'[p] # products[p] => HolderSteps(p)
                       /\ \A i \in DOMAIN reservations' :
                            (i \in DOMAIN reservations => reservations'[i] # reservations[i])
                              => HolderSteps(reservations'[i].product)
  <1>1. RecordInv /\ [Next]_vars => [Locked]_vars
    <2> SUFFICES ASSUME RecordInv, [Next]_vars PROVE Locked
      OBVIOUS
    <2>1. CASE EnvStep
      BY <2>1 DEF EnvStep, repoVars
    <2>2. ASSUME NEW t \in Threads, LocalStep(t) PROVE Locked
      <3>0. /\ HistoryInv /\ LockInv /\ Hands(t) /\ Ref(t) /\ pc \in [Threads -> ControlPoints]
            /\ NoThread \notin Threads
        BY ThreadAssumption DEF RecordInv, HistoryInv, IInv, TypeOK, RefInv, Threads
      <3>1. pc[t] \in CriticalPoints /\ pc'[t] # pc[t] => HolderSteps(op[t].product)
        BY <3>0 DEF LockInv, HolderSteps
      <3>2. ASSUME NEW p \in DOMAIN products, products'[p] # products[p] PROVE HolderSteps(p)
        <4>1. p \in DOMAIN Stock
          BY <3>0 DEF HistoryInv, IInv, TypeOK, RepoTypeOK
        <4> QED BY <2>2, <3>0, <3>1, <3>2, <4>1, ProductWrites
      <3>3. ASSUME NEW i \in DOMAIN reservations',
                   i \in DOMAIN reservations => reservations'[i] # reservations[i]
            PROVE  HolderSteps(reservations'[i].product)
        <4>1. CASE i \in DOMAIN reservations
          BY <2>2, <3>0, <3>1, <3>3, <4>1, KeptStep DEF Kept
        <4>2. CASE i \notin DOMAIN reservations
          <5>1. reservations \in [DOMAIN reservations -> Reservation]
            BY <3>0 DEF HistoryInv, IInv, TypeOK, RepoTypeOK
          <5>2. Saves(t)
            BY <2>2, <3>0, <4>2, <5>1, ReservationCases, FinishEffect
          <5>3. reservations'[i].product = op[t].product
            BY <4>2, <5>2 DEF Saves, SaveReservation
          <5>4. pc[t] \in CriticalPoints /\ pc'[t] # pc[t]
            BY <5>2 DEF Saves, CriticalPoints
          <5> QED BY <3>1, <5>3, <5>4
        <4> QED BY <4>1, <4>2
      <3> QED BY <3>2, <3>3
    <2> QED BY <2>1, <2>2, StepCases
  <1> QED BY <1>1, RecordInvariance, PTL DEF Spec, WritesUnderLock

(* A stored reservation keeps its product and expiry; a terminal state is  *)
(* left only for Expired, and only by a sweep that had listed it.          *)
THEOREM SweepOverwritesOnly == Spec => OnlySweepOverwrites
  <1> DEFINE Overwrites ==
       \A i \in DOMAIN reservations :
         /\ i \in DOMAIN reservations'
         /\ reservations'[i].product = reservations[i].product
         /\ reservations'[i].expiresAt = reservations[i].expiresAt
         /\ reservations[i].state \in TerminalStates /\ reservations'[i] # reservations[i]
              => /\ reservations'[i].state = "Expired"
                 /\ \E s \in Sweepers : pc[s] = "expire" /\ i \in op[s].todo
  <1>1. RecordInv /\ [Next]_vars => [Overwrites]_vars
    <2> SUFFICES ASSUME RecordInv, [Next]_vars PROVE Overwrites
      OBVIOUS
    <2>1. CASE EnvStep
      BY <2>1 DEF EnvStep, repoVars
    <2>2. ASSUME NEW t \in Threads, LocalStep(t) PROVE Overwrites
      BY <2>2, KeptStep DEF RecordInv, Kept, IsActive, TerminalStates
    <2> QED BY <2>1, <2>2, StepCases
  <1> QED BY <1>1, RecordInvariance, PTL DEF Spec, OnlySweepOverwrites

(* RL-R5 and CC-R7: with --expiry-interval 0 a terminal reservation never  *)
(* changes again, for any number of clients, products and requests.        *)
THEOREM FinalWithoutSweeper ==
  ASSUME Sweepers = {}
  PROVE  Spec => TerminalIsFinal
  <1> DEFINE Final == \A i \in DOMAIN reservations :
                        reservations[i].state \in TerminalStates => reservations'[i] = reservations[i]
  <1>1. RecordInv /\ [Next]_vars => [Final]_vars
    <2> SUFFICES ASSUME RecordInv, [Next]_vars PROVE Final
      OBVIOUS
    <2>1. CASE EnvStep
      BY <2>1 DEF EnvStep, repoVars
    <2>2. ASSUME NEW t \in Threads, LocalStep(t) PROVE Final
      BY <2>2, KeptStep, Sweepers = {} DEF RecordInv, Kept, IsActive, TerminalStates
    <2> QED BY <2>1, <2>2, StepCases
  <1> QED BY <1>1, RecordInvariance, PTL DEF Spec, TerminalIsFinal

-----------------------------------------------------------------------------
(* What a call knows of its own answer.                                    *)

\* The points at which the event of a call is being logged.
LoggingPoints == {"eventID", "append", "shadow"}

\* The reservation of the call is in this state, under the lock the call holds.
Stands(t, state) ==
  /\ op[t].res \in DOMAIN reservations
  /\ reservations[op[t].res].product = op[t].product
  /\ reservations[op[t].res].state = state

SoldOut(t) ==
  op[t].product \in DOMAIN products /\ AvailableStock(products[op[t].product]) <= 0

(* What each kind of call has made true, and will answer, at each point it *)
(* passes under the lock.                                                  *)
ReserveTells(t) ==
  \/ pc[t] \in {"expire", "check"} /\ op[t].err = "nil"
  \/ pc[t] \in {"release"} \cup LoggingPoints /\ op[t].event = "Expired" /\ op[t].err = "nil"
  \/ pc[t] = "save" /\ op[t].event = "Reserved" /\ op[t].err = "nil"
  \/ /\ pc[t] \in {"hold"} \cup LoggingPoints /\ op[t].event = "Reserved" /\ op[t].err = "nil"
     /\ Stands(t, "Active")
  \/ /\ pc[t] \in LoggingPoints /\ op[t].event = "ReserveRejected" /\ op[t].err = "ErrOutOfStock"
     /\ SoldOut(t)
  \/ /\ pc[t] = "unlock"
     /\ \/ op[t].err = "nil" /\ Stands(t, "Active")
        \/ op[t].err = "ErrOutOfStock" /\ SoldOut(t)
        \/ op[t].err = "ErrProductNotFound"

ConfirmTells(t) ==
  \/ pc[t] = "confirm" /\ op[t].err = "nil"
  \/ /\ pc[t] \in {"sell"} \cup LoggingPoints /\ op[t].event = "Confirmed" /\ op[t].err = "nil"
     /\ Stands(t, "Confirmed")
  \/ /\ pc[t] = "expire" /\ op[t].err = "ErrReservationExpired" /\ op[t].todo \subseteq {op[t].res}
     /\ Stands(t, "Expired") \/ (Stands(t, "Active") /\ op[t].todo = {op[t].res})
  \/ /\ pc[t] \in {"release"} \cup LoggingPoints /\ op[t].event = "Expired"
     /\ op[t].err = "ErrReservationExpired" /\ op[t].todo = {} /\ Stands(t, "Expired")
  \/ /\ pc[t] = "unlock"
     /\ \/ op[t].err = "nil" /\ Stands(t, "Confirmed")
        \/ op[t].err = "ErrReservationExpired" /\ Stands(t, "Expired")
        \/ /\ op[t].err = "ErrReservationAlreadyFinalized"
           /\ Stands(t, "Confirmed") \/ Stands(t, "Cancelled")

CancelTells(t) ==
  \/ pc[t] = "cancel" /\ op[t].err = "nil"
  \/ /\ pc[t] \in {"release"} \cup LoggingPoints /\ op[t].event = "Cancelled" /\ op[t].err = "nil"
     /\ Stands(t, "Cancelled")
  \/ /\ pc[t] = "unlock"
     /\ \/ op[t].err = "nil" /\ Stands(t, "Cancelled")
        \/ /\ op[t].err = "ErrReservationAlreadyFinalized"
           /\ Stands(t, "Confirmed") \/ Stands(t, "Cancelled") \/ Stands(t, "Expired")

SweepTells(t) ==
  \/ pc[t] \in {"expire", "unlock"}
  \/ pc[t] \in {"release"} \cup LoggingPoints /\ op[t].event = "Expired"

\* While ReserveItem works through its list, every hold that has lapsed by its
\* reading of the clock is still on it.
NothingMissed(t) ==
  \A i \in DOMAIN reservations :
    IsActive(reservations[i]) /\ reservations[i].product = op[t].product
    /\ Lapsed(reservations[i], op[t].now) => pc[t] # "check" /\ i \in op[t].todo

Tells(t) ==
  /\ pc[t] = "lock" /\ op[t].kind # "sweep" => op[t].err = "nil"
  /\ pc[t] \in CriticalPoints =>
       /\ op[t].kind = "reserve" => ReserveTells(t)
       /\ op[t].kind = "confirm" => ConfirmTells(t)
       /\ op[t].kind = "cancel" => CancelTells(t)
       /\ op[t].kind = "sweep" => SweepTells(t)
       /\ op[t].kind # "none"
  /\ op[t].kind = "reserve"
     /\ (pc[t] \in {"expire", "check"} \/ (pc[t] \in {"release"} \cup LoggingPoints /\ op[t].event = "Expired"))
       => NothingMissed(t)

AllTell == \A t \in Threads : Tells(t)

(* What each step does to the parts of the local variables that decide the *)
(* event and the answer of the call.                                       *)
LEMMA AnswerFields ==
  ASSUME TypeOK, NEW t \in Threads
  PROVE  /\ ExpireReservation(t) =>
              /\ op'[t].err = op[t].err /\ op'[t].event = "Expired"
              /\ \E i \in Remaining(t) : /\ MarkExpired(i, op[t].now) /\ op'[t].res = i
                                         /\ op'[t].todo = op[t].todo \ {i}
         /\ ReleaseHold(t) \/ AppendEventStep(t) \/ RecordShadow(t) \/ SaveReserved(t)
              \/ HoldUnit(t) \/ ConfirmExpiryDone(t) \/ Sell(t) \/ SweepExpiryDone(t)
              \/ LockSweep(t) \/ UnlockSweep(t) => op' = op
         /\ NextEventID(t) =>
              /\ op'[t].err = op[t].err /\ op'[t].event = op[t].event /\ op'[t].res = op[t].res
              /\ op'[t].todo = op[t].todo
         /\ LazyExpiryDone(t) =>
              op'[t].err = op[t].err /\ op'[t].todo = op[t].todo /\ op'[t].res = 0
         /\ RejectUnknownProduct(t) => op'[t].err = "ErrProductNotFound"
         /\ RejectOutOfStock(t) =>
              op'[t].err = "ErrOutOfStock" /\ op'[t].event = "ReserveRejected" /\ op'[t].res = op[t].res
         /\ NextReservationID(t) => op'[t].err = op[t].err /\ op'[t].event = "Reserved"
         /\ Confirm(t) =>
              op'[t].err = op[t].err /\ op'[t].event = "Confirmed" /\ op'[t].res = op[t].res
         /\ Cancel(t) =>
              op'[t].err = op[t].err /\ op'[t].event = "Cancelled" /\ op'[t].res = op[t].res
  <1>0. op \in [Threads -> Op] /\ op[t] \in Op
    BY DEF TypeOK
  <1>1. ASSUME ExpireReservation(t)
        PROVE  /\ op'[t].err = op[t].err /\ op'[t].event = "Expired"
               /\ \E i \in Remaining(t) : /\ MarkExpired(i, op[t].now) /\ op'[t].res = i
                                          /\ op'[t].todo = op[t].todo \ {i}
    <2>1. PICK i \in Remaining(t) :
            /\ MarkExpired(i, op[t].now)
            /\ op' = [op EXCEPT ![t].res = i, ![t].todo = @ \ {i}, ![t].event = "Expired",
                                ![t].total = @ + 1]
      BY <1>1 DEF ExpireReservation
    <2>2. /\ op'[t].err = op[t].err /\ op'[t].event = "Expired"
          /\ op'[t].res = i /\ op'[t].todo = op[t].todo \ {i}
      BY <1>0, <2>1, Zenon DEF Op
    <2> QED BY <2>1, <2>2
  <1>2. ReleaseHold(t) \/ AppendEventStep(t) \/ RecordShadow(t) \/ SaveReserved(t)
              \/ HoldUnit(t) \/ ConfirmExpiryDone(t) \/ Sell(t) \/ SweepExpiryDone(t)
              \/ LockSweep(t) \/ UnlockSweep(t) => op' = op
    BY DEF ReleaseHold, AppendEventStep, RecordShadow, SaveReserved, HoldUnit, ConfirmExpiryDone,
           Sell, SweepExpiryDone, LockSweep, UnlockSweep
  <1>3. NextEventID(t) =>
              /\ op'[t].err = op[t].err /\ op'[t].event = op[t].event /\ op'[t].res = op[t].res
              /\ op'[t].todo = op[t].todo
    BY <1>0, Zenon DEF NextEventID, Op
  <1>4. LazyExpiryDone(t) =>
              op'[t].err = op[t].err /\ op'[t].todo = op[t].todo /\ op'[t].res = 0
    BY <1>0, Zenon DEF LazyExpiryDone, Op
  <1>5. RejectUnknownProduct(t) => op'[t].err = "ErrProductNotFound"
    BY <1>0, Zenon DEF RejectUnknownProduct, Op
  <1>6. RejectOutOfStock(t) =>
          op'[t].err = "ErrOutOfStock" /\ op'[t].event = "ReserveRejected" /\ op'[t].res = op[t].res
    BY <1>0, Zenon DEF RejectOutOfStock, Op
  <1>7. NextReservationID(t) => op'[t].err = op[t].err /\ op'[t].event = "Reserved"
    BY <1>0, Zenon DEF NextReservationID, Op
  <1>8. Confirm(t) =>
              op'[t].err = op[t].err /\ op'[t].event = "Confirmed" /\ op'[t].res = op[t].res
    BY <1>0, Zenon DEF Confirm, Op
  <1>9. Cancel(t) =>
              op'[t].err = op[t].err /\ op'[t].event = "Cancelled" /\ op'[t].res = op[t].res
    BY <1>0, Zenon DEF Cancel, Op
  <1> QED BY <1>1, <1>2, <1>3, <1>4, <1>5, <1>6, <1>7, <1>8, <1>9

(* What taking the lock, starting a call or leaving it does to them.       *)
LEMMA AnswerBounds ==
  ASSUME TypeOK, NEW t \in Threads
  PROVE  /\ LockReserve(t) \/ LockConfirm(t) \/ LockCancel(t) => op'[t].err = op[t].err
         /\ LockConfirmLapsed(t) =>
              op'[t].err = "ErrReservationExpired" /\ op'[t].res = op[t].res /\ op'[t].todo = {op[t].res}
         /\ RejectFinalized(t) =>
              /\ op'[t].err = FinalizedError(op[t].kind, reservations[op[t].res].state)
              /\ op'[t].res = op[t].res
         /\ BeginReserve(t) => op'[t].err = "nil" /\ op'[t].kind = "reserve"
         /\ BeginFinalize(t) => op'[t].err = "nil" /\ op'[t].kind \in {"confirm", "cancel"}
  <1>0. op \in [Threads -> Op] /\ op[t] \in Op
    BY DEF TypeOK
  <1>1. LockReserve(t) \/ LockConfirm(t) \/ LockCancel(t) => op'[t].err = op[t].err
    BY <1>0, Zenon DEF LockReserve, LockConfirm, LockCancel, Op
  <1>2. LockConfirmLapsed(t) =>
              op'[t].err = "ErrReservationExpired" /\ op'[t].res = op[t].res /\ op'[t].todo = {op[t].res}
    <2>1. LockConfirmLapsed(t) => op' = [op EXCEPT ![t].now = clock, ![t].todo = {op[t].res},
                                                   ![t].err = "ErrReservationExpired"]
      BY DEF LockConfirmLapsed
    <2> QED BY <1>0, <2>1 DEF Op
  <1>3. RejectFinalized(t) =>
              /\ op'[t].err = FinalizedError(op[t].kind, reservations[op[t].res].state)
              /\ op'[t].res = op[t].res
    BY <1>0, Zenon DEF RejectFinalized, Op
  <1>4. BeginReserve(t) => op'[t].err = "nil" /\ op'[t].kind = "reserve"
    BY <1>0, Zenon DEF BeginReserve, NoOp
  <1>5. BeginFinalize(t) => op'[t].err = "nil" /\ op'[t].kind \in {"confirm", "cancel"}
    BY <1>0, Zenon DEF BeginFinalize, NoOp
  <1> QED BY <1>1, <1>2, <1>3, <1>4, <1>5

(* A step of another thread writes no reservation and no counter of a      *)
(* product that is locked.                                                 *)
LEMMA LockedKept ==
  ASSUME HistoryInv, NEW t \in Threads, LocalStep(t), NEW u \in Threads \ {t}, pc[u] \in CriticalPoints
  PROVE  /\ \A i \in DOMAIN reservations : reservations[i].product = op[u].product =>
              reservations'[i] = reservations[i]
         /\ \A i \in DOMAIN reservations' :
              reservations'[i].product = op[u].product => i \in DOMAIN reservations
         /\ \A i \in DOMAIN reservations :
              i \in DOMAIN reservations' /\ reservations'[i].product = reservations[i].product
  <1>0. /\ LockInv /\ pc \in [Threads -> ControlPoints]
        /\ reservations \in [DOMAIN reservations -> Reservation]
    BY DEF HistoryInv, IInv, TypeOK, RepoTypeOK
  <1>1. pc[t] \in CriticalPoints => op[t].product # op[u].product
    BY <1>0 DEF LockInv
  <1>2. \A i \in DOMAIN reservations : Kept(t, i)
    BY KeptStep
  <1>3. ASSUME NEW i \in DOMAIN reservations', reservations'[i].product = op[u].product,
               i \notin DOMAIN reservations
        PROVE  FALSE
    <2>1. Saves(t)
      BY <1>0, <1>3, ReservationCases, FinishEffect
    <2>2. reservations'[i].product = op[t].product /\ pc[t] \in CriticalPoints
      BY <1>3, <2>1 DEF Saves, SaveReservation, CriticalPoints
    <2> QED BY <1>1, <1>3, <2>2
  <1> QED BY <1>1, <1>2, <1>3 DEF Kept

(* What a thread knows of its answer no other thread can make untrue.      *)
LEMMA OtherTells ==
  ASSUME HistoryInv, AllTell, NEW t \in Threads, LocalStep(t), NEW u \in Threads \ {t}
  PROVE  Tells(u)'
  <1>1. op'[u] = op[u] /\ pc'[u] = pc[u] /\ Tells(u)
    BY OtherHands DEF AllTell
  <1>2. CASE pc[u] \notin CriticalPoints
    BY <1>1, <1>2 DEF Tells, CriticalPoints, LoggingPoints
  <1>3. CASE pc[u] \in CriticalPoints
    <2>1. \A state : Stands(u, state)' <=> Stands(u, state)
      BY <1>1, <1>3, LockedKept DEF Stands
    <2>2. SoldOut(u)' <=> SoldOut(u)
      <3>1. pc[t] \in CriticalPoints => op[t].product # op[u].product
        BY <1>3 DEF HistoryInv, IInv, LockInv
      <3>2. DOMAIN products' = DOMAIN products /\ DOMAIN products = DOMAIN Stock
        BY RepoStep DEF HistoryInv, IInv, TypeOK, RepoTypeOK
      <3>3. op[u].product \in DOMAIN Stock => products'[op[u].product] = products[op[u].product]
        BY <3>1, ProductWrites
      <3> QED BY <1>1, <3>2, <3>3 DEF SoldOut
    <2>3. NothingMissed(u)' <=> NothingMissed(u)
      <3>1. \A i : i \in DOMAIN reservations' /\ reservations'[i].product = op[u].product
                   <=> i \in DOMAIN reservations /\ reservations[i].product = op[u].product
        BY <1>3, LockedKept
      <3>2. \A i \in DOMAIN reservations : reservations[i].product = op[u].product =>
              reservations'[i] = reservations[i]
        BY <1>3, LockedKept
      <3> QED BY <1>1, <3>1, <3>2 DEF NothingMissed
    <2>4. /\ ReserveTells(u)' <=> ReserveTells(u)
          /\ ConfirmTells(u)' <=> ConfirmTells(u)
          /\ CancelTells(u)' <=> CancelTells(u)
          /\ SweepTells(u)' <=> SweepTells(u)
      BY <1>1, <2>1, <2>2 DEF ReserveTells, ConfirmTells, CancelTells, SweepTells
    <2> QED BY <1>1, <2>3, <2>4 DEF Tells
  <1> QED BY <1>2, <1>3

(* The steps that write a reservation, a counter or an event of their own  *)
(* call make its answer true.                                              *)
LEMMA WritingTells ==
  ASSUME HistoryInv, AllTell, NEW t \in Threads,
         ExpireReservation(t) \/ Confirm(t) \/ Cancel(t) \/ SaveReserved(t)
  PROVE  Tells(t)'
  <1>0. /\ Hands(t) /\ TypeOK /\ pc \in [Threads -> ControlPoints] /\ Ref(t) /\ Tells(t)
        /\ reservations \in [DOMAIN reservations -> Reservation] /\ FreshIDs
        /\ InsideStep(t)
    BY DEF HistoryInv, IInv, TypeOK, RepoTypeOK, RefInv, AllTell, InsideStep, SharedStep
  <1>1. SameCall(t) /\ op'[t].now = op[t].now
    BY <1>0, InsideCall
  <1>2. CASE ExpireReservation(t)
    <2>1. PICK i \in Remaining(t) :
            /\ MarkExpired(i, op[t].now) /\ op'[t].res = i /\ op'[t].todo = op[t].todo \ {i}
            /\ op'[t].err = op[t].err /\ op'[t].event = "Expired"
            /\ pc[t] = "expire" /\ pc'[t] = "release"
      BY <1>0, <1>2, AnswerFields DEF ExpireReservation, Goto
    <2>2. i \in DOMAIN reservations /\ i \in op[t].todo /\ reservations[i].product = op[t].product
      BY <1>0, <2>1 DEF Remaining, Ref
    <2>3. Finishes(t, i)
      BY <2>1, <2>2 DEF Finishes, CriticalPoints
    <2>4. /\ Stands(t, "Expired")'
          /\ DOMAIN reservations' = DOMAIN reservations
          /\ \A j \in DOMAIN reservations \ {i} : reservations'[j] = reservations[j]
          /\ ~ IsActive(reservations'[i])
      BY <1>0, <1>1, <2>1, <2>2, <2>3, FinishEffect DEF Stands, SameCall, IsActive
    <2>5. op[t].kind = "reserve" => NothingMissed(t)'
      BY <1>0, <1>1, <2>1, <2>2, <2>4 DEF Tells, NothingMissed, SameCall
    <2>6. op[t].kind = "confirm" => op'[t].err = "ErrReservationExpired" /\ op'[t].todo = {}
      BY <1>0, <2>1, <2>2 DEF Tells, ConfirmTells, CriticalPoints, LoggingPoints
    <2>7. op[t].kind = "reserve" => op'[t].err = "nil"
      BY <1>0, <2>1 DEF Tells, ReserveTells, CriticalPoints, LoggingPoints
    <2>8. op[t].kind # "cancel" /\ op[t].kind # "none"
      BY <1>0, <2>1 DEF Tells, CancelTells, CriticalPoints, LoggingPoints
    <2> QED BY <1>1, <2>1, <2>4, <2>5, <2>6, <2>7, <2>8
            DEF Tells, ReserveTells, ConfirmTells, SweepTells, SameCall
  <1>3. CASE Confirm(t)
    <2>1. /\ op'[t].err = op[t].err /\ op'[t].event = "Confirmed" /\ op'[t].res = op[t].res
          /\ pc[t] = "confirm" /\ pc'[t] = "sell"
      BY <1>0, <1>3, AnswerFields DEF Confirm, Goto
    <2>2. Finishes(t, op[t].res)
      BY <1>0, <1>3, <2>1 DEF Finishes, CriticalPoints, Confirm, Hands, HasReservation, Ref
    <2>3. Stands(t, "Confirmed")'
      BY <1>0, <1>1, <2>1, <2>2, FinishEffect DEF Stands, SameCall, Finishes
    <2>4. op[t].kind = "confirm" /\ op[t].err = "nil"
      BY <1>0, <2>1 DEF Tells, ReserveTells, ConfirmTells, CancelTells, SweepTells, CriticalPoints,
                        LoggingPoints, HistoryInv, IInv, TypeOK, Op, Kinds
    <2> QED BY <1>1, <2>1, <2>3, <2>4 DEF Tells, ConfirmTells, SameCall
  <1>4. CASE Cancel(t)
    <2>1. /\ op'[t].err = op[t].err /\ op'[t].event = "Cancelled" /\ op'[t].res = op[t].res
          /\ pc[t] = "cancel" /\ pc'[t] = "release"
      BY <1>0, <1>4, AnswerFields DEF Cancel, Goto
    <2>2. Finishes(t, op[t].res)
      BY <1>0, <1>4, <2>1 DEF Finishes, CriticalPoints, Cancel, Hands, HasReservation, Ref
    <2>3. Stands(t, "Cancelled")'
      BY <1>0, <1>1, <2>1, <2>2, FinishEffect DEF Stands, SameCall, Finishes
    <2>4. op[t].kind = "cancel" /\ op[t].err = "nil"
      BY <1>0, <2>1 DEF Tells, ReserveTells, ConfirmTells, CancelTells, SweepTells, CriticalPoints,
                        LoggingPoints, HistoryInv, IInv, TypeOK, Op, Kinds
    <2> QED BY <1>1, <2>1, <2>3, <2>4 DEF Tells, CancelTells, SameCall
  <1>5. CASE SaveReserved(t)
    <2>1. op' = op /\ pc[t] = "save" /\ pc'[t] = "hold"
      BY <1>0, <1>5 DEF SaveReserved, Goto
    <2>2. op[t].kind = "reserve" /\ op[t].err = "nil" /\ op[t].event = "Reserved"
      BY <1>0, <2>1 DEF Tells, ReserveTells, ConfirmTells, CancelTells, SweepTells, CriticalPoints,
                        LoggingPoints, HistoryInv, IInv, TypeOK, Op, Kinds
    <2>3. Stands(t, "Active")'
      BY <1>5, <2>1 DEF SaveReserved, SaveReservation, Stands
    <2> QED BY <2>1, <2>2, <2>3 DEF Tells, ReserveTells
  <1> QED BY <1>2, <1>3, <1>4, <1>5

(* A call is of one of five kinds.                                         *)
LEMMA TellsKind ==
  ASSUME TypeOK, NEW t \in Threads
  PROVE  op[t].kind \in {"none", "reserve", "confirm", "cancel", "sweep"}
  BY DEF TypeOK, Op, Kinds

(* The other steps under the lock read what the answer says, or pass it on.*)
LEMMA InsideTells ==
  ASSUME HistoryInv, AllTell, NEW t \in Threads, InsideStep(t),
         ~ ExpireReservation(t), ~ Confirm(t), ~ Cancel(t), ~ SaveReserved(t)
  PROVE  Tells(t)'
  <1>0. /\ Hands(t) /\ TypeOK /\ pc \in [Threads -> ControlPoints] /\ Ref(t) /\ Tells(t)
        /\ pc[t] \in CriticalPoints /\ op[t].kind \in {"none", "reserve", "confirm", "cancel", "sweep"}
    BY ControlEffect, TellsKind DEF HistoryInv, IInv, TypeOK, RefInv, AllTell, Inside
  <1>1. SameCall(t) /\ op'[t].now = op[t].now
    BY <1>0, InsideCall
  <1>2. UNCHANGED reservations
    BY DEF repoVars, InsideStep, SharedStep, ReleaseHold, NextEventID,
         AppendEventStep, RecordShadow, LazyExpiryDone, RejectUnknownProduct, RejectOutOfStock,
         NextReservationID, HoldUnit, ConfirmExpiryDone, Sell, SweepExpiryDone
  <1>3. CASE HoldUnit(t) \/ Sell(t) \/ ReleaseHold(t)
    <2>1. /\ op' = op /\ pc'[t] = "eventID"
          /\ \/ pc[t] = "hold" \/ pc[t] = "sell" \/ pc[t] = "release"
      BY <1>0, <1>3 DEF HoldUnit, Sell, ReleaseHold, Goto
    <2>2. /\ \A state : Stands(t, state)' <=> Stands(t, state)
          /\ op[t].kind = "reserve" /\ op[t].event = "Expired" => NothingMissed(t)'
      BY <1>0, <1>2, <2>1 DEF Stands, Tells, ReserveTells, NothingMissed, CriticalPoints, LoggingPoints
    <2> QED BY <1>0, <2>1, <2>2
            DEF Tells, ReserveTells, ConfirmTells, CancelTells, SweepTells, LoggingPoints, CriticalPoints
  <1>4. CASE NextEventID(t) \/ AppendEventStep(t) \/ RecordShadow(t)
    <2>1. /\ op'[t].err = op[t].err /\ op'[t].event = op[t].event /\ op'[t].res = op[t].res
          /\ op'[t].todo = op[t].todo /\ products' = products
          /\ \/ pc[t] = "eventID" /\ pc'[t] = "append"
             \/ pc[t] = "append" /\ pc'[t] = "shadow" /\ op[t].event # "ReserveRejected"
             \/ pc[t] = "append" /\ pc'[t] = "unlock" /\ op[t].event = "ReserveRejected"
             \/ pc[t] = "shadow" /\ pc'[t] = "unlock" /\ op[t].event # "Expired"
             \/ pc[t] = "shadow" /\ pc'[t] = "expire" /\ op[t].event = "Expired"
      BY <1>0, <1>4, AnswerFields DEF NextEventID, AppendEventStep, RecordShadow, Goto, repoVars
    <2>2. /\ \A state : Stands(t, state)' <=> Stands(t, state)
          /\ SoldOut(t)' <=> SoldOut(t)
          /\ op[t].kind = "reserve" /\ op[t].event = "Expired" => NothingMissed(t)'
      BY <1>0, <1>1, <1>2, <2>1
      DEF Stands, SoldOut, Tells, ReserveTells, NothingMissed, CriticalPoints, LoggingPoints, SameCall
    <2> QED BY <1>0, <1>1, <2>1, <2>2
            DEF Tells, ReserveTells, ConfirmTells, CancelTells, SweepTells, LoggingPoints,
                CriticalPoints, SameCall
  <1>5. CASE LazyExpiryDone(t)
    <2>1. /\ op'[t].err = op[t].err /\ op'[t].todo = op[t].todo /\ op[t].kind = "reserve"
          /\ pc[t] = "expire" /\ pc'[t] = "check" /\ Remaining(t) = {}
      BY <1>0, <1>5, AnswerFields DEF LazyExpiryDone, Goto
    <2>2. NothingMissed(t)'
      BY <1>0, <1>1, <1>2, <2>1 DEF Tells, NothingMissed, Remaining, SameCall
    <2> QED BY <1>0, <1>1, <2>1, <2>2 DEF Tells, ReserveTells, SameCall, LoggingPoints, CriticalPoints
  <1>6. CASE RejectUnknownProduct(t)
    <2>1. op'[t].err = "ErrProductNotFound" /\ pc[t] = "check" /\ pc'[t] = "unlock"
      BY <1>0, <1>6, AnswerFields DEF RejectUnknownProduct, Goto
    <2>2. op[t].kind = "reserve"
      BY <1>0, <2>1 DEF Tells, ConfirmTells, CancelTells, SweepTells, LoggingPoints
    <2> QED BY <1>1, <2>1, <2>2 DEF Tells, ReserveTells, SameCall, LoggingPoints
  <1>7. CASE RejectOutOfStock(t)
    <2>1. /\ op'[t].err = "ErrOutOfStock" /\ op'[t].event = "ReserveRejected"
          /\ pc[t] = "check" /\ pc'[t] = "eventID" /\ SoldOut(t) /\ products' = products
      BY <1>0, <1>7, AnswerFields DEF RejectOutOfStock, Goto, SoldOut, repoVars
    <2>2. op[t].kind = "reserve"
      BY <1>0, <2>1 DEF Tells, ConfirmTells, CancelTells, SweepTells, LoggingPoints
    <2> QED BY <1>1, <2>1, <2>2 DEF Tells, ReserveTells, SameCall, LoggingPoints, SoldOut
  <1>8. CASE NextReservationID(t)
    <2>1. /\ op'[t].err = op[t].err /\ op'[t].event = "Reserved"
          /\ pc[t] = "check" /\ pc'[t] = "save"
      BY <1>0, <1>8, AnswerFields DEF NextReservationID, Goto
    <2>2. op[t].kind = "reserve" /\ op[t].err = "nil"
      BY <1>0, <2>1 DEF Tells, ReserveTells, ConfirmTells, CancelTells, SweepTells, LoggingPoints
    <2> QED BY <1>1, <2>1, <2>2 DEF Tells, ReserveTells, SameCall, LoggingPoints
  <1>9. CASE ConfirmExpiryDone(t)
    <2>1. /\ op' = op /\ op[t].kind = "confirm" /\ pc[t] = "expire" /\ pc'[t] = "unlock"
          /\ Remaining(t) = {}
      BY <1>0, <1>9 DEF ConfirmExpiryDone, Goto
    <2>2. ConfirmTells(t) /\ op[t].err = "ErrReservationExpired"
      BY <1>0, <2>1 DEF Tells, ConfirmTells, LoggingPoints
    <2>3. ~ (Stands(t, "Active") /\ op[t].todo = {op[t].res})
      BY <2>1 DEF Stands, Remaining
    <2>4. Stands(t, "Expired")
      BY <2>1, <2>2, <2>3 DEF ConfirmTells, LoggingPoints
    <2>5. Stands(t, "Expired")'
      BY <1>2, <2>1, <2>4 DEF Stands
    <2> QED BY <2>1, <2>2, <2>5 DEF Tells, ConfirmTells
  <1>10. CASE SweepExpiryDone(t)
    BY <1>0, <1>10 DEF SweepExpiryDone, Goto, Tells, SweepTells
  <1> QED BY <1>3, <1>4, <1>5, <1>6, <1>7, <1>8, <1>9, <1>10 DEF InsideStep, SharedStep

(* Taking the lock: a finalized reservation is answered by its state, a    *)
(* lapsed one is expired first, and a reserve lists all that has lapsed.   *)
LEMMA EnterTells ==
  ASSUME HistoryInv, AllTell, NEW t \in Threads, EnterStep(t)
  PROVE  Tells(t)'
  <1>0. /\ Hands(t) /\ TypeOK /\ pc \in [Threads -> ControlPoints] /\ Ref(t) /\ Tells(t)
        /\ SameCall(t) /\ DOMAIN reservations \subseteq Nat
        /\ \A i \in DOMAIN reservations : reservations[i].state \in ReservationStates
    <2>1. /\ Hands(t) /\ TypeOK /\ pc \in [Threads -> ControlPoints] /\ Ref(t) /\ Tells(t)
          /\ SameCall(t) /\ DOMAIN reservations \subseteq Nat
      BY SameCallEffect DEF HistoryInv, IInv, TypeOK, RepoTypeOK, RefInv, AllTell
    <2>2. \A i \in DOMAIN reservations : reservations[i] \in Reservation
      BY <2>1 DEF TypeOK, RepoTypeOK
    <2> QED BY <2>1, <2>2 DEF Reservation
  <1>1. reservations' = reservations /\ pc[t] = "lock"
    BY DEF EnterStep, LockReserve, LockConfirm, LockConfirmLapsed, LockCancel, RejectFinalized,
           LockSweep, Acquire, Goto, repoVars
  <1>2. CASE LockReserve(t)
    <2>1. op[t].kind = "reserve" /\ pc'[t] = "expire" /\ op'[t].err = "nil"
      BY <1>0, <1>1, <1>2, AnswerBounds DEF LockReserve, Acquire, Goto, Tells
    <2>2. /\ op'[t].now = clock
          /\ op'[t].todo = LapsedOf(ActiveReservationsByProduct(op[t].product), clock)
      BY <1>0, <1>2, EnterCall
    <2>3. NothingMissed(t)'
      BY <1>0, <1>1, <2>1, <2>2
      DEF NothingMissed, LapsedOf, ActiveReservationsByProduct, AllActiveReservations, SameCall
    <2> QED BY <1>0, <2>1, <2>3 DEF Tells, ReserveTells, SameCall
  <1>3. CASE LockConfirm(t) \/ LockCancel(t)
    <2>1. /\ op'[t].err = op[t].err
          /\ \/ op[t].kind = "confirm" /\ pc'[t] = "confirm"
             \/ op[t].kind = "cancel" /\ pc'[t] = "cancel"
      BY <1>0, <1>3, AnswerBounds DEF LockConfirm, LockCancel, Acquire, Goto
    <2> QED BY <1>0, <1>1, <2>1 DEF Tells, ConfirmTells, CancelTells, SameCall
  <1>4. CASE LockConfirmLapsed(t)
    <2>1. /\ op[t].kind = "confirm" /\ pc'[t] = "expire" /\ op'[t].err = "ErrReservationExpired"
          /\ op'[t].res = op[t].res /\ op'[t].todo = {op[t].res}
          /\ reservations[op[t].res].state = "Active"
      BY <1>0, <1>4, AnswerBounds DEF LockConfirmLapsed, Acquire, Goto, IsActive
    <2>2. Stands(t, "Active")'
      BY <1>0, <1>1, <2>1 DEF Hands, Ref, Stands, SameCall
    <2> QED BY <1>0, <2>1, <2>2 DEF Tells, ConfirmTells, SameCall
  <1>5. CASE RejectFinalized(t)
    <2>1. /\ op[t].kind \in {"confirm", "cancel"} /\ pc'[t] = "unlock"
          /\ op'[t].err = FinalizedError(op[t].kind, reservations[op[t].res].state)
          /\ op'[t].res = op[t].res /\ reservations[op[t].res].state # "Active"
      BY <1>0, <1>5, AnswerBounds DEF RejectFinalized, Acquire, Goto, IsActive
    <2>2. op[t].res \in DOMAIN reservations
      BY <1>0, <1>1, <2>1 DEF Ref
    <2>3. reservations[op[t].res].state \in {"Confirmed", "Cancelled", "Expired"}
      BY <1>0, <2>1, <2>2 DEF ReservationStates, TerminalStates
    <2>4. \A state : reservations[op[t].res].state = state => Stands(t, state)'
      BY <1>0, <1>1, <2>1, <2>2 DEF Hands, Stands, SameCall
    <2> QED BY <1>0, <2>1, <2>3, <2>4 DEF Tells, ConfirmTells, CancelTells, SameCall, FinalizedError
  <1>6. CASE LockSweep(t)
    BY <1>0, <1>6 DEF LockSweep, Acquire, Goto, Tells, SweepTells
  <1> QED BY <1>2, <1>3, <1>4, <1>5, <1>6 DEF EnterStep

(* Outside the lock a call has decided nothing.                            *)
LEMMA OutsideTells ==
  ASSUME HistoryInv, AllTell, NEW t \in Threads, LeaveStep(t) \/ OutsideStep(t)
  PROVE  Tells(t)'
  <1>0. /\ TypeOK /\ pc \in [Threads -> ControlPoints] /\ Ref(t) /\ Tells(t)
        /\ op[t].todo \subseteq DOMAIN reservations
    BY DEF HistoryInv, IInv, TypeOK, RefInv, Ref, AllTell
  <1>1. pc'[t] \in {"idle", "lock", "snapshot", "next"}
    BY <1>0, ControlEffect DEF Leave, Outside, Release, Goto
  <1>2. pc'[t] = "lock" => op'[t].err = "nil" \/ op'[t].kind = "sweep"
    <2>1. CASE BeginReserve(t) \/ BeginFinalize(t)
      BY <1>0, <2>1, AnswerBounds
    <2>2. CASE NextProduct(t)
      BY <1>0, <2>2, BoundaryEffect DEF Ref, NextProduct, Goto
    <2>3. CASE LeaveStep(t) \/ EndSweep(t) \/ ReceiveTick(t) \/ Snapshot(t)
      BY <1>0, <2>3 DEF LeaveStep, Return, UnlockSweep, Release, EndSweep, ReceiveTick, Snapshot, Goto
    <2> QED BY <2>1, <2>2, <2>3 DEF OutsideStep
  <1> QED BY <1>1, <1>2 DEF Tells, CriticalPoints, LoggingPoints

\* Every step keeps what every call knows of its answer.
LEMMA TellsStep == RecordInv /\ AllTell /\ [Next]_vars => AllTell'
  <1> SUFFICES ASSUME RecordInv, AllTell, [Next]_vars PROVE AllTell'
    OBVIOUS
  <1>1. ASSUME NEW t \in Threads, LocalStep(t) PROVE AllTell'
    <2>1. Tells(t)'
      BY <1>1, WritingTells, InsideTells, EnterTells, OutsideTells DEF LocalStep, RecordInv
    <2> QED BY <1>1, <2>1, OtherTells DEF AllTell, RecordInv
  <1>2. CASE EnvStep
    <2>1. UNCHANGED <<products, reservations, pc, op>>
      BY <1>2 DEF EnvStep, repoVars
    <2> QED BY <2>1 DEF AllTell, Tells, ReserveTells, ConfirmTells, CancelTells, SweepTells,
                        Stands, SoldOut, NothingMissed
  <1> QED BY <1>1, <1>2, StepCases

(* In every reachable state each call knows what it will answer.           *)
THEOREM AnswerInvariance == Spec => [](RecordInv /\ AllTell)
  <1>1. Init => AllTell
    BY DEF Init, AllTell, Tells, CriticalPoints, LoggingPoints
  <1>2. RecordInv /\ AllTell /\ [Next]_vars => (RecordInv /\ AllTell)'
    BY RecordStep, TellsStep
  <1> QED BY <1>1, <1>2, RecordInitially, PTL DEF Spec

(* EX-R3: whatever sweeps and other calls do meanwhile, ReserveItem never  *)
(* answers ErrOutOfStock because of a hold that had lapsed.                *)
THEOREM NoStaleHold == Spec => []NoStaleHoldAtDecision
  <1>1. RecordInv /\ AllTell => NoStaleHoldAtDecision
    <2> SUFFICES ASSUME RecordInv, AllTell, NEW t \in Clients, pc[t] = "check",
                        NEW i \in ReservationsIn("Active", op[t].product)
                 PROVE  op[t].now < reservations[i].expiresAt
      BY DEF NoStaleHoldAtDecision
    <2>1. t \in Threads /\ Tells(t) /\ TypeOK /\ op[t] \in Op
      BY DEF AllTell, Threads, RecordInv, HistoryInv, IInv, TypeOK
    <2>2. op[t].kind = "reserve"
      BY <2>1, TellsKind DEF Tells, ConfirmTells, CancelTells, SweepTells, LoggingPoints, CriticalPoints
    <2>3. NothingMissed(t)
      BY <2>1, <2>2 DEF Tells
    <2>4. i \in DOMAIN reservations /\ IsActive(reservations[i]) /\ reservations[i].product = op[t].product
      BY DEF ReservationsIn, IsActive
    <2>5. reservations[i].expiresAt \in Int /\ op[t].now \in Int
      <3>1. reservations[i] \in Reservation
        BY <2>1, <2>4 DEF TypeOK, RepoTypeOK
      <3> QED BY <2>1, <3>1 DEF Reservation, Op
    <2> QED BY <2>3, <2>4, <2>5 DEF NothingMissed, Lapsed
  <1> QED BY <1>1, AnswerInvariance, PTL

(* What a call answers is true when it leaves the lock, for any clients,   *)
(* sweepers, products and stock: no interleaving makes a success answer    *)
(* stand for another state, or an error for another cause.                 *)
THEOREM AnswersTrue == Spec => []AnswersAreTrue
  <1>1. RecordInv /\ AllTell => AnswersAreTrue
    <2> SUFFICES ASSUME RecordInv, AllTell, NEW t \in Clients, pc[t] = "unlock"
        PROVE  LET state == reservations[op[t].res].state IN
               /\ Answered("reserve", "nil", t) => state = "Active"
               /\ Answered("reserve", "ErrOutOfStock", t) => AvailableStock(products[op[t].product]) = 0
               /\ Answered("confirm", "nil", t) => state = "Confirmed"
               /\ Answered("cancel", "nil", t) => state = "Cancelled"
               /\ Answered("confirm", "ErrReservationExpired", t) => state = "Expired"
               /\ Answered("confirm", "ErrReservationAlreadyFinalized", t)
                    => state \in {"Confirmed", "Cancelled"}
               /\ Answered("cancel", "ErrReservationAlreadyFinalized", t) => state \in TerminalStates
      BY DEF AnswersAreTrue, Answered
    <2>1. t \in Threads /\ Tells(t) /\ StockNeverNegative /\ TypeOK
      BY DEF AllTell, Threads, RecordInv, HistoryInv, IInv
    <2>2. SoldOut(t) => AvailableStock(products[op[t].product]) = 0
      <3> SUFFICES ASSUME SoldOut(t) PROVE AvailableStock(products[op[t].product]) = 0
        OBVIOUS
      <3> DEFINE p == op[t].product
      <3>1. p \in DOMAIN products /\ AvailableStock(products[p]) <= 0 /\ AvailableStock(products[p]) >= 0
        BY <2>1 DEF SoldOut, StockNeverNegative
      <3>2. products[p] \in ProductInventory
        BY <2>1, <3>1 DEF TypeOK, RepoTypeOK
      <3> HIDE DEF p
      <3>3. AvailableStock(products[p]) \in Int
        BY <3>2 DEF ProductInventory, AvailableStock
      <3> QED BY <3>1, <3>3 DEF p
    <2>3. /\ op[t].kind = "reserve" => ReserveTells(t)
          /\ op[t].kind = "confirm" => ConfirmTells(t)
          /\ op[t].kind = "cancel" => CancelTells(t)
      BY <2>1 DEF Tells, CriticalPoints
    <2> QED BY <2>2, <2>3
      DEF Answered, ReserveTells, ConfirmTells, CancelTells, Stands, TerminalStates, LoggingPoints
  <1> QED BY <1>1, AnswerInvariance, PTL

=============================================================================
