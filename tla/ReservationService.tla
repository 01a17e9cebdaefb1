-------------------------- MODULE ReservationService --------------------------
(***************************************************************************)
(* application.ReservationService over an InMemoryRepository, called by    *)
(* concurrent HTTP handlers (Clients) and by runExpirySweeper (Sweepers,   *)
(* empty when --expiry-interval is 0).                                     *)
(*                                                                         *)
(* A thread runs one call at a time.  pc[t] says what it does next and     *)
(* op[t] holds the local variables of the call.  Every repository call,    *)
(* every lock operation and every draw from idCounter is a step of its     *)
(* own, so calls interleave wherever the code lets them.  A read that      *)
(* directly follows the acquisition of the product's lock is part of that  *)
(* step: until the lock is released no other thread writes what it reads   *)
(* (WritesUnderLock states this and TLC checks it).                        *)
(***************************************************************************)
EXTENDS InMemoryRepository, FiniteSets

CONSTANTS
  Clients,       \* goroutines that serve requests
  Sweepers,      \* goroutines that run runExpirySweeper
  Hold,          \* holdFor, in clock units
  NoThread,      \* the owner of a free lock
  NoProduct,     \* the product of an idle thread
  MaxRequests,   \* bound: requests started in a behaviour
  MaxTime        \* bound: the last value of the clock

\* The constructor turns a zero hold into the default; it accepts a negative one.
ASSUME HoldAssumption == Hold \in Int \ {0}

ASSUME ThreadAssumption ==
  /\ Clients \cap Sweepers = {}
  /\ NoThread \notin Clients \cup Sweepers
  /\ NoProduct \notin ProductIDs

ASSUME BoundAssumption == MaxRequests \in Nat /\ MaxTime \in Nat

VARIABLES
  clock,         \* infrastructure.Clock
  idCounter,     \* numbers both reservation and event ids
  lock,          \* product -> the thread that holds its mutex
  pc, op,        \* thread -> control point and local variables
  requests,      \* number of requests started so far
  tick,          \* sweeper -> the time buffered in its ticker's channel
  shadow,        \* the records handed to the ShadowRecorder
  expiredTotal   \* inventory_expired_reservations_total

vars == <<products, reservations, events, clock, idCounter, lock, pc, op,
          requests, tick, shadow, expiredTotal>>

Threads == Clients \cup Sweepers

Kinds == {"none", "reserve", "confirm", "cancel", "sweep"}

Errors == {"nil", "ErrProductNotFound", "ErrOutOfStock", "ErrReservationExpired",
           "ErrReservationAlreadyFinalized"}

Op == [kind : Kinds, product : ProductIDs \cup {NoProduct}, res : Nat, now : Int,
       todo : SUBSET Nat, event : EventTypes, eventID : Nat, err : Errors, total : Nat]

NoOp == [kind |-> "none", product |-> NoProduct, res |-> 0, now |-> 0, todo |-> {},
         event |-> "Reserved", eventID |-> 0, err |-> "nil", total |-> 0]

\* Control points of a thread that holds the lock of op[t].product.
CriticalPoints == {"expire", "check", "save", "hold", "confirm", "sell", "cancel",
                   "release", "eventID", "append", "shadow", "unlock"}

ControlPoints == {"idle", "lock", "snapshot", "next"} \cup CriticalPoints

ShadowRecord == [event : Nat, product : ProductInventory]

TypeOK ==
  /\ RepoTypeOK
  /\ clock \in Nat
  /\ idCounter \in Nat
  /\ lock \in [ProductIDs -> Threads \cup {NoThread}]
  /\ pc \in [Threads -> ControlPoints]
  /\ op \in [Threads -> Op]
  /\ requests \in Nat
  /\ tick \in [Sweepers -> Int]
  /\ shadow \in Seq(ShadowRecord)
  /\ expiredTotal \in Nat

Init ==
  /\ RepoInit
  /\ clock = 0
  /\ idCounter = 0
  /\ lock = [p \in ProductIDs |-> NoThread]
  /\ pc = [t \in Threads |-> "idle"]
  /\ op = [t \in Threads |-> NoOp]
  /\ requests = 0
  /\ tick = [s \in Sweepers |-> NoTime]
  /\ shadow = << >>
  /\ expiredTotal = 0

-----------------------------------------------------------------------------
(* Steps of any thread.                                                    *)

Goto(t, from, to) == pc[t] = from /\ pc' = [pc EXCEPT ![t] = to]

\* Mutant of Acquire: the thread does not wait for the holder.
AcquireBusy(t, to) ==
  /\ Goto(t, "lock", to)
  /\ lock' = [lock EXCEPT ![op[t].product] = t]

\* LockManager.With: the mutex of the product is free and t takes it.
Acquire(t, to) ==
  /\ Goto(t, "lock", to)
  /\ lock[op[t].product] = NoThread
  /\ lock' = [lock EXCEPT ![op[t].product] = t]

\* Mutant of Release: the mutex stays locked.
ReleaseNever(t, to) == Goto(t, "unlock", to) /\ UNCHANGED lock

\* The deferred Unlock of LockManager.With.
Release(t, to) ==
  /\ Goto(t, "unlock", to)
  /\ lock' = [lock EXCEPT ![op[t].product] = NoThread]

LapsedOf(ids, now) == {i \in ids : Lapsed(reservations[i], now)}

\* The reservations the loop around expireReservationLocked still has to visit.
Remaining(t) == {i \in op[t].todo : reservations[i].product = op[t].product}

\* What a thread leaves alone between the start and the end of its call.
envVars == <<clock, requests, tick, expiredTotal>>

(* expireReservationLocked, one repository call per step.  The reservation *)
(* is overwritten whatever its state: the callee trusts its caller.  Only  *)
(* a sweep reports the total.                                              *)
ExpireReservation(t) ==
  \E i \in Remaining(t) :
    /\ Goto(t, "expire", "release")
    /\ MarkExpired(i, op[t].now)
    /\ op' = [op EXCEPT ![t].res = i, ![t].todo = @ \ {i}, ![t].event = "Expired",
                        ![t].total = @ + 1]
    /\ UNCHANGED <<products, events, idCounter, lock, shadow, envVars>>

\* ActiveReservationCount-- of an expired or cancelled reservation.
ReleaseHold(t) ==
  /\ Goto(t, "release", "eventID")
  /\ UpdateProduct(reservations[op[t].res].product, -1, 0)
  /\ UNCHANGED <<reservations, events, op, idCounter, lock, shadow, envVars>>

\* Mutant of NextEventID: the counter is read but not advanced.
EventIDNotTaken(t) ==
  /\ Goto(t, "eventID", "append")
  /\ op' = [op EXCEPT ![t].eventID = idCounter + 1]
  /\ UNCHANGED <<repoVars, idCounter, lock, shadow, envVars>>

\* appendEvent draws its number first ...
NextEventID(t) ==
  /\ Goto(t, "eventID", "append")
  /\ idCounter' = idCounter + 1
  /\ op' = [op EXCEPT ![t].eventID = idCounter + 1]
  /\ UNCHANGED <<repoVars, lock, shadow, envVars>>

\* Mutant of EventOf: a lapsed confirmation is logged as what was asked for.
EventAsked(t) ==
  [id |-> op[t].eventID, type |-> IF op[t].kind = "confirm" THEN "Confirmed" ELSE op[t].event,
   product |-> op[t].product, res |-> op[t].res, at |-> op[t].now]

EventOf(t) ==
  [id |-> op[t].eventID, type |-> op[t].event, product |-> op[t].product,
   res |-> op[t].res, at |-> op[t].now]

\* ... and then appends; a rejection has no shadow record.
AppendEventStep(t) ==
  /\ \/ op[t].event # "ReserveRejected" /\ Goto(t, "append", "shadow")
     \/ op[t].event = "ReserveRejected" /\ Goto(t, "append", "unlock")
  /\ AppendEvent(EventOf(t))
  /\ UNCHANGED <<products, reservations, op, idCounter, lock, shadow, envVars>>

\* recordShadow reads the product again; an expiry then returns to its loop.
RecordShadow(t) ==
  /\ \/ op[t].event = "Expired" /\ Goto(t, "shadow", "expire")
     \/ op[t].event # "Expired" /\ Goto(t, "shadow", "unlock")
  /\ shadow' = Append(shadow, [event |-> op[t].eventID,
                               product |-> products[reservations[op[t].res].product]])
  /\ UNCHANGED <<repoVars, op, idCounter, lock, envVars>>

\* The closure has returned: unlock and answer the caller.
Return(t) ==
  /\ op[t].kind # "sweep"
  /\ Release(t, "idle")
  /\ op' = [op EXCEPT ![t] = NoOp]
  /\ UNCHANGED <<repoVars, idCounter, shadow, envVars>>

-----------------------------------------------------------------------------
(* ReserveItem.                                                            *)

BeginReserve(t) ==
  /\ requests < MaxRequests
  /\ requests' = requests + 1
  /\ Goto(t, "idle", "lock")
  /\ \E p \in ProductIDs :
       op' = [op EXCEPT ![t] = [NoOp EXCEPT !.kind = "reserve", !.product = p]]
  /\ UNCHANGED <<repoVars, clock, idCounter, lock, tick, shadow, expiredTotal>>

\* Takes the lock, reads the clock and lists the stale holds of the product.
LockReserve(t) ==
  /\ op[t].kind = "reserve"
  /\ Acquire(t, "expire")
  /\ op' = [op EXCEPT ![t].now = clock,
              ![t].todo = LapsedOf(ActiveReservationsByProduct(op[t].product), clock)]
  /\ UNCHANGED <<repoVars, idCounter, shadow, envVars>>

LazyExpiryDone(t) ==
  /\ op[t].kind = "reserve"
  /\ Remaining(t) = {}
  /\ Goto(t, "expire", "check")
  /\ op' = [op EXCEPT ![t].res = 0]
  /\ UNCHANGED <<repoVars, idCounter, lock, shadow, envVars>>

\* Mutant of RejectUnknownProduct: the rejection is logged although there is
\* no such product.
LogUnknownProduct(t) ==
  /\ op[t].product \notin DOMAIN products
  /\ Goto(t, "check", "eventID")
  /\ op' = [op EXCEPT ![t].err = "ErrProductNotFound", ![t].event = "ReserveRejected"]
  /\ UNCHANGED <<repoVars, idCounter, lock, shadow, envVars>>

RejectUnknownProduct(t) ==
  /\ op[t].product \notin DOMAIN products
  /\ Goto(t, "check", "unlock")
  /\ op' = [op EXCEPT ![t].err = "ErrProductNotFound"]
  /\ UNCHANGED <<repoVars, idCounter, lock, shadow, envVars>>

RejectOutOfStock(t) ==
  /\ op[t].product \in DOMAIN products
  /\ AvailableStock(products[op[t].product]) <= 0
  /\ Goto(t, "check", "eventID")
  /\ op' = [op EXCEPT ![t].err = "ErrOutOfStock", ![t].event = "ReserveRejected"]
  /\ UNCHANGED <<repoVars, idCounter, lock, shadow, envVars>>

\* Mutant of NextReservationID: one unit too many is granted.
NextReservationIDAtZero(t) ==
  /\ op[t].product \in DOMAIN products
  /\ AvailableStock(products[op[t].product]) >= 0
  /\ Goto(t, "check", "save")
  /\ idCounter' = idCounter + 1
  /\ op' = [op EXCEPT ![t].res = idCounter + 1, ![t].event = "Reserved"]
  /\ UNCHANGED <<repoVars, lock, shadow, envVars>>

NextReservationID(t) ==
  /\ op[t].product \in DOMAIN products
  /\ AvailableStock(products[op[t].product]) > 0
  /\ Goto(t, "check", "save")
  /\ idCounter' = idCounter + 1
  /\ op' = [op EXCEPT ![t].res = idCounter + 1, ![t].event = "Reserved"]
  /\ UNCHANGED <<repoVars, lock, shadow, envVars>>

SaveReserved(t) ==
  /\ Goto(t, "save", "hold")
  /\ SaveReservation(op[t].res,
       [product |-> op[t].product, state |-> "Active", expiresAt |-> op[t].now + Hold,
        confirmedAt |-> NoTime, cancelledAt |-> NoTime, expiredAt |-> NoTime])
  /\ UNCHANGED <<products, events, op, idCounter, lock, shadow, envVars>>

HoldUnit(t) ==
  /\ Goto(t, "hold", "eventID")
  /\ UpdateProduct(op[t].product, 1, 0)
  /\ UNCHANGED <<reservations, events, op, idCounter, lock, shadow, envVars>>

-----------------------------------------------------------------------------
(* ConfirmReservation and CancelReservation.                               *)

\* The reservation's product is looked up before the lock is taken.
BeginFinalize(t) ==
  /\ requests < MaxRequests
  /\ requests' = requests + 1
  /\ Goto(t, "idle", "lock")
  /\ \E k \in {"confirm", "cancel"}, i \in DOMAIN reservations :
       op' = [op EXCEPT ![t] = [NoOp EXCEPT !.kind = k, !.res = i,
                                            !.product = reservations[i].product]]
  /\ UNCHANGED <<repoVars, clock, idCounter, lock, tick, shadow, expiredTotal>>

\* A client may name an id that is not stored, or not yet: the answer is
\* ErrReservationNotFound and no lock is taken.
RejectUnknownReservation(t) ==
  /\ requests < MaxRequests
  /\ pc[t] = "idle"
  /\ requests' = requests + 1
  /\ UNCHANGED <<repoVars, clock, idCounter, lock, pc, op, tick, shadow, expiredTotal>>

\* Mutant of LockConfirm: the expiry is not looked at.
LockConfirmAtAnyTime(t) ==
  /\ op[t].kind = "confirm"
  /\ IsActive(reservations[op[t].res])
  /\ Acquire(t, "confirm")
  /\ op' = [op EXCEPT ![t].now = clock]
  /\ UNCHANGED <<repoVars, idCounter, shadow, envVars>>

\* Re-fetched under the lock, the reservation is still a live hold.
LockConfirm(t) ==
  LET current == reservations[op[t].res] IN
  /\ op[t].kind = "confirm"
  /\ IsActive(current) /\ ~ Lapsed(current, clock)
  /\ Acquire(t, "confirm")
  /\ op' = [op EXCEPT ![t].now = clock]
  /\ UNCHANGED <<repoVars, idCounter, shadow, envVars>>

\* It has outlived its hold: expire it in place of confirming it.
LockConfirmLapsed(t) ==
  LET current == reservations[op[t].res] IN
  /\ op[t].kind = "confirm"
  /\ IsActive(current) /\ Lapsed(current, clock)
  /\ Acquire(t, "expire")
  /\ op' = [op EXCEPT ![t].now = clock, ![t].todo = {op[t].res},
                      ![t].err = "ErrReservationExpired"]
  /\ UNCHANGED <<repoVars, idCounter, shadow, envVars>>

ConfirmExpiryDone(t) ==
  /\ op[t].kind = "confirm"
  /\ Remaining(t) = {}
  /\ Goto(t, "expire", "unlock")
  /\ UNCHANGED <<repoVars, op, idCounter, lock, shadow, envVars>>

\* Mutant of LockCancel: the state read before the lock is trusted.
LockCancelBlindly(t) ==
  /\ op[t].kind = "cancel"
  /\ Acquire(t, "cancel")
  /\ op' = [op EXCEPT ![t].now = clock]
  /\ UNCHANGED <<repoVars, idCounter, shadow, envVars>>

\* Cancel reads no clock before this test: a lapsed hold is still cancelled.
LockCancel(t) ==
  /\ op[t].kind = "cancel"
  /\ IsActive(reservations[op[t].res])
  /\ Acquire(t, "cancel")
  /\ op' = [op EXCEPT ![t].now = clock]
  /\ UNCHANGED <<repoVars, idCounter, shadow, envVars>>

\* Mutant of FinalizedError: an expired reservation is answered like the others.
OneFinalizedError(kind, state) == "ErrReservationAlreadyFinalized"

\* The error for a reservation that is no longer active.
FinalizedError(kind, state) ==
  IF kind = "confirm" /\ state = "Expired" THEN "ErrReservationExpired"
                                           ELSE "ErrReservationAlreadyFinalized"

RejectFinalized(t) ==
  LET current == reservations[op[t].res] IN
  /\ op[t].kind \in {"confirm", "cancel"}
  /\ ~ IsActive(current)
  /\ Acquire(t, "unlock")
  /\ op' = [op EXCEPT ![t].err = FinalizedError(op[t].kind, current.state)]
  /\ UNCHANGED <<repoVars, idCounter, shadow, envVars>>

Confirm(t) ==
  /\ Goto(t, "confirm", "sell")
  /\ MarkConfirmed(op[t].res, op[t].now)
  /\ op' = [op EXCEPT ![t].event = "Confirmed"]
  /\ UNCHANGED <<products, events, idCounter, lock, shadow, envVars>>

\* ActiveReservationCount-- and ConfirmedCount++ in one callback.
Sell(t) ==
  /\ Goto(t, "sell", "eventID")
  /\ UpdateProduct(reservations[op[t].res].product, -1, 1)
  /\ UNCHANGED <<reservations, events, op, idCounter, lock, shadow, envVars>>

Cancel(t) ==
  /\ Goto(t, "cancel", "release")
  /\ MarkCancelled(op[t].res, op[t].now)
  /\ op' = [op EXCEPT ![t].event = "Cancelled"]
  /\ UNCHANGED <<products, events, idCounter, lock, shadow, envVars>>

-----------------------------------------------------------------------------
(* runExpirySweeper and ExpireReservations.                                *)

\* The ticker's channel holds one time; a tick that finds it full is dropped.
Tick(s) ==
  /\ tick[s] = NoTime
  /\ tick' = [tick EXCEPT ![s] = clock]
  /\ UNCHANGED <<repoVars, clock, idCounter, lock, pc, op, requests, shadow, expiredTotal>>

\* Mutant of ReceiveTick: every sweep runs at the time of the first tick.
ReceiveFirstTick(s) ==
  /\ tick[s] # NoTime
  /\ Goto(s, "idle", "snapshot")
  /\ op' = [op EXCEPT ![s] = [NoOp EXCEPT !.kind = "sweep", !.now = tick[s]]]
  /\ UNCHANGED <<repoVars, clock, idCounter, lock, requests, tick, shadow, expiredTotal>>

\* The sweep runs at the time of the tick, however late it is received.
ReceiveTick(s) ==
  /\ tick[s] # NoTime
  /\ Goto(s, "idle", "snapshot")
  /\ op' = [op EXCEPT ![s] = [NoOp EXCEPT !.kind = "sweep", !.now = tick[s]]]
  /\ tick' = [tick EXCEPT ![s] = NoTime]
  /\ UNCHANGED <<repoVars, clock, idCounter, lock, requests, shadow, expiredTotal>>

\* Mutant of Snapshot: the total counts a hold when it is listed, too.
SnapshotCounting(s) ==
  LET lapsed == LapsedOf(AllActiveReservations, op[s].now) IN
  /\ Goto(s, "snapshot", "next")
  /\ op' = [op EXCEPT ![s].todo = lapsed, ![s].total = Cardinality(lapsed)]
  /\ UNCHANGED <<repoVars, idCounter, lock, shadow, envVars>>

\* Lists the lapsed holds of all products before it takes any lock.
Snapshot(s) ==
  /\ Goto(s, "snapshot", "next")
  /\ op' = [op EXCEPT ![s].todo = LapsedOf(AllActiveReservations, op[s].now)]
  /\ UNCHANGED <<repoVars, idCounter, lock, shadow, envVars>>

\* Products are visited in the order of a Go map, so in any order.
NextProduct(s) ==
  /\ Goto(s, "next", "lock")
  /\ \E i \in op[s].todo : op' = [op EXCEPT ![s].product = reservations[i].product]
  /\ UNCHANGED <<repoVars, idCounter, lock, shadow, envVars>>

\* The listed reservations are not read again.
LockSweep(s) ==
  /\ op[s].kind = "sweep"
  /\ Acquire(s, "expire")
  /\ UNCHANGED <<repoVars, op, idCounter, shadow, envVars>>

SweepExpiryDone(s) ==
  /\ op[s].kind = "sweep"
  /\ Remaining(s) = {}
  /\ Goto(s, "expire", "unlock")
  /\ UNCHANGED <<repoVars, op, idCounter, lock, shadow, envVars>>

UnlockSweep(s) ==
  /\ op[s].kind = "sweep"
  /\ Release(s, "next")
  /\ UNCHANGED <<repoVars, op, idCounter, shadow, envVars>>

\* RecordExpirySweep adds the number ExpireReservations returned.
EndSweep(s) ==
  /\ op[s].todo = {}
  /\ Goto(s, "next", "idle")
  /\ op' = [op EXCEPT ![s] = NoOp]
  /\ expiredTotal' = expiredTotal + op[s].total
  /\ UNCHANGED <<repoVars, clock, idCounter, lock, requests, tick, shadow>>

-----------------------------------------------------------------------------
(* The environment and the specification.                                  *)

AdvanceClock ==
  /\ clock < MaxTime
  /\ clock' = clock + 1
  /\ UNCHANGED <<repoVars, idCounter, lock, pc, op, requests, tick, shadow, expiredTotal>>

\* Without a sweeper the server comes to rest when the bounds are used up.
Quiescent ==
  /\ Sweepers = {}
  /\ requests = MaxRequests /\ clock = MaxTime
  /\ \A t \in Threads : pc[t] = "idle"
  /\ UNCHANGED vars

Request(t) == BeginReserve(t) \/ BeginFinalize(t) \/ RejectUnknownReservation(t)

ReserveStep(t) ==
  \/ LockReserve(t) \/ LazyExpiryDone(t)
  \/ RejectUnknownProduct(t) \/ RejectOutOfStock(t)
  \/ NextReservationID(t) \/ SaveReserved(t) \/ HoldUnit(t)

FinalizeStep(t) ==
  \/ LockConfirm(t) \/ LockConfirmLapsed(t) \/ ConfirmExpiryDone(t)
  \/ LockCancel(t) \/ RejectFinalized(t)
  \/ Confirm(t) \/ Sell(t) \/ Cancel(t)

SharedStep(t) ==
  \/ ExpireReservation(t) \/ ReleaseHold(t)
  \/ NextEventID(t) \/ AppendEventStep(t) \/ RecordShadow(t)

ClientStep(t) == SharedStep(t) \/ ReserveStep(t) \/ FinalizeStep(t) \/ Return(t)

SweepStep(s) ==
  \/ SharedStep(s)
  \/ ReceiveTick(s) \/ Snapshot(s) \/ NextProduct(s) \/ LockSweep(s)
  \/ SweepExpiryDone(s) \/ UnlockSweep(s) \/ EndSweep(s)

Next ==
  \/ \E t \in Clients : Request(t) \/ ClientStep(t)
  \/ \E s \in Sweepers : Tick(s) \/ SweepStep(s)
  \/ AdvanceClock
  \/ Quiescent

Spec == Init /\ [][Next]_vars

=============================================================================
