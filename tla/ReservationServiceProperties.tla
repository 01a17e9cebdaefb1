--------------------- MODULE ReservationServiceProperties ---------------------
(***************************************************************************)
(* What the reservation service promises: with any number of sweepers      *)
(* first, then what holds only while no sweeper runs.                      *)
(***************************************************************************)
EXTENDS ReservationService

Ledger == INSTANCE ReservationLedger

\* Between taking and giving back the lock of a product a thread is inside it.
Mutex == INSTANCE KeyedMutex WITH
  Keys <- ProductIDs, NoKey <- NoProduct, owner <- lock,
  inside <- [t \in Threads |-> IF pc[t] \in CriticalPoints THEN op[t].product ELSE NoProduct]

LockFree(p) == lock[p] = NoThread

\* The number of logged events of a type for a product among the first n.
Logged(type, p, n) ==
  Cardinality({k \in 1 .. n : events[k].type = type /\ events[k].product = p})

\* The two counters of a product, recomputed from the first n events.
LoggedConfirmed(p, n) == Logged("Confirmed", p, n)
LoggedActive(p, n) ==
  Logged("Reserved", p, n) - Logged("Confirmed", p, n)
    - Logged("Cancelled", p, n) - Logged("Expired", p, n)

ReservationsIn(state, p) ==
  {i \in DOMAIN reservations : reservations[i].product = p /\ reservations[i].state = state}

-----------------------------------------------------------------------------
(* SF-R2 (specs/01): whatever GetAvailableStock reads without the lock, at *)
(* any point of any call, it never answers a negative number, although the *)
(* counters may already be wrong.                                          *)
StockNeverNegative ==
  \A p \in DOMAIN products : AvailableStock(products[p]) >= 0

(* CO-R2 (specs/06): a step that writes the counters of a product, or a    *)
(* reservation of it, is a step of the thread that holds the product's     *)
(* lock.                                                                   *)
HolderSteps(p) == lock[p] # NoThread /\ pc'[lock[p]] # pc[lock[p]]

WritesUnderLock ==
  [][/\ \A p \in DOMAIN products : products'[p] # products[p] => HolderSteps(p)
     /\ \A i \in DOMAIN reservations' :
          (i \in DOMAIN reservations => reservations'[i] # reservations[i])
            => HolderSteps(reservations'[i].product)]_vars

(* The log accounts for the counters (appendEvent at the end of every      *)
(* critical section): while no call is in progress on a product, its       *)
(* counters are what replaying the event log gives.                        *)
CountersMatchLog ==
  \A p \in DOMAIN products : LockFree(p) =>
    /\ products[p].confirmedCount = LoggedConfirmed(p, Len(events))
    /\ products[p].activeReservationCount = LoggedActive(p, Len(events))

(* Decisions agree with the log order: a Reserved event stands only where  *)
(* the events of its product before it leave a unit free, a                *)
(* ReserveRejected event only where they leave none.                       *)
LogReplaysLegally ==
  \A k \in DOMAIN events :
    LET p == events[k].product
        free == Stock[p] - LoggedConfirmed(p, k - 1) - LoggedActive(p, k - 1)
    IN /\ events[k].type = "Reserved" => free > 0
       /\ events[k].type = "ReserveRejected" => free <= 0

(* Event ids are unique, and within a product they rise in log order,      *)
(* although a number is drawn and its event appended in two steps.         *)
EventIDsOrdered ==
  \A j, k \in DOMAIN events : j < k =>
    /\ events[j].id # events[k].id
    /\ events[j].product = events[k].product => events[j].id < events[k].id

(* recordShadow, which reads the product once more after the event was     *)
(* appended, still hands the recorder the counters as of that very event.  *)
ShadowMatchesLog ==
  \A k \in DOMAIN shadow : \E n \in DOMAIN events :
    /\ events[n].id = shadow[k].event
    /\ shadow[k].product.confirmedCount = LoggedConfirmed(events[n].product, n)
    /\ shadow[k].product.activeReservationCount = LoggedActive(events[n].product, n)

(* EX-R1, RL-R6 and CC-R2: nothing is confirmed at or after its expiry and *)
(* nothing expires before it, whatever clock reading the deciding call     *)
(* used: its own under the lock, or the time of a late tick.               *)
WindowRespected ==
  \A i \in DOMAIN reservations :
    /\ reservations[i].confirmedAt # NoTime
         => reservations[i].confirmedAt < reservations[i].expiresAt
    /\ reservations[i].expiredAt # NoTime
         => reservations[i].expiredAt >= reservations[i].expiresAt

(* EX-R3: when ReserveItem decides on the stock no hold that had lapsed by *)
(* its clock reading still takes a unit: a stale hold is never the reason  *)
(* of ErrOutOfStock.                                                       *)
NoStaleHoldAtDecision ==
  \A t \in Clients : pc[t] = "check" =>
    \A i \in ReservationsIn("Active", op[t].product) : op[t].now < reservations[i].expiresAt

(* The answer of a finished call is true of the stored reservation or of   *)
(* the product when the lock is released: success means the requested      *)
(* state, each error its cause.                                            *)
Answered(kind, err, t) == pc[t] = "unlock" /\ op[t].kind = kind /\ op[t].err = err

AnswersAreTrue ==
  \A t \in Clients :
    LET state == reservations[op[t].res].state IN
    /\ Answered("reserve", "nil", t) => state = "Active"
    /\ Answered("reserve", "ErrOutOfStock", t) => AvailableStock(products[op[t].product]) = 0
    /\ Answered("confirm", "nil", t) => state = "Confirmed"
    /\ Answered("cancel", "nil", t) => state = "Cancelled"
    /\ Answered("confirm", "ErrReservationExpired", t) => state = "Expired"
    /\ Answered("confirm", "ErrReservationAlreadyFinalized", t)
         => state \in {"Confirmed", "Cancelled"}
    /\ Answered("cancel", "ErrReservationAlreadyFinalized", t) => state \in TerminalStates

(* The one way out of a terminal state is the overwrite by a sweep of a    *)
(* reservation it had listed while Active; Expired itself is never left,   *)
(* and a stored reservation keeps its product and expiry for ever.         *)
OnlySweepOverwrites ==
  [][\A i \in DOMAIN reservations :
       /\ i \in DOMAIN reservations'
       /\ reservations'[i].product = reservations[i].product
       /\ reservations'[i].expiresAt = reservations[i].expiresAt
       /\ reservations[i].state \in TerminalStates /\ reservations'[i] # reservations[i]
            => /\ reservations'[i].state = "Expired"
               /\ \E s \in Sweepers : pc[s] = "expire" /\ i \in op[s].todo]_vars

(* docs/expiry-observability.md: each reservation that                     *)
(* inventory_expired_reservations_total counts has its Expired event in    *)
(* the log, although the total is counted in one step, logged in another   *)
(* and added to the metric when the sweep is over.                         *)
ExpiredMetricLogged ==
  expiredTotal <= Cardinality({k \in DOMAIN events : events[k].type = "Expired"})

-----------------------------------------------------------------------------
(* RL-R5 (specs/02) and CC-R7 (specs/04): a terminal reservation never     *)
(* changes again.                                                          *)
TerminalIsFinal ==
  [][\A i \in DOMAIN reservations :
       reservations[i].state \in TerminalStates => reservations'[i] = reservations[i]]_vars

(* CO-R4 (specs/06): the units held and sold never exceed the stock.       *)
NoOversell ==
  \A p \in DOMAIN products :
    Cardinality(ReservationsIn("Active", p)) + Cardinality(ReservationsIn("Confirmed", p))
      <= products[p].totalStock

(* RL-R1 to RL-R4: while no call is in progress on a product its counters  *)
(* count its Active and its Confirmed reservations.                        *)
CountersMatchReservations ==
  \A p \in DOMAIN products : LockFree(p) =>
    /\ products[p].activeReservationCount = Cardinality(ReservationsIn("Active", p))
    /\ products[p].confirmedCount = Cardinality(ReservationsIn("Confirmed", p))

(* Each reservation of a product at rest has one Reserved event, and after *)
(* it exactly one event of its terminal state if it is in one.             *)
EventsOf(i) == {k \in DOMAIN events : events[k].res = i}

LogMatchesReservations ==
  \A i \in DOMAIN reservations : LockFree(reservations[i].product) =>
    \E first \in EventsOf(i) :
      /\ events[first].type = "Reserved"
      /\ \/ IsActive(reservations[i]) /\ EventsOf(i) = {first}
         \/ \E last \in EventsOf(i) :
              /\ first < last /\ EventsOf(i) = {first, last}
              /\ events[last].type = reservations[i].state

-----------------------------------------------------------------------------
(* The service, whatever its interleavings, gives its clients the ledger:  *)
(* a reservation is granted at SaveReservation and finished at             *)
(* UpdateReservation.  Only while no sweeper runs.                         *)
ImplementsLedger == Ledger!Spec

(* The service uses its locks as LockManager offers them: a thread is in   *)
(* the closure of at most one product, whose lock it takes on the way in   *)
(* and gives back, itself, on every way out; no other step, of its own or  *)
(* of another thread, locks or unlocks a product.                          *)
UsesKeyedMutex == Mutex!Spec

(* Liveness.  Every thread that has something to do goes on doing it, and  *)
(* the ticker ticks.  A waiting thread needs no more than this to get the  *)
(* lock while the number of requests is bounded.                           *)
Fairness ==
  /\ \A t \in Clients : WF_vars(ClientStep(t))
  /\ \A s \in Sweepers : WF_vars(SweepStep(s)) /\ WF_vars(Tick(s))

FairSpec == Spec /\ Fairness

(* No call waits for ever on a product lock, and none keeps one.           *)
RequestsReturn == \A t \in Clients : pc[t] = "lock" ~> pc[t] = "idle"

\* A reservation id is drawn at most twice per request, and each reservation
\* costs at most two numbers for its expiry events.
LastID == 4 * MaxRequests

LapsedHold(i) ==
  /\ i \in DOMAIN reservations
  /\ reservations[i].state = "Active" /\ clock >= reservations[i].expiresAt

(* docs/expiry-observability.md: a lapsed hold of an idle product is       *)
(* released and its expiry logged by the sweep, without new traffic.       *)
LapsedHoldsReleased ==
  \A i \in 1 .. LastID :
    LapsedHold(i) ~> \E k \in DOMAIN events : events[k].res = i
                                             /\ events[k].type \in TerminalStates

=============================================================================
