---------------------------- MODULE DurableService ----------------------------
(***************************************************************************)
(* cmd/server with DATABASE_URL set: replicas of the reservation service   *)
(* over one database, which may crash and start again and whose statements *)
(* may fail.  All products are alike and share nothing but the id counter, *)
(* so there is one; its in-process lock lets a replica run one call at a   *)
(* time, and no replica sees the locks of another.  Every statement is a   *)
(* step.  A replica in Sweepers also runs the expiry sweeper (the others   *)
(* have --expiry-interval 0), whose list is read outside the lock.  The    *)
(* shadow recorder is the no-op that cmd/server installs, so its reads are *)
(* left out.                                                               *)
(***************************************************************************)
EXTENDS PostgresRepository, FiniteSets

CONSTANTS
  Replicas,
  Sweepers,      \* the replicas with a sweeper
  TotalStock,    \* the seeded stock
  Hold,          \* holdFor
  MaxRequests,   \* bound: requests started
  MaxSweeps,     \* bound: sweeps started
  MaxTime,       \* bound: the last value of the clock
  MaxCrashes,    \* bound: crashes and restarts
  MaxFaults      \* bound: statements that fail because of the connection

ASSUME DurableAssumption ==
  /\ TotalStock \in Nat /\ Hold \in Int \ {0}
  /\ Sweepers \subseteq Replicas /\ MaxSweeps \in Nat
  /\ MaxRequests \in Nat /\ MaxTime \in Nat /\ MaxCrashes \in Nat /\ MaxFaults \in Nat

VARIABLES
  clock, up, idCounter, pc, op,
  sweep,                               \* what a sweeper has listed, at which tick
  requests, sweeps, crashes, faults    \* what has been used of the bounds

\* What most steps leave alone.
restVars == <<clock, sweep, requests, sweeps, crashes>>
vars == <<dbVars, restVars, up, idCounter, pc, op, faults>>

NoOp == [kind |-> "none", res |-> NilID, found |-> TRUE, state |-> "Active", now |-> 0,
         todo |-> {}, event |-> "Reserved", err |-> "nil"]

NoSweep == [todo |-> {}, now |-> 0]

(* Every replica has started, in any order, and no request has come yet.   *)
Init ==
  /\ item = Seeded(TotalStock)
  /\ rows = [i \in {} |-> {}]
  /\ outbox = << >>
  /\ clock = 0
  /\ up = [r \in Replicas |-> TRUE]
  /\ idCounter = [r \in Replicas |-> 0]
  /\ pc = [r \in Replicas |-> "idle"]
  /\ op = [r \in Replicas |-> NoOp]
  /\ sweep = [r \in Replicas |-> NoSweep]
  /\ requests = 0 /\ sweeps = 0 /\ crashes = 0 /\ faults = 0

-----------------------------------------------------------------------------
(* The process and its connection.                                         *)

Fault == faults < MaxFaults /\ faults' = faults + 1

\* A statement or transaction, or its failure, which nobody notices.
Attempt(statement) == (statement /\ UNCHANGED faults) \/ (Fault /\ UNCHANGED dbVars)

\* A query that answers or fails.
Query(ok) == (IF ok THEN UNCHANGED faults ELSE Fault) /\ UNCHANGED dbVars

Goto(r, from, to) == pc[r] = from /\ pc' = [pc EXCEPT ![r] = to]

Crash(r) ==
  /\ up[r] /\ crashes < MaxCrashes
  /\ crashes' = crashes + 1
  /\ up' = [up EXCEPT ![r] = FALSE]
  /\ idCounter' = [idCounter EXCEPT ![r] = 0]
  /\ pc' = [pc EXCEPT ![r] = "idle"]
  /\ op' = [op EXCEPT ![r] = NoOp]
  /\ sweep' = [sweep EXCEPT ![r] = NoSweep]
  /\ UNCHANGED <<dbVars, clock, requests, sweeps, faults>>

(* The migrations are applied; the product is seeded again.  *)
Start(r) ==
  /\ ~ up[r]
  /\ up' = [up EXCEPT ![r] = TRUE]
  /\ Attempt(AddProduct(TotalStock))
  /\ UNCHANGED <<restVars, idCounter, pc, op>>

Begin(r, kind, id) ==
  /\ up[r] /\ requests < MaxRequests
  /\ requests' = requests + 1
  /\ op' = [op EXCEPT ![r] = [NoOp EXCEPT !.kind = kind, !.res = id, !.now = clock]]
  /\ UNCHANGED <<dbVars, clock, sweep, up, idCounter, sweeps, crashes, faults>>

-----------------------------------------------------------------------------
(* ReserveItem.                                                            *)

LapsedAt(now) == {i \in ActiveReservations : Lapsed(rows[i], now)}

BeginReserve(r) == Goto(r, "idle", "list") /\ Begin(r, "reserve", NilID)

ListStale(r) ==
  /\ Goto(r, "list", "expire")
  /\ \E ok \in BOOLEAN :
       /\ Query(ok)
       /\ \E todo \in ScanReservations(LapsedAt(op[r].now), ok) :
            op' = [op EXCEPT ![r].todo = todo]
  /\ UNCHANGED <<restVars, up, idCounter>>

(* GetProduct: a failed query is taken for an unknown product.             *)
CheckStock(r) ==
  /\ op[r].kind = "reserve" /\ op[r].todo = {}
  /\ \E ok \in BOOLEAN :
       /\ Query(ok)
       /\ \/ /\ ~ ok
             /\ Goto(r, "expire", "answer")
             /\ op' = [op EXCEPT ![r].err = "ErrProductNotFound"]
             /\ UNCHANGED idCounter
          \/ /\ ok /\ AvailableStock(item) <= 0
             /\ Goto(r, "expire", "append")
             /\ op' = [op EXCEPT ![r].err = "ErrOutOfStock", ![r].event = "ReserveRejected",
                                 ![r].res = NilID, ![r].found = TRUE]
             /\ UNCHANGED idCounter
          \/ /\ ok /\ AvailableStock(item) > 0
             /\ Goto(r, "expire", "save")
             /\ idCounter' = [idCounter EXCEPT ![r] = @ + 1]
             /\ op' = [op EXCEPT ![r].event = "Reserved", ![r].res = idCounter[r] + 1,
                                 ![r].found = TRUE]
  /\ UNCHANGED <<restVars, up>>

SaveReserved(r) ==
  /\ Goto(r, "save", "hold")
  /\ Attempt(SaveReservation(op[r].res, op[r].now, op[r].now + Hold))
  /\ UNCHANGED <<restVars, up, idCounter, op>>

HoldUnit(r) ==
  /\ Goto(r, "hold", "append")
  /\ Attempt(UpdateProduct(1, 0))
  /\ UNCHANGED <<restVars, up, idCounter, op>>

-----------------------------------------------------------------------------
(* ConfirmReservation and CancelReservation.                               *)

(* A failed lookup is taken for an unknown reservation: an answer without  *)
(* effect, like the one for an id that is not stored.                      *)
BeginFinalize(r) ==
  /\ Goto(r, "idle", "fetch")
  /\ \E kind \in {"confirm", "cancel"}, i \in DOMAIN rows : Begin(r, kind, i)

\* Mutant of Fetch: the reservation is taken to be Active, as it was found.
FetchNothing(r) ==
  /\ Goto(r, "fetch", "decide")
  /\ UNCHANGED <<dbVars, restVars, up, idCounter, op, faults>>

\* The second GetReservation; if it fails the state is the empty string.
Fetch(r) ==
  /\ Goto(r, "fetch", "decide")
  /\ \E ok \in BOOLEAN :
       /\ Query(ok)
       /\ op' = [op EXCEPT ![r].state = IF ok THEN rows[op[r].res].state ELSE ""]
  /\ UNCHANGED <<restVars, up, idCounter>>

(* The decision on the row as it was fetched, at the clock read after it.  *)
Decide(r) ==
  LET lapsed == Lapsed(rows[op[r].res], clock)
      confirm == op[r].kind = "confirm"
      active == op[r].state = "Active"
  IN
  /\ \/ /\ active /\ confirm /\ lapsed
        /\ Goto(r, "decide", "expire")
        /\ op' = [op EXCEPT ![r].now = clock, ![r].todo = {op[r].res},
                            ![r].err = "ErrReservationExpired"]
     \/ /\ active /\ confirm /\ ~ lapsed
        /\ Goto(r, "decide", "finish")
        /\ op' = [op EXCEPT ![r].now = clock, ![r].event = "Confirmed"]
     \/ /\ active /\ ~ confirm
        /\ Goto(r, "decide", "finish")
        /\ op' = [op EXCEPT ![r].now = clock, ![r].event = "Cancelled"]
     \/ /\ ~ active
        /\ Goto(r, "decide", "answer")
        /\ op' = [op EXCEPT ![r].err = IF confirm /\ op[r].state = "Expired"
                                       THEN "ErrReservationExpired"
                                       ELSE "ErrReservationAlreadyFinalized"]
  /\ UNCHANGED <<dbVars, restVars, up, idCounter, faults>>

\* expireReservationLocked first reads the reservation, for its product.
BeginExpiry(r) ==
  /\ Goto(r, "expire", "finish")
  /\ \E i \in op[r].todo, ok \in BOOLEAN :
       /\ Query(ok)
       /\ op' = [op EXCEPT ![r].res = i, ![r].todo = @ \ {i}, ![r].found = ok,
                           ![r].event = "Expired"]
  /\ UNCHANGED <<restVars, up, idCounter>>

Finish(r) ==
  /\ Goto(r, "finish", "release")
  /\ Attempt(UpdateReservation(op[r].res, op[r].event, op[r].now))
  /\ UNCHANGED <<restVars, up, idCounter, op>>

\* Mutant of Release: the hold of a confirmed reservation is not released.
ReleaseUnsold(r) ==
  /\ Goto(r, "release", "append")
  /\ Attempt(UpdateProduct(IF op[r].event = "Confirmed" THEN 0 ELSE -1,
                           IF op[r].event = "Confirmed" THEN 1 ELSE 0))
  /\ UNCHANGED <<restVars, up, idCounter, op>>

\* A reservation that was not found names the product "", which has no row.
Release(r) ==
  /\ Goto(r, "release", "append")
  /\ IF op[r].found
     THEN Attempt(UpdateProduct(-1, IF op[r].event = "Confirmed" THEN 1 ELSE 0))
     ELSE UNCHANGED <<dbVars, faults>>
  /\ UNCHANGED <<restVars, up, idCounter, op>>

-----------------------------------------------------------------------------

EventOf(r) ==
  [id |-> idCounter[r] + 1, type |-> op[r].event, at |-> op[r].now,
   res |-> IF op[r].found THEN op[r].res ELSE EmptyID]

\* Mutant of AppendEventStep: the number is not taken from the counter.
AppendSameNumber(r) ==
  /\ Goto(r, "append", IF op[r].event = "Expired" THEN "expire" ELSE "answer")
  /\ Attempt(AppendEvent(EventOf(r)))
  /\ UNCHANGED <<restVars, up, op, idCounter>>

\* Draws the number and inserts; an expiry goes back to its loop.
AppendEventStep(r) ==
  /\ Goto(r, "append", IF op[r].event = "Expired" THEN "expire" ELSE "answer")
  /\ idCounter' = [idCounter EXCEPT ![r] = @ + 1]
  /\ Attempt(AppendEvent(EventOf(r)))
  /\ UNCHANGED <<restVars, up, op>>

ConfirmExpiryDone(r) ==
  /\ op[r].kind = "confirm" /\ op[r].todo = {}
  /\ Goto(r, "expire", "answer")
  /\ UNCHANGED <<dbVars, restVars, up, idCounter, op, faults>>

\* Mutant of Answer: the way out with an error does not unlock.
AnswerHolding(r) ==
  /\ Goto(r, "answer", IF op[r].err = "nil" THEN "idle" ELSE "kept")
  /\ op' = [op EXCEPT ![r] = NoOp]
  /\ UNCHANGED <<dbVars, restVars, up, idCounter, faults>>

Answer(r) ==
  /\ Goto(r, "answer", "idle")
  /\ op' = [op EXCEPT ![r] = NoOp]
  /\ UNCHANGED <<dbVars, restVars, up, idCounter, faults>>

-----------------------------------------------------------------------------
(* ExpireReservations, called by the sweeper beside the request.           *)

(* The list of the lapsed holds as of a tick, which may have waited in its *)
(* channel.  No lock is held, and what is listed is used later.            *)
ListSweep(r) ==
  /\ up[r] /\ r \in Sweepers /\ sweep[r] = NoSweep /\ op[r].kind # "sweep"
  /\ sweeps < MaxSweeps /\ sweeps' = sweeps + 1
  /\ \E now \in 0 .. clock, ok \in BOOLEAN :
       /\ Query(ok)
       /\ \E todo \in ScanReservations(LapsedAt(now), ok) :
            sweep' = IF todo = {} THEN sweep
                     ELSE [sweep EXCEPT ![r] = [todo |-> todo, now |-> now]]
  /\ UNCHANGED <<clock, up, idCounter, pc, op, requests, crashes>>

\* The product's lock is taken and the list gone through as it was read.
LockSweep(r) ==
  /\ sweep[r] # NoSweep
  /\ Goto(r, "idle", "expire")
  /\ op' = [op EXCEPT ![r] = [NoOp EXCEPT !.kind = "sweep", !.todo = sweep[r].todo,
                                          !.now = sweep[r].now]]
  /\ sweep' = [sweep EXCEPT ![r] = NoSweep]
  /\ UNCHANGED <<dbVars, clock, up, idCounter, requests, sweeps, crashes, faults>>

UnlockSweep(r) ==
  /\ op[r].kind = "sweep" /\ op[r].todo = {}
  /\ Goto(r, "expire", "idle")
  /\ op' = [op EXCEPT ![r] = NoOp]
  /\ UNCHANGED <<dbVars, restVars, up, idCounter, faults>>

SweepStep(r) == ListSweep(r) \/ LockSweep(r) \/ UnlockSweep(r)

-----------------------------------------------------------------------------

AdvanceClock ==
  /\ clock < MaxTime
  /\ clock' = clock + 1
  /\ UNCHANGED <<dbVars, up, idCounter, pc, op, sweep, requests, sweeps, crashes, faults>>

\* The bounds are used up, every replica is up and nobody calls.
Quiescent ==
  /\ requests = MaxRequests /\ clock = MaxTime /\ crashes = MaxCrashes
  /\ \A r \in Replicas : up[r] /\ pc[r] = "idle"
  /\ UNCHANGED vars

\* The steps inside a call, until its answer.
CallStep(r) ==
  \/ ListStale(r) \/ CheckStock(r) \/ SaveReserved(r) \/ HoldUnit(r)
  \/ Fetch(r) \/ Decide(r)
  \/ BeginExpiry(r) \/ Finish(r) \/ Release(r) \/ AppendEventStep(r) \/ ConfirmExpiryDone(r)

Step(r) == BeginReserve(r) \/ BeginFinalize(r) \/ CallStep(r) \/ Answer(r)

Next ==
  \/ \E r \in Replicas : Step(r) \/ SweepStep(r) \/ Crash(r) \/ Start(r)
  \/ AdvanceClock \/ Quiescent

Spec == Init /\ [][Next]_vars

=============================================================================
