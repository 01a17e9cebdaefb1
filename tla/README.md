# Verification of the inventory reservation system

TLA+ models of the Go program under `src/`: a reservation service that grants
short holds on products of limited stock, confirms, cancels or expires them, and
keeps an append-only event log. It runs over maps in memory or over PostgreSQL.
The models are checked with TLC on small instances; the properties that matter
most for every instance are proved with TLAPS.

## 1. The system

| Part | State | Operations | Talks to |
|---|---|---|---|
| domain types (`internal/domain`) | none | `AvailableStock`, `IsActive`, error and event values | used by all |
| `InMemoryRepository` | products, reservations, events, under one RWMutex | add, get, update, save, append, list | called by the service, one call at a time |
| `PostgresRepository` | tables `inventory_items`, `reservations`, `outbox_events` | the same methods, a statement or a transaction each | PostgreSQL; errors of most writes are logged or returned to a caller that drops them |
| `LockManager` | a map from product to mutex, and a mutex over the map | `With(key, fn)` | called by the service |
| `ReservationService` | `idCounter`, `holdFor`; otherwise the repository | `ReserveItem`, `ConfirmReservation`, `CancelReservation`, `ExpireReservations`, reads | repository, locks, clock, shadow recorder |
| `Clock`, `ShadowRecorder` | fake time; nothing | `Now`; `RecordShadow` | called by the service |
| server process (`cmd/server`) | configuration, the HTTP server | start (migrate, seed), serve, `Shutdown` on a signal, exit | everything |
| expiry sweeper (`runExpirySweeper`) | a ticker with a channel of one element | on each tick `ExpireReservations` and the sweep metrics | service, metrics |
| HTTP handler (`interface/http/handler.go`) | none | routing, validation, one service call per request, a status for each outcome | service |
| metrics (`interface/http/metrics.go`) | counters under a mutex | record a request, record a sweep, render | HTTP, sweeper |
| schema migrations (`RunAll`) | `schema_migrations` and the tables | apply what is not recorded, in name order | PostgreSQL, at each start |
| health check | none | ping PostgreSQL and Redis | the only user of Redis |
| demos, k6 and shell scripts | none of the program's | | |

Behaviour that is hard to get right here, and to test:

* **Concurrency in one process.** Each HTTP request is a goroutine. The product
  lock makes one call exclusive per product, but each call is four to seven
  repository calls, `idCounter` is shared by all products, `GetAvailableStock`
  reads without the lock, and a confirm looks the reservation up before it takes
  the lock. The sweep lists the lapsed holds with no lock and acts on the list
  later, product by product.
* **Boundaries.** `now == ExpiresAt` is tested in three places; the sweep uses the
  time of the tick, not of the clock.
* **Replicas, crashes and restarts** over one database: the lock and the id
  counter are per process; rows, counters and events are written by separate
  transactions, and what they return is dropped.
* **The boundary**: a client repeats a request whose answer it did not get; a failed
  query looks like a missing row; a stop comes while calls are in progress, a client
  stalls, and the sweeper runs on.
* **Start-up**: a migration and its record are two statements, and several
  replicas may migrate at once. Seeding resets counters.

Correct means: stock is never oversold nor reported negative; the counters, the
reservations and the event log tell the same story whenever a product is at rest;
a terminal reservation is final; nothing is confirmed late or expired early;
answers are true, documented, and counted once; every request returns, every lapsed
hold is released, and a stop ends. The
list of hazards in `PROJECT.json` names the line each property is for.

## 2. The modules

```
Inventory ── InMemoryRepository ── ReservationService ── ReservationServiceProperties ── MCReservationService
     │                                                    │  (INSTANCE ReservationLedger, KeyedMutex)
     │                                                    └─ ReservationServiceProofs ── ReservationHistoryProofs
     │                                                          ── ReservationCountersProofs ── ReservationLogProofs
     ├──── ReservationLedger                       the service's promise, abstract
     └──── PostgresRepository ── DurableService ─┬─ DurableServiceProperties ── DurableServiceProofs
                                                 └─ Server ── ServerProperties ─┬─ MCServer
                                      HttpApi ──────┘   (INSTANCE ReservationLedger)
                                                                                └─ ServerProofs
                                                              (extends DurableServiceProofs too)
KeyedMutex ── LockManager (INSTANCE) ── LockManagerProofs
Migrations ── MigrationsProofs
```

**Inventory** has the domain types' constants, `AvailableStock` and `Lapsed`.

**InMemoryRepository** has the three maps as `products`, `reservations` and `events`.
Each method is one operator because its own mutex makes it one atomic step. A
reservation is stored under the number n of its id `res-n`.

**ReservationService** composes the repository, the locks, the clock, the sweeper and
the shadow recorder. `pc[t]` and `op[t]` are the position and the local variables of
goroutine `t`. One repository call, lock operation or draw of a number is one
action:

| Code | Actions |
|---|---|
| `ReserveItem` | `BeginReserve`, `LockReserve` (lock, `now`, list of stale holds), the expiry loop, `RejectUnknownProduct` / `RejectOutOfStock` / `NextReservationID`, `SaveReserved`, `HoldUnit`, then event, shadow, `Return` |
| `ConfirmReservation` | `BeginFinalize` (first lookup), `LockConfirm` / `LockConfirmLapsed` / `RejectFinalized`, `Confirm`, `Sell`, event, shadow, `Return` |
| `CancelReservation` | `BeginFinalize`, `LockCancel` / `RejectFinalized`, `Cancel`, `ReleaseHold`, event, shadow, `Return` |
| `expireReservationLocked` | `ExpireReservation`, `ReleaseHold`, `NextEventID`, `AppendEventStep`, `RecordShadow`, back to the loop |
| `ExpireReservations` in the sweeper | `Tick`, `ReceiveTick`, `Snapshot`, `NextProduct`, `LockSweep`, the loop, `UnlockSweep`, `EndSweep` (metric) |

Two steps are merged where nobody can look in between: a read that follows the
acquisition of the product's lock is part of that step, as no other thread writes
what it reads while the lock is held. `WritesUnderLock` is exactly this
assumption; it is checked, and proved for every instance. User ids and reasons are left out; no decision reads them.

**KeyedMutex** is what `LockManager` promises: `owner[k]` is the thread that has locked the
mutex of `k`, `inside[t]` the key under which `t` runs the function it passed to `With`. Both
change together: to run its function a thread takes a free key, and only it frees that key, when
the function ends. **LockManager** is the code: `LockMu`, `Find`, `Create`, `UnlockMu`, `Lock`,
`Unlock`. The service uses the promise directly (`lock[p]`), and both ends of the joint are
proved. The manager implements the keyed mutex (`Refinement`): `inside` is where a goroutine is,
`owner` who holds the mutex the map has for the key. The service uses it as one
(`MutexRefined`): `inside` is the product of a call that is past its lock, by its position, and `owner`
is `lock`, so a way out of a call that keeps the lock, a second lock taken within a call, or
the release of another's lock are no steps of KeyedMutex.

**ReservationLedger** is the service's promise to its clients with no lock, counter or
log: `Reserve`, `Confirm`, `Cancel`, `Expire`, each one step on the reservations.

**PostgresRepository** has one product's row, the reservation rows and the outbox. A
method is one atomic operator: it is one statement, or one transaction on one
row that `SELECT FOR UPDATE` keeps locked. A write that violates a CHECK or a foreign
key changes nothing. The upsert of `SaveReservation` keeps the expiry of an existing
row, as its SQL does.

**DurableService** is the service of one or more replicas over that repository. Each
statement is a step, and may fail (`Attempt`, `Query`): the code logs or drops the
error and goes on. `Crash` forgets the call and the id counter; `Start` seeds again.
Simplifications, each on purpose:

* one product: products share only `idCounter`, and the product lock lets a
  replica run one call at a time on it, so the lock itself is not modelled again: a
  replica's `pc` is `idle` when its lock is free;
* a replica in `Sweepers` has the sweeper too: `ListSweep` reads the lapsed rows outside the
  lock at the time of the tick (a step may lie anywhere between the two), `LockSweep` to
  `UnlockSweep` works on the list under the lock as the loop of a call does;
* a list of reservations whose query fails, or whose rows cannot all be scanned, is any part
  of what is stored (`ScanReservations`): the code skips a row it cannot scan and does not
  ask whether the rows came to their end;
* the reads of `recordShadow` are left out, because `cmd/server` installs the no-op
  recorder;
* the replicas read one clock, and initially all of them have started and none has
  been called. A failed write has no effect; one that took effect and
  whose answer was lost is the successful case, since the code ignores the answer.

**HttpApi** is the boundary without state: which endpoint serves a request (`Endpoint`), what
the handlers refuse by themselves (`Accepted`), the status of each error (`ErrorStatus`), and the
label the metrics middleware derives, by tests of its own (`RouteLabel`).

**Server** is one process: DurableService with one replica, HttpApi, and the life of `main`. `conn[c]`
is the request on connection `c` and how far it is; `stats` the request counter by route and
status; `phase` where `main` is. `conn[c].faultsBefore` is no state of the program: it keeps, from the
start of the call, how many statements had failed by then, so that a property can speak
of calls whose own statements succeed. No guard reads it.

| Code | Actions |
|---|---|
| `net/http`, the handlers | `Send`, `AnswerLocally` (the mux, or validation), `Decode`, `Lookup` / `ReserveUnknown` / `Call`, `Reply` |
| metrics middleware | `Record`, after the handler and before the answer is out |
| `healthzHandler` | `Healthz` |
| the service and the sweeper | `ServiceStep`, `SweeperStep`: the actions of DurableService |
| `main` | `Signal`, `Refuse` (a connection `Shutdown` has not accepted), `Drained` or `Timeout`, `ListenFails`, `Boot` |

Simplifications: one replica (several are in DurableService). A client whose answer was lost is one
that sends a request again, which any client may do at any time. The lookup that confirm
and cancel make before they lock is one step with taking the lock when it finds the
row: a row once stored never goes away, and what the lookup returned of it is not
used. `db.Close` and the return of `main` are one step, `Exit`, as nothing waits for the
sweeper. Ids are numbers: product 1 is the one that is seeded, `BadID` stands for every id
`validExternalID` refuses; all bodies the decoder refuses are alike.

**Migrations** is `RunAll` statement by statement, by several replicas at once, over any
number `Count` of migrations. A statement whose answer is lost may or may not have
taken effect; `log.Fatalf` is the control point `failed`, and `Restart` is a crash
anywhere or the start after it. `Check` ignores the error of its query, as the code does.

Operators whose comment begins with *Mutant of* are plausible mistakes in the code
(a dropped guard, a missing reset). They are used in no specification: each stands
in for the definition it names to show that a property notices the mistake.

## 3. What TLC checks

| Run | Instance | Shows |
|---|---|---|
| `service` | 2 clients, 1 product with 2 units, 5 requests, time 0..2, no sweeper | `NoOversell`, `CountersMatchReservations`, `LogMatchesReservations`, `LogReplaysLegally`, `NoStaleHoldAtDecision`, `TerminalIsFinal`, `ImplementsLedger`, `TypeOK` |
| `sweeper` | 2 clients, 1 sweeper, 1 unit, 4 requests, time 0..1 | what a sweep cannot break: `StockNeverNegative`, `CountersMatchLog`, `WindowRespected`, `AnswersAreTrue`, `ExpiredMetricLogged`, `WritesUnderLock`, `OnlySweepOverwrites` |
| `liveness` | 2 clients, 1 sweeper, 2 products with 1 unit, 2 requests | over two products that share `idCounter`: `EventIDsOrdered`, `ShadowMatchesLog`, `UsesKeyedMutex`; under fairness `RequestsReturn`, `LapsedHoldsReleased` |
| `locks` | 3 goroutines, 2 keys, 3 mutexes | `MutualExclusion`, `OneMutexPerKey`, `CallsReturn`, `ImplementsKeyedMutex` |
| `durable` | `Server`: 2 clients that reserve, confirm, cancel and may stall, 2 units, 4 requests, time 0..1, one stop at any moment, no failure | `CountersMatchRows`, `RowsLogged`, `ImplementsLedger`; under fairness `ShutdownEnds`, `RequestsAnswered` |
| `durable_failures` | 2 replicas, one with a sweeper, 1 unit, 3 requests, 1 sweep, 1 crash, 1 failed statement | `DurableTypeOK`, `WindowRespected`, `TerminalStatesExclusive` |
| `server` | `Server`: 2 clients, 11 requests of every kind, 1 unit, 3 sent, 1 sweep, 1 stop or crash, 1 restart, 1 failed statement | `AnswersDocumented`, `AnswersMatchRows`, `StoredUnlessFailed`, `NotFoundMeansMissing` |
| `migrations` | 2 replicas, 3 migrations, 3 stops, 2 failed statements | `ServesCompleteSchema`, `AppliedInOrder` |

The bounds are `MaxRequests`, `MaxSent`, `MaxSweeps`, `MaxTime`, `MaxCrashes`, `MaxBoots`, `MaxFaults`,
`MaxStops`: they appear in the guards of the actions that start something new, never in the middle of a call,
so no call is cut off. Five requests with two units let a product sell out, be
rejected, lapse, and be sold again; two clients give every overlap of two calls on
one product (calls on different products share only `idCounter`, which `liveness`
covers). With `Hold = 1` and the clock up to 1 or 2 the instants before, at and after
the expiry all occur, and a call may be overtaken by the clock at any step. Three requests
on one unit let a server grant it, refuse it, and be sent the same confirm or cancel
twice, on two connections at once or one after the other; the clients of `server` are
interchangeable, so the run uses their symmetry (it checks no liveness). Three
goroutines on two keys give a key's first use by two goroutines at once while a
third is inside another key. Two replicas with one crash and one fault suffice for
each of the disagreements below; the configurations allow more than one of these at
a time. Deadlock is checked in every run: where a
model comes to rest because its bounds are used up, `Quiescent` says in which states.

### Disagreements between the code and what it says

Four runs check a sentence of the documents or comments that the code does not
keep; each gives a short trace.

* `oversell`: `ExpireReservations` lists lapsed holds before it takes the lock, and
  `expireReservationLocked` does not look at the state again. A reservation finished in
  between is overwritten as Expired and its hold is released a second time; the
  counter goes to -1 and the same unit is granted twice. The trace passes through
  every stage: a terminal reservation that changes, a negative counter, a metric that
  counts an expiry that was not the sweep's, and the oversell. `TerminalIsFinal`,
  `CountersMatchReservations` and `ImplementsLedger` therefore hold only without a sweeper.
* `replicas_oversell`: `ReserveItem` checks the stock outside the transaction that takes
  the unit and drops the error of the CHECK that refuses the second increment. Two
  replicas grant the last unit twice; the second client is answered 201, for which
  `openapi.yaml:30` says "unit is held for the configured hold duration".
* `restart_confirmed`: `idCounter` starts at 0 in each process. After a restart, the upsert
  revives a confirmed reservation under the reused id. For the same reason a new
  event under a used id is dropped by ON CONFLICT DO NOTHING.
* `migration_skipped`: a stop between a migration and its record makes every later
  start fail.

Five more disagreements have no run of their own:

* `docs/http-validation.md:3` "reserves `404 Not Found` for syntactically valid resources that
  do not exist", but `PostgresRepository.GetReservation` and `GetProduct` report a failed query
  as a missing row. `NotFoundMeansMissing` therefore says: until a statement fails. For the
  same reason, and because errors of writes are dropped, no failure of the database ever
  becomes a 5xx (`AnswersDocumented` holds with failed statements).
* `openapi.yaml:30` says of 201 "Reservation created — unit is held for the configured hold
  duration" and `openapi.yaml:100` of 200 "Reservation confirmed". The service drops what its
  writes return, so when a call's own write fails, or a CHECK refuses it, the client is
  answered 201 or 200 and nothing is stored. `StoredUnlessFailed` says what is left of the
  promise: a call of which no statement fails has stored what it answers, whatever failed
  in the calls before it, through stops, restarts and sweeps.
* `README.md:81` says that "`REDIS_URL` enables distributed locking"; the health check is the
  only code that uses Redis.
* `openapi.yaml` says of `/healthz` "Returns 503 when any dependency is down"; with Redis down it
  answers 200 and says so in the body.
* `main` does not wait for the sweeper, so a graceful stop may end a sweep between a row
  and its counter.

Over PostgreSQL a single failed write, a crash inside a call, a `Shutdown` whose five
seconds are over, or a sweep over a row that was finished meanwhile is enough to break
`CountersMatchRows` and `RowsLogged`. They are
checked where nothing fails, without a sweeper, between calls and after a stop in which
`Shutdown` saw every connection idle: that is what the graceful stop is for. After a restart
the counters are those of the seed again while the rows stay; the run `durable` has no restart.

### Fairness

`FairSpec` of ReservationService has weak fairness of each client's steps inside a call,
each sweeper's steps and each ticker: a goroutine that can run is run by the Go
scheduler, and the ticker fires. A new request is never required. The waiter on a
product's lock needs no more, since each request takes the lock once and there are
finitely many, and a sweep that found nothing takes no lock. In LockManager, where
goroutines call for ever, taking `mu` or a key's mutex is strongly fair: `sync.Mutex` hands
the lock to a waiter of more than a millisecond in arrival order, so a waiter that
the lock becomes free for again and again gets it. Code under a lock is weakly fair,
and beginning a call is not fair at all.

`FairSpec` of ServerProperties has weak fairness of the service's steps, of the sweep's taking and
leaving the lock, of each handler once it has its request (`Serve`), and of the two ends of
`Shutdown`, which polls for idle connections and has a deadline. Sending a request and
sending the rest of its body (`Decode`) are not fair: a client may stall for ever, since
the server limits only the time for a header. `ShutdownEnds` shows that it does not
keep the process from ending.

## 4. What is proved

All proofs are for every value of the constants, under the named assumptions of the
modules (`HoldAssumption`: a hold that is not zero; `ThreadAssumption`: clients and
sweepers are different, and the two null values are neither thread nor product;
`ServerAssumption`: one replica and finitely many connections; bounds are natural numbers;
stock is a natural number). The number of threads, products, units, goroutines, keys,
connections and migrations is arbitrary. What a theorem assumes beyond that is in the table.
Every safety property, action property and refinement that a passing run checks is a theorem.

| Theorem | States | Argument |
|---|---|---|
| `TypeCorrect` | `Spec => []TypeOK` | `IInv` |
| `NeverNegative` | `Spec => []StockNeverNegative`, with any sweepers | `IInv` |
| `MutexRefined` | `Spec => UsesKeyedMutex` | `IInv`: past the lock a thread owns it (`LockInv`); every step takes a free lock and is past it, gives back its own and is out, or moves neither |
| `WindowsKept`, `EventsOrdered`, `LockedWrites`, `SweepOverwritesOnly` | `WindowRespected`, `EventIDsOrdered`, `WritesUnderLock`, `OnlySweepOverwrites`, with any sweepers | `RecordInv` |
| `NoStaleHold`, `AnswersTrue` | `NoStaleHoldAtDecision`, `AnswersAreTrue`, with any sweepers | `RecordInv` and `AllTell` |
| `FinalWithoutSweeper` | `TerminalIsFinal`, if `Sweepers = {}` | `RecordInv` |
| `CountersAgree`, `NeverOversold`, `LedgerRefined` | `CountersMatchReservations`, `NoOversell`, `ImplementsLedger`, if `Sweepers = {}` | `CountersInv` |
| `LogAgrees`, `LogReplays` | `CountersMatchLog`, `LogReplaysLegally`, with any sweepers | `LogInv` |
| `ShadowAgrees`, `MetricLogged` | `ShadowMatchesLog`, `ExpiredMetricLogged`, with any sweepers | `ShadowInv`, `MetricInv` |
| `StoryComplete` | `LogMatchesReservations`, if `Sweepers = {}` | `StoryInv` |
| `DurableTypeCorrect`, `WindowsRespected`, `TerminalExclusion` | `DurableTypeOK`, `WindowRespected`, `TerminalStatesExclusive` over PostgreSQL, with any replicas, sweepers, crashes and faults | `IInv` of DurableServiceProofs |
| `StatusesDocumented`, `MissingMeansNotStored` | `AnswersDocumented`, `NotFoundMeansMissing`, with failed statements, crashes and restarts | `FrontInv` |
| `SuccessStored` | `StoredUnlessFailed`, if `Hold > 0`, with any sweeper, restarts and number of failed statements | `CallInv` |
| `AnswersMatch` | `AnswersMatchRows`, if `Hold > 0`, with any sweeper (the property speaks of the first run without failures) | `AnswerInv` |
| `CountersReconciled`, `OutboxComplete`, `RowsImplementLedger` | `CountersMatchRows`, `RowsLogged`, `ImplementsLedger` over PostgreSQL, if `Hold > 0`, `Sweepers = {}`, `MaxFaults = 0` and `MaxBoots = 0` | `BooksInv` |
| `MutuallyExclusive`, `OneMutex` | `LockManager`'s exclusion, and one mutex per key for ever | see below |
| `Refinement` | `LockManager` implements `KeyedMutex` | the same invariant |
| `SchemaComplete` | a replica that serves has every migration beneath it | see below |
| `InOrder` | the applied migrations are a prefix in name order | the same invariant |

*ReservationService.* The inductive invariant is
`IInv == TypeOK /\ LockInv /\ RefInv /\ DecisionInv /\ StockNeverNegative`. Non-negative
stock alone is not inductive: `ActiveReservationCount++` is two steps after the check.
`DecisionInv` carries the check over them (between the check and `HoldUnit` a unit is
still free); it survives the other threads because they hold other products' locks
(`LockInv`: a thread at a critical point owns the lock of its product), or release
units. Type correctness needs `RefInv`: ids that a call will read are stored, and
belong to the locked product. A sweep that releases a hold twice only adds stock, which
is why the theorem holds although `ActiveReservationCount` may become negative.

*What may happen to a reservation* (ReservationHistoryProofs). `HistoryInv` adds to `IInv` what a thread
knows of the reservations in its hands (`Hands`): those in its list have lapsed by the time
it will expire them with, the one it is about to confirm has not, and outside a sweep all
of them are Active and of the locked product. It survives other threads because they
write only reservations of the products they have locked (`KeptStep`). `FreshIDs` is needed since
a reservation saved under a used id would change one in another thread's hands;
`RecordInv` adds the numbers of events, which are drawn under the product's lock
and so exceed all in that product's log.

*Answers.* `Tells(t)` says, for each point a call passes under the lock, what it has made true and
will answer (`ReserveTells`, `ConfirmTells`, `CancelTells`). It stands until the call unlocks, as what
it speaks of belongs to the locked product. `NothingMissed` says of `ReserveItem` that every hold
that has lapsed by its reading of the clock is still in its list; so none is left when
the list is empty and the stock is read (`NoStaleHold`). Both hold with any sweeper: a sweep that
overwrites a reservation also needs the lock.

*Counters and ledger* (ReservationCountersProofs). A decision writes the reservation first and the
counters next. `Counted` accounts for the step in between: the counters are the numbers
of Active and Confirmed reservations less the `Lag` of the lock's holder. Cardinalities need
finite sets, which reservations are, having numbered ids. `Sweepers = {}` is needed, as
the run `oversell` shows; it enters at one place, `FinishesActive`. The refinement maps
`SaveReserved` to the ledger's `Reserve` and the three updates of a reservation to `Confirm`, `Cancel`
and `Expire`; every other step stutters. `DecisionInv` shows that a granted unit was free.

*Log* (ReservationLogProofs). An event is appended two steps after the counters. `Accounted` says that
the counters are those of the log with the event that is `Due`; `EventAgrees` that the event a
thread is about to log is that of the counters it wrote. The counters' agreement with the log
needs no hypothesis on sweepers: a sweep that releases a hold twice logs it twice.
`ShadowDue` keeps the counters those of the event from its append to the read for the shadow
record. For the metric, `MetricInv` bounds `expiredTotal` and what the sweeps in progress have
yet to report by the number of logged expiries; the sum over the sweepers is the
cardinality of one set of pairs (`Unreported`). For `StoryComplete`, `StoryInv` says that the log tells
of each reservation but the one whose event some thread is about to log; with a sweeper a
Confirmed reservation gets an Expired event too, hence `Sweepers = {}`.

*DurableService* (DurableServiceProofs). `TablesInv` is what the CHECKs of the schema make of every
statement; `CallOK` what a call knows: listed ids are stored and have lapsed by the reading they
will be given, and a decision is on the right side of the expiry. It survives the
statements of other replicas, restarts and reused ids because no statement moves the expiry of a row
(`RowsKept`): the upsert leaves it. A terminal row moves to no other terminal state because
its timestamp stays and the CHECKs refuse a second one (`TerminalKept`).

*Server* (ServerProofs). Four invariants, each on top of the one before:

1. `FrontInv` joins the two halves: a call in progress that is not the sweep's is that of exactly one
   connection and of its request's kind (`CallsMatch`), and every answer has a status the
   documents list for its handler. It needs nothing of the statements' results, so it holds
   whatever fails.
2. `CallInv` says what a call knows as long as none of its own statements has failed (`Sound`: there are none, or
   those there are had happened when it began): what the position it is at implies
   (`Goes`) and, outside a sweep, that what it is about to finish is Active and what it is about to release
   carries the state it will log (`Holds`). What failed earlier, a partial list included, does not
   matter, since a call reads again all it decides by. `Dated` (no call has counted more failures
   than there are) makes `Sound`, once false, stay so until the next call. Only `Hold > 0` is added: with a negative hold the CHECK on
   `expires_at` refuses every row, and the code answers 201 all the same.
3. `AnswerInv` is a balance: per endpoint, the successes given and the one `Due` to the call in progress are the
   rows made (`Balanced`). A write that makes a row makes its answer due, and `Reply` gives it.
   `FreshInv` is needed so that a reserve adds a row and overwrites none; it lasts while the
   process is the first one. The sweep makes and unmakes nothing that is counted, since
   the CHECKs refuse to expire what is confirmed or cancelled.
4. `BooksInv` is the books without a sweeper: the counters count the rows but for the `ActiveLag` and
   `ConfirmedLag` of the call (`Reconciled`), and the outbox tells of each row but the one that is `Owing`
   (`Story`). It is conditional on `FirstRun`; the theorems then exclude failed statements and
   restarts, which the three properties do not survive: a failed write leaves row and
   counter apart, a restart counts ids from 1 again, and a sweep that lost its race
   releases a unit whose row the CHECKs do not let it change. The ledger sees the row
   statements only: the upsert is its `Reserve`, the update that finishes a row its `Confirm`,
   `Cancel` or `Expire`; that a granted unit was free follows from `Reconciled` (`SheetReserve`), and
   that an end is on the right side of the expiry from `CallOK` (`SheetFinish`).

*LockManager.* `MuInv` (only the goroutine between `LockMu` and `UnlockMu` holds `mu`, and what
`Find` saw stays true until `Create`), `MapInv` (the map gives distinct keys distinct mutexes)
and `HolderInv` (a goroutine inside holds the mutex of its key). Without `MuInv` two first
users of a key would create two mutexes.

*Migrations.* `IInv == TypeOK /\ LoopInv /\ AppliedInOrder`. `LoopInv` says what a replica
knows inside the loop: every migration before its current one is applied, whoever
applied it. The recorded ones being applied (`TypeOK`) lets it skip; a migration that
follows an applied prefix extends the prefix (`NextTables`).

Only model-checked: the five liveness properties `RequestsReturn`, `LapsedHoldsReleased`, `CallsReturn`,
`ShutdownEnds` and `RequestsAnswered`. They rest on fairness and ENABLED, which are out of the proof
system's reach.

## 5. Not modelled

* Metrics other than the request counts and the expired total (sums, buckets, the method
  label, the rendering): no decision reads them. Nothing bounds the map by which they
  are keyed, and nothing claims a bound.
* The JSON fields of answers, and what distinguishes one refused id or body from another.
* The demos, the load tests and scripts, the down migrations (run by nothing).
* The environment and flags: ports, durations, and the parser of the seed string, whose
  result is the constant stock.
* `cmd/server` without `DATABASE_URL`: the boundary is composed with PostgreSQL only. In memory a
  process that ends forgets everything, and its calls are those of ReservationService.
* The mutex map's growth with unknown product ids: nothing bounds it and nothing
  claims a bound.

## 6. Plan

Written in this order, the most important behaviour first; all modules are done.

1. `Inventory`, `InMemoryRepository`, `ReservationService` and its properties.
2. `KeyedMutex`, `LockManager`, and the refinement between them.
3. `ReservationLedger`: the abstract promise, for both repositories.
4. `PostgresRepository`, `DurableService`: replicas, crashes, failed statements.
5. `Migrations`.
6. The sweeper in the durable replicas.
7. `Server`: start, serving, the signal, `Shutdown` against calls in progress.
8. `HttpApi`: status per outcome against `openapi.yaml`, and the request metrics.

All safety properties of the runs are theorems. What could still be proved is stronger than what the
runs check: that the answers still match the rows after a clean stop and a restart, as long as no
id is given out again, and how far the counters over PostgreSQL may be from the rows when a
sweep is cut off by the end of the process.
