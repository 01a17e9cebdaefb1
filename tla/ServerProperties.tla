--------------------------- MODULE ServerProperties ---------------------------
(***************************************************************************)
(* What the clients of cmd/server can rely on: the statuses openapi.yaml   *)
(* documents, the agreement of answers, metrics and tables, and the way    *)
(* the process ends.                                                       *)
(***************************************************************************)
EXTENDS Server

\* The statuses openapi.yaml lists for each operation.
Documented == [
  reserve |-> {201, 400, 404, 409}, confirm |-> {200, 400, 404, 409},
  cancel  |-> {200, 400, 404, 409}, fetch   |-> {200, 400, 404},
  stock   |-> {200, 400, 404},      openapi |-> {200},
  healthz |-> {200, 503},           metrics |-> {200}]

Answering(c) == conn[c].at = "respond"

(* Every answer, also one given while statements fail, has a status that   *)
(* openapi.yaml lists for its operation, and the metrics count it under    *)
(* the route of the handler that gave it (routeLabel and the mux decide    *)
(* independently).  HEAD requests and the document itself have no label.   *)
AnswersDocumented ==
  \A c \in Clients : Answering(c) =>
    LET req == conn[c].req
        e == Endpoint(req)
    IN  /\ e \in DOMAIN Documented => conn[c].status \in Documented[e]
        /\ e \in DOMAIN Endpoints \ {"openapi"} /\ req.method # "HEAD"
             => RouteLabel(req) = Endpoints[e].path

(* docs/http-validation.md: 404 is for resources that do not exist.  True  *)
(* while no statement fails: GetReservation and GetProduct report a failed *)
(* query as a missing row, so after one a stored reservation gets a 404.   *)
NotFoundMeansMissing ==
  [][\A c \in Clients :
       ~ Answering(c) /\ Answering(c)' /\ conn'[c].status = 404 /\ CallsService(conn[c].req)
         => ~ Stored(conn[c].req) \/ faults' > 0]_allVars

\* How often an endpoint has answered with a status, the answer under way included.
Given(e, status) ==
  LET key == [route |-> Endpoints[e].path, status |-> status] IN
  (IF key \in DOMAIN stats THEN stats[key] ELSE 0)
    + Cardinality({c \in Clients : Answering(c) /\ Asks(c, {e}) /\ conn[c].status = status})

\* The first process, until a clean end; nothing has failed.
FirstRun == faults = 0 /\ (crashes = 0 \/ (crashes = 1 /\ phase = "drained"))

(* Between two calls the successes that inventory_http_requests_total has  *)
(* counted are the rows of reservations: each hold, sale and cancellation  *)
(* was answered with success exactly once, however clients repeat their    *)
(* requests and the sweep interferes.  A graceful stop loses no answer.    *)
AnswersMatchRows ==
  FirstRun /\ pc[Me] = "idle" =>
    /\ Given("reserve", 201) = Cardinality(DOMAIN rows)
    /\ Given("confirm", 200) = Cardinality(RowsIn({"Confirmed"}))
    /\ Given("cancel", 200) = Cardinality(RowsIn({"Cancelled"}))

Requested == [reserve |-> "Active", confirm |-> "Confirmed", cancel |-> "Cancelled"]

(* openapi.yaml: 201 means that the unit is held, 200 that it is confirmed *)
(* or back in stock.  A call in which no statement failed has stored what  *)
(* it answers, also after failed statements of earlier calls, an unclean   *)
(* end, a new start and a sweep.  If its own write fails the code answers  *)
(* 201 or 200 all the same: that promise is not kept (README).             *)
StoredUnlessFailed ==
  \A c \in Clients :
    conn[c].at = "call" /\ conn[c].faultsBefore = faults
      /\ pc[Me] = "answer" /\ op[Me].err = "nil"
        => op[Me].res \in DOMAIN rows /\ rows[op[Me].res].state = Requested[op[Me].kind]

-----------------------------------------------------------------------------
(* What one process keeps while no statement fails, no sweeper runs and it *)
(* is not started again.  It is at rest between two calls and when main    *)
(* has returned because Shutdown saw all connections idle: a graceful stop *)
(* (README) leaves the tables as a call that has ended does.               *)
AtRest == pc[Me] = "idle" /\ phase # "down"

(* RL-R1 to RL-R4: at rest the counters of inventory_items count the       *)
(* Active and the Confirmed rows, although the two tables are written by   *)
(* separate transactions.                                                  *)
CountersMatchRows ==
  AtRest => /\ item.activeReservationCount = Cardinality(RowsIn({"Active"}))
            /\ item.confirmedCount = Cardinality(RowsIn({"Confirmed"}))

(* At rest the outbox holds, for every row, its Reserved event and, if it  *)
(* is terminal, one event of its state.                                    *)
RowsLogged ==
  AtRest => \A i \in DOMAIN rows :
    {outbox[k].type : k \in {n \in DOMAIN outbox : outbox[n].res = i}}
      = {"Reserved"} \cup ({rows[i].state} \cap TerminalStates)

(* The rows are the abstract ledger of the in-memory service: the adapter  *)
(* keeps the service's promise to its clients, whenever the process ends.  *)
Product == "sku-1"

Ledger == INSTANCE ReservationLedger WITH
  Stock <- [p \in {Product} |-> TotalStock],
  reservations <- [i \in DOMAIN rows |->
    [product |-> Product, state |-> rows[i].state, expiresAt |-> rows[i].expiresAt,
     confirmedAt |-> rows[i].confirmedAt, cancelledAt |-> rows[i].cancelledAt,
     expiredAt |-> rows[i].expiredAt]]

ImplementsLedger == Ledger!Spec

-----------------------------------------------------------------------------
(* Goroutines that can run do run; the ticker of Shutdown polls and its    *)
(* five seconds pass.  No client has to send the rest of its body.         *)
Fairness ==
  /\ WF_allVars(ServiceStep)
  /\ WF_allVars((LockSweep(Me) \/ UnlockSweep(Me)) /\ UNCHANGED serverVars)
  /\ \A c \in Clients : WF_allVars(Serve(c))
  /\ WF_allVars(Drained) /\ WF_allVars(Timeout)

FairSpec == ServerSpec /\ Fairness

(* After the signal the process ends, also when a client stalls.           *)
ShutdownEnds == phase = "drain" ~> phase # "drain"

(* A request that has reached the service is answered, or the process      *)
(* ends: no call waits for ever for the lock of its product.               *)
RequestsAnswered == \A c \in Clients : conn[c].at = "service" ~> conn[c].at = "idle"

=============================================================================
