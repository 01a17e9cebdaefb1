----------------------------- MODULE ServerProofs -----------------------------
(***************************************************************************)
(* cmd/server as one process, for any clients, requests, shutdowns and     *)
(* restarts.  Every handler answers as openapi.yaml says (FrontInv); a     *)
(* call knows what it has stored (CallInv); what was stored was answered   *)
(* with success once (AnswerInv); and without a sweeper the counters, the  *)
(* outbox and the rows agree and are the abstract ledger (BooksInv).       *)
(***************************************************************************)
EXTENDS ServerProperties, DurableServiceProofs, FiniteSetTheorems

-----------------------------------------------------------------------------
(* The process is the only replica.                                        *)
LEMMA OneReplica == Replicas = {Me}
  <1>1. PICK r \in Replicas : Replicas = {r}
    BY ServerAssumption
  <1>2. Me \in Replicas
    BY <1>1 DEF Me
  <1> QED BY <1>1, <1>2

(* Which handler serves a request, and under which label it is counted.    *)
LEMMA EndpointNames ==
  /\ DOMAIN Endpoints = {"reserve", "confirm", "cancel", "fetch", "stock", "openapi"}
  /\ DOMAIN OuterEndpoints = {"healthz", "metrics"}
  BY DEF Endpoints, OuterEndpoints

\* Writes are POST, reads are GET.
LEMMA Methods ==
  /\ Endpoints["reserve"].method = "POST" /\ Endpoints["confirm"].method = "POST"
  /\ Endpoints["cancel"].method = "POST" /\ Endpoints["fetch"].method = "GET"
  /\ Endpoints["stock"].method = "GET" /\ Endpoints["openapi"].method = "GET"
  BY Zenon DEF Endpoints

\* No two handlers have the same path.
LEMMA Paths ==
  /\ Endpoints["reserve"].path \notin {Endpoints["confirm"].path, Endpoints["cancel"].path,
       Endpoints["fetch"].path, Endpoints["stock"].path, Endpoints["openapi"].path, NestedConfirm, "unknown"}
  /\ Endpoints["confirm"].path \notin {Endpoints["cancel"].path,
       Endpoints["fetch"].path, Endpoints["stock"].path, Endpoints["openapi"].path, NestedConfirm, "unknown"}
  /\ Endpoints["cancel"].path \notin {
       Endpoints["fetch"].path, Endpoints["stock"].path, Endpoints["openapi"].path, NestedConfirm, "unknown"}
  /\ NestedConfirm \notin {Endpoints["fetch"].path, Endpoints["stock"].path, Endpoints["openapi"].path, "unknown"}
  /\ Endpoints["stock"].path # Endpoints["fetch"].path
  BY Zenon DEF Endpoints, NestedConfirm

\* A handler serves what its pattern matches, or the mux has an answer.
LEMMA EndpointServes ==
  ASSUME NEW req
  PROVE  /\ Endpoint(req) \in DOMAIN Endpoints =>
              Counted(req) /\ Matches(Endpoints[Endpoint(req)], req)
         /\ Endpoint(req) \in {"reserve", "confirm", "cancel", "fetch", "stock", "openapi",
                               "healthz", "metrics", "404", "405"}
  <1>1. CASE ~ Counted(req)
    <2>1. PICK e \in DOMAIN OuterEndpoints : Matches(OuterEndpoints[e], req)
      BY <1>1 DEF Counted
    <2>2. Endpoint(req) \in DOMAIN OuterEndpoints
      BY <1>1, <2>1 DEF Endpoint
    <2> QED BY <2>2, EndpointNames
  <1>2. CASE Counted(req) /\ \E e \in DOMAIN Endpoints : Matches(Endpoints[e], req)
    <2>1. Endpoint(req) = CHOOSE e \in DOMAIN Endpoints : Matches(Endpoints[e], req)
      BY <1>2 DEF Endpoint
    <2>2. Endpoint(req) \in DOMAIN Endpoints /\ Matches(Endpoints[Endpoint(req)], req)
      BY <1>2, <2>1
    <2> QED BY <1>2, <2>2, EndpointNames
  <1>3. CASE Counted(req) /\ ~ \E e \in DOMAIN Endpoints : Matches(Endpoints[e], req)
    <2>1. Endpoint(req) \in {"404", "405"}
      BY <1>3 DEF Endpoint
    <2> QED BY <2>1, EndpointNames
  <1> QED BY <1>1, <1>2, <1>3

(* Every pattern has a label of its own: a request that a handler serves   *)
(* is counted under the handler's path, unless its method is HEAD.         *)
LEMMA LabelOfHandler ==
  ASSUME NEW req, Endpoint(req) \in DOMAIN Endpoints \ {"openapi"}, req.method # "HEAD"
  PROVE  RouteLabel(req) = Endpoints[Endpoint(req)].path
  <1> DEFINE e == Endpoint(req)
  <1>1. req.path = Endpoints[e].path /\ req.method = Endpoints[e].method
    <2>1. Matches(Endpoints[e], req)
      BY EndpointServes
    <2> HIDE DEF e
    <2> QED BY <2>1 DEF Matches
  <1>2. e \in {"reserve", "confirm", "cancel", "fetch", "stock"}
    BY EndpointNames
  <1> HIDE DEF e
  <1>3. RouteLabel(req) = Endpoints[e].path
    BY <1>1, <1>2, Methods, Paths DEF RouteLabel, UnderReservations
  <1> QED BY <1>3 DEF e

(* The other way about: only the handler of a write, and the mux's answer  *)
(* to a path that no pattern has, is counted under the path of the write.  *)
LEMMA HandlerOfLabel ==
  ASSUME NEW req, NEW e \in {"reserve", "confirm", "cancel"}, Counted(req),
         RouteLabel(req) = Endpoints[e].path
  PROVE  Endpoint(req) \in {e, "404"}
  <1>1. /\ req.method = "POST"
        /\ req.path \in {Endpoints[e].path, NestedConfirm}
    BY Methods, Paths DEF RouteLabel, UnderReservations
  <1>2. CASE req.path = Endpoints[e].path
    <2>1. e \in DOMAIN Endpoints /\ Matches(Endpoints[e], req)
      BY <1>1, <1>2, EndpointNames, Methods, Paths DEF Matches
    <2>2. \A d \in DOMAIN Endpoints : Matches(Endpoints[d], req) => d = e
      BY <1>1, <1>2, EndpointNames, Methods, Paths DEF Matches
    <2>3. Endpoint(req) = CHOOSE d \in DOMAIN Endpoints : Matches(Endpoints[d], req)
      BY <2>1 DEF Endpoint
    <2> QED BY <2>1, <2>2, <2>3
  <1>3. CASE req.path = NestedConfirm
    <2>1. \A d \in DOMAIN Endpoints : Endpoints[d].path # req.path
      BY <1>3, EndpointNames, Paths
    <2>2. ~ \E d \in DOMAIN Endpoints : Matches(Endpoints[d], req)
      BY <2>1 DEF Matches
    <2> QED BY <2>1, <2>2 DEF Endpoint
  <1> QED BY <1>1, <1>2, <1>3

-----------------------------------------------------------------------------
(* The connections and the process around the service.                     *)

WriteKinds == {"reserve", "confirm", "cancel"}

Connection ==
  {Idle} \cup [at : {"sent", "service", "call", "respond"}, req : Requests,
             status : Nat, faultsBefore : Nat]

\* An answer has a status that is documented for the handler that gave it.
AnswerOK(k) ==
  k.at = "respond" =>
    LET e == Endpoint(k.req) IN
    /\ e \in DOMAIN Documented => k.status \in Documented[e]
    /\ e = "404" => k.status = 404

(* The call that runs is the one of the connection that waits for it; the  *)
(* sweep runs for nobody.                                                  *)
CallsMatch ==
  /\ \A c \in Clients : conn[c].at = "call" =>
       pc[Me] # "idle" /\ op[Me].kind = Endpoint(conn[c].req) /\ op[Me].kind \in WriteKinds
  /\ \A c, d \in Clients : conn[c].at = "call" /\ conn[d].at = "call" => c = d
  /\ pc[Me] # "idle" /\ op[Me].kind # "sweep" => \E c \in Clients : conn[c].at = "call"

ConnectionInv ==
  /\ conn \in [Clients -> Connection]
  /\ \A c \in Clients : conn[c].at = "service" => CallsService(conn[c].req)
  /\ \A c \in Clients : AnswerOK(conn[c])

(* What is in memory is gone when main has ended, and each start but the   *)
(* first follows an end.                                                   *)
ProcessInv ==
  /\ phase \in {"serve", "drain", "drained", "down"}
  /\ phase \in {"serve", "drain"} => crashes \in 0 .. MaxBoots
  /\ phase \in {"drained", "down"} =>
       /\ crashes \in 1 .. MaxBoots + 1
       /\ ~ up[Me] /\ pc[Me] = "idle" /\ sweep[Me] = NoSweep
       /\ \A c \in Clients : conn[c] = Idle
  /\ pc[Me] = "idle" => op[Me] = NoOp
  /\ faults \in 0 .. MaxFaults
  /\ op[Me].err = "ErrProductNotFound" => faults > 0

FrontInv == IInv /\ ProcessInv /\ CallsMatch /\ ConnectionInv

Front(c) ==
  \/ Send(c) \/ AnswerLocally(c) \/ Healthz(c) \/ Decode(c)
  \/ Lookup(c) \/ ReserveUnknown(c) \/ Record(c) \/ Refuse(c)

(* A connection is answered.                                               *)
LEMMA Responding ==
  ASSUME conn \in [Clients -> Connection], NEW c \in Clients,
         NEW from \in {"sent", "service", "call"}, NEW status \in Nat, Responds(c, from, status)
  PROVE  /\ conn' \in [Clients -> Connection] /\ UNCHANGED <<phase, sent, stats>>
         /\ \A d \in Clients \ {c} : conn'[d] = conn[d]
         /\ conn[c].at = from /\ conn'[c].at = "respond"
         /\ conn'[c].req = conn[c].req /\ conn'[c].status = status
  <1>1. conn[c].at = from /\ UNCHANGED <<phase, sent, stats>>
    BY DEF Responds
  <1>2. conn[c] \in [at : {"sent", "service", "call", "respond"}, req : Requests,
                     status : Nat, faultsBefore : Nat]
    BY <1>1 DEF Connection, Idle
  <1> DEFINE k == [conn[c] EXCEPT !.at = "respond", !.status = status]
  <1>3. conn' = [conn EXCEPT ![c] = k]
    BY DEF Responds
  <1>4. k \in Connection /\ k.at = "respond" /\ k.req = conn[c].req /\ k.status = status
    BY <1>2 DEF Connection
  <1> HIDE DEF k
  <1> QED BY <1>1, <1>3, <1>4

(* A connection moves on.                                                  *)
LEMMA Moving ==
  ASSUME conn \in [Clients -> Connection], NEW c \in Clients,
         NEW from \in {"sent", "service", "call"}, NEW to \in {"service", "call"}, Moves(c, from, to)
  PROVE  /\ conn' \in [Clients -> Connection] /\ UNCHANGED <<phase, sent, stats>>
         /\ \A d \in Clients \ {c} : conn'[d] = conn[d]
         /\ conn[c].at = from /\ conn'[c].at = to
         /\ conn'[c].req = conn[c].req
  <1>1. conn[c].at = from /\ UNCHANGED <<phase, sent, stats>>
    BY DEF Moves
  <1>2. conn[c] \in [at : {"sent", "service", "call", "respond"}, req : Requests,
                     status : Nat, faultsBefore : Nat]
    BY <1>1 DEF Connection, Idle
  <1> DEFINE k == [conn[c] EXCEPT !.at = to]
  <1>3. conn' = [conn EXCEPT ![c] = k]
    BY DEF Moves
  <1>4. k \in Connection /\ k.at = to /\ k.req = conn[c].req
    BY <1>2 DEF Connection
  <1> HIDE DEF k
  <1> QED BY <1>1, <1>3, <1>4

(* The statuses of the answers that need no call of the service.           *)
LEMMA LocalAnswers ==
  ASSUME NEW req, ~ CallsService(req), Endpoint(req) # "healthz"
  PROVE  /\ LocalStatus(req) \in {200, 400, 404, 405}
         /\ Endpoint(req) \in DOMAIN Documented => LocalStatus(req) \in Documented[Endpoint(req)]
         /\ Endpoint(req) = "404" => LocalStatus(req) = 404
         /\ Endpoint(req) \in WriteKinds => LocalStatus(req) = 400
  <1> DEFINE e == Endpoint(req)
  <1>1. e \in {"reserve", "confirm", "cancel", "fetch", "stock", "openapi", "metrics", "404", "405"}
    BY EndpointServes
  <1>2. LocalStatus(req) = CASE e = "404" -> 404 [] e = "405" -> 405
                             [] e \in {"openapi", "metrics"} -> 200 [] OTHER -> 400
    BY DEF LocalStatus
  <1> HIDE DEF e
  <1> QED BY <1>1, <1>2 DEF Documented, WriteKinds, e

(* A query leaves everything but the count of faults alone.                *)
LEMMA QueryKeeps ==
  ASSUME NEW ok \in BOOLEAN, Query(ok)
  PROVE  /\ UNCHANGED dbVars
         /\ faults' = faults \/ (faults < MaxFaults /\ faults' = faults + 1)
         /\ faults' = faults /\ faults \in Nat => ok
  <1>1. CASE ok = TRUE
    BY <1>1 DEF Query
  <1>2. CASE ok = FALSE
    BY <1>2 DEF Query, Fault
  <1> QED BY <1>1, <1>2

(* Whatever happens to a connection outside the service leaves the service *)
(* alone, and answers a write with an error only.                          *)
LEMMA FrontStep ==
  ASSUME FrontInv, NEW c \in Clients, Front(c)
  PROVE  /\ UNCHANGED <<dbVars, restVars, up, idCounter, pc, op, phase>>
         /\ faults' = faults \/ (faults < MaxFaults /\ faults' = faults + 1)
         /\ conn' \in [Clients -> Connection]
         /\ \A d \in Clients \ {c} : conn'[d] = conn[d]
         /\ conn[c].at # "call" /\ conn'[c].at # "call"
         /\ conn'[c].at = "service" => CallsService(conn'[c].req)
         /\ AnswerOK(conn'[c])
         /\ Record(c) \/ UNCHANGED stats
         /\ ~ Record(c) /\ conn'[c].at = "respond" /\ Endpoint(conn'[c].req) \in WriteKinds
              => conn'[c].status \in {400, 404}
         /\ conn[c].at = "respond" => Record(c)
         /\ phase \in {"drained", "down"} => FALSE
  <1>0. conn \in [Clients -> Connection] /\ Idle.at = "idle"
    BY DEF FrontInv, ConnectionInv, Idle
  <1>8. phase \in {"drained", "down"} => conn[c].at = "idle" /\ ~ Send(c)
    BY <1>0 DEF FrontInv, ProcessInv, Send
  <1>1. CASE Send(c)
    <2>1. PICK req \in Requests :
            conn' = [conn EXCEPT ![c] = [at |-> "sent", req |-> req, status |-> 0, faultsBefore |-> 0]]
      BY <1>1 DEF Send
    <2>2. [at |-> "sent", req |-> req, status |-> 0, faultsBefore |-> 0] \in Connection
      BY DEF Connection
    <2>3. conn' \in [Clients -> Connection] /\ conn'[c].at = "sent" /\ \A d \in Clients \ {c} : conn'[d] = conn[d]
      BY <1>0, <2>1, <2>2
    <2> QED BY <1>8, <1>0, <1>1, <2>3 DEF Send, vars, AnswerOK
  <1>2. CASE AnswerLocally(c)
    <2>1. ~ CallsService(conn[c].req) /\ Endpoint(conn[c].req) # "healthz" /\ UNCHANGED vars
      BY <1>2 DEF AnswerLocally, Asks, Responds
    <2>2. LocalStatus(conn[c].req) \in Nat
      BY <2>1, LocalAnswers
    <2>3. /\ conn' \in [Clients -> Connection] /\ UNCHANGED <<phase, sent, stats>>
          /\ \A d \in Clients \ {c} : conn'[d] = conn[d]
          /\ conn[c].at = "sent" /\ conn'[c].at = "respond"
          /\ conn'[c].req = conn[c].req /\ conn'[c].status = LocalStatus(conn[c].req)
      BY <1>0, <1>2, <2>2, Responding DEF AnswerLocally
    <2>4. AnswerOK(conn'[c]) /\ (Endpoint(conn'[c].req) \in WriteKinds => conn'[c].status = 400)
      BY <2>1, <2>3, LocalAnswers DEF AnswerOK
    <2>5. UNCHANGED <<dbVars, restVars, up, idCounter, pc, op, faults>>
      BY <2>1 DEF vars
    <2> QED BY <1>8, <2>3, <2>4, <2>5
  <1>3. CASE Healthz(c)
    <2>1. PICK ok \in BOOLEAN : Query(ok) /\ Responds(c, "sent", IF ok THEN 200 ELSE 503)
      BY <1>3 DEF Healthz
    <2>2. /\ Endpoint(conn[c].req) = "healthz" /\ UNCHANGED <<restVars, up, idCounter, pc, op>>
      BY <1>3 DEF Healthz, Asks
    <2>3. /\ conn' \in [Clients -> Connection] /\ UNCHANGED <<phase, sent, stats>>
          /\ \A d \in Clients \ {c} : conn'[d] = conn[d]
          /\ conn[c].at = "sent" /\ conn'[c].at = "respond"
          /\ conn'[c].req = conn[c].req /\ conn'[c].status \in {200, 503}
      BY <1>0, <2>1, Responding
    <2>4. AnswerOK(conn'[c]) /\ Endpoint(conn'[c].req) \notin WriteKinds
      BY <2>2, <2>3 DEF AnswerOK, Documented, WriteKinds
    <2>5. UNCHANGED dbVars /\ (faults' = faults \/ (faults < MaxFaults /\ faults' = faults + 1))
      BY <2>1, QueryKeeps
    <2> QED BY <1>8, <2>2, <2>3, <2>4, <2>5
  <1>4. CASE Decode(c)
    <2>1. /\ conn' \in [Clients -> Connection] /\ UNCHANGED <<phase, sent, stats>>
          /\ \A d \in Clients \ {c} : conn'[d] = conn[d]
          /\ conn[c].at = "sent" /\ conn'[c].at = "service"
          /\ conn'[c].req = conn[c].req
      BY <1>0, <1>4, Moving DEF Decode
    <2>2. UNCHANGED <<dbVars, restVars, up, idCounter, pc, op, faults>>
      BY <1>4 DEF Decode, vars
    <2>3. CallsService(conn'[c].req)
      BY <1>4, <2>1 DEF Decode
    <2>4. AnswerOK(conn'[c])
      BY <2>1 DEF AnswerOK
    <2> QED BY <1>8, <2>1, <2>2, <2>3, <2>4
  <1>5. CASE Lookup(c)
    <2>1. PICK ok \in BOOLEAN, status \in {200, 404} :
            /\ Query(ok) /\ Responds(c, "service", status)
            /\ Endpoint(conn[c].req) \in WriteKinds => status = 404
            /\ Endpoint(conn[c].req) \in {"fetch", "stock", "confirm", "cancel"}
      <3>1. PICK ok \in BOOLEAN : Query(ok) /\
              LET found == ok /\ Stored(conn[c].req) IN
              \/ Asks(c, {"fetch", "stock"}) /\ Responds(c, "service", IF found THEN 200 ELSE 404)
              \/ Asks(c, {"confirm", "cancel"}) /\ ~ found /\ Responds(c, "service", 404)
        BY <1>5 DEF Lookup
      <3>2. CASE Asks(c, {"fetch", "stock"}) /\ Responds(c, "service", IF ok /\ Stored(conn[c].req) THEN 200 ELSE 404)
        BY <3>1, <3>2 DEF Asks, WriteKinds
      <3>3. CASE Asks(c, {"confirm", "cancel"}) /\ Responds(c, "service", 404)
        BY <3>1, <3>3 DEF Asks, WriteKinds
      <3> QED BY <3>1, <3>2, <3>3
    <2>2. UNCHANGED <<restVars, up, idCounter, pc, op>>
      BY <1>5 DEF Lookup
    <2>3. /\ conn' \in [Clients -> Connection] /\ UNCHANGED <<phase, sent, stats>>
          /\ \A d \in Clients \ {c} : conn'[d] = conn[d]
          /\ conn[c].at = "service" /\ conn'[c].at = "respond"
          /\ conn'[c].req = conn[c].req /\ conn'[c].status = status
      BY <1>0, <2>1, Responding
    <2>4. AnswerOK(conn'[c])
      BY <2>1, <2>3 DEF AnswerOK, Documented
    <2>5. UNCHANGED dbVars /\ (faults' = faults \/ (faults < MaxFaults /\ faults' = faults + 1))
      BY <2>1, QueryKeeps
    <2> QED BY <1>8, <2>1, <2>2, <2>3, <2>4, <2>5
  <1>6. CASE ReserveUnknown(c)
    <2>1. Endpoint(conn[c].req) = "reserve" /\ UNCHANGED vars
      BY <1>6 DEF ReserveUnknown, Asks
    <2>2. /\ conn' \in [Clients -> Connection] /\ UNCHANGED <<phase, sent, stats>>
          /\ \A d \in Clients \ {c} : conn'[d] = conn[d]
          /\ conn[c].at = "service" /\ conn'[c].at = "respond"
          /\ conn'[c].req = conn[c].req /\ conn'[c].status = 404
      BY <1>0, <1>6, Responding DEF ReserveUnknown
    <2>3. AnswerOK(conn'[c])
      BY <2>1, <2>2 DEF AnswerOK, Documented
    <2>4. UNCHANGED <<dbVars, restVars, up, idCounter, pc, op, faults>>
      BY <2>1 DEF vars
    <2> QED BY <1>8, <2>2, <2>3, <2>4
  <1>7. CASE Record(c) \/ Refuse(c)
    <2>1. /\ conn' = [conn EXCEPT ![c] = Idle] /\ UNCHANGED <<vars, phase>>
          /\ conn[c].at \in {"respond", "sent"}
          /\ Record(c) \/ UNCHANGED stats
          /\ conn[c].at = "respond" => Record(c)
      BY <1>7 DEF Record, Refuse
    <2>2. Idle \in Connection
      BY DEF Connection
    <2>3. conn' \in [Clients -> Connection] /\ conn'[c].at = "idle" /\ \A d \in Clients \ {c} : conn'[d] = conn[d]
      BY <1>0, <2>1, <2>2
    <2>4. AnswerOK(conn'[c])
      BY <2>3 DEF AnswerOK
    <2>5. UNCHANGED <<dbVars, restVars, up, idCounter, pc, op, faults>>
      BY <2>1 DEF vars
    <2> QED BY <1>8, <2>1, <2>3, <2>4, <2>5
  <1> QED BY <1>1, <1>2, <1>3, <1>4, <1>5, <1>6, <1>7 DEF Front

-----------------------------------------------------------------------------
(* What a step of a call does to the call, the number and the tables.      *)

From(p, q) == pc[Me] = p /\ pc'[Me] = q

\* A step that writes nothing and draws no number.
Reads == UNCHANGED dbVars /\ idCounter'[Me] = idCounter[Me]

Lists ==
  /\ From("list", "expire") /\ Reads
  /\ \E todo \in SUBSET LapsedAt(op[Me].now) : op'[Me] = [op[Me] EXCEPT !.todo = todo]

Loses ==
  /\ From("expire", "answer") /\ Reads /\ faults' = faults + 1
  /\ op'[Me] = [op[Me] EXCEPT !.err = "ErrProductNotFound"]

Rejects ==
  /\ From("expire", "append") /\ Reads
  /\ op[Me].kind = "reserve" /\ op[Me].todo = {}
  /\ op'[Me] = [op[Me] EXCEPT !.err = "ErrOutOfStock", !.event = "ReserveRejected",
                              !.res = NilID, !.found = TRUE]

Accepts ==
  /\ From("expire", "save") /\ UNCHANGED dbVars
  /\ op[Me].kind = "reserve" /\ op[Me].todo = {} /\ AvailableStock(item) > 0
  /\ idCounter'[Me] = idCounter[Me] + 1
  /\ op'[Me] = [op[Me] EXCEPT !.event = "Reserved", !.res = idCounter'[Me], !.found = TRUE]

Saves ==
  /\ From("save", "hold") /\ op'[Me] = op[Me] /\ idCounter'[Me] = idCounter[Me]
  /\ Attempt(SaveReservation(op[Me].res, op[Me].now, op[Me].now + Hold))

Takes ==
  /\ From("hold", "append") /\ op'[Me] = op[Me] /\ idCounter'[Me] = idCounter[Me]
  /\ Attempt(UpdateProduct(1, 0))

Fetches ==
  /\ From("fetch", "decide") /\ Reads
  /\ \E state \in {rows[op[Me].res].state, ""} : op'[Me] = [op[Me] EXCEPT !.state = state]
  /\ faults' = faults => op'[Me].state = rows[op[Me].res].state

FindsLate ==
  /\ From("decide", "expire") /\ Reads
  /\ op[Me].state = "Active" /\ op[Me].kind = "confirm"
  /\ op'[Me] = [op[Me] EXCEPT !.now = clock, !.todo = {op[Me].res}, !.err = "ErrReservationExpired"]

Ends(kind, event) ==
  /\ From("decide", "finish") /\ Reads
  /\ op[Me].state = "Active" /\ (op[Me].kind = "confirm" <=> kind = "confirm")
  /\ op'[Me] = [op[Me] EXCEPT !.now = clock, !.event = event]

FindsEnded ==
  /\ From("decide", "answer") /\ Reads
  /\ \E err \in {"ErrReservationExpired", "ErrReservationAlreadyFinalized"} :
       op'[Me] = [op[Me] EXCEPT !.err = err]

ExpiresNext ==
  /\ From("expire", "finish") /\ Reads
  /\ \E i \in op[Me].todo, ok \in BOOLEAN :
       /\ faults' = faults => ok
       /\ op'[Me] = [op[Me] EXCEPT !.res = i, !.todo = @ \ {i}, !.found = ok, !.event = "Expired"]

Finishes ==
  /\ From("finish", "release") /\ op'[Me] = op[Me] /\ idCounter'[Me] = idCounter[Me]
  /\ Attempt(UpdateReservation(op[Me].res, op[Me].event, op[Me].now))

Releases ==
  /\ From("release", "append") /\ op'[Me] = op[Me] /\ idCounter'[Me] = idCounter[Me]
  /\ op[Me].found => Attempt(UpdateProduct(-1, IF op[Me].event = "Confirmed" THEN 1 ELSE 0))
  /\ ~ op[Me].found => UNCHANGED dbVars

Logs ==
  /\ From("append", IF op[Me].event = "Expired" THEN "expire" ELSE "answer")
  /\ op'[Me] = op[Me] /\ idCounter'[Me] = idCounter[Me] + 1
  /\ Attempt(AppendEvent(EventOf(Me)))

Refrains ==
  /\ From("expire", "answer") /\ Reads /\ op'[Me] = op[Me]
  /\ op[Me].kind = "confirm" /\ op[Me].todo = {}

(* The steps of a call, told by what they change.                          *)
LEMMA CallSteps ==
  ASSUME IInv, faults \in Nat, CallStep(Me)
  PROVE  /\ \/ Lists \/ Loses \/ Rejects \/ Accepts \/ Saves \/ Takes
            \/ Fetches \/ FindsLate \/ Ends("confirm", "Confirmed") \/ Ends("cancel", "Cancelled") \/ FindsEnded
            \/ ExpiresNext \/ Finishes \/ Releases \/ Logs \/ Refrains
         /\ UNCHANGED <<restVars, up>>
         /\ faults' = faults \/ (faults < MaxFaults /\ faults' = faults + 1)
  <1> USE DEF Goto, From
  <1>0. /\ Me \in Replicas /\ pc \in [Replicas -> Points] /\ op \in [Replicas -> Op]
        /\ idCounter \in [Replicas -> Nat] /\ op[Me] \in Op
    BY OneReplica DEF IInv, ProcessTypes
  <1>1. CASE ListStale(Me)
    <2>1. PICK ok \in BOOLEAN : Query(ok) /\ \E todo \in ScanReservations(LapsedAt(op[Me].now), ok) :
                                              op' = [op EXCEPT ![Me].todo = todo]
      BY <1>1 DEF ListStale
    <2>2. \E todo \in SUBSET LapsedAt(op[Me].now) : op'[Me] = [op[Me] EXCEPT !.todo = todo]
      BY <1>0, <2>1, ScanYields
    <2>3. UNCHANGED <<restVars, up, idCounter>> /\ pc[Me] = "list" /\ pc'[Me] = "expire"
      BY <1>0, <1>1 DEF ListStale
    <2> QED BY <2>1, <2>2, <2>3, QueryKeeps DEF Lists, Reads
  <1>2. CASE CheckStock(Me)
    <2>1. PICK ok \in BOOLEAN :
       /\ Query(ok)
       /\ \/ /\ ~ ok
             /\ Goto(Me, "expire", "answer")
             /\ op' = [op EXCEPT ![Me].err = "ErrProductNotFound"]
             /\ UNCHANGED idCounter
          \/ /\ ok /\ AvailableStock(item) <= 0
             /\ Goto(Me, "expire", "append")
             /\ op' = [op EXCEPT ![Me].err = "ErrOutOfStock", ![Me].event = "ReserveRejected",
                                 ![Me].res = NilID, ![Me].found = TRUE]
             /\ UNCHANGED idCounter
          \/ /\ ok /\ AvailableStock(item) > 0
             /\ Goto(Me, "expire", "save")
             /\ idCounter' = [idCounter EXCEPT ![Me] = @ + 1]
             /\ op' = [op EXCEPT ![Me].event = "Reserved", ![Me].res = idCounter[Me] + 1,
                                 ![Me].found = TRUE]
      BY <1>2 DEF CheckStock
    <2>2. /\ UNCHANGED <<dbVars, restVars, up>> /\ op[Me].kind = "reserve" /\ op[Me].todo = {}
          /\ faults' = faults \/ (faults < MaxFaults /\ faults' = faults + 1)
          /\ faults' = faults => ok
      BY <1>2, <2>1, QueryKeeps DEF CheckStock
    <2>3. CASE ~ ok /\ Goto(Me, "expire", "answer") /\ op' = [op EXCEPT ![Me].err = "ErrProductNotFound"] /\ UNCHANGED idCounter
      <3>1. faults' = faults + 1
        BY <2>2, <2>3
      <3> QED BY <1>0, <2>2, <2>3, <3>1 DEF Loses, Reads
    <2>4. CASE /\ Goto(Me, "expire", "append")
               /\ op' = [op EXCEPT ![Me].err = "ErrOutOfStock", ![Me].event = "ReserveRejected",
                                   ![Me].res = NilID, ![Me].found = TRUE]
               /\ UNCHANGED idCounter
      BY <1>0, <2>2, <2>4 DEF Rejects, Reads
    <2>5. CASE /\ AvailableStock(item) > 0
               /\ Goto(Me, "expire", "save")
               /\ idCounter' = [idCounter EXCEPT ![Me] = @ + 1]
               /\ op' = [op EXCEPT ![Me].event = "Reserved", ![Me].res = idCounter[Me] + 1,
                                   ![Me].found = TRUE]
      <3> DEFINE n == idCounter[Me] + 1
      <3>1. idCounter'[Me] = n
        BY <1>0, <2>5
      <3>2. op' = [op EXCEPT ![Me].event = "Reserved", ![Me].res = n, ![Me].found = TRUE]
        BY <2>5
      <3> HIDE DEF n
      <3>3. op'[Me] = [op[Me] EXCEPT !.event = "Reserved", !.res = n, !.found = TRUE]
        BY <1>0, <3>2
      <3>4. op'[Me] = [op[Me] EXCEPT !.event = "Reserved", !.res = idCounter'[Me], !.found = TRUE]
        BY <3>1, <3>3
      <3>5. pc[Me] = "expire" /\ pc'[Me] = "save" /\ AvailableStock(item) > 0
        BY <1>0, <2>5
      <3>6. Accepts
        BY <2>2, <3>1, <3>4, <3>5 DEF Accepts, n
      <3> QED BY <2>2, <3>6
    <2> QED BY <2>1, <2>3, <2>4, <2>5
  <1>3. CASE SaveReserved(Me)
    BY <1>0, <1>3 DEF SaveReserved, Saves, Attempt, Fault
  <1>4. CASE HoldUnit(Me)
    BY <1>0, <1>4 DEF HoldUnit, Takes, Attempt, Fault
  <1>5. CASE Fetch(Me)
    <2>1. PICK ok \in BOOLEAN : Query(ok) /\ op' = [op EXCEPT ![Me].state = IF ok THEN rows[op[Me].res].state ELSE ""]
      BY <1>5 DEF Fetch
    <2> DEFINE state == IF ok THEN rows[op[Me].res].state ELSE ""
    <2>2. op'[Me] = [op[Me] EXCEPT !.state = state] /\ state \in {rows[op[Me].res].state, ""}
      BY <1>0, <2>1
    <2>3. UNCHANGED <<restVars, up, idCounter>> /\ pc[Me] = "fetch" /\ pc'[Me] = "decide"
      BY <1>0, <1>5 DEF Fetch
    <2>4. faults' = faults => state = rows[op[Me].res].state
      BY <2>1, QueryKeeps
    <2> HIDE DEF state
    <2>5. op'[Me].state = state
      BY <1>0, <2>2 DEF Op
    <2> QED BY <2>1, <2>2, <2>3, <2>4, <2>5, QueryKeeps DEF Fetches, Reads
  <1>6. CASE Decide(Me)
    <2>1. UNCHANGED <<dbVars, restVars, up, idCounter, faults>>
      BY <1>6 DEF Decide
    <2>2. FindsLate \/ Ends("confirm", "Confirmed") \/ Ends("cancel", "Cancelled") \/ FindsEnded
      BY <1>0, <1>6, <2>1 DEF Decide, FindsLate, Ends, FindsEnded, Reads
    <2> QED BY <2>1, <2>2
  <1>7. CASE BeginExpiry(Me)
    <2>1. PICK i \in op[Me].todo, ok \in BOOLEAN :
            /\ Query(ok)
            /\ op' = [op EXCEPT ![Me].res = i, ![Me].todo = @ \ {i}, ![Me].found = ok, ![Me].event = "Expired"]
      BY <1>7 DEF BeginExpiry
    <2>2. op'[Me] = [op[Me] EXCEPT !.res = i, !.todo = @ \ {i}, !.found = ok, !.event = "Expired"]
      BY <1>0, <2>1
    <2>3. UNCHANGED <<restVars, up, idCounter>> /\ pc[Me] = "expire" /\ pc'[Me] = "finish"
      BY <1>0, <1>7 DEF BeginExpiry
    <2>4. UNCHANGED dbVars /\ (faults' = faults => ok)
      BY <2>1, QueryKeeps
    <2> QED BY <2>1, <2>2, <2>3, <2>4, QueryKeeps DEF ExpiresNext, Reads
  <1>8. CASE Finish(Me)
    BY <1>0, <1>8 DEF Finish, Finishes, Attempt, Fault
  <1>9. CASE Release(Me)
    BY <1>0, <1>9 DEF Release, Releases, Attempt, Fault
  <1>10. CASE AppendEventStep(Me)
    BY <1>0, <1>10 DEF AppendEventStep, Logs, Attempt, Fault
  <1>11. CASE ConfirmExpiryDone(Me)
    BY <1>0, <1>11 DEF ConfirmExpiryDone, Refrains, Reads
  <1> QED BY <1>1, <1>2, <1>3, <1>4, <1>5, <1>6, <1>7, <1>8, <1>9, <1>10, <1>11 DEF CallStep

-----------------------------------------------------------------------------
(* Every step of the server.                                               *)

\* A step of the service, its sweeper or the clock, which no connection sees.
Inside == (CallStep(Me) \/ SweepStep(Me) \/ AdvanceClock) /\ UNCHANGED serverVars

(* The steps of the server, sorted by what they touch.                     *)
LEMMA ServerSteps ==
  ASSUME [ServerNext]_allVars
  PROVE  \/ \E c \in Clients : Front(c) \/ Call(c) \/ Reply(c)
         \/ Inside
         \/ Signal
         \/ Drained \/ Timeout \/ ListenFails
         \/ Boot
         \/ UNCHANGED allVars
  BY DEF ServerNext, Serve, Lifecycle, ServiceStep, SweeperStep, Pass, AllQuiet, Front, Inside

(* A call takes the lock of the one who calls.                             *)
LEMMA CallEffect ==
  ASSUME FrontInv, NEW c \in Clients, Call(c)
  PROVE  /\ BeginReserve(Me) \/ BeginFinalize(Me)
         /\ UNCHANGED <<dbVars, clock, sweep, up, idCounter, sweeps, crashes, faults, phase, stats>>
         /\ conn' \in [Clients -> Connection] /\ \A d \in Clients \ {c} : conn'[d] = conn[d]
         /\ conn[c].at = "service" /\ conn'[c].at = "call" /\ conn'[c].req = conn[c].req
         /\ conn'[c].faultsBefore = faults
         /\ op'[Me].kind = Endpoint(conn[c].req) /\ op'[Me].kind \in WriteKinds
         /\ pc[Me] = "idle"
         /\ op'[Me].err = "nil" /\ op'[Me].found = TRUE /\ op'[Me].todo = {}
         /\ op'[Me].now = clock
         /\ \/ op'[Me].kind = "reserve" /\ pc'[Me] = "list"
            \/ op'[Me].kind # "reserve" /\ pc'[Me] = "fetch" /\ op'[Me].res \in DOMAIN rows
  <1>0. /\ Me \in Replicas /\ pc \in [Replicas -> Points] /\ op \in [Replicas -> Op]
        /\ conn \in [Clients -> Connection] /\ clock \in Int /\ faults \in Nat
    BY OneReplica, DurableAssumption DEF FrontInv, IInv, ProcessTypes, ConnectionInv, ProcessInv
  <1>1. /\ conn' \in [Clients -> Connection] /\ \A d \in Clients \ {c} : conn'[d] = conn[d]
        /\ conn[c].at = "service" /\ conn'[c].at = "call" /\ conn'[c].req = conn[c].req
        /\ conn'[c].faultsBefore = faults /\ UNCHANGED <<phase, sent, stats>>
    <2>1. conn[c].at = "service" /\ UNCHANGED <<phase, sent, stats>>
      BY DEF Call
    <2>2. conn[c] \in [at : {"sent", "service", "call", "respond"}, req : Requests,
                       status : Nat, faultsBefore : Nat]
      BY <1>0, <2>1 DEF Connection, Idle
    <2> DEFINE k == [conn[c] EXCEPT !.at = "call", !.faultsBefore = faults]
    <2>3. conn' = [conn EXCEPT ![c] = k]
      BY DEF Call
    <2>4. k \in Connection /\ k.at = "call" /\ k.req = conn[c].req /\ k.faultsBefore = faults
      BY <1>0, <2>2 DEF Connection
    <2> HIDE DEF k
    <2> QED BY <1>0, <2>1, <2>3, <2>4
  <1>2. CASE Asks(c, {"reserve"}) /\ BeginReserve(Me)
    <2>1. op' = [op EXCEPT ![Me] = [NoOp EXCEPT !.kind = "reserve", !.res = NilID, !.now = clock]]
      BY <1>2 DEF BeginReserve, Begin
    <2>2. /\ op'[Me].kind = "reserve" /\ op'[Me].err = "nil" /\ op'[Me].found = TRUE
          /\ op'[Me].todo = {} /\ op'[Me].now = clock
      BY <1>0, <2>1 DEF NoOp
    <2>3. pc[Me] = "idle" /\ pc'[Me] = "list"
      BY <1>0, <1>2 DEF BeginReserve, Goto
    <2>4. Endpoint(conn[c].req) = "reserve"
      BY <1>2 DEF Asks
    <2> QED BY <1>1, <1>2, <2>2, <2>3, <2>4 DEF BeginReserve, Begin, WriteKinds
  <1>3. CASE /\ Asks(c, {"confirm", "cancel"}) /\ BeginFinalize(Me)
             /\ op'[Me].kind = Endpoint(conn[c].req)
    <2>1. PICK kind \in {"confirm", "cancel"}, i \in DOMAIN rows :
            op' = [op EXCEPT ![Me] = [NoOp EXCEPT !.kind = kind, !.res = i, !.now = clock]]
      BY <1>3 DEF BeginFinalize, Begin
    <2>2. /\ op'[Me].kind = kind /\ op'[Me].err = "nil" /\ op'[Me].found = TRUE
          /\ op'[Me].todo = {} /\ op'[Me].now = clock /\ op'[Me].res = i
      BY <1>0, <2>1 DEF NoOp
    <2>3. pc[Me] = "idle" /\ pc'[Me] = "fetch"
      BY <1>0, <1>3 DEF BeginFinalize, Goto
    <2>4. UNCHANGED <<dbVars, clock, sweep, up, idCounter, sweeps, crashes, faults>>
      BY <1>3 DEF BeginFinalize, Begin
    <2> QED BY <1>1, <1>3, <2>2, <2>3, <2>4 DEF WriteKinds
  <1> QED BY <1>2, <1>3 DEF Call

(* The answer of the service becomes the answer of the handler.            *)
LEMMA ReplyEffect ==
  ASSUME FrontInv, NEW c \in Clients, Reply(c)
  PROVE  /\ UNCHANGED <<dbVars, restVars, up, idCounter, faults, phase, stats>>
         /\ pc[Me] = "answer" /\ pc'[Me] = "idle" /\ op'[Me] = NoOp
         /\ conn' \in [Clients -> Connection] /\ \A d \in Clients \ {c} : conn'[d] = conn[d]
         /\ conn[c].at = "call" /\ conn'[c].at = "respond" /\ conn'[c].req = conn[c].req
         /\ op[Me].kind = Endpoint(conn[c].req) /\ op[Me].kind \in WriteKinds
         /\ op[Me].err = "nil" => conn'[c].status = IF op[Me].kind = "reserve" THEN 201 ELSE 200
         /\ op[Me].err # "nil" => conn'[c].status \in {404, 409}
  <1>0. /\ Me \in Replicas /\ pc \in [Replicas -> Points] /\ op \in [Replicas -> Op]
        /\ conn \in [Clients -> Connection]
    BY OneReplica DEF FrontInv, IInv, ProcessTypes, ConnectionInv
  <1>1. op[Me].err \in {"nil", "ErrProductNotFound", "ErrOutOfStock", "ErrReservationExpired",
                        "ErrReservationAlreadyFinalized"}
    <2>1. op[Me] \in Op
      BY <1>0
    <2> QED BY <2>1 DEF Op
  <1>2. conn[c].at = "call"
    BY DEF Reply, Responds
  <1>3. op[Me].kind = Endpoint(conn[c].req) /\ op[Me].kind \in WriteKinds
    BY <1>2 DEF FrontInv, CallsMatch
  <1> DEFINE status == Status(conn[c].req, op[Me].err)
  <1>4. /\ op[Me].err = "nil" => status = IF op[Me].kind = "reserve" THEN 201 ELSE 200
        /\ op[Me].err # "nil" => status \in {404, 409}
    BY <1>1, <1>3 DEF Status, ErrorStatus
  <1>5. status \in Nat /\ Responds(c, "call", status)
    BY <1>4 DEF Reply
  <1> HIDE DEF status
  <1>6. /\ conn' \in [Clients -> Connection] /\ \A d \in Clients \ {c} : conn'[d] = conn[d]
        /\ conn'[c].at = "respond" /\ conn'[c].req = conn[c].req /\ conn'[c].status = status
        /\ UNCHANGED <<phase, sent, stats>>
    BY <1>0, <1>5, Responding
  <1>7. /\ pc[Me] = "answer" /\ pc'[Me] = "idle" /\ op'[Me] = NoOp
        /\ UNCHANGED <<dbVars, restVars, up, idCounter, faults>>
    BY <1>0 DEF Reply, Answer, Goto
  <1> QED BY <1>2, <1>3, <1>4, <1>6, <1>7

(* The steps of the sweeper: the list, the lock and the end.               *)
LEMMA SweeperEffect ==
  ASSUME IInv, faults \in Nat, SweepStep(Me)
  PROVE  /\ UNCHANGED <<dbVars, clock, up, idCounter, requests, crashes>>
         /\ faults' = faults \/ (faults < MaxFaults /\ faults' = faults + 1)
         /\ \/ /\ UNCHANGED <<pc, op>> /\ up[Me] /\ Me \in Sweepers
               /\ \/ sweep' = sweep
                  \/ \E now \in 0 .. clock, todo \in SUBSET Int : sweep'[Me] = [todo |-> todo, now |-> now]
            \/ /\ pc[Me] = "idle" /\ pc'[Me] = "expire" /\ sweep[Me] # NoSweep /\ sweep'[Me] = NoSweep
               /\ op'[Me] = [NoOp EXCEPT !.kind = "sweep", !.todo = sweep[Me].todo, !.now = sweep[Me].now]
            \/ /\ op[Me].kind = "sweep" /\ op[Me].todo = {} /\ pc[Me] = "expire" /\ pc'[Me] = "idle"
               /\ op'[Me] = NoOp /\ sweep' = sweep
  <1>0. /\ Me \in Replicas /\ pc \in [Replicas -> Points] /\ op \in [Replicas -> Op]
        /\ sweep \in [Replicas -> [todo : SUBSET Int, now : Int]]
    BY OneReplica DEF IInv, ProcessTypes
  <1>1. CASE ListSweep(Me)
    <2>1. PICK now \in 0 .. clock, ok \in BOOLEAN :
            /\ Query(ok)
            /\ \E todo \in ScanReservations(LapsedAt(now), ok) :
                 sweep' = IF todo = {} THEN sweep ELSE [sweep EXCEPT ![Me] = [todo |-> todo, now |-> now]]
      BY <1>1 DEF ListSweep
    <2>2. LapsedAt(now) \subseteq Int
      BY DEF IInv, TablesInv, LapsedAt, ActiveReservations, RowsIn
    <2>4. sweep' = sweep \/ \E todo \in SUBSET Int : sweep'[Me] = [todo |-> todo, now |-> now]
      BY <1>0, <2>1, <2>2, ScanYields
    <2>3. UNCHANGED <<clock, up, idCounter, pc, op, requests, crashes>> /\ up[Me] /\ Me \in Sweepers
      BY <1>1 DEF ListSweep
    <2> QED BY <2>1, <2>3, <2>4, QueryKeeps
  <1>2. CASE LockSweep(Me)
    BY <1>0, <1>2 DEF LockSweep, Goto
  <1>3. CASE UnlockSweep(Me)
    BY <1>0, <1>3 DEF UnlockSweep, Goto, restVars
  <1> QED BY <1>1, <1>2, <1>3 DEF SweepStep

(* The process ends, and what is in memory is gone.                        *)
LEMMA ExitEffect ==
  ASSUME FrontInv, Drained \/ Timeout \/ ListenFails
  PROVE  /\ UNCHANGED <<dbVars, clock, requests, sweeps, faults, stats>>
         /\ Crash(Me) /\ phase \in {"serve", "drain"} /\ crashes' = crashes + 1
         /\ ~ up'[Me] /\ pc'[Me] = "idle" /\ op'[Me] = NoOp /\ sweep'[Me] = NoSweep
         /\ idCounter'[Me] = 0
         /\ conn' = [c \in Clients |-> Idle]
         /\ (phase' = "drained" /\ conn' = conn) \/ phase' = "down"
  <1>0. /\ Me \in Replicas /\ pc \in [Replicas -> Points] /\ op \in [Replicas -> Op]
        /\ idCounter \in [Replicas -> Nat] /\ up \in [Replicas -> BOOLEAN]
        /\ sweep \in [Replicas -> [todo : SUBSET Int, now : Int]]
        /\ conn \in [Clients -> Connection]
    BY OneReplica DEF FrontInv, IInv, ProcessTypes, ConnectionInv
  <1>1. PICK end \in {"drained", "down"} :
          /\ Exit(end) /\ phase \in {"serve", "drain"}
          /\ end = "drained" => \A c \in Clients : conn[c] = Idle
    BY DEF Drained, Timeout, ListenFails
  <1>2. Crash(Me) /\ phase' = end /\ conn' = [c \in Clients |-> Idle] /\ UNCHANGED stats
    BY <1>1 DEF Exit
  <1>3. end = "drained" => conn' = conn
    BY <1>0, <1>1, <1>2
  <1>4. /\ UNCHANGED <<dbVars, clock, requests, sweeps, faults>> /\ crashes' = crashes + 1
        /\ ~ up'[Me] /\ pc'[Me] = "idle" /\ op'[Me] = NoOp /\ sweep'[Me] = NoSweep
        /\ idCounter'[Me] = 0
    BY <1>0, <1>2 DEF Crash
  <1> QED BY <1>1, <1>2, <1>3, <1>4

(* Every step of the server keeps what is known of the service: a step of  *)
(* the service, or one that leaves everything but the faults alone.        *)
LEMMA ServiceKept ==
  ASSUME FrontInv, [ServerNext]_allVars
  PROVE  IInv'
  <1> USE DEF FrontInv
  <1>0. Me \in Replicas
    BY OneReplica
  <1>1. ASSUME NEW c \in Clients, Front(c) PROVE IInv'
    <2>1. UNCHANGED <<dbVars, restVars, up, idCounter, pc, op>>
      BY <1>1, FrontStep
    <2> QED BY <2>1 DEF IInv, TablesInv, ProcessTypes, CallOK, InTime, LapsedBy, RowOK, RowCheck,
                        Lapsed, dbVars, restVars
  <1>2. ASSUME NEW c \in Clients, Call(c) \/ Reply(c) PROVE IInv'
    <2>1. Step(Me)
      BY <1>2 DEF Call, Reply, Step
    <2> QED BY <1>0, <2>1, InductiveStep DEF Next
  <1>3. CASE Inside
    <2>1. Step(Me) \/ SweepStep(Me) \/ AdvanceClock
      BY <1>3 DEF Inside, Step
    <2> QED BY <1>0, <2>1, InductiveStep DEF Next
  <1>4. CASE Signal \/ UNCHANGED allVars
    <2>1. UNCHANGED vars
      BY <1>4 DEF Signal, allVars
    <2> QED BY <2>1, InductiveStep
  <1>5. CASE Drained \/ Timeout \/ ListenFails \/ Boot
    <2>1. Crash(Me) \/ Start(Me)
      BY <1>5 DEF Drained, Timeout, ListenFails, Boot, Exit
    <2> QED BY <1>0, <2>1, InductiveStep DEF Next
  <1> QED BY <1>1, <1>2, <1>3, <1>4, <1>5, ServerSteps

(* What the step of a call leaves to its connection.                       *)
LEMMA CallStays ==
  ASSUME IInv, faults \in Nat, CallStep(Me)
  PROVE  /\ pc[Me] # "idle" /\ pc'[Me] # "idle" /\ op'[Me].kind = op[Me].kind
         /\ op'[Me].err = "ErrProductNotFound" => op[Me].err = "ErrProductNotFound" \/ faults' > 0
  <1>0. op[Me] \in Op
    BY OneReplica DEF IInv, ProcessTypes
  <1>1. pc[Me] # "idle" /\ pc'[Me] # "idle"
    BY CallSteps DEF From, Lists, Loses, Rejects, Accepts, Saves, Takes, Fetches, FindsLate, Ends,
                     FindsEnded, ExpiresNext, Finishes, Releases, Logs, Refrains
  <1>2. op'[Me].kind = op[Me].kind
    BY <1>0, CallSteps DEF Lists, Loses, Rejects, Accepts, Saves, Takes, Fetches, FindsLate, Ends,
                     FindsEnded, ExpiresNext, Finishes, Releases, Logs, Refrains, Op
  <1>3. op'[Me].err = "ErrProductNotFound" => op[Me].err = "ErrProductNotFound" \/ faults' = faults + 1
    BY <1>0, CallSteps DEF Lists, Loses, Rejects, Accepts, Saves, Takes, Fetches, FindsLate, Ends,
                     FindsEnded, ExpiresNext, Finishes, Releases, Logs, Refrains, Op
  <1>4. faults' = faults + 1 => faults' > 0
    OBVIOUS
  <1> QED BY <1>1, <1>2, <1>4, <1>3

\* Every step of the server keeps the calls with their connections.
LEMMA CallsMatchStep ==
  ASSUME FrontInv, [ServerNext]_allVars
  PROVE  CallsMatch'
  <1>0. IInv /\ faults \in Nat /\ CallsMatch
    BY DEF FrontInv, ProcessInv
  <1>1. ASSUME NEW c \in Clients, Front(c) PROVE CallsMatch'
    BY <1>0, <1>1, FrontStep DEF CallsMatch
  <1>2. ASSUME NEW c \in Clients, Call(c) PROVE CallsMatch'
    <2>0. pc[Me] = "idle" /\ \A d \in Clients \ {c} : conn'[d] = conn[d]
      BY <1>2, CallEffect
    <2>1. \A d \in Clients : conn'[d].at = "call" => d = c
      BY <1>0, <2>0 DEF CallsMatch
    <2>2. op'[Me].kind = Endpoint(conn'[c].req) /\ op'[Me].kind \in WriteKinds /\ pc'[Me] # "idle"
          /\ conn'[c].at = "call"
      BY <1>2, CallEffect
    <2> QED BY <2>1, <2>2 DEF CallsMatch
  <1>3. ASSUME NEW c \in Clients, Reply(c) PROVE CallsMatch'
    <2>1. \A d \in Clients : conn'[d].at # "call"
      BY <1>0, <1>3, ReplyEffect DEF CallsMatch
    <2> QED BY <1>3, <2>1, ReplyEffect DEF CallsMatch
  <1>4. CASE CallStep(Me) /\ UNCHANGED serverVars
    BY <1>0, <1>4, CallStays DEF CallsMatch, serverVars
  <1>5. CASE SweepStep(Me) /\ UNCHANGED serverVars
    <2>1. conn' = conn
      BY <1>5 DEF serverVars
    <2>2. CASE UNCHANGED <<pc, op>>
      BY <1>0, <2>1, <2>2 DEF CallsMatch
    <2>3. CASE pc[Me] = "idle" /\ op'[Me] = [NoOp EXCEPT !.kind = "sweep", !.todo = sweep[Me].todo, !.now = sweep[Me].now]
      <3>1. op'[Me].kind = "sweep"
        BY <2>3 DEF NoOp
      <3> QED BY <1>0, <2>1, <2>3, <3>1 DEF CallsMatch
    <2>4. CASE op[Me].kind = "sweep" /\ pc'[Me] = "idle"
      BY <1>0, <2>1, <2>4 DEF CallsMatch, WriteKinds
    <2> QED BY <1>0, <1>5, <2>2, <2>3, <2>4, SweeperEffect
  <1>6. CASE Drained \/ Timeout \/ ListenFails
    <2>1. pc'[Me] = "idle" /\ conn' = [c \in Clients |-> Idle]
      BY <1>6, ExitEffect
    <2>2. \A c \in Clients : conn'[c].at # "call"
      BY <2>1 DEF Idle
    <2> QED BY <2>1, <2>2 DEF CallsMatch
  <1>7. CASE Signal \/ Boot \/ (AdvanceClock /\ UNCHANGED serverVars) \/ UNCHANGED allVars
    <2>1. UNCHANGED <<pc, op, conn>>
      BY <1>7 DEF Signal, Boot, Start, AdvanceClock, serverVars, allVars, vars
    <2> QED BY <1>0, <2>1 DEF CallsMatch
  <1> QED BY <1>1, <1>2, <1>3, <1>4, <1>5, <1>6, <1>7, ServerSteps DEF Inside

\* Every step of the server keeps the connections in order.
LEMMA ConnectionStep ==
  ASSUME FrontInv, [ServerNext]_allVars
  PROVE  ConnectionInv'
  <1>0. ConnectionInv
    BY DEF FrontInv
  <1>1. ASSUME NEW c \in Clients, Front(c) PROVE ConnectionInv'
    <2>1. /\ conn' \in [Clients -> Connection] /\ \A d \in Clients \ {c} : conn'[d] = conn[d]
          /\ conn'[c].at = "service" => CallsService(conn'[c].req)
          /\ AnswerOK(conn'[c])
      BY <1>1, FrontStep
    <2> QED BY <1>0, <2>1 DEF ConnectionInv
  <1>2. ASSUME NEW c \in Clients, Call(c) PROVE ConnectionInv'
    <2>1. /\ conn' \in [Clients -> Connection] /\ \A d \in Clients \ {c} : conn'[d] = conn[d]
          /\ conn'[c].at = "call"
      BY <1>2, CallEffect
    <2>2. AnswerOK(conn'[c])
      BY <2>1 DEF AnswerOK
    <2> QED BY <1>0, <2>1, <2>2 DEF ConnectionInv
  <1>3. ASSUME NEW c \in Clients, Reply(c) PROVE ConnectionInv'
    <2>1. /\ conn' \in [Clients -> Connection] /\ \A d \in Clients \ {c} : conn'[d] = conn[d]
          /\ conn'[c].at = "respond"
          /\ Endpoint(conn'[c].req) \in WriteKinds
          /\ conn'[c].status \in {404, 409, IF Endpoint(conn'[c].req) = "reserve" THEN 201 ELSE 200}
      BY <1>3, ReplyEffect
    <2>2. AnswerOK(conn'[c])
      BY <2>1 DEF AnswerOK, Documented, WriteKinds
    <2> QED BY <1>0, <2>1, <2>2 DEF ConnectionInv
  <1>4. CASE Drained \/ Timeout \/ ListenFails
    <2>1. conn' = [c \in Clients |-> Idle]
      BY <1>4, ExitEffect
    <2>2. Idle \in Connection /\ Idle.at = "idle" /\ AnswerOK(Idle)
      BY DEF Connection, Idle, AnswerOK
    <2>3. \A c \in Clients : conn'[c] = Idle
      BY <2>1
    <2>4. \A c \in Clients : AnswerOK(conn'[c])
      BY <2>2, <2>3
    <2> QED BY <2>1, <2>2, <2>3, <2>4 DEF ConnectionInv
  <1>5. CASE Inside \/ Signal \/ Boot \/ UNCHANGED allVars
    <2>1. UNCHANGED conn
      BY <1>5 DEF Inside, Signal, Boot, serverVars, allVars
    <2> QED BY <1>0, <2>1 DEF ConnectionInv
  <1> QED BY <1>1, <1>2, <1>3, <1>4, <1>5, ServerSteps

\* Every step of the server keeps what its end has cleared.
LEMMA ProcessStep ==
  ASSUME FrontInv, [ServerNext]_allVars
  PROVE  ProcessInv'
  <1>0. ProcessInv /\ IInv /\ faults \in Nat /\ MaxBoots \in Nat /\ MaxFaults \in Nat /\ crashes \in Nat
    BY ServerAssumption, DurableAssumption DEF FrontInv, ProcessInv
  <1>9. NoOp.err = "nil" /\ NoSweep # [NoSweep EXCEPT !.now = 1]
    BY DEF NoOp, NoSweep
  <1>1. ASSUME NEW c \in Clients, Front(c) PROVE ProcessInv'
    <2>1. /\ UNCHANGED <<restVars, up, pc, op, phase>> /\ phase \in {"serve", "drain"}
          /\ faults' = faults \/ (faults < MaxFaults /\ faults' = faults + 1)
      BY <1>0, <1>1, FrontStep DEF ProcessInv
    <2> QED BY <1>0, <2>1 DEF ProcessInv, restVars
  <1>2. ASSUME NEW c \in Clients, Call(c) PROVE ProcessInv'
    <2>1. /\ UNCHANGED <<sweep, up, crashes, faults, phase>> /\ conn[c].at = "service"
          /\ pc'[Me] # "idle" /\ op'[Me].err = "nil"
      BY <1>2, CallEffect
    <2>2. phase \in {"serve", "drain"}
      BY <1>0, <2>1 DEF ProcessInv, Idle
    <2> QED BY <1>0, <2>1, <2>2 DEF ProcessInv
  <1>3. ASSUME NEW c \in Clients, Reply(c) PROVE ProcessInv'
    <2>1. /\ UNCHANGED <<restVars, up, faults, phase>> /\ pc[Me] = "answer"
          /\ pc'[Me] = "idle" /\ op'[Me] = NoOp
      BY <1>3, ReplyEffect
    <2> QED BY <1>0, <1>9, <2>1 DEF ProcessInv, restVars
  <1>4. CASE CallStep(Me) /\ UNCHANGED serverVars
    <2>1. /\ UNCHANGED <<restVars, up, phase, conn>> /\ pc[Me] # "idle" /\ pc'[Me] # "idle"
          /\ faults' = faults \/ (faults < MaxFaults /\ faults' = faults + 1)
          /\ op'[Me].err = "ErrProductNotFound" => op[Me].err = "ErrProductNotFound" \/ faults' > 0
      BY <1>0, <1>4, CallSteps, CallStays DEF serverVars
    <2> QED BY <1>0, <2>1 DEF ProcessInv, restVars
  <1>5. CASE SweepStep(Me) /\ UNCHANGED serverVars
    <2>1. UNCHANGED <<crashes, up, phase, conn>>
      BY <1>0, <1>5, SweeperEffect DEF serverVars
    <2>2. faults' = faults \/ (faults < MaxFaults /\ faults' = faults + 1)
      BY <1>0, <1>5, SweeperEffect
    <2>3. CASE UNCHANGED <<pc, op>> /\ up[Me]
      BY <1>0, <2>1, <2>2, <2>3 DEF ProcessInv
    <2>4. CASE /\ pc[Me] = "idle" /\ pc'[Me] = "expire" /\ sweep[Me] # NoSweep
               /\ op'[Me] = [NoOp EXCEPT !.kind = "sweep", !.todo = sweep[Me].todo, !.now = sweep[Me].now]
      <3>1. op'[Me].err = "nil"
        BY <2>4 DEF NoOp
      <3> QED BY <1>0, <2>1, <2>2, <2>4, <3>1 DEF ProcessInv
    <2>5. CASE pc[Me] = "expire" /\ pc'[Me] = "idle" /\ op'[Me] = NoOp /\ sweep' = sweep
      BY <1>0, <1>9, <2>1, <2>2, <2>5 DEF ProcessInv
    <2> QED BY <1>0, <1>5, <2>3, <2>4, <2>5, SweeperEffect
  <1>6. CASE Drained \/ Timeout \/ ListenFails
    <2>1. /\ phase \in {"serve", "drain"} /\ phase' \in {"drained", "down"} /\ crashes' = crashes + 1
          /\ ~ up'[Me] /\ pc'[Me] = "idle" /\ op'[Me] = NoOp /\ sweep'[Me] = NoSweep
          /\ conn' = [c \in Clients |-> Idle] /\ faults' = faults
      BY <1>6, ExitEffect
    <2> QED BY <1>0, <1>9, <2>1 DEF ProcessInv
  <1>7. CASE Boot
    <2>1. /\ UNCHANGED <<restVars, pc, op>> /\ phase' = "serve" /\ crashes <= MaxBoots
          /\ faults' = faults \/ (faults < MaxFaults /\ faults' = faults + 1)
      BY <1>7 DEF Boot, Start, Attempt, Fault
    <2> QED BY <1>0, <2>1 DEF ProcessInv, restVars
  <1>8. CASE Signal \/ (AdvanceClock /\ UNCHANGED serverVars) \/ UNCHANGED allVars
    <2>1. /\ UNCHANGED <<up, pc, op, sweep, crashes, faults, conn>>
          /\ phase' = phase \/ (phase = "serve" /\ phase' = "drain")
      BY <1>8 DEF Signal, AdvanceClock, serverVars, allVars, vars, restVars
    <2> QED BY <1>0, <2>1 DEF ProcessInv
  <1> QED BY <1>1, <1>2, <1>3, <1>4, <1>5, <1>6, <1>7, <1>8, ServerSteps DEF Inside

\* The seeded service with idle connections.
LEMMA FrontInitially == ServerInit => FrontInv
  <1> SUFFICES ASSUME ServerInit PROVE FrontInv
    OBVIOUS
  <1>1. IInv
    BY InitialStep DEF ServerInit
  <1>2. Me \in Replicas
    BY OneReplica
  <1>3. pc[Me] = "idle" /\ op[Me] = NoOp /\ sweep[Me] = NoSweep /\ crashes = 0 /\ faults = 0
    BY <1>2 DEF ServerInit, Init
  <1>4. Idle \in Connection /\ Idle.at = "idle" /\ AnswerOK(Idle)
    BY DEF Connection, Idle, AnswerOK
  <1>5. conn = [c \in Clients |-> Idle] /\ \A c \in Clients : conn[c] = Idle
    BY DEF ServerInit
  <1>6. ConnectionInv
    <2>1. \A c \in Clients : AnswerOK(conn[c])
      BY <1>4, <1>5
    <2> QED BY <1>4, <1>5, <2>1 DEF ConnectionInv
  <1>7. CallsMatch
    BY <1>3, <1>4, <1>5 DEF CallsMatch
  <1>8. ProcessInv
    <2>1. MaxBoots \in Nat /\ MaxFaults \in Nat /\ NoOp.err = "nil"
      BY ServerAssumption, DurableAssumption DEF NoOp
    <2>2. phase = "serve"
      BY DEF ServerInit
    <2> QED BY <1>3, <2>1, <2>2 DEF ProcessInv
  <1> QED BY <1>1, <1>6, <1>7, <1>8 DEF FrontInv

(* In every reachable state of the server the service's invariant holds    *)
(* and each connection is where the service and the process say it is.     *)
THEOREM FrontInvariance == ServerSpec => []FrontInv
  <1>1. FrontInv /\ [ServerNext]_allVars => FrontInv'
    BY ServiceKept, CallsMatchStep, ConnectionStep, ProcessStep DEF FrontInv
  <1> QED BY <1>1, FrontInitially, PTL DEF ServerSpec

(* Every answer of every handler, also while statements fail, has a status *)
(* that openapi.yaml lists for it and is counted under the handler's path. *)
THEOREM StatusesDocumented == ServerSpec => []AnswersDocumented
  <1>1. FrontInv => AnswersDocumented
    <2> SUFFICES ASSUME FrontInv, NEW c \in Clients, Answering(c)
                 PROVE  LET req == conn[c].req
                            e == Endpoint(req)
                        IN  /\ e \in DOMAIN Documented => conn[c].status \in Documented[e]
                            /\ e \in DOMAIN Endpoints \ {"openapi"} /\ req.method # "HEAD"
                                 => RouteLabel(req) = Endpoints[e].path
      BY DEF AnswersDocumented
    <2>1. AnswerOK(conn[c])
      BY DEF FrontInv, ConnectionInv
    <2> QED BY <2>1, LabelOfHandler DEF AnswerOK, Answering
  <1> QED BY <1>1, FrontInvariance, PTL

(* A request that reaches the service is answered with 404 only if what it *)
(* names is not stored or a statement has failed.                          *)
THEOREM MissingMeansNotStored == ServerSpec => NotFoundMeansMissing
  <1> DEFINE Missing ==
        \A c \in Clients :
          ~ Answering(c) /\ Answering(c)' /\ conn'[c].status = 404 /\ CallsService(conn[c].req)
            => ~ Stored(conn[c].req) \/ faults' > 0
  <1>1. FrontInv /\ [ServerNext]_allVars => [Missing]_allVars
    <2> SUFFICES ASSUME FrontInv, ServerNext,
                        NEW c \in Clients, ~ Answering(c), Answering(c)', conn'[c].status = 404,
                        CallsService(conn[c].req), Stored(conn[c].req), ~ (faults' > 0)
                 PROVE  FALSE
      OBVIOUS
    <2>0. faults \in Nat /\ Idle.at = "idle"
      BY DurableAssumption DEF FrontInv, ProcessInv, Idle
    <2>1. conn[c].at # "respond" /\ conn'[c].at = "respond"
      BY DEF Answering
    <2>2. ASSUME NEW d \in Clients, Front(d) PROVE FALSE
      <3>1. d = c
        BY <2>1, <2>2, FrontStep
      <3>2. /\ conn' \in [Clients -> Connection] /\ conn \in [Clients -> Connection]
        BY <2>2, FrontStep DEF FrontInv, ConnectionInv
      <3>3. CASE AnswerLocally(c)
        BY <3>3 DEF AnswerLocally
      <3>4. CASE Healthz(c)
        BY <3>4 DEF Healthz, Asks, CallsService
      <3>5. CASE Lookup(c)
        <4>1. PICK ok \in BOOLEAN, status \in {200, 404} :
                Query(ok) /\ Responds(c, "service", status) /\ (status = 404 => ~ (ok /\ Stored(conn[c].req)))
          BY <3>5 DEF Lookup
        <4>2. conn'[c].status = status
          BY <3>2, <4>1, Responding
        <4>3. faults' > 0
          BY <2>0, <4>1, <4>2, QueryKeeps
        <4> QED BY <4>3
      <3>6. CASE ReserveUnknown(c)
        BY <3>6 DEF ReserveUnknown
      <3>7. CASE Send(c) \/ Decode(c) \/ Record(c) \/ Refuse(c)
        <4>1. CASE Send(c)
          BY <2>1, <3>2, <4>1 DEF Send
        <4>2. CASE Decode(c)
          BY <2>1, <3>2, <4>2, Moving DEF Decode
        <4>3. CASE Record(c) \/ Refuse(c)
          BY <2>0, <2>1, <3>2, <4>3 DEF Record, Refuse
        <4> QED BY <3>7, <4>1, <4>2, <4>3
      <3> QED BY <2>2, <3>1, <3>3, <3>4, <3>5, <3>6, <3>7 DEF Front
    <2>3. ASSUME NEW d \in Clients, Call(d) PROVE FALSE
      <3>1. conn'[d].at = "call" /\ \A e \in Clients \ {d} : conn'[e] = conn[e]
        BY <2>3, CallEffect
      <3> QED BY <2>1, <3>1
    <2>4. ASSUME NEW d \in Clients, Reply(d) PROVE FALSE
      <3>1. d = c /\ op[Me].err # "nil" /\ pc[Me] = "answer" /\ faults' = faults
        BY <2>1, <2>4, ReplyEffect
      <3>2. op[Me].err # "ErrProductNotFound"
        BY <2>0, <3>1 DEF FrontInv, ProcessInv
      <3>3. op[Me].err \in {"ErrOutOfStock", "ErrReservationExpired", "ErrReservationAlreadyFinalized"}
        <4>1. op[Me] \in Op
          BY OneReplica DEF FrontInv, IInv, ProcessTypes
        <4> QED BY <3>1, <3>2, <4>1 DEF Op
      <3>4. Status(conn[c].req, op[Me].err) = 409
        BY <3>3 DEF Status, ErrorStatus
      <3>5. conn'[c].status = 409
        BY <2>4, <3>1, <3>4, Responding DEF Reply, FrontInv, ConnectionInv
      <3> QED BY <3>5
    <2>5. CASE Drained \/ Timeout \/ ListenFails
      <3>1. conn'[c] = Idle
        BY <2>5, ExitEffect
      <3> QED BY <2>0, <2>1, <3>1
    <2>6. CASE Inside \/ Signal \/ Boot \/ UNCHANGED allVars
      BY <2>1, <2>6 DEF Inside, Signal, Boot, serverVars, allVars
    <2> QED BY <2>2, <2>3, <2>4, <2>5, <2>6, ServerSteps
  <1> QED BY <1>1, FrontInvariance, PTL DEF ServerSpec, NotFoundMeansMissing

-----------------------------------------------------------------------------
(* What a call knows of its writes as long as none of its statements fails.*)

Is(i, state) == i \in DOMAIN rows /\ rows[i].state = state

\* The event that a call logs when it does what was asked.
Asked == [reserve |-> "Reserved", confirm |-> "Confirmed", cancel |-> "Cancelled"]

\* A call that is about to do, or has done, what was asked.
Obliges == op[Me].kind \in WriteKinds /\ op[Me].event = Asked[op[Me].kind] /\ op[Me].err = "nil"

\* A call, or a sweep, that goes through lapsed holds.
Loops ==
  \/ op[Me].kind = "reserve" /\ op[Me].err = "nil"
  \/ op[Me].kind = "confirm" /\ op[Me].err = "ErrReservationExpired"
  \/ op[Me].kind = "sweep"

Fulfilled == Obliges /\ Is(op[Me].res, Requested[op[Me].kind])

Declined == op[Me].kind = "reserve" /\ op[Me].event = "ReserveRejected" /\ op[Me].err = "ErrOutOfStock"
           /\ op[Me].res = NilID

Goes ==
  /\ op[Me].found
  /\ pc[Me] = "list" => op[Me].kind = "reserve" /\ op[Me].err = "nil"
  /\ pc[Me] = "expire" => Loops
  /\ pc[Me] = "save" => op[Me].kind = "reserve" /\ Obliges
  /\ pc[Me] = "hold" => op[Me].kind = "reserve" /\ Fulfilled
  /\ pc[Me] \in {"fetch", "decide"} => op[Me].kind \in {"confirm", "cancel"} /\ op[Me].err = "nil"
  /\ pc[Me] = "decide" => rows[op[Me].res].state = op[Me].state
  /\ pc[Me] = "finish" => IF op[Me].event = "Expired" THEN Loops
                          ELSE Obliges /\ op[Me].kind # "reserve"
  /\ pc[Me] = "release" => IF op[Me].event = "Expired" THEN Loops
                           ELSE Fulfilled /\ op[Me].kind # "reserve"
  /\ pc[Me] = "append" => IF op[Me].event = "Expired" THEN Loops ELSE Fulfilled \/ Declined
  /\ pc[Me] = "answer" => op[Me].err # "nil" \/ Fulfilled

(* A call works on its own list under the lock: what is left of it is      *)
(* still Active.  The list of a sweep may be outdated.                     *)
Holds ==
  pc[Me] # "idle" /\ op[Me].kind # "sweep" =>
    /\ \A i \in op[Me].todo : Is(i, "Active")
    /\ pc[Me] = "finish" => Is(op[Me].res, "Active") /\ op[Me].res \notin op[Me].todo
    /\ pc[Me] = "release" => Is(op[Me].res, op[Me].event) /\ op[Me].event \in TerminalStates

\* The clock is read before it is used, and the CHECKs hold.
ReadInv ==
  /\ op[Me].now \in 0 .. clock /\ sweep[Me].now \in 0 .. clock
  /\ ItemCheck(item)

\* The statements that had failed when a call began are among those that have.
Dated == \A c \in Clients : conn[c].at = "call" => conn[c].faultsBefore \in 0 .. faults

\* No statement has failed yet, or none since the call that runs has begun.
Sound == faults = 0 \/ \E c \in Clients : conn[c].at = "call" /\ conn[c].faultsBefore = faults

CallInv == FrontInv /\ ReadInv /\ Dated /\ (Sound => Goes /\ Holds)

(* The CHECKs let an Active row be finished, whatever its end.             *)
LEMMA ActiveFinishes ==
  ASSUME TablesInv, NEW id, Is(id, "Active"), NEW state \in TerminalStates, NEW now \in Nat,
         UpdateReservation(id, state, now)
  PROVE  /\ rows' = [rows EXCEPT ![id] = Finished(rows[id], state, now)]
         /\ DOMAIN rows' = DOMAIN rows
         /\ \A i \in DOMAIN rows : i # id => rows'[i] = rows[i]
         /\ rows'[id] = Finished(rows[id], state, now) /\ rows'[id].state = state
         /\ UNCHANGED <<item, outbox>>
  <1> DEFINE new == Finished(rows[id], state, now)
  <1>0. id \in DOMAIN rows /\ rows[id].state = "Active"
    BY DEF Is
  <1>1. rows[id] \in Row /\ RowOK(rows[id]) /\ rows \in [DOMAIN rows -> Row]
    BY <1>0 DEF TablesInv
  <1>2. RowCheck(new) /\ new.state = state
    BY <1>0, <1>1 DEF Finished, RowOK, RowCheck, Row, TerminalStates, NoTime
  <1>3. rows' = [rows EXCEPT ![id] = new] /\ UNCHANGED <<item, outbox>>
    BY <1>0, <1>2 DEF UpdateReservation
  <1> HIDE DEF new
  <1>4. DOMAIN rows' = DOMAIN rows /\ rows'[id] = new /\ \A i \in DOMAIN rows : i # id => rows'[i] = rows[i]
    BY <1>0, <1>1, <1>3
  <1> QED BY <1>2, <1>3, <1>4 DEF new

(* The schema wants a positive hold, and then the upsert stores it.        *)
LEMMA SaveHolds ==
  ASSUME NEW id, NEW now \in Int, Hold > 0, SaveReservation(id, now, now + Hold)
  PROVE  /\ DOMAIN rows' = DOMAIN rows \cup {id}
         /\ \A i \in DOMAIN rows : i # id => rows'[i] = rows[i]
         /\ rows'[id] = Held(IF id \in DOMAIN rows THEN rows[id].expiresAt ELSE now + Hold)
         /\ rows'[id].state = "Active"
         /\ UNCHANGED <<item, outbox>>
  <1> DEFINE row == Held(IF id \in DOMAIN rows THEN rows[id].expiresAt ELSE now + Hold)
  <1>1. now + Hold > now
    BY DurableAssumption
  <1>2. row.state = "Active"
    BY DEF Held
  <1>3. /\ rows' = [i \in DOMAIN rows \cup {id} |-> IF i = id THEN row ELSE rows[i]]
        /\ UNCHANGED <<item, outbox>>
    BY <1>1 DEF SaveReservation
  <1> HIDE DEF row
  <1> QED BY <1>2, <1>3 DEF row

\* Every step of the server reads the clock and keeps the CHECKs.
LEMMA ReadStep ==
  ASSUME FrontInv, ReadInv, [ServerNext]_allVars
  PROVE  ReadInv'
  <1>0. /\ IInv /\ faults \in Nat /\ clock \in Nat /\ op[Me] \in Op
        /\ NoOp.now = 0 /\ NoSweep.now = 0
    BY OneReplica DEF FrontInv, ProcessInv, IInv, ProcessTypes, NoOp, NoSweep
  <1>9. \A a \in Int, b \in Int : UpdateProduct(a, b) => ItemCheck(item)'
    BY DEF UpdateProduct, ReadInv
  <1>1. ASSUME NEW c \in Clients, Front(c) PROVE ReadInv'
    <2>1. UNCHANGED <<dbVars, restVars, op>>
      BY <1>1, FrontStep
    <2> QED BY <2>1 DEF ReadInv, dbVars, restVars, ItemCheck
  <1>2. ASSUME NEW c \in Clients, Call(c) PROVE ReadInv'
    <2>1. UNCHANGED <<dbVars, clock, sweep>> /\ op'[Me].now = clock
      BY <1>2, CallEffect
    <2> QED BY <1>0, <2>1 DEF ReadInv, dbVars, ItemCheck
  <1>3. ASSUME NEW c \in Clients, Reply(c) PROVE ReadInv'
    BY <1>0, <1>3, ReplyEffect DEF ReadInv, dbVars, restVars, ItemCheck
  <1>4. CASE CallStep(Me) /\ UNCHANGED serverVars
    <2>1. UNCHANGED <<clock, sweep>>
      BY <1>0, <1>4, CallSteps DEF restVars
    <2>2. op'[Me].now \in {op[Me].now, clock}
      BY <1>0, <1>4, CallSteps
      DEF Lists, Loses, Rejects, Accepts, Saves, Takes, Fetches, FindsLate, Ends,
          FindsEnded, ExpiresNext, Finishes, Releases, Logs, Refrains, Op
    <2>3. ItemCheck(item)'
      <3>1. item' = item \/ \E a \in Int, b \in Int : UpdateProduct(a, b)
        <4>1. CASE Takes \/ Releases
          <5>1. 0 \in Int /\ 1 \in Int /\ -1 \in Int
            OBVIOUS
          <5> QED BY <4>1, <5>1 DEF Takes, Releases, Attempt, dbVars
        <4>2. CASE Saves \/ Finishes \/ Logs
          BY <4>2 DEF Saves, Finishes, Logs, Attempt, dbVars, SaveReservation, UpdateReservation, AppendEvent
        <4>3. CASE \/ Lists \/ Loses \/ Rejects \/ Accepts \/ Fetches \/ FindsLate \/ Ends("confirm", "Confirmed")
                   \/ Ends("cancel", "Cancelled") \/ FindsEnded \/ ExpiresNext \/ Refrains
          BY <4>3 DEF Lists, Loses, Rejects, Accepts, Fetches, FindsLate, Ends, FindsEnded,
                      ExpiresNext, Refrains, Reads, dbVars
        <4> QED BY <1>0, <1>4, <4>1, <4>2, <4>3, CallSteps
      <3> QED BY <1>9, <3>1 DEF ReadInv, ItemCheck
    <2> QED BY <1>0, <2>1, <2>2, <2>3 DEF ReadInv
  <1>5. CASE SweepStep(Me) /\ UNCHANGED serverVars
    <2>1. op'[Me].now \in 0 .. clock /\ sweep'[Me].now \in 0 .. clock
      <3>1. CASE /\ UNCHANGED <<pc, op>>
                 /\ \/ sweep' = sweep
                    \/ \E now \in 0 .. clock, todo \in SUBSET Int : sweep'[Me] = [todo |-> todo, now |-> now]
        <4>1. op'[Me].now \in 0 .. clock
          BY <3>1 DEF ReadInv
        <4>2. CASE sweep' = sweep
          BY <4>1, <4>2 DEF ReadInv
        <4>3. ASSUME NEW now \in 0 .. clock, NEW todo \in SUBSET Int, sweep'[Me] = [todo |-> todo, now |-> now]
              PROVE  sweep'[Me].now \in 0 .. clock
          BY <4>3
        <4> QED BY <3>1, <4>1, <4>2, <4>3
      <3>2. CASE sweep'[Me] = NoSweep /\ op'[Me] = [NoOp EXCEPT !.kind = "sweep", !.todo = sweep[Me].todo, !.now = sweep[Me].now]
        <4>1. op'[Me].now = sweep[Me].now
          BY <3>2 DEF NoOp
        <4> QED BY <1>0, <3>2, <4>1 DEF ReadInv
      <3>3. CASE op'[Me] = NoOp /\ sweep' = sweep
        BY <1>0, <3>3 DEF ReadInv
      <3> QED BY <1>0, <1>5, <3>1, <3>2, <3>3, SweeperEffect
    <2>2. UNCHANGED <<dbVars, clock>>
      BY <1>0, <1>5, SweeperEffect
    <2> QED BY <2>1, <2>2 DEF ReadInv, dbVars, ItemCheck
  <1>6. CASE Drained \/ Timeout \/ ListenFails
    BY <1>0, <1>6, ExitEffect DEF ReadInv, dbVars, ItemCheck
  <1>7. CASE Boot
    <2>1. UNCHANGED <<clock, op, sweep>> /\ Attempt(AddProduct(TotalStock))
      BY <1>7 DEF Boot, Start, restVars
    <2>2. ItemCheck(item)'
      BY <2>1, DurableAssumption DEF Attempt, AddProduct, Seeded, ItemCheck, ReadInv, dbVars
    <2> QED BY <2>1, <2>2 DEF ReadInv
  <1>8. CASE Signal \/ (AdvanceClock /\ UNCHANGED serverVars) \/ UNCHANGED allVars
    <2>1. UNCHANGED <<item, op, sweep>> /\ clock' \in {clock, clock + 1}
      BY <1>8 DEF Signal, AdvanceClock, allVars, vars, restVars, dbVars
    <2> QED BY <1>0, <2>1 DEF ReadInv, ItemCheck
  <1> QED BY <1>1, <1>2, <1>3, <1>4, <1>5, <1>6, <1>7, <1>8, ServerSteps DEF Inside

(* Every step of a call knows what has been written before it.             *)
LEMMA CallGoes ==
  ASSUME CallInv, Hold > 0, Sound, faults' = faults, CallStep(Me)
  PROVE  Goes' /\ Holds'
  <1> USE DEF From, Reads
  <1>0. /\ Goes /\ Holds /\ TablesInv /\ CallOK(Me) /\ op[Me] \in Op /\ op[Me].now \in Nat
        /\ op[Me].kind \in {"none", "reserve", "confirm", "cancel", "sweep"} /\ faults \in Nat
    <2>1. op[Me] \in Op /\ op[Me].now \in 0 .. clock /\ clock \in Nat /\ faults \in Nat
      BY OneReplica, DurableAssumption DEF CallInv, FrontInv, ReadInv, IInv, ProcessTypes, ProcessInv
    <2>2. op[Me].kind \in {"none", "reserve", "confirm", "cancel", "sweep"}
      BY <2>1 DEF Op
    <2> QED BY <2>1, <2>2, OneReplica DEF CallInv, FrontInv, IInv
  <1>1. CASE Lists
    <2>1. PICK todo \in SUBSET LapsedAt(op[Me].now) : op'[Me] = [op[Me] EXCEPT !.todo = todo]
      BY <1>1 DEF Lists
    <2>2. /\ op'[Me].kind = op[Me].kind /\ op'[Me].found = op[Me].found /\ op'[Me].err = op[Me].err
          /\ op'[Me].todo = todo
      BY <1>0, <2>1 DEF Op
    <2>3. \A i \in todo : Is(i, "Active")
      BY <2>1 DEF LapsedAt, ActiveReservations, RowsIn, Is
    <2>4. op[Me].kind = "reserve" /\ op[Me].err = "nil" /\ pc'[Me] = "expire" /\ rows' = rows
      BY <1>0, <1>1 DEF Lists, Goes, dbVars
    <2> QED BY <1>0, <2>2, <2>3, <2>4 DEF Goes, Holds, Loops, Is
  <1>2. CASE Loses
    BY <1>0, <1>2 DEF Loses
  <1>3. CASE Rejects
    <2>1. /\ op'[Me].kind = "reserve" /\ op'[Me].found = TRUE /\ op'[Me].err = "ErrOutOfStock"
          /\ op'[Me].todo = {} /\ op'[Me].event = "ReserveRejected" /\ op'[Me].res = NilID
      BY <1>0, <1>3 DEF Rejects, Op
    <2>2. pc'[Me] = "append"
      BY <1>3 DEF Rejects
    <2> QED BY <2>1, <2>2 DEF Goes, Holds, Declined
  <1>4. CASE Accepts
    <2>1. /\ op'[Me].kind = "reserve" /\ op'[Me].found = TRUE /\ op'[Me].err = op[Me].err
          /\ op'[Me].todo = {} /\ op'[Me].event = "Reserved"
      BY <1>0, <1>4 DEF Accepts, Op
    <2>2. pc'[Me] = "save" /\ op[Me].err = "nil"
      BY <1>0, <1>4 DEF Accepts, Goes, Loops
    <2> QED BY <2>1, <2>2 DEF Goes, Holds, Obliges, Asked, WriteKinds
  <1>5. CASE Saves
    <2>1. /\ pc[Me] = "save" /\ pc'[Me] = "hold" /\ op'[Me] = op[Me]
          /\ SaveReservation(op[Me].res, op[Me].now, op[Me].now + Hold)
      BY <1>0, <1>5 DEF Saves, Attempt, Fault
    <2>2. /\ Is(op[Me].res, "Active")'
          /\ \A i : Is(i, "Active") => Is(i, "Active")'
      <3>1. /\ DOMAIN rows' = DOMAIN rows \cup {op[Me].res} /\ rows'[op[Me].res].state = "Active"
            /\ \A i \in DOMAIN rows : i # op[Me].res => rows'[i] = rows[i]
        <4>1. op[Me].now \in Int
          BY <1>0
        <4> QED BY <2>1, <4>1, Hold > 0, SaveHolds
      <3> QED BY <2>1, <3>1 DEF Is
    <2>3. op[Me].kind = "reserve" /\ Obliges /\ op[Me].found
      BY <1>0, <2>1 DEF Goes
    <2>4. Fulfilled'
      BY <2>1, <2>2, <2>3 DEF Fulfilled, Obliges, Requested
    <2> QED BY <1>0, <2>1, <2>2, <2>3, <2>4 DEF Goes, Holds
  <1>6. CASE Takes
    <2>1. pc[Me] = "hold" /\ pc'[Me] = "append" /\ op'[Me] = op[Me] /\ rows' = rows
      BY <1>0, <1>6 DEF Takes, Attempt, Fault, UpdateProduct
    <2>2. Fulfilled /\ op[Me].kind = "reserve" /\ op[Me].found
      BY <1>0, <2>1 DEF Goes
    <2>3. Fulfilled' /\ op[Me].event = "Reserved"
      BY <2>1, <2>2 DEF Fulfilled, Obliges, Is, Asked
    <2> QED BY <1>0, <2>1, <2>2, <2>3 DEF Goes, Holds, Is
  <1>7. CASE Fetches
    <2>1. PICK state \in {rows[op[Me].res].state, ""} : op'[Me] = [op[Me] EXCEPT !.state = state]
      BY <1>7 DEF Fetches
    <2>2. /\ op'[Me].kind = op[Me].kind /\ op'[Me].found = op[Me].found /\ op'[Me].err = op[Me].err
          /\ op'[Me].todo = op[Me].todo /\ op'[Me].res = op[Me].res
      BY <1>0, <2>1 DEF Op
    <2>3. /\ pc[Me] = "fetch" /\ pc'[Me] = "decide" /\ rows' = rows
          /\ op'[Me].state = rows[op[Me].res].state
      BY <1>7 DEF Fetches, dbVars
    <2> QED BY <1>0, <2>2, <2>3 DEF Goes, Holds, Is
  <1>8. CASE FindsLate
    <2>1. /\ op'[Me].kind = op[Me].kind /\ op'[Me].found = op[Me].found /\ op'[Me].err = "ErrReservationExpired"
          /\ op'[Me].todo = {op[Me].res}
      BY <1>0, <1>8 DEF FindsLate, Op
    <2>2. /\ pc[Me] = "decide" /\ pc'[Me] = "expire" /\ op[Me].kind = "confirm" /\ op[Me].state = "Active"
          /\ rows' = rows
      BY <1>8 DEF FindsLate, dbVars
    <2>3. Is(op[Me].res, "Active")
      BY <1>0, <2>2 DEF Goes, CallOK, Is
    <2> QED BY <1>0, <2>1, <2>2, <2>3 DEF Goes, Holds, Loops, Is
  <1>9. ASSUME NEW kind, NEW event, Ends(kind, event),
               (kind = "confirm" /\ event = "Confirmed") \/ (kind = "cancel" /\ event = "Cancelled")
        PROVE  Goes' /\ Holds'
    <2>1. /\ op'[Me].kind = op[Me].kind /\ op'[Me].found = op[Me].found /\ op'[Me].err = op[Me].err
          /\ op'[Me].todo = op[Me].todo /\ op'[Me].res = op[Me].res /\ op'[Me].event = event
      BY <1>0, <1>9 DEF Ends, Op
    <2>2. /\ pc[Me] = "decide" /\ pc'[Me] = "finish" /\ op[Me].state = "Active" /\ rows' = rows
          /\ op[Me].kind = "confirm" <=> kind = "confirm"
      BY <1>9 DEF Ends, dbVars
    <2>3. /\ Is(op[Me].res, "Active") /\ op[Me].kind \in {"confirm", "cancel"} /\ op[Me].err = "nil"
          /\ op[Me].todo = {}
      BY <1>0, <2>2 DEF Goes, CallOK, Is
    <2>4. op'[Me].event = Asked[op'[Me].kind] /\ op'[Me].event # "Expired"
      BY <1>9, <2>1, <2>2, <2>3 DEF Asked
    <2> QED BY <1>0, <2>1, <2>2, <2>3, <2>4 DEF Goes, Holds, Obliges, WriteKinds, Is
  <1>10. CASE FindsEnded
    <2>1. PICK err \in {"ErrReservationExpired", "ErrReservationAlreadyFinalized"} :
            op'[Me] = [op[Me] EXCEPT !.err = err]
      BY <1>10 DEF FindsEnded
    <2>2. op'[Me].err # "nil" /\ op'[Me].found = op[Me].found /\ op'[Me].todo = op[Me].todo
      BY <1>0, <2>1 DEF Op
    <2>3. pc[Me] = "decide" /\ pc'[Me] = "answer" /\ op[Me].todo = {}
      BY <1>0, <1>10 DEF FindsEnded, CallOK
    <2> QED BY <1>0, <2>2, <2>3 DEF Goes, Holds
  <1>11. CASE ExpiresNext
    <2>1. PICK i \in op[Me].todo, ok \in BOOLEAN :
            /\ faults' = faults => ok
            /\ op'[Me] = [op[Me] EXCEPT !.res = i, !.todo = @ \ {i}, !.found = ok, !.event = "Expired"]
      BY <1>11 DEF ExpiresNext
    <2>2. /\ op'[Me].kind = op[Me].kind /\ op'[Me].found = ok /\ op'[Me].err = op[Me].err
          /\ op'[Me].todo = op[Me].todo \ {i} /\ op'[Me].res = i /\ op'[Me].event = "Expired"
      BY <1>0, <2>1 DEF Op
    <2>3. pc[Me] = "expire" /\ pc'[Me] = "finish" /\ rows' = rows
      BY <1>11 DEF ExpiresNext, dbVars
    <2>4. Loops'
      BY <1>0, <2>2, <2>3 DEF Goes, Loops
    <2>5. Holds'
      BY <1>0, <2>2, <2>3 DEF Holds, Is
    <2> QED BY <2>1, <2>2, <2>3, <2>4, <2>5 DEF Goes
  <1>12. CASE Finishes
    <2>1. /\ pc[Me] = "finish" /\ pc'[Me] = "release" /\ op'[Me] = op[Me]
          /\ UpdateReservation(op[Me].res, op[Me].event, op[Me].now)
      BY <1>0, <1>12 DEF Finishes, Attempt, Fault
    <2>2. op[Me].res \in DOMAIN rows /\ op[Me].event \in TerminalStates /\ op[Me].found
      BY <1>0, <2>1 DEF CallOK, InTime, Goes
    <2>3. CASE op[Me].kind = "sweep"
      BY <1>0, <2>1, <2>2, <2>3 DEF Goes, Holds, Loops, Obliges, WriteKinds
    <2>4. CASE op[Me].kind # "sweep"
      <3>1. Is(op[Me].res, "Active") /\ op[Me].res \notin op[Me].todo /\ \A i \in op[Me].todo : Is(i, "Active")
        BY <1>0, <2>1, <2>4 DEF Holds
      <3>2. /\ DOMAIN rows' = DOMAIN rows /\ rows'[op[Me].res].state = op[Me].event
            /\ \A i \in DOMAIN rows : i # op[Me].res => rows'[i] = rows[i]
        BY <1>0, <2>1, <2>2, <3>1, ActiveFinishes
      <3>3. Is(op[Me].res, op[Me].event)' /\ \A i \in op[Me].todo : Is(i, "Active")'
        BY <2>1, <2>2, <3>1, <3>2 DEF Is
      <3>4. Holds'
        BY <2>1, <2>2, <3>3 DEF Holds
      <3>5. CASE op[Me].event = "Expired"
        BY <1>0, <2>1, <2>2, <3>4, <3>5 DEF Goes, Loops
      <3>6. CASE op[Me].event # "Expired"
        <4>1. Obliges /\ op[Me].kind \in {"confirm", "cancel"}
          BY <1>0, <2>1, <3>6 DEF Goes, Obliges, WriteKinds
        <4>2. Requested[op[Me].kind] = op[Me].event
          BY <4>1 DEF Obliges, Requested, Asked
        <4>3. Fulfilled'
          BY <2>1, <3>3, <4>1, <4>2 DEF Fulfilled, Obliges
        <4> QED BY <1>0, <2>1, <2>2, <3>4, <3>6, <4>1, <4>3 DEF Goes
      <3> QED BY <3>5, <3>6
    <2> QED BY <2>3, <2>4
  <1>13. CASE Releases
    <2>1. pc[Me] = "release" /\ pc'[Me] = "append" /\ op'[Me] = op[Me] /\ rows' = rows
      BY <1>0, <1>13 DEF Releases, Attempt, UpdateProduct, dbVars
    <2>2. Goes'
      BY <1>0, <2>1 DEF Goes, Loops, Fulfilled, Obliges, Is
    <2> QED BY <1>0, <2>1, <2>2 DEF Holds, Is
  <1>14. CASE Logs
    <2>1. pc[Me] = "append" /\ op'[Me] = op[Me] /\ rows' = rows
          /\ pc'[Me] = IF op[Me].event = "Expired" THEN "expire" ELSE "answer"
      BY <1>0, <1>14 DEF Logs, Attempt, AppendEvent, dbVars
    <2>2. Goes'
      BY <1>0, <2>1 DEF Goes, Loops, Fulfilled, Obliges, Declined, Is
    <2> QED BY <1>0, <2>1, <2>2 DEF Holds, Is
  <1>15. CASE Refrains
    <2>1. pc[Me] = "expire" /\ op'[Me] = op[Me] /\ rows' = rows /\ pc'[Me] = "answer" /\ op[Me].kind = "confirm"
      BY <1>15 DEF Refrains, dbVars
    <2> QED BY <1>0, <2>1 DEF Goes, Loops, Holds, Is
  <1> QED
    BY <1>0, <1>1, <1>2, <1>3, <1>4, <1>5, <1>6, <1>7, <1>8, <1>9, <1>10, <1>11, <1>12, <1>13, <1>14,
       <1>15, CallSteps DEF CallInv, FrontInv

\* No statement that has failed is forgotten.
LEMMA FaultsGrow ==
  ASSUME FrontInv, [ServerNext]_allVars
  PROVE  faults' \in Nat /\ faults' >= faults
  <1>0. faults \in Nat
    BY DurableAssumption DEF FrontInv, ProcessInv
  <1>1. faults' \in Nat
    BY ProcessStep, DurableAssumption DEF ProcessInv
  <1>2. ASSUME NEW c \in Clients, Front(c) PROVE faults' >= faults
    <2>1. faults' = faults \/ (faults < MaxFaults /\ faults' = faults + 1)
      BY <1>2, FrontStep
    <2> QED BY <1>0, <2>1
  <1>3. ASSUME NEW c \in Clients, Call(c) \/ Reply(c) PROVE faults' >= faults
    <2>1. faults' = faults
      BY <1>3, CallEffect, ReplyEffect
    <2> QED BY <1>0, <2>1
  <1>4. ASSUME CallStep(Me) \/ SweepStep(Me) PROVE faults' >= faults
    BY <1>0, <1>4, CallSteps, SweeperEffect DEF FrontInv
  <1>5. ASSUME Boot PROVE faults' >= faults
    BY <1>0, <1>5 DEF Boot, Start, Attempt, Fault
  <1>6. ASSUME Drained \/ Timeout \/ ListenFails PROVE faults' >= faults
    BY <1>0, <1>6, ExitEffect
  <1>7. ASSUME Signal \/ AdvanceClock \/ UNCHANGED allVars PROVE faults' >= faults
    BY <1>0, <1>7 DEF Signal, AdvanceClock, allVars, vars
  <1> QED BY <1>1, <1>2, <1>3, <1>4, <1>5, <1>6, <1>7, ServerSteps DEF Inside

(* If nothing has failed in the running call after a step, nothing had     *)
(* before it either, unless the step begins the call.                      *)
LEMMA SoundBefore ==
  ASSUME Dated, faults \in Nat, faults' \in Nat, faults' >= faults,
         \A c \in Clients : conn'[c].at = "call" => conn'[c] = conn[c]
  PROVE  Dated' /\ (Sound' => Sound /\ faults' = faults)
  <1>1. Dated'
    BY DEF Dated
  <1>2. CASE faults' = 0
    BY <1>1, <1>2 DEF Sound
  <1>3. ASSUME NEW c \in Clients, conn'[c].at = "call", conn'[c].faultsBefore = faults'
        PROVE  Sound /\ faults' = faults
    <2>1. conn[c].at = "call" /\ conn[c].faultsBefore = faults' /\ conn[c].faultsBefore \in 0 .. faults
      BY <1>3 DEF Dated
    <2> QED BY <2>1 DEF Sound
  <1> QED BY <1>1, <1>2, <1>3 DEF Sound

\* Every step of the server keeps what the call knows.
LEMMA CallInvStep ==
  ASSUME CallInv, Hold > 0, [ServerNext]_allVars
  PROVE  CallInv'
  <1>1. FrontInv /\ ReadInv /\ faults \in Nat
    BY DurableAssumption DEF CallInv, FrontInv, ProcessInv
  <1>2. NoOp.found = TRUE /\ NoOp.todo = {} /\ NoOp.err = "nil"
    BY DEF NoOp
  <1>3. FrontInv' /\ ReadInv'
    BY <1>1, ServiceKept, CallsMatchStep, ConnectionStep, ProcessStep, ReadStep DEF FrontInv
  <1>4. CASE \E c \in Clients : Call(c)
    <2>1. PICK c \in Clients : Call(c)
      BY <1>4
    <2>2. /\ op'[Me].kind \in WriteKinds /\ faults' = faults
          /\ op'[Me].err = "nil" /\ op'[Me].found = TRUE /\ op'[Me].todo = {}
          /\ \/ op'[Me].kind = "reserve" /\ pc'[Me] = "list"
             \/ op'[Me].kind # "reserve" /\ pc'[Me] = "fetch"
          /\ conn'[c].faultsBefore = faults /\ \A d \in Clients \ {c} : conn'[d] = conn[d]
      BY <1>1, <2>1, CallEffect
    <2>3. Dated'
      BY <1>1, <2>2 DEF CallInv, Dated
    <2> QED BY <1>3, <2>2, <2>3 DEF CallInv, Goes, Holds, WriteKinds
  <1> SUFFICES ASSUME ~ \E c \in Clients : Call(c) PROVE CallInv'
    BY <1>4
  <1>5. \A c \in Clients : conn'[c].at = "call" => conn'[c] = conn[c]
    <2>1. ASSUME NEW c \in Clients, Front(c) \/ Reply(c)
          PROVE  conn'[c].at # "call" /\ \A d \in Clients \ {c} : conn'[d] = conn[d]
      BY <1>1, <2>1, FrontStep, ReplyEffect
    <2>2. ASSUME Drained \/ Timeout \/ ListenFails, NEW c \in Clients PROVE conn'[c].at # "call"
      BY <1>1, <2>2, ExitEffect DEF Idle
    <2>3. ASSUME Inside \/ Signal \/ Boot \/ UNCHANGED allVars PROVE conn' = conn
      BY <2>3 DEF Inside, serverVars, Signal, Boot, allVars
    <2> QED BY <2>1, <2>2, <2>3, ServerSteps
  <1>6. Dated' /\ (Sound' => Sound /\ faults' = faults)
    BY <1>1, <1>5, FaultsGrow, SoundBefore DEF CallInv
  <1> SUFFICES ASSUME Sound, faults' = faults PROVE Goes' /\ Holds'
    BY <1>3, <1>6 DEF CallInv
  <1>7. Goes /\ Holds
    BY DEF CallInv
  <1>8. ASSUME UNCHANGED <<rows, pc, op>> PROVE Goes' /\ Holds'
    BY <1>8, <1>7 DEF Goes, Holds, Loops, Fulfilled, Obliges, Declined, Is
  <1>9. ASSUME pc'[Me] = "idle", op'[Me] = NoOp PROVE Goes' /\ Holds'
    BY <1>2, <1>9 DEF Goes, Holds
  <1>10. ASSUME NEW c \in Clients, Front(c) PROVE Goes' /\ Holds'
    BY <1>1, <1>8, <1>10, FrontStep DEF dbVars
  <1>11. ASSUME NEW c \in Clients, Reply(c) PROVE Goes' /\ Holds'
    BY <1>1, <1>9, <1>11, ReplyEffect
  <1>12. CASE CallStep(Me)
    BY Hold > 0, <1>12, CallGoes
  <1>13. CASE SweepStep(Me)
    <2>1. UNCHANGED dbVars
      BY <1>1, <1>13, SweeperEffect DEF FrontInv
    <2>2. CASE /\ pc'[Me] = "expire"
               /\ op'[Me] = [NoOp EXCEPT !.kind = "sweep", !.todo = sweep[Me].todo, !.now = sweep[Me].now]
      <3>1. op'[Me].kind = "sweep" /\ op'[Me].found = TRUE
        BY <2>2 DEF NoOp
      <3> QED BY <2>2, <3>1 DEF Goes, Holds, Loops
    <2> QED BY <1>1, <1>8, <1>9, <1>13, <2>1, <2>2, SweeperEffect DEF FrontInv, dbVars
  <1>14. CASE Drained \/ Timeout \/ ListenFails
    BY <1>1, <1>9, <1>14, ExitEffect
  <1>15. CASE Signal \/ Boot \/ AdvanceClock \/ UNCHANGED allVars
    <2>1. UNCHANGED <<rows, pc, op>>
      BY <1>15 DEF Signal, Boot, Start, Attempt, AddProduct, AdvanceClock, allVars, vars, dbVars
    <2> QED BY <1>8, <2>1
  <1> QED BY <1>10, <1>11, <1>12, <1>13, <1>14, <1>15, ServerSteps DEF Inside

\* The seeded server satisfies it.
LEMMA CallInitially == ServerInit => CallInv
  <1> SUFFICES ASSUME ServerInit PROVE CallInv
    OBVIOUS
  <1>1. FrontInv
    BY FrontInitially
  <1>2. /\ pc[Me] = "idle" /\ op[Me] = NoOp /\ sweep[Me] = NoSweep /\ clock = 0
        /\ item = Seeded(TotalStock)
    BY OneReplica DEF ServerInit, Init
  <1>3. NoOp.found = TRUE /\ NoOp.now = 0 /\ NoSweep.now = 0
    BY DEF NoOp, NoSweep
  <1>4. ReadInv
    BY <1>2, <1>3, DurableAssumption DEF ReadInv, ItemCheck, Seeded
  <1>5. Goes /\ Holds
    BY <1>2, <1>3 DEF Goes, Holds
  <1>6. Dated
    BY DEF ServerInit, Idle, Dated
  <1> QED BY <1>1, <1>4, <1>5, <1>6 DEF CallInv

(* As long as none of its statements has failed a call knows at each of    *)
(* its writes what the writes before it have stored, whatever failed       *)
(* before it, beside a sweep and after a restart.                          *)
THEOREM CallInvariance ==
  ASSUME Hold > 0
  PROVE  ServerSpec => []CallInv
  <1>1. CallInv /\ [ServerNext]_allVars => CallInv'
    BY Hold > 0, CallInvStep
  <1> QED BY <1>1, CallInitially, PTL DEF ServerSpec

(* A call whose answer is a success has stored what it answers, unless one *)
(* of its own statements failed: the schema refuses none of its writes,    *)
(* whatever failed statements of other calls, stops and sweeps have left.  *)
THEOREM SuccessStored ==
  ASSUME Hold > 0
  PROVE  ServerSpec => []StoredUnlessFailed
  <1>1. CallInv => StoredUnlessFailed
    <2> SUFFICES ASSUME CallInv, NEW c \in Clients, conn[c].at = "call", conn[c].faultsBefore = faults,
                        pc[Me] = "answer", op[Me].err = "nil"
                 PROVE  op[Me].res \in DOMAIN rows /\ rows[op[Me].res].state = Requested[op[Me].kind]
      BY DEF StoredUnlessFailed
    <2>1. Sound
      BY DEF Sound
    <2> QED BY <2>1 DEF CallInv, Goes, Fulfilled, Is
  <1>2. ServerSpec => []CallInv
    BY Hold > 0, CallInvariance
  <1> QED BY <1>1, <1>2, PTL

-----------------------------------------------------------------------------
(* The ids of the first process.                                           *)

\* A step of a call writes to the tables at these points only.
LEMMA CallWrites ==
  ASSUME IInv, faults \in Nat, CallStep(Me)
  PROVE  \/ Saves \/ Takes \/ Finishes \/ Releases \/ Logs
         \/ UNCHANGED dbVars /\ pc[Me] \in {"list", "expire", "fetch", "decide"}
  BY CallSteps DEF Lists, Loses, Rejects, Accepts, Fetches, FindsLate, Ends, FindsEnded,
                   ExpiresNext, Refrains, Reads, From

(* Until its end the first process gives out no number twice: what is      *)
(* stored has a number up to the counter, and what is about to be stored   *)
(* has one of its own.                                                     *)
FreshInv ==
  crashes = 0 =>
    /\ \A i \in DOMAIN rows : i <= idCounter[Me]
    /\ \A k \in DOMAIN outbox : outbox[k].id <= idCounter[Me]
    /\ pc[Me] = "save" => op[Me].res <= idCounter[Me] /\ op[Me].res \notin DOMAIN rows

\* Every step of a call keeps the numbers below the counter.
LEMMA CallFresh ==
  ASSUME IInv, faults \in Nat, FreshInv, crashes = 0, CallStep(Me)
  PROVE  FreshInv'
  <1> USE DEF From, Reads
  <1> DEFINE n == idCounter[Me]
  <1>0. /\ n \in Nat /\ op[Me] \in Op /\ op[Me].res \in Int
        /\ TablesInv /\ (pc[Me] = "save" => op[Me].res \in Nat \ {0})
    BY OneReplica, CallTyped DEF IInv, CallOK
  <1>1. /\ \A i \in DOMAIN rows : i <= n /\ i \in Int
        /\ \A k \in DOMAIN outbox : outbox[k].id <= n /\ outbox[k].id \in Int
    <2>1. \A k \in DOMAIN outbox : outbox[k] \in Event
      BY <1>0 DEF TablesInv
    <2>2. \A k \in DOMAIN outbox : outbox[k].id \in Int
      BY <2>1 DEF Event
    <2> QED BY <1>0, <2>2, crashes = 0 DEF FreshInv, TablesInv
  <1>2. n' \in {n, n + 1}
    BY CallSteps DEF Lists, Loses, Rejects, Accepts, Saves, Takes, Fetches, FindsLate, Ends,
                     FindsEnded, ExpiresNext, Finishes, Releases, Logs, Refrains
  <1>3. \A i \in DOMAIN rows' : i \in DOMAIN rows \/ (Saves /\ i = op[Me].res)
    <2>1. CASE Saves
      BY <2>1 DEF Saves, Attempt, SaveReservation, dbVars
    <2>2. CASE Finishes
      BY <2>2 DEF Finishes, Attempt, UpdateReservation, dbVars
    <2>3. CASE Takes \/ Releases \/ Logs
      BY <2>3 DEF Takes, Releases, Logs, Attempt, UpdateProduct, AppendEvent, dbVars
    <2> QED BY <2>1, <2>2, <2>3, CallWrites DEF dbVars
  <1>4. \A k \in DOMAIN outbox' :
          (k \in DOMAIN outbox /\ outbox'[k] = outbox[k]) \/ outbox'[k].id = n'
    <2>1. CASE Logs
      <3>1. outbox' = outbox \/ outbox' = Append(outbox, EventOf(Me))
        BY <2>1 DEF Logs, Attempt, AppendEvent, dbVars
      <3>2. EventOf(Me).id = n' /\ outbox \in Seq(Event)
        BY <1>0, <2>1 DEF Logs, EventOf, TablesInv
      <3>3. EventOf(Me) \in Event
        BY OneReplica, CallTyped DEF IInv, EventOf, Event, EmptyID
      <3> QED BY <3>1, <3>2, <3>3
    <2>2. CASE ~ Logs
      BY <2>2, CallWrites
      DEF Saves, Takes, Finishes, Releases, Attempt, SaveReservation, UpdateProduct,
          UpdateReservation, dbVars
    <2> QED BY <2>1, <2>2
  <1>5. Saves => op[Me].res <= n
    BY crashes = 0 DEF FreshInv, Saves
  <1>6. pc'[Me] = "save" => op'[Me].res <= n' /\ op'[Me].res \notin DOMAIN rows'
    <2> SUFFICES ASSUME pc'[Me] = "save" PROVE op'[Me].res <= n' /\ op'[Me].res \notin DOMAIN rows'
      OBVIOUS
    <2>1. Accepts
      BY CallSteps DEF Lists, Loses, Rejects, Saves, Takes, Fetches, FindsLate, Ends,
                       FindsEnded, ExpiresNext, Finishes, Releases, Logs, Refrains
    <2>2. n' = n + 1 /\ rows' = rows
      BY <2>1 DEF Accepts, dbVars
    <2>3. op'[Me].res = n'
      BY <1>0, <2>1 DEF Accepts, Op
    <2> QED BY <1>0, <1>1, <2>2, <2>3
  <1>7. /\ \A i \in DOMAIN rows' : i <= n'
        /\ \A k \in DOMAIN outbox' : outbox'[k].id <= n'
    BY <1>0, <1>1, <1>2, <1>3, <1>4, <1>5
  <1> QED BY <1>6, <1>7 DEF FreshInv

\* Every step of the server keeps the numbers of the first process fresh.
LEMMA FreshStep ==
  ASSUME FrontInv, FreshInv, [ServerNext]_allVars
  PROVE  FreshInv'
  <1>0. IInv /\ faults \in Nat
    BY DurableAssumption DEF FrontInv, ProcessInv
  <1>1. ASSUME UNCHANGED <<dbVars, idCounter, crashes>>, pc'[Me] # "save" \/ UNCHANGED <<pc, op>>
        PROVE  FreshInv'
    BY <1>1 DEF FreshInv, dbVars
  <1>2. ASSUME NEW c \in Clients, Front(c) PROVE FreshInv'
    <2>1. UNCHANGED <<dbVars, restVars, idCounter, pc, op>>
      BY <1>2, FrontStep
    <2> QED BY <1>1, <2>1 DEF restVars
  <1>3. ASSUME NEW c \in Clients, Call(c) PROVE FreshInv'
    <2>1. UNCHANGED <<dbVars, idCounter, crashes>> /\ pc'[Me] # "save"
      BY <1>3, CallEffect
    <2> QED BY <1>1, <2>1
  <1>4. ASSUME NEW c \in Clients, Reply(c) PROVE FreshInv'
    <2>1. UNCHANGED <<dbVars, idCounter, restVars>> /\ pc'[Me] = "idle"
      BY <1>4, ReplyEffect
    <2> QED BY <1>1, <2>1 DEF restVars
  <1>5. CASE CallStep(Me)
    <2>1. crashes' = crashes
      BY <1>0, <1>5, CallSteps DEF restVars
    <2>2. CASE crashes = 0
      BY <1>0, <1>5, <2>2, CallFresh
    <2> QED BY <2>1, <2>2 DEF FreshInv
  <1>6. CASE SweepStep(Me)
    <2>1. /\ UNCHANGED <<dbVars, idCounter, crashes>>
          /\ pc'[Me] # "save" \/ UNCHANGED <<pc, op>>
      BY <1>0, <1>6, SweeperEffect
    <2> QED BY <1>1, <2>1
  <1>7. CASE Drained \/ Timeout \/ ListenFails
    <2>1. crashes' = crashes + 1 /\ crashes \in Nat
      BY <1>7, ExitEffect, ServerAssumption DEF FrontInv, ProcessInv
    <2> QED BY <2>1 DEF FreshInv
  <1>8. CASE Boot
    <2>1. crashes' = crashes /\ crashes # 0
      BY <1>8, ServerAssumption DEF Boot, Start, restVars, FrontInv, ProcessInv
    <2> QED BY <2>1 DEF FreshInv
  <1>9. CASE Signal \/ AdvanceClock \/ UNCHANGED allVars
    <2>1. UNCHANGED <<dbVars, idCounter, crashes, pc, op>>
      BY <1>9 DEF Signal, AdvanceClock, allVars, vars, restVars
    <2> QED BY <1>1, <2>1
  <1> QED BY <1>2, <1>3, <1>4, <1>5, <1>6, <1>7, <1>8, <1>9, ServerSteps DEF Inside

\* A call that takes a step has begun; in the first run this is before its end.
LEMMA CallRunning ==
  ASSUME FrontInv, CallStep(Me)
  PROVE  pc[Me] # "idle" /\ phase \in {"serve", "drain"} /\ (FirstRun => crashes = 0)
  <1>1. IInv /\ faults \in Nat
    BY DurableAssumption DEF FrontInv, ProcessInv
  <1>2. pc[Me] # "idle"
    BY <1>1, CallSteps DEF From, Lists, Loses, Rejects, Accepts, Saves, Takes, Fetches, FindsLate, Ends,
                           FindsEnded, ExpiresNext, Finishes, Releases, Logs, Refrains
  <1> QED BY <1>1, <1>2 DEF FirstRun, FrontInv, ProcessInv

(* The first run goes on until a clean end, and is not taken up again.     *)
LEMMA FirstRunStep ==
  ASSUME FrontInv, [ServerNext]_allVars, FirstRun'
  PROVE  /\ FirstRun /\ ~ Boot
         /\ Drained \/ Timeout \/ ListenFails => phase' = "drained" /\ crashes = 0
  <1>0. /\ faults = 0 /\ faults' = 0 /\ crashes \in Nat
        /\ crashes' = 0 \/ (crashes' = 1 /\ phase' = "drained")
    BY FaultsGrow, ServerAssumption, DurableAssumption DEF FirstRun, FrontInv, ProcessInv
  <1>1. ASSUME NEW c \in Clients, Front(c) \/ Call(c) \/ Reply(c) PROVE UNCHANGED <<crashes, phase>>
    BY <1>1, FrontStep, CallEffect, ReplyEffect DEF restVars
  <1>2. ASSUME Inside PROVE UNCHANGED <<crashes, phase>>
    BY <1>0, <1>2, CallSteps, SweeperEffect DEF Inside, serverVars, AdvanceClock, restVars, FrontInv
  <1>3. ASSUME Signal \/ UNCHANGED allVars PROVE crashes' = crashes /\ (phase' = phase \/ phase' = "drain")
    BY <1>3 DEF Signal, allVars, serverVars, vars, restVars
  <1>4. ASSUME Drained \/ Timeout \/ ListenFails PROVE crashes' = crashes + 1
    BY <1>4, ExitEffect
  <1>5. ~ Boot
    <2> SUFFICES ASSUME Boot PROVE FALSE
      OBVIOUS
    <2>1. phase' = "serve" /\ crashes' = crashes /\ crashes # 0
      BY ServerAssumption DEF Boot, Start, restVars, FrontInv, ProcessInv
    <2> QED BY <1>0, <2>1
  <1>6. Drained \/ Timeout \/ ListenFails => phase' = "drained" /\ crashes = 0
    BY <1>0, <1>4
  <1>7. crashes = 0 \/ (crashes = 1 /\ phase = "drained")
    <2>1. CASE UNCHANGED <<crashes, phase>>
      BY <1>0, <2>1
    <2> QED BY <1>0, <1>1, <1>2, <1>3, <1>5, <1>6, <2>1, ServerSteps
  <1> QED BY <1>0, <1>5, <1>6, <1>7 DEF FirstRun

-----------------------------------------------------------------------------
(* The answers and the rows.                                               *)

\* The status of a success.
Success == [reserve |-> 201, confirm |-> 200, cancel |-> 200]

Answered(e, status) ==
  {c \in Clients : Answering(c) /\ Asks(c, {e}) /\ conn[c].status = status}

\* What the metrics have counted.
Tally(e, status) ==
  LET key == [route |-> Endpoints[e].path, status |-> status] IN
  IF key \in DOMAIN stats THEN stats[key] ELSE 0

StatsInv == stats \in [DOMAIN stats -> Nat]

\* An answer is given when it is counted or about to be.
LEMMA GivenSum ==
  ASSUME StatsInv, NEW e, NEW status
  PROVE  /\ Given(e, status) = Tally(e, status) + Cardinality(Answered(e, status))
         /\ Tally(e, status) \in Nat
         /\ IsFiniteSet(Answered(e, status)) /\ Cardinality(Answered(e, status)) \in Nat
         /\ Given(e, status) \in Nat
  <1>1. Given(e, status) = Tally(e, status) + Cardinality(Answered(e, status))
    BY DEF Given, Tally, Answered
  <1>2. Tally(e, status) \in Nat
    BY DEF StatsInv, Tally
  <1>3. IsFiniteSet(Answered(e, status)) /\ Cardinality(Answered(e, status)) \in Nat
    <2>1. Answered(e, status) \in SUBSET Clients
      BY DEF Answered
    <2> QED BY <2>1, ServerAssumption, FS_Subset, FS_CardinalityType
  <1> QED BY <1>1, <1>2, <1>3

\* One connection changes.
LEMMA AnsweredChange ==
  ASSUME NEW c \in Clients, \A d \in Clients \ {c} : conn'[d] = conn[d], NEW e, NEW status
  PROVE  /\ \A d \in Clients \ {c} : d \in Answered(e, status)' <=> d \in Answered(e, status)
         /\ c \in Answered(e, status) <=>
              conn[c].at = "respond" /\ Endpoint(conn[c].req) = e /\ conn[c].status = status
         /\ c \in Answered(e, status)' <=>
              conn'[c].at = "respond" /\ Endpoint(conn'[c].req) = e /\ conn'[c].status = status
         /\ Answered(e, status) \subseteq Clients /\ Answered(e, status)' \subseteq Clients
  BY DEF Answered, Answering, Asks

\* A request for a write is counted under the path of its handler alone.
LEMMA CountedAs ==
  ASSUME NEW req, NEW status \in Nat, NEW e \in WriteKinds, AnswerOK([at |-> "respond", req |-> req, status |-> status])
  PROVE  Counted(req) /\ [route |-> RouteLabel(req), status |-> status]
                            = [route |-> Endpoints[e].path, status |-> Success[e]]
           <=> Endpoint(req) = e /\ status = Success[e]
  <1> DEFINE s == Success[e]
  <1>0. e \in {"reserve", "confirm", "cancel"} /\ e \in DOMAIN Endpoints \ {"openapi"} /\ s \in {200, 201}
    BY EndpointNames DEF WriteKinds, Success
  <1>1. ASSUME Counted(req), [route |-> RouteLabel(req), status |-> status] = [route |-> Endpoints[e].path, status |-> s]
        PROVE  Endpoint(req) = e /\ status = s
    <2>1. RouteLabel(req) = Endpoints[e].path /\ status = s
      BY <1>1
    <2>2. Endpoint(req) \in {e, "404"}
      BY <1>0, <1>1, <2>1, HandlerOfLabel
    <2>3. Endpoint(req) = "404" => status = 404
      BY DEF AnswerOK
    <2> QED BY <1>0, <2>1, <2>2, <2>3
  <1>2. ASSUME Endpoint(req) = e, status = s
        PROVE  Counted(req) /\ [route |-> RouteLabel(req), status |-> status] = [route |-> Endpoints[e].path, status |-> s]
    <2>1. Counted(req) /\ Matches(Endpoints[e], req)
      BY <1>0, <1>2, EndpointServes
    <2>2. req.method = "POST"
      BY <1>0, <2>1, Methods DEF Matches
    <2>3. RouteLabel(req) = Endpoints[e].path
      BY <1>0, <1>2, <2>2, LabelOfHandler
    <2> QED BY <1>2, <2>1, <2>3
  <1> HIDE DEF s
  <1>3. Counted(req) /\ [route |-> RouteLabel(req), status |-> status] = [route |-> Endpoints[e].path, status |-> s]
           <=> Endpoint(req) = e /\ status = s
    BY <1>1, <1>2
  <1> QED BY <1>3 DEF s

\* What happens outside the service gives no success and loses none.
LEMMA GivenFront ==
  ASSUME FrontInv, StatsInv, NEW c \in Clients, Front(c), NEW e \in WriteKinds
  PROVE  StatsInv' /\ Given(e, Success[e])' = Given(e, Success[e])
  <1> DEFINE s == Success[e]
             A == Answered(e, s)
             k == conn[c]
  <1>0. s \in {200, 201}
    BY DEF Success, WriteKinds
  <1>5. s' = s
    OBVIOUS
  <1>1. /\ \A d \in Clients \ {c} : conn'[d] = conn[d]
        /\ Record(c) \/ UNCHANGED stats
        /\ ~ Record(c) /\ conn'[c].at = "respond" /\ Endpoint(conn'[c].req) \in WriteKinds
              => conn'[c].status \in {400, 404}
        /\ conn[c].at = "respond" => Record(c)
    BY FrontStep
  <1>2. /\ \A d \in Clients \ {c} : d \in A' <=> d \in A
        /\ c \in A <=> k.at = "respond" /\ Endpoint(k.req) = e /\ k.status = s
        /\ c \in A' <=> conn'[c].at = "respond" /\ Endpoint(conn'[c].req) = e /\ conn'[c].status = s
        /\ A \subseteq Clients /\ A' \subseteq Clients
    BY <1>1, AnsweredChange
  <1>3. CASE ~ Record(c)
    <2>1. stats' = stats /\ StatsInv'
      BY <1>1, <1>3 DEF StatsInv
    <2>2. c \notin A /\ c \notin A'
      BY <1>0, <1>1, <1>2, <1>3
    <2>3. A' = A
      BY <1>2, <2>2
    <2>4. Tally(e, s)' = Tally(e, s)
      BY <2>1 DEF Tally
    <2> HIDE DEF A
    <2>5. Cardinality(A)' = Cardinality(A)
      BY <2>3
    <2>6. Given(e, s)' = Tally(e, s)' + Cardinality(Answered(e, s))'
      BY DEF Given, Tally, Answered
    <2> QED BY <2>1, <2>4, <2>5, <2>6, GivenSum DEF A
  <1>4. CASE Record(c)
    <2> DEFINE key == [route |-> RouteLabel(k.req), status |-> k.status]
               mine == [route |-> Endpoints[e].path, status |-> s]
    <2>1. /\ k.at = "respond" /\ conn' = [conn EXCEPT ![c] = Idle]
          /\ stats' = IF Counted(k.req)
                      THEN [j \in DOMAIN stats \cup {key} |->
                              (IF j \in DOMAIN stats THEN stats[j] ELSE 0) + (IF j = key THEN 1 ELSE 0)]
                      ELSE stats
      BY <1>4 DEF Record
    <2>2. conn'[c] = Idle /\ c \notin A'
      <3>1. conn'[c] = Idle
        BY <2>1 DEF FrontInv, ConnectionInv
      <3> QED BY <1>2, <3>1 DEF Idle
    <2>3. Counted(k.req) /\ key = mine <=> c \in A
      <3>1. k.status \in Nat /\ AnswerOK(k)
        BY <2>1 DEF FrontInv, ConnectionInv, Connection, Idle
      <3>2. k.status \in Nat /\ AnswerOK([at |-> "respond", req |-> k.req, status |-> k.status])
        BY <2>1, <3>1 DEF AnswerOK
      <3> QED BY <1>2, <2>1, <3>2, CountedAs
    <2> HIDE DEF key, mine
    <2>4. StatsInv'
      BY <2>1 DEF StatsInv
    <2>5. Tally(e, s) = IF mine \in DOMAIN stats THEN stats[mine] ELSE 0
      BY DEF Tally, mine
    <2>6. Tally(e, s)' = IF mine \in DOMAIN stats' THEN stats'[mine] ELSE 0
      BY DEF Tally, mine
    <2>7. Tally(e, s)' = Tally(e, s) + (IF c \in A THEN 1 ELSE 0)
      <3>1. Tally(e, s) \in Nat
        BY GivenSum
      <3>2. CASE c \in A
        BY <2>1, <2>3, <2>5, <2>6, <3>1, <3>2
      <3>3. CASE c \notin A
        BY <2>1, <2>3, <2>5, <2>6, <3>1, <3>3
      <3> QED BY <3>2, <3>3
    <2>8. Cardinality(A') = Cardinality(A) - (IF c \in A THEN 1 ELSE 0)
      <3>1. A' = A \ {c} /\ IsFiniteSet(A)
        BY <1>2, <2>2, GivenSum
      <3>2. CASE c \in A
        BY <3>1, <3>2, FS_RemoveElement
      <3>3. CASE c \notin A
        <4>1. A' = A /\ Cardinality(A) \in Nat
          BY <3>1, <3>3, FS_CardinalityType
        <4> QED BY <3>3, <4>1
      <3> QED BY <3>2, <3>3
    <2> DEFINE m == Tally(e, s)
               q == Cardinality(A)
    <2>9. m \in Nat /\ q \in Nat /\ Given(e, s) = m + q
      BY GivenSum
    <2>10. Given(e, s)' = Tally(e, s)' + Cardinality(A')
      BY DEF Given, Tally, Answered
    <2> HIDE DEF A, m, q
    <2>11. Given(e, s)' = m + q
      BY <2>7, <2>8, <2>9, <2>10 DEF m, q
    <2> QED BY <2>4, <2>9, <2>11
  <1> QED BY <1>3, <1>4

\* The answer of a call adds one to the successes of its kind, or none.
LEMMA GivenReply ==
  ASSUME FrontInv, StatsInv, NEW c \in Clients, Reply(c), NEW e \in WriteKinds
  PROVE  /\ StatsInv'
         /\ Given(e, Success[e])' = Given(e, Success[e])
                + (IF op[Me].kind = e /\ op[Me].err = "nil" THEN 1 ELSE 0)
  <1> DEFINE s == Success[e]
             A == Answered(e, s)
  <1>0. s \in {200, 201} /\ s = IF e = "reserve" THEN 201 ELSE 200
    BY DEF Success, WriteKinds
  <1>1. /\ \A d \in Clients \ {c} : conn'[d] = conn[d]
        /\ stats' = stats
        /\ conn[c].at = "call" /\ conn'[c].at = "respond" /\ conn'[c].req = conn[c].req
        /\ op[Me].kind = Endpoint(conn[c].req)
        /\ op[Me].err = "nil" => conn'[c].status = IF op[Me].kind = "reserve" THEN 201 ELSE 200
        /\ op[Me].err # "nil" => conn'[c].status \in {404, 409}
    BY ReplyEffect
  <1>2. /\ \A d \in Clients \ {c} : d \in A' <=> d \in A
        /\ c \in A <=> conn[c].at = "respond" /\ Endpoint(conn[c].req) = e /\ conn[c].status = s
        /\ c \in A' <=> conn'[c].at = "respond" /\ Endpoint(conn'[c].req) = e /\ conn'[c].status = s
        /\ A \subseteq Clients /\ A' \subseteq Clients
    BY <1>1, AnsweredChange
  <1>3. c \notin A /\ (c \in A' <=> op[Me].kind = e /\ op[Me].err = "nil")
    BY <1>0, <1>1, <1>2
  <1>4. StatsInv' /\ Tally(e, s)' = Tally(e, s)
    BY <1>1 DEF StatsInv, Tally
  <1>5. IsFiniteSet(A) /\ Cardinality(A) \in Nat /\ Tally(e, s) \in Nat
        /\ Given(e, s) = Tally(e, s) + Cardinality(A)
    BY GivenSum
  <1>6. Given(e, s)' = Tally(e, s)' + Cardinality(A')
    BY DEF Given, Tally, Answered
  <1>7. CASE op[Me].kind = e /\ op[Me].err = "nil"
    <2>1. A' = A \cup {c}
      BY <1>2, <1>3, <1>7
    <2>2. Cardinality(A') = Cardinality(A) + 1
      BY <1>3, <1>5, <2>1, FS_AddElement
    <2> HIDE DEF A
    <2> QED BY <1>4, <1>5, <1>6, <1>7, <2>2
  <1>8. CASE ~ (op[Me].kind = e /\ op[Me].err = "nil")
    <2>1. A' = A
      BY <1>2, <1>3, <1>8
    <2> HIDE DEF A
    <2> QED BY <1>4, <1>5, <1>6, <1>8, <2>1
  <1> QED BY <1>7, <1>8

\* The rows that a successful call has made.
Made(e) == IF e = "reserve" THEN DOMAIN rows ELSE RowsIn({Requested[e]})

\* What has been written and not yet been answered.
Due(e) == IF op[Me].kind = e /\ pc[Me] \in {"hold", "release", "append", "answer"} /\ Obliges
          THEN 1 ELSE 0

\* Every row made was answered with success, or is about to be.
Balanced == \A e \in WriteKinds : Given(e, Success[e]) + Due(e) = Cardinality(Made(e))

AnswerInv ==
  /\ CallInv /\ FreshInv /\ StatsInv
  /\ FirstRun => Balanced

(* A call makes a row of its kind with the write that makes its answer     *)
(* due; no other step makes or takes away one.                             *)
LEMMA MadeByCall ==
  ASSUME CallInv, FreshInv, Hold > 0, faults = 0, faults' = 0, crashes = 0, CallStep(Me)
  PROVE  \A e \in WriteKinds :
           \/ Made(e)' = Made(e) /\ Due(e)' = Due(e)
           \/ Made(e)' = Made(e) \cup {op[Me].res} /\ op[Me].res \notin Made(e)
              /\ Due(e) = 0 /\ Due(e)' = 1
  <1> USE DEF From, Reads
  <1> DEFINE i == op[Me].res
  <1>0. /\ Goes /\ Holds /\ TablesInv /\ CallOK(Me) /\ op[Me] \in Op /\ op[Me].now \in Nat
        /\ op[Me].kind \in {"none", "reserve", "confirm", "cancel", "sweep"} /\ IInv /\ faults \in Nat
    <2>1. op[Me] \in Op /\ op[Me].now \in 0 .. clock /\ clock \in Nat
      BY OneReplica DEF CallInv, Sound, FrontInv, ReadInv, IInv, ProcessTypes
    <2>2. op[Me].kind \in {"none", "reserve", "confirm", "cancel", "sweep"}
      BY <2>1 DEF Op
    <2> QED BY <2>1, <2>2, OneReplica DEF CallInv, Sound, FrontInv, IInv
  <1>13. Asked = [reserve |-> "Reserved", confirm |-> "Confirmed", cancel |-> "Cancelled"]
        /\ Requested["confirm"] = "Confirmed" /\ Requested["cancel"] = "Cancelled"
    BY DEF Asked, Requested
  <1>12. Obliges => op[Me].event \in {"Reserved", "Confirmed", "Cancelled"}
    BY <1>13 DEF Obliges, WriteKinds
  <1>1. ASSUME rows' = rows, pc[Me] \notin {"hold", "release", "append", "answer"},
               pc'[Me] \notin {"hold", "release", "append", "answer"} \/ ~ Obliges'
        PROVE  \A e \in WriteKinds : Made(e)' = Made(e) /\ Due(e)' = Due(e)
    BY <1>1 DEF Made, Due, RowsIn
  <1>2. ASSUME rows' = rows, op' [Me] = op[Me], pc[Me] \in {"hold", "release", "append", "answer"},
               pc'[Me] \in {"hold", "release", "append", "answer"}
        PROVE  \A e \in WriteKinds : Made(e)' = Made(e) /\ Due(e)' = Due(e)
    BY <1>2 DEF Made, Due, RowsIn, Obliges
  <1>3. CASE Lists \/ Accepts \/ Fetches \/ FindsLate \/ ExpiresNext \/ Ends("confirm", "Confirmed") \/ Ends("cancel", "Cancelled")
    BY <1>1, <1>3 DEF Lists, Accepts, Fetches, FindsLate, Ends, ExpiresNext, dbVars
  <1>4. CASE Loses
    BY <1>4 DEF Loses
  <1>5. CASE Rejects
    <2>1. op'[Me].err = "ErrOutOfStock"
      BY <1>0, <1>5 DEF Rejects, Op
    <2> QED BY <1>1, <1>5, <2>1 DEF Rejects, dbVars, Obliges
  <1>6. CASE FindsEnded
    <2>1. op'[Me].err # "nil"
      BY <1>0, <1>6 DEF FindsEnded, Op
    <2> QED BY <1>1, <1>6, <2>1 DEF FindsEnded, dbVars, Obliges
  <1>7. CASE Refrains
    <2>1. op'[Me].err # "nil"
      BY <1>0, <1>7 DEF Refrains, Goes, Loops
    <2> QED BY <1>1, <1>7, <2>1 DEF Refrains, dbVars, Obliges
  <1>8. CASE Takes \/ Releases
    BY <1>2, <1>8 DEF Takes, Releases, Attempt, UpdateProduct, dbVars
  <1>9. CASE Logs
    <2>1. rows' = rows /\ pc[Me] = "append" /\ op'[Me] = op[Me]
          /\ pc'[Me] = IF op[Me].event = "Expired" THEN "expire" ELSE "answer"
      BY <1>9 DEF Logs, Attempt, AppendEvent, dbVars
    <2>2. CASE op[Me].event = "Expired"
      BY <1>12, <2>1, <2>2 DEF Made, Due, RowsIn
    <2> QED BY <1>2, <2>1, <2>2
  <1>10. CASE Saves
    <2>1. /\ pc[Me] = "save" /\ pc'[Me] = "hold" /\ op'[Me] = op[Me]
          /\ SaveReservation(op[Me].res, op[Me].now, op[Me].now + Hold)
      BY <1>10 DEF Saves, Attempt, Fault
    <2>2. /\ DOMAIN rows' = DOMAIN rows \cup {i} /\ rows'[i].state = "Active"
          /\ \A j \in DOMAIN rows : j # i => rows'[j] = rows[j]
      <3>1. op[Me].now \in Int
        BY <1>0
      <3>2. /\ DOMAIN rows' = DOMAIN rows \cup {op[Me].res} /\ rows'[op[Me].res].state = "Active"
            /\ \A j \in DOMAIN rows : j # op[Me].res => rows'[j] = rows[j]
        BY <2>1, <3>1, SaveHolds
      <3> QED BY <3>2
    <2>3. i \notin DOMAIN rows
      BY <2>1, crashes = 0 DEF FreshInv
    <2>4. op[Me].kind = "reserve" /\ Obliges /\ Obliges'
      BY <1>0, <2>1 DEF Goes, Obliges
    <2>5. \A e \in WriteKinds : Due(e) = 0 /\ Due(e)' = IF e = "reserve" THEN 1 ELSE 0
      BY <2>1, <2>4 DEF Due
    <2>6. Made("reserve")' = Made("reserve") \cup {i} /\ i \notin Made("reserve")
      BY <2>2, <2>3 DEF Made
    <2>7. \A state : state # "Active" => RowsIn({state})' = RowsIn({state})
      BY <2>2, <2>3 DEF RowsIn
    <2>8. \A e \in WriteKinds \ {"reserve"} : Made(e)' = Made(e)
      BY <1>13, <2>7 DEF Made, WriteKinds
    <2> QED BY <2>5, <2>6, <2>8
  <1>11. CASE Finishes
    <2>1. /\ pc[Me] = "finish" /\ pc'[Me] = "release" /\ op'[Me] = op[Me]
          /\ UpdateReservation(op[Me].res, op[Me].event, op[Me].now)
      BY <1>11 DEF Finishes, Attempt, Fault
    <2>2. op[Me].res \in DOMAIN rows /\ op[Me].event \in TerminalStates /\ InTime(op[Me])
      BY <1>0, <2>1 DEF CallOK, InTime
    <2>3. \A e \in WriteKinds : Due(e) = 0 /\ Due(e)' = IF op[Me].kind = e /\ Obliges THEN 1 ELSE 0
      BY <2>1 DEF Due, Obliges
    <2>4. CASE op[Me].event = "Expired"
      <3>1. ~ Obliges
        BY <1>12, <2>4
      <3>2. /\ DOMAIN rows' = DOMAIN rows
            /\ \A j \in DOMAIN rows : j # i => rows'[j] = rows[j]
            /\ rows'[i].state \in {rows[i].state, "Expired"}
        BY <2>1, <2>2, <2>4 DEF UpdateReservation, Finished, TablesInv, Row
      <3>3. rows[i].state \in TerminalStates => rows'[i].state = rows[i].state
        <4>1. op[Me].now \in Int
          BY <1>0
        <4> QED BY <1>0, <2>1, <2>2, <2>4, <4>1, FinishStatement DEF TerminalKept, InTime
      <3>4. \A state \in {"Confirmed", "Cancelled"} : RowsIn({state})' = RowsIn({state})
        BY <2>2, <3>2, <3>3 DEF RowsIn, TerminalStates
      <3>5. \A e \in WriteKinds : Made(e)' = Made(e)
        BY <1>13, <3>2, <3>4 DEF Made, WriteKinds
      <3> QED BY <2>3, <3>1, <3>5
    <2>5. CASE op[Me].event # "Expired"
      <3>1. Obliges /\ op[Me].kind \in {"confirm", "cancel"} /\ Is(i, "Active")
        BY <1>0, <2>1, <2>5 DEF Goes, Obliges, WriteKinds, Holds
      <3>2. op[Me].event = Requested[op[Me].kind]
        BY <1>13, <3>1 DEF Obliges
      <3>3. /\ DOMAIN rows' = DOMAIN rows /\ rows'[i].state = op[Me].event
            /\ \A j \in DOMAIN rows : j # i => rows'[j] = rows[j]
        BY <1>0, <2>1, <2>2, <3>1, ActiveFinishes
      <3>4. RowsIn({op[Me].event})' = RowsIn({op[Me].event}) \cup {i} /\ i \notin RowsIn({op[Me].event})
        <4>1. op[Me].event # "Active"
          BY <2>2 DEF TerminalStates
        <4>2. \A j : j \in RowsIn({op[Me].event})' <=> j \in RowsIn({op[Me].event}) \/ j = i
          BY <2>1, <2>2, <3>3 DEF RowsIn
        <4> QED BY <3>1, <4>1, <4>2 DEF RowsIn, Is
      <3>5. \A state : state \notin {"Active", op[Me].event} => RowsIn({state})' = RowsIn({state})
        BY <3>1, <3>3 DEF RowsIn, Is
      <3>6. Made(op[Me].kind)' = Made(op[Me].kind) \cup {i} /\ i \notin Made(op[Me].kind)
        <4>1. op'[Me].kind = op[Me].kind /\ op'[Me].event = op[Me].event
          BY <2>1
        <4> QED BY <3>1, <3>2, <3>4, <4>1 DEF Made
      <3>7. \A e \in WriteKinds : e # op[Me].kind => Made(e)' = Made(e)
        BY <1>13, <3>1, <3>2, <3>3, <3>5 DEF Made, WriteKinds
      <3>8. ASSUME NEW e \in WriteKinds, e = op[Me].kind
            PROVE  Made(e)' = Made(e) \cup {i} /\ i \notin Made(e) /\ Due(e) = 0 /\ Due(e)' = 1
        <4>1. op'[Me].kind = op[Me].kind
          BY <2>1
        <4>2. Made(e)' = Made(e) \cup {i} /\ i \notin Made(e)
          BY <3>6, <3>8, <4>1
        <4> QED BY <2>3, <3>1, <3>8, <4>2
      <3>9. \A e \in WriteKinds : e # op[Me].kind => Due(e)' = Due(e)
        BY <2>3
      <3> QED BY <3>7, <3>8, <3>9
    <2> QED BY <2>4, <2>5
  <1> QED
    BY <1>0, <1>3, <1>4, <1>5, <1>6, <1>7, <1>8, <1>9, <1>10, <1>11, CallSteps

(* Nothing is owed to anyone at these points of a call.                    *)
LEMMA NothingDue ==
  ASSUME pc[Me] \notin {"hold", "release", "append", "answer"} \/ op[Me].kind \notin WriteKinds, NEW e \in WriteKinds
  PROVE  Due(e) = 0
  BY DEF Due

(* A step that changes none of the three numbers.                          *)
LEMMA BalanceKept ==
  ASSUME Balanced, \A e \in WriteKinds : Given(e, Success[e])' = Given(e, Success[e]),
         \A e \in WriteKinds : Due(e)' = Due(e), rows' = rows
  PROVE  Balanced'
  <1>1. \A e : Made(e)' = Made(e)
    BY DEF Made, RowsIn
  <1>2. ASSUME NEW e \in WriteKinds PROVE Given(e, Success[e])' + Due(e)' = Cardinality(Made(e)')
    BY <1>1, <1>2 DEF Balanced
  <1>3. ASSUME NEW e \in WriteKinds PROVE (Given(e, Success[e]) + Due(e) = Cardinality(Made(e)))'
    BY <1>2, <1>3
  <1> QED BY <1>3 DEF Balanced

\* No answer is given while no connection is being answered.
LEMMA GivenKept ==
  ASSUME StatsInv, stats' = stats,
         conn' = conn \/ \E c \in Clients : /\ conn[c].at # "respond" /\ conn'[c].at # "respond"
                                            /\ \A d \in Clients \ {c} : conn'[d] = conn[d],
         NEW e \in WriteKinds
  PROVE  StatsInv' /\ Given(e, Success[e])' = Given(e, Success[e])
  <1> DEFINE s == Success[e]
             A == Answered(e, s)
  <1>1. A' = A
    <2>1. CASE conn' = conn
      BY <2>1 DEF Answered, Answering, Asks
    <2>2. CASE \E c \in Clients : /\ conn[c].at # "respond" /\ conn'[c].at # "respond"
                                  /\ \A d \in Clients \ {c} : conn'[d] = conn[d]
      <3>1. PICK c \in Clients : /\ conn[c].at # "respond" /\ conn'[c].at # "respond"
                                 /\ \A d \in Clients \ {c} : conn'[d] = conn[d]
        BY <2>2
      <3>2. /\ \A d \in Clients \ {c} : d \in A' <=> d \in A
            /\ c \notin A /\ c \notin A'
            /\ A \subseteq Clients /\ A' \subseteq Clients
        BY <3>1, AnsweredChange
      <3> QED BY <3>2
    <2> QED BY <2>1, <2>2
  <1>2. StatsInv' /\ Tally(e, s)' = Tally(e, s)
    BY DEF StatsInv, Tally
  <1>3. Given(e, s) = Tally(e, s) + Cardinality(A)
    BY GivenSum
  <1>4. Given(e, s)' = Tally(e, s)' + Cardinality(A')
    BY DEF Given, Tally, Answered
  <1> HIDE DEF A
  <1> QED BY <1>1, <1>2, <1>3, <1>4

\* Until its first end the process has stored finitely many rows.
LEMMA RowsFinite ==
  ASSUME IInv, FreshInv, crashes = 0
  PROVE  IsFiniteSet(DOMAIN rows)
  <1>1. idCounter[Me] \in Nat /\ DOMAIN rows \subseteq Nat /\ \A i \in DOMAIN rows : i <= idCounter[Me]
    BY OneReplica, crashes = 0 DEF IInv, ProcessTypes, TablesInv, FreshInv
  <1> QED BY <1>1, FS_BoundedSetOfNaturals

\* The step of a call keeps the balance.
LEMMA BalanceByCall ==
  ASSUME CallInv, FreshInv, StatsInv, Hold > 0, FirstRun, faults' = 0, CallStep(Me), UNCHANGED serverVars,
         Balanced
  PROVE  Balanced'
  <1>0. FrontInv /\ IInv /\ faults = 0 /\ faults \in Nat
    BY DEF CallInv, FrontInv, FirstRun
  <1>1. crashes = 0
    BY <1>0, CallRunning
  <1> SUFFICES ASSUME NEW e \in WriteKinds
               PROVE  (Given(e, Success[e]) + Due(e) = Cardinality(Made(e)))'
    BY DEF Balanced
  <1>2. Given(e, Success[e])' = Given(e, Success[e]) /\ Given(e, Success[e]) \in Nat
    BY GivenKept, GivenSum DEF serverVars
  <1>3. Given(e, Success[e]) + Due(e) = Cardinality(Made(e))
    BY DEF Balanced
  <1>4. \/ Made(e)' = Made(e) /\ Due(e)' = Due(e)
        \/ Made(e)' = Made(e) \cup {op[Me].res} /\ op[Me].res \notin Made(e)
           /\ Due(e) = 0 /\ Due(e)' = 1
    BY <1>0, <1>1, MadeByCall
  <1>5. CASE Made(e)' = Made(e) /\ Due(e)' = Due(e)
    BY <1>2, <1>3, <1>5
  <1>6. CASE Made(e)' = Made(e) \cup {op[Me].res} /\ op[Me].res \notin Made(e)
             /\ Due(e) = 0 /\ Due(e)' = 1
    <2>1. IsFiniteSet(DOMAIN rows) /\ Made(e) \subseteq DOMAIN rows
      BY <1>0, <1>1, RowsFinite DEF Made, RowsIn
    <2>2. IsFiniteSet(Made(e))
      BY <2>1, FS_Subset
    <2>3. Cardinality(Made(e)') = Cardinality(Made(e)) + 1
      BY <1>6, <2>2, FS_AddElement
    <2> QED BY <1>2, <1>3, <1>6, <2>3
  <1> QED BY <1>4, <1>5, <1>6

\* Every step of the server keeps the balance of the first run.
LEMMA AnswerInvStep ==
  ASSUME AnswerInv, Hold > 0, [ServerNext]_allVars
  PROVE  AnswerInv'
  <1>0. CallInv /\ FrontInv /\ IInv /\ FreshInv /\ StatsInv /\ faults \in Nat
    BY DurableAssumption DEF AnswerInv, CallInv, FrontInv, ProcessInv
  <1>1. CallInv' /\ FreshInv'
    BY <1>0, Hold > 0, CallInvStep, FreshStep
  <1>2. FirstRun' => FirstRun /\ ~ Boot /\ Balanced /\ faults = 0 /\ faults' = 0
    BY <1>0, FirstRunStep DEF AnswerInv, FirstRun
  <1>4. ASSUME UNCHANGED <<stats, rows, conn>>,
               UNCHANGED <<pc, op>> \/ ( /\ \A e \in WriteKinds : Due(e) = 0
                                         /\ \A e \in WriteKinds : Due(e)' = 0)
        PROVE  StatsInv' /\ (Balanced => Balanced')
    <2>1. StatsInv' /\ \A e \in WriteKinds : Given(e, Success[e])' = Given(e, Success[e])
      BY <1>0, <1>4, GivenKept DEF StatsInv
    <2>2. \A e \in WriteKinds : Due(e)' = Due(e)
      BY <1>4 DEF Due, Obliges
    <2> QED BY <1>4, <2>1, <2>2, BalanceKept
  <1>5. ASSUME NEW c \in Clients, Front(c) PROVE StatsInv' /\ (Balanced => Balanced')
    <2>1. StatsInv' /\ \A e \in WriteKinds : Given(e, Success[e])' = Given(e, Success[e])
      <3>1. \A e \in WriteKinds : StatsInv' /\ Given(e, Success[e])' = Given(e, Success[e])
        BY <1>0, <1>5, GivenFront
      <3> QED BY <3>1 DEF WriteKinds
    <2>2. UNCHANGED <<dbVars, pc, op>>
      BY <1>0, <1>5, FrontStep
    <2>3. rows' = rows /\ \A e \in WriteKinds : Due(e)' = Due(e)
      BY <2>2 DEF Due, Obliges, dbVars
    <2> QED BY <2>1, <2>3, BalanceKept
  <1>6. ASSUME NEW c \in Clients, Call(c) PROVE StatsInv' /\ (Balanced => Balanced')
    <2>1. /\ UNCHANGED <<dbVars, stats>> /\ \A d \in Clients \ {c} : conn'[d] = conn[d]
          /\ conn[c].at = "service" /\ conn'[c].at = "call"
          /\ pc[Me] = "idle" /\ pc'[Me] \in {"list", "fetch"}
      BY <1>0, <1>6, CallEffect
    <2>2. StatsInv' /\ \A e \in WriteKinds : Given(e, Success[e])' = Given(e, Success[e])
      BY <1>0, <2>1, GivenKept DEF StatsInv
    <2>3. rows' = rows /\ \A e \in WriteKinds : Due(e)' = Due(e)
      BY <2>1 DEF Due, dbVars
    <2> QED BY <2>2, <2>3, BalanceKept
  <1>7. ASSUME NEW c \in Clients, Reply(c) PROVE StatsInv' /\ (Balanced /\ faults = 0 => Balanced')
    <2>1. /\ UNCHANGED dbVars /\ pc[Me] = "answer" /\ pc'[Me] = "idle" /\ stats' = stats
      BY <1>0, <1>7, ReplyEffect
    <2>2. \A e \in WriteKinds :
            Given(e, Success[e])' = Given(e, Success[e])
                + (IF op[Me].kind = e /\ op[Me].err = "nil" THEN 1 ELSE 0)
      BY <1>0, <1>7, GivenReply
    <2>3. StatsInv'
      BY <1>0, <2>1 DEF StatsInv
    <2>4. ASSUME Balanced, faults = 0, NEW e \in WriteKinds
          PROVE  (Given(e, Success[e]) + Due(e) = Cardinality(Made(e)))'
      <3>1. Obliges <=> op[Me].kind \in WriteKinds /\ op[Me].err = "nil"
        BY <1>0, <2>1, <2>4 DEF CallInv, Sound, Goes, Fulfilled, Obliges
      <3>2. Due(e) = (IF op[Me].kind = e /\ op[Me].err = "nil" THEN 1 ELSE 0) /\ Due(e)' = 0
        BY <2>1, <3>1 DEF Due
      <3>3. Given(e, Success[e]) \in Nat
        BY <1>0, GivenSum
      <3>4. Made(e)' = Made(e)
        BY <2>1 DEF Made, RowsIn, dbVars
      <3>5. Given(e, Success[e]) + Due(e) = Cardinality(Made(e))
        BY <2>4 DEF Balanced
      <3>6. Given(e, Success[e])' = Given(e, Success[e]) + Due(e)
        BY <2>2, <3>2
      <3>7. Given(e, Success[e])' + Due(e)' = Cardinality(Made(e)')
        <4>1. Due(e) \in Nat
          BY <3>2
        <4> QED BY <3>2, <3>3, <3>4, <3>5, <3>6, <4>1
      <3> QED BY <3>7
    <2> QED BY <2>3, <2>4 DEF Balanced
  <1>8. ASSUME CallStep(Me), UNCHANGED serverVars
        PROVE  StatsInv' /\ (FirstRun /\ faults' = 0 /\ Balanced => Balanced')
    <2>1. StatsInv'
      BY <1>0, <1>8 DEF StatsInv, serverVars
    <2> QED BY <1>0, <1>8, <2>1, Hold > 0, BalanceByCall
  <1>9. ASSUME SweepStep(Me), UNCHANGED serverVars PROVE StatsInv' /\ (Balanced => Balanced')
    <2>1. UNCHANGED dbVars
      BY <1>0, <1>9, SweeperEffect
    <2>2. \/ UNCHANGED <<pc, op>>
          \/ pc[Me] = "idle" /\ pc'[Me] = "expire"
          \/ pc[Me] = "expire" /\ pc'[Me] = "idle"
      BY <1>0, <1>9, SweeperEffect
    <2>3. UNCHANGED <<pc, op>> \/ ( /\ \A e \in WriteKinds : Due(e) = 0
                                    /\ \A e \in WriteKinds : Due(e)' = 0)
      BY <2>2 DEF Due
    <2> QED BY <1>4, <1>9, <2>1, <2>3 DEF serverVars, dbVars
  <1>10. ASSUME Drained \/ Timeout \/ ListenFails
         PROVE  StatsInv' /\ (Balanced /\ phase' = "drained" => Balanced')
    <2>1. /\ UNCHANGED <<dbVars, stats>> /\ pc'[Me] = "idle" /\ op'[Me] = NoOp
          /\ (phase' = "drained" /\ conn' = conn) \/ phase' = "down"
          /\ conn' = [c \in Clients |-> Idle]
      BY <1>0, <1>10, ExitEffect
    <2>2. StatsInv'
      BY <1>0, <2>1 DEF StatsInv
    <2>3. ASSUME phase' = "drained"
          PROVE  /\ conn' = conn /\ \A e \in WriteKinds : Due(e) = 0
                 /\ \A e \in WriteKinds : Due(e)' = 0
      <3>1. conn' = conn /\ \A c \in Clients : conn[c] = Idle
        BY <2>1, <2>3
      <3>2. pc[Me] = "idle" \/ op[Me].kind = "sweep"
        BY <1>0, <3>1 DEF FrontInv, CallsMatch, Idle
      <3> QED BY <2>1, <3>1, <3>2 DEF Due, WriteKinds
    <2> QED BY <1>4, <2>1, <2>2, <2>3 DEF dbVars
  <1>11. ASSUME Signal \/ (AdvanceClock /\ UNCHANGED serverVars) \/ UNCHANGED allVars
         PROVE  StatsInv' /\ (Balanced => Balanced')
    BY <1>4, <1>11 DEF Signal, AdvanceClock, serverVars, allVars, vars, dbVars
  <1>12. ASSUME Boot PROVE StatsInv'
    BY <1>12 DEF Boot, StatsInv, NoStats
  <1>13. \/ \E c \in Clients : Front(c) \/ Call(c) \/ Reply(c)
         \/ CallStep(Me) /\ UNCHANGED serverVars
         \/ SweepStep(Me) /\ UNCHANGED serverVars
         \/ Drained \/ Timeout \/ ListenFails
         \/ Signal \/ (AdvanceClock /\ UNCHANGED serverVars) \/ UNCHANGED allVars
         \/ Boot
    BY ServerSteps DEF Inside
  <1>15. StatsInv'
    BY <1>5, <1>6, <1>7, <1>8, <1>9, <1>10, <1>11, <1>12, <1>13
  <1>14. ASSUME FirstRun' PROVE Balanced'
    <2>1. FirstRun /\ ~ Boot /\ Balanced /\ faults = 0 /\ faults' = 0
      BY <1>2, <1>14
    <2>2. Drained \/ Timeout \/ ListenFails => phase' = "drained"
      BY <1>0, <1>14, FirstRunStep
    <2> QED
      BY <1>5, <1>6, <1>7, <1>8, <1>9, <1>10, <1>11, <1>13, <2>1, <2>2
  <1> QED BY <1>1, <1>14, <1>15 DEF AnswerInv

\* Nothing is stored and nothing answered when the server starts.
LEMMA AnswerInitially == ServerInit => AnswerInv
  <1> SUFFICES ASSUME ServerInit PROVE AnswerInv
    OBVIOUS
  <1>1. /\ DOMAIN rows = {} /\ DOMAIN outbox = {} /\ pc[Me] = "idle" /\ stats = NoStats
        /\ \A c \in Clients : conn[c] = Idle
    BY OneReplica DEF ServerInit, Init
  <1>2. FreshInv
    BY <1>1 DEF FreshInv
  <1>3. StatsInv /\ DOMAIN stats = {}
    BY <1>1 DEF StatsInv, NoStats
  <1>4. ASSUME NEW e \in WriteKinds PROVE Given(e, Success[e]) + Due(e) = Cardinality(Made(e))
    <2>1. Answered(e, Success[e]) = {} /\ Tally(e, Success[e]) = 0
      BY <1>1, <1>3 DEF Answered, Answering, Tally, Idle
    <2>2. Given(e, Success[e]) = 0
      BY <1>3, <2>1, GivenSum, FS_EmptySet
    <2>3. Due(e) = 0 /\ Made(e) = {}
      BY <1>1 DEF Due, Made, RowsIn
    <2> QED BY <2>2, <2>3, FS_EmptySet
  <1> QED BY <1>2, <1>3, <1>4, CallInitially DEF AnswerInv, Balanced

(* Between two calls the successes that were counted are the rows: each    *)
(* hold, sale and cancellation was answered once, for any clients, sweeps  *)
(* and shutdowns, and no row was made for nobody.                          *)
THEOREM AnswersMatch ==
  ASSUME Hold > 0
  PROVE  ServerSpec => []AnswersMatchRows
  <1>1. AnswerInv /\ [ServerNext]_allVars => AnswerInv'
    BY Hold > 0, AnswerInvStep
  <1>2. AnswerInv => AnswersMatchRows
    <2> SUFFICES ASSUME AnswerInv, FirstRun, pc[Me] = "idle"
                 PROVE  /\ Given("reserve", 201) = Cardinality(DOMAIN rows)
                        /\ Given("confirm", 200) = Cardinality(RowsIn({"Confirmed"}))
                        /\ Given("cancel", 200) = Cardinality(RowsIn({"Cancelled"}))
      BY DEF AnswersMatchRows
    <2>1. \A e \in WriteKinds : Given(e, Success[e]) = Cardinality(Made(e))
      <3> SUFFICES ASSUME NEW e \in WriteKinds PROVE Given(e, Success[e]) = Cardinality(Made(e))
        OBVIOUS
      <3>1. Due(e) = 0 /\ Given(e, Success[e]) \in Nat
        BY GivenSum DEF Due, AnswerInv
      <3>2. Given(e, Success[e]) + Due(e) = Cardinality(Made(e))
        BY DEF AnswerInv, Balanced
      <3> QED BY <3>1, <3>2
    <2> QED BY <2>1 DEF WriteKinds, Success, Made, Requested
  <1> QED BY <1>1, <1>2, AnswerInitially, PTL DEF ServerSpec

-----------------------------------------------------------------------------
(* One process without a sweeper, until its end: the counters and the      *)
(* outbox.                                                                 *)

Alone == sweep[Me] = NoSweep /\ op[Me].kind # "sweep"

\* Between the write of a row and the write of its product the one is ahead.
ActiveLag == IF pc[Me] = "hold" THEN -1 ELSE IF pc[Me] = "release" THEN 1 ELSE 0
ConfirmedLag == IF pc[Me] = "release" /\ op[Me].event = "Confirmed" THEN 1 ELSE 0

Reconciled ==
  /\ item.activeReservationCount = Cardinality(RowsIn({"Active"})) + ActiveLag
  /\ item.confirmedCount = Cardinality(RowsIn({"Confirmed"})) - ConfirmedLag
  /\ pc[Me] \in {"save", "hold"} => AvailableStock(item) > 0

Types(i) == {outbox[k].type : k \in {n \in DOMAIN outbox : outbox[n].res = i}}

\* A row has been written and its event not yet.
Owing == pc[Me] \in {"hold", "release"} \/ (pc[Me] = "append" /\ op[Me].event # "ReserveRejected")

Told(i) == Types(i) = {"Reserved"} \cup ({rows[i].state} \cap TerminalStates)

Story ==
  /\ \A k \in DOMAIN outbox : outbox[k].res \in DOMAIN rows \cup {NilID}
  /\ \A i \in DOMAIN rows : (Owing /\ op[Me].res = i) \/ Told(i)
  /\ Owing => \/ op[Me].event = "Reserved" /\ Is(op[Me].res, "Active") /\ Types(op[Me].res) = {}
              \/ op[Me].event \in TerminalStates /\ Is(op[Me].res, op[Me].event)
                 /\ Types(op[Me].res) = {"Reserved"}

BooksInv ==
  /\ CallInv /\ FreshInv /\ Alone
  /\ FirstRun => IsFiniteSet(DOMAIN rows) /\ Reconciled /\ Story

\* No call becomes a sweep.
LEMMA KindKept ==
  ASSUME IInv, faults \in Nat, CallStep(Me)
  PROVE  op'[Me].kind = op[Me].kind
  <1>1. op[Me] \in Op
    BY OneReplica DEF IInv, ProcessTypes
  <1> QED BY <1>1, CallSteps DEF Op, Lists, Loses, Rejects, Accepts, Saves, Takes, Fetches, FindsLate, Ends,
             FindsEnded, ExpiresNext, Finishes, Releases, Logs, Refrains

\* Without a sweeper there is no sweep.
LEMMA AloneStep ==
  ASSUME FrontInv, Alone, Sweepers = {}, [ServerNext]_allVars
  PROVE  Alone'
  <1>0. IInv /\ faults \in Nat /\ NoOp.kind = "none"
    BY DurableAssumption DEF FrontInv, ProcessInv, NoOp
  <1>1. ASSUME NEW c \in Clients, Front(c) PROVE Alone'
    BY <1>1, FrontStep DEF Alone, restVars
  <1>2. ASSUME NEW c \in Clients, Call(c) PROVE Alone'
    BY <1>2, CallEffect DEF Alone, WriteKinds
  <1>3. ASSUME NEW c \in Clients, Reply(c) PROVE Alone'
    BY <1>0, <1>3, ReplyEffect DEF Alone, restVars
  <1>4. CASE CallStep(Me)
    BY <1>0, <1>4, KindKept, CallSteps DEF Alone, restVars
  <1>5. CASE SweepStep(Me)
    <2>1. FALSE
      BY <1>0, <1>5, Sweepers = {}, SweeperEffect DEF Alone
    <2> QED BY <2>1
  <1>6. CASE Drained \/ Timeout \/ ListenFails
    BY <1>0, <1>6, ExitEffect DEF Alone
  <1>7. CASE Signal \/ Boot \/ AdvanceClock \/ UNCHANGED allVars
    BY <1>7 DEF Alone, Signal, Boot, Start, AdvanceClock, restVars, allVars, vars
  <1> QED BY <1>1, <1>2, <1>3, <1>4, <1>5, <1>6, <1>7, ServerSteps DEF Inside

\* What the counters are made of.
LEMMA ItemKnown ==
  ASSUME CallInv
  PROVE  /\ item.confirmedCount \in Nat /\ item.activeReservationCount \in Nat /\ TotalStock \in Nat
         /\ item.confirmedCount + item.activeReservationCount <= TotalStock
         /\ AvailableStock(item) = TotalStock - item.confirmedCount - item.activeReservationCount
  <1>1. item \in Item /\ ItemCheck(item)
    BY DEF CallInv, FrontInv, IInv, TablesInv, ReadInv
  <1> QED BY <1>1, DurableAssumption DEF Item, ItemCheck, AvailableStock

\* The write of the product is done, unless the schema refuses it.
LEMMA ProductWritten ==
  ASSUME CallInv, NEW a \in Int, NEW c \in Int, UpdateProduct(a, c),
         item.activeReservationCount + a >= 0, item.confirmedCount + c >= 0,
         item.confirmedCount + c + item.activeReservationCount + a <= TotalStock
  PROVE  /\ item'.activeReservationCount = item.activeReservationCount + a
         /\ item'.confirmedCount = item.confirmedCount + c
         /\ UNCHANGED <<rows, outbox>>
  <1> DEFINE x == item.activeReservationCount + a
             y == item.confirmedCount + c
             new == [item EXCEPT !.activeReservationCount = @ + a, !.confirmedCount = @ + c]
  <1>0. item \in Item
    BY DEF CallInv, FrontInv, IInv, TablesInv
  <1>1. x >= 0 /\ y >= 0 /\ TotalStock >= y + x /\ x \in Int /\ y \in Int
    BY ItemKnown
  <1>2. new = [item EXCEPT !.activeReservationCount = x, !.confirmedCount = y]
    OBVIOUS
  <1>3. UpdateProduct(a, c) => item' = (IF ItemCheck(new) THEN new ELSE item) /\ UNCHANGED <<rows, outbox>>
    BY DEF UpdateProduct
  <1> HIDE DEF x, y, new
  <1>4. new.totalStock = TotalStock /\ new.activeReservationCount = x /\ new.confirmedCount = y
    BY <1>0, <1>1, <1>2 DEF Item
  <1>5. item' = new
    BY <1>1, <1>3, <1>4 DEF ItemCheck
  <1> QED BY <1>3, <1>4, <1>5 DEF x, y

\* The rows in a state are finitely many.
LEMMA RowsCounted ==
  ASSUME CallInv, FreshInv, crashes = 0, NEW states
  PROVE  IsFiniteSet(RowsIn(states)) /\ Cardinality(RowsIn(states)) \in Nat
  <1>1. IsFiniteSet(DOMAIN rows) /\ RowsIn(states) \subseteq DOMAIN rows
    BY crashes = 0, RowsFinite DEF CallInv, FrontInv, RowsIn
  <1> QED BY <1>1, FS_Subset, FS_CardinalityType

\* What the write of a call does to the rows: one more row, or one at its end.
LEMMA CallRows ==
  ASSUME CallInv, FreshInv, Alone, Hold > 0, faults = 0, faults' = 0, crashes = 0, CallStep(Me)
  PROVE  /\ op[Me].res \in Nat \/ ~ (Saves \/ Finishes)
         /\ Saves =>
              /\ op[Me].res \notin DOMAIN rows /\ op[Me].res # NilID
              /\ DOMAIN rows' = DOMAIN rows \cup {op[Me].res}
              /\ rows'[op[Me].res] = Held(op[Me].now + Hold)
              /\ \A j \in DOMAIN rows : rows'[j] = rows[j]
              /\ op[Me].event = "Reserved" /\ UNCHANGED <<item, outbox>>
         /\ Finishes =>
              /\ Is(op[Me].res, "Active") /\ op[Me].event \in TerminalStates
              /\ DOMAIN rows' = DOMAIN rows
              /\ rows'[op[Me].res] = Finished(rows[op[Me].res], op[Me].event, op[Me].now)
              /\ rows'[op[Me].res].state = op[Me].event
              /\ \A j \in DOMAIN rows : j # op[Me].res => rows'[j] = rows[j]
              /\ UNCHANGED <<item, outbox>>
         /\ ~ Saves /\ ~ Finishes => rows' = rows
  <1> USE DEF From
  <1>0. /\ Goes /\ Holds /\ TablesInv /\ CallOK(Me) /\ op[Me] \in Op /\ op[Me].now \in Nat
        /\ op[Me].now \in Int /\ IInv /\ faults \in Nat
    BY OneReplica DEF CallInv, Sound, FrontInv, ReadInv, IInv, ProcessTypes
  <1>1. ASSUME Saves
        PROVE  /\ op[Me].res \in Nat /\ op[Me].res \notin DOMAIN rows /\ op[Me].res # NilID
               /\ DOMAIN rows' = DOMAIN rows \cup {op[Me].res}
               /\ rows'[op[Me].res] = Held(op[Me].now + Hold)
               /\ \A j \in DOMAIN rows : rows'[j] = rows[j]
               /\ op[Me].event = "Reserved" /\ UNCHANGED <<item, outbox>>
    <2>1. pc[Me] = "save" /\ SaveReservation(op[Me].res, op[Me].now, op[Me].now + Hold)
      BY <1>1 DEF Saves, Attempt, Fault
    <2>2. op[Me].res \in Nat \ {0} /\ op[Me].res \notin DOMAIN rows
      BY <1>0, <2>1, crashes = 0 DEF CallOK, FreshInv
    <2>3. /\ DOMAIN rows' = DOMAIN rows \cup {op[Me].res} /\ UNCHANGED <<item, outbox>>
          /\ \A j \in DOMAIN rows : j # op[Me].res => rows'[j] = rows[j]
          /\ rows'[op[Me].res] = Held(IF op[Me].res \in DOMAIN rows THEN rows[op[Me].res].expiresAt
                                      ELSE op[Me].now + Hold)
      BY <1>0, <2>1, SaveHolds
    <2>4. op[Me].event = "Reserved"
      BY <1>0, <2>1 DEF Goes, Obliges, Asked
    <2> QED BY <2>2, <2>3, <2>4 DEF NilID
  <1>2. ASSUME Finishes
        PROVE  /\ op[Me].res \in Nat /\ Is(op[Me].res, "Active") /\ op[Me].event \in TerminalStates
               /\ DOMAIN rows' = DOMAIN rows
               /\ rows'[op[Me].res] = Finished(rows[op[Me].res], op[Me].event, op[Me].now)
               /\ rows'[op[Me].res].state = op[Me].event
               /\ \A j \in DOMAIN rows : j # op[Me].res => rows'[j] = rows[j]
               /\ UNCHANGED <<item, outbox>>
    <2>1. pc[Me] = "finish" /\ UpdateReservation(op[Me].res, op[Me].event, op[Me].now)
      BY <1>2 DEF Finishes, Attempt, Fault
    <2>2. op[Me].res \in DOMAIN rows /\ op[Me].event \in TerminalStates /\ op[Me].res \in Nat
      BY <1>0, <2>1 DEF CallOK, InTime, TablesInv
    <2>3. Is(op[Me].res, "Active")
      BY <1>0, <2>1 DEF Holds, Alone
    <2>4. /\ DOMAIN rows' = DOMAIN rows
          /\ rows'[op[Me].res] = Finished(rows[op[Me].res], op[Me].event, op[Me].now)
          /\ rows'[op[Me].res].state = op[Me].event
          /\ \A j \in DOMAIN rows : j # op[Me].res => rows'[j] = rows[j]
          /\ UNCHANGED <<item, outbox>>
      BY <1>0, <2>1, <2>2, <2>3, ActiveFinishes
    <2> QED BY <2>2, <2>3, <2>4
  <1>3. ~ Saves /\ ~ Finishes => rows' = rows
    BY <1>0, CallWrites DEF Takes, Releases, Logs, Attempt, UpdateProduct, AppendEvent, dbVars
  <1> QED BY <1>1, <1>2, <1>3

\* The counters follow the rows, one write behind.
LEMMA ReconciledByCall ==
  ASSUME CallInv, FreshInv, Alone, Hold > 0, faults = 0, faults' = 0, crashes = 0, CallStep(Me),
         Reconciled
  PROVE  Reconciled'
  <1> USE DEF From, Reads
  <1> DEFINE A == RowsIn({"Active"})
             C == RowsIn({"Confirmed"})
             a == item.activeReservationCount
             c == item.confirmedCount
             i == op[Me].res
  <1>0. /\ Goes /\ Holds /\ op[Me] \in Op /\ IInv /\ faults \in Nat
    BY OneReplica DEF CallInv, Sound, FrontInv, IInv, ProcessTypes
  <1>1. /\ IsFiniteSet(A) /\ Cardinality(A) \in Nat /\ IsFiniteSet(C) /\ Cardinality(C) \in Nat
    BY crashes = 0, RowsCounted
  <1>2. /\ a \in Nat /\ c \in Nat /\ TotalStock \in Nat /\ c + a <= TotalStock
        /\ AvailableStock(item) = TotalStock - c - a
    BY ItemKnown
  <1>3. /\ a = Cardinality(A) + ActiveLag /\ c = Cardinality(C) - ConfirmedLag
        /\ pc[Me] \in {"save", "hold"} => AvailableStock(item) > 0
    BY DEF Reconciled
  <1>4. /\ Saves => i \notin DOMAIN rows /\ DOMAIN rows' = DOMAIN rows \cup {i}
                    /\ rows'[i].state = "Active" /\ (\A j \in DOMAIN rows : rows'[j] = rows[j])
                    /\ item' = item
        /\ Finishes => /\ i \in DOMAIN rows /\ rows[i].state = "Active" /\ op[Me].event \in TerminalStates
                       /\ DOMAIN rows' = DOMAIN rows /\ rows'[i].state = op[Me].event
                       /\ \A j \in DOMAIN rows : j # i => rows'[j] = rows[j]
                       /\ item' = item
        /\ ~ Saves /\ ~ Finishes => rows' = rows
    BY Hold > 0, faults = 0, faults' = 0, crashes = 0, CallRows DEF Is, Held
  <1>5. CASE Saves
    <2>1. pc[Me] = "save" /\ pc'[Me] = "hold"
      BY <1>5 DEF Saves
    <2>2. A' = A \cup {i} /\ i \notin A /\ C' = C
      BY <1>4, <1>5 DEF RowsIn
    <2>3. Cardinality(A') = Cardinality(A) + 1
      BY <1>1, <2>2, FS_AddElement
    <2>4. item' = item /\ AvailableStock(item)' = AvailableStock(item)
      BY <1>4, <1>5 DEF AvailableStock
    <2>5. ActiveLag = 0 /\ ConfirmedLag = 0 /\ ActiveLag' = -1 /\ ConfirmedLag' = 0
      BY <2>1 DEF ActiveLag, ConfirmedLag
    <2> HIDE DEF A, C
    <2>6. item'.activeReservationCount = Cardinality(A') + ActiveLag'
      BY <1>1, <1>3, <2>3, <2>4, <2>5
    <2>7. item'.confirmedCount = Cardinality(C') - ConfirmedLag'
      BY <1>1, <1>3, <2>2, <2>4, <2>5
    <2> QED BY <1>3, <2>1, <2>4, <2>6, <2>7 DEF Reconciled, A, C
  <1>6. CASE Finishes
    <2>1. pc[Me] = "finish" /\ pc'[Me] = "release" /\ op'[Me] = op[Me]
      BY <1>6 DEF Finishes
    <2>2. A' = A \ {i} /\ i \in A
      BY <1>4, <1>6 DEF RowsIn, TerminalStates
    <2>3. Cardinality(A') = Cardinality(A) - 1
      BY <1>1, <2>2, FS_RemoveElement
    <2>4. item' = item
      BY <1>4, <1>6
    <2>5. ActiveLag = 0 /\ ConfirmedLag = 0 /\ ActiveLag' = 1
          /\ ConfirmedLag' = IF op[Me].event = "Confirmed" THEN 1 ELSE 0
      BY <2>1 DEF ActiveLag, ConfirmedLag
    <2>6. Cardinality(C') = Cardinality(C) + ConfirmedLag'
      <3>1. CASE op[Me].event = "Confirmed"
        <4>1. C' = C \cup {i} /\ i \notin C
          BY <1>4, <1>6, <3>1 DEF RowsIn
        <4> QED BY <1>1, <2>5, <3>1, <4>1, FS_AddElement
      <3>2. CASE op[Me].event # "Confirmed"
        <4>1. C' = C
          BY <1>4, <1>6, <3>2 DEF RowsIn
        <4> HIDE DEF C
        <4> QED BY <1>1, <2>5, <3>2, <4>1
      <3> QED BY <3>1, <3>2
    <2> HIDE DEF A, C
    <2>7. item'.activeReservationCount = Cardinality(A') + ActiveLag'
      BY <1>1, <1>3, <2>3, <2>4, <2>5
    <2>8. item'.confirmedCount = Cardinality(C') - ConfirmedLag'
      BY <1>1, <1>3, <2>4, <2>5, <2>6
    <2> QED BY <2>1, <2>7, <2>8 DEF Reconciled, A, C
  <1>7. CASE Takes
    <2>1. pc[Me] = "hold" /\ pc'[Me] = "append" /\ op'[Me] = op[Me] /\ UpdateProduct(1, 0)
      BY <1>7 DEF Takes, Attempt, Fault
    <2>2. item'.activeReservationCount = a + 1 /\ item'.confirmedCount = c + 0 /\ rows' = rows
      <3>1. a + 1 >= 0 /\ c + 0 >= 0 /\ c + 0 + a + 1 <= TotalStock
        BY <1>2, <1>3, <2>1
      <3> QED BY <2>1, <3>1, ProductWritten
    <2>3. A' = A /\ C' = C
      BY <2>2 DEF RowsIn
    <2>4. ActiveLag = -1 /\ ConfirmedLag = 0 /\ ActiveLag' = 0 /\ ConfirmedLag' = 0
      BY <2>1 DEF ActiveLag, ConfirmedLag
    <2> HIDE DEF A, C, a, c
    <2>5. item'.activeReservationCount = Cardinality(A') + ActiveLag'
      BY <1>1, <1>3, <2>2, <2>3, <2>4
    <2>6. item'.confirmedCount = Cardinality(C') - ConfirmedLag'
      BY <1>1, <1>2, <1>3, <2>2, <2>3, <2>4
    <2> QED BY <2>1, <2>5, <2>6 DEF Reconciled, A, C
  <1>8. CASE Releases
    <2> DEFINE s == IF op[Me].event = "Confirmed" THEN 1 ELSE 0
    <2>1. pc[Me] = "release" /\ pc'[Me] = "append" /\ op'[Me] = op[Me] /\ UpdateProduct(-1, s)
      BY <1>0, <1>8 DEF Releases, Attempt, Fault, Goes
    <2>2. ActiveLag = 1 /\ ConfirmedLag = s /\ ActiveLag' = 0 /\ ConfirmedLag' = 0 /\ s \in {0, 1}
      BY <2>1 DEF ActiveLag, ConfirmedLag
    <2> HIDE DEF s
    <2>3. item'.activeReservationCount = a + (-1) /\ item'.confirmedCount = c + s /\ rows' = rows
      <3>1. a + (-1) >= 0 /\ c + s >= 0 /\ c + s + a + (-1) <= TotalStock
        BY <1>1, <1>2, <1>3, <2>2
      <3>2. s \in Int /\ -1 \in Int
        BY <2>2
      <3> QED BY <2>1, <3>1, <3>2, ProductWritten
    <2>4. A' = A /\ C' = C
      BY <2>3 DEF RowsIn
    <2> HIDE DEF A, C, a, c
    <2>5. item'.activeReservationCount = Cardinality(A') + ActiveLag'
      BY <1>1, <1>2, <1>3, <2>2, <2>3, <2>4
    <2>6. item'.confirmedCount = Cardinality(C') - ConfirmedLag'
      BY <1>1, <1>2, <1>3, <2>2, <2>3, <2>4
    <2> QED BY <2>1, <2>5, <2>6 DEF Reconciled, A, C
  <1>9. ASSUME rows' = rows, item' = item, pc[Me] \notin {"hold", "release"}, pc'[Me] \notin {"hold", "release"},
               pc'[Me] = "save" => AvailableStock(item) > 0
        PROVE  Reconciled'
    <2>1. A' = A /\ C' = C /\ AvailableStock(item)' = AvailableStock(item)
      BY <1>9 DEF RowsIn, AvailableStock
    <2>2. ActiveLag = 0 /\ ConfirmedLag = 0 /\ ActiveLag' = 0 /\ ConfirmedLag' = 0
      BY <1>9 DEF ActiveLag, ConfirmedLag
    <2> HIDE DEF A, C
    <2>3. item'.activeReservationCount = Cardinality(A') + ActiveLag'
      BY <1>3, <1>9, <2>1, <2>2
    <2>4. item'.confirmedCount = Cardinality(C') - ConfirmedLag'
      BY <1>3, <1>9, <2>1, <2>2
    <2> QED BY <1>9, <2>1, <2>3, <2>4 DEF Reconciled, A, C
  <1>10. CASE Lists \/ Loses \/ Rejects \/ Accepts \/ Fetches \/ FindsLate \/ FindsEnded \/ ExpiresNext
              \/ Ends("confirm", "Confirmed") \/ Ends("cancel", "Cancelled") \/ Refrains
    BY <1>9, <1>10 DEF Lists, Loses, Rejects, Accepts, Fetches, FindsLate, FindsEnded, ExpiresNext, Ends,
                       Refrains, dbVars
  <1>11. CASE Logs
    <2>1. rows' = rows /\ item' = item /\ pc[Me] = "append" /\ pc'[Me] \in {"expire", "answer"}
      BY <1>11 DEF Logs, Attempt, AppendEvent, dbVars
    <2> QED BY <1>9, <2>1
  <1> QED BY <1>0, <1>5, <1>6, <1>7, <1>8, <1>10, <1>11, CallSteps

\* One more event in the outbox.
LEMMA TypesWithEvent ==
  ASSUME outbox \in Seq(Event), NEW e \in Event, outbox' = Append(outbox, e), NEW i
  PROVE  Types(i)' = Types(i) \cup (IF e.res = i THEN {e.type} ELSE {})
  <1>1. /\ DOMAIN outbox = 1 .. Len(outbox) /\ Len(outbox) \in Nat
        /\ DOMAIN outbox' = 1 .. Len(outbox) + 1
        /\ outbox'[Len(outbox) + 1] = e
        /\ \A k \in 1 .. Len(outbox) : outbox'[k] = outbox[k]
    OBVIOUS
  <1>2. DOMAIN outbox' = DOMAIN outbox \cup {Len(outbox) + 1} /\ Len(outbox) + 1 \notin DOMAIN outbox
    BY <1>1
  <1> DEFINE n == Len(outbox) + 1
  <1>3. Types(i) = {x \in EventTypes : \E k \in DOMAIN outbox : outbox[k].res = i /\ outbox[k].type = x}
    <2>1. \A k \in DOMAIN outbox : outbox[k].type \in EventTypes
      <3>1. \A k \in DOMAIN outbox : outbox[k] \in Event
        OBVIOUS
      <3> QED BY <3>1 DEF Event
    <2> QED BY <2>1 DEF Types
  <1>4. Types(i)' = {x \in EventTypes : \E k \in DOMAIN outbox' : outbox'[k].res = i /\ outbox'[k].type = x}
    <2>1. \A k \in DOMAIN outbox' : outbox'[k].type \in EventTypes
      <3>1. \A k \in DOMAIN outbox' : outbox'[k] \in Event
        BY <1>1, <1>2
      <3> QED BY <3>1 DEF Event
    <2> QED BY <2>1 DEF Types
  <1>5. e.type \in EventTypes
    BY DEF Event
  <1> HIDE DEF n
  <1>6. \A x : (\E k \in DOMAIN outbox' : outbox'[k].res = i /\ outbox'[k].type = x)
                 <=> (\E k \in DOMAIN outbox : outbox[k].res = i /\ outbox[k].type = x)
                     \/ (e.res = i /\ e.type = x)
    <2>1. DOMAIN outbox' = DOMAIN outbox \cup {n} /\ outbox'[n] = e
          /\ \A k \in DOMAIN outbox : outbox'[k] = outbox[k]
      BY <1>1, <1>2 DEF n
    <2> QED BY <2>1
  <1> QED BY <1>3, <1>4, <1>5, <1>6

\* An event under a fresh number, of a row that is stored or of none, is stored.
LEMMA EventLogged ==
  ASSUME CallInv, FreshInv, faults = 0, faults' = 0, crashes = 0, Logs,
         op[Me].res \in DOMAIN rows \cup {NilID}
  PROVE  /\ outbox' = Append(outbox, EventOf(Me)) /\ UNCHANGED <<item, rows>>
         /\ EventOf(Me) \in Event /\ EventOf(Me).res = op[Me].res /\ EventOf(Me).type = op[Me].event
         /\ outbox \in Seq(Event)
  <1>0. /\ IInv /\ Goes /\ TablesInv /\ idCounter[Me] \in Nat /\ op[Me] \in Op
    BY OneReplica DEF CallInv, Sound, FrontInv, IInv, ProcessTypes
  <1>1. EventOf(Me) \in Event /\ EventOf(Me).id = idCounter[Me] + 1
    <2>1. op[Me].res \in Int /\ op[Me].now \in Int /\ op[Me].event \in EventTypes
      BY <1>0 DEF Op
    <2>2. idCounter[Me] + 1 \in Int /\ -1 \in Int
      BY <1>0
    <2> QED BY <2>1, <2>2 DEF EventOf, Event, EmptyID
  <1>2. EventOf(Me).res = op[Me].res /\ EventOf(Me).type = op[Me].event
    BY <1>0 DEF Goes, EventOf
  <1>3. \A k \in DOMAIN outbox : outbox[k].id <= idCounter[Me] /\ outbox[k].id \in Int
    <2>1. \A k \in DOMAIN outbox : outbox[k] \in Event
      BY <1>0 DEF TablesInv
    <2>2. \A k \in DOMAIN outbox : outbox[k].id \in Int
      BY <2>1 DEF Event
    <2> QED BY <2>2, crashes = 0 DEF FreshInv
  <1>4. ~ \E k \in DOMAIN outbox : outbox[k].id = EventOf(Me).id
    BY <1>0, <1>1, <1>3
  <1>5. AppendEvent(EventOf(Me))
    BY DEF Logs, Attempt, Fault
  <1>6. outbox' = Append(outbox, EventOf(Me)) /\ UNCHANGED <<item, rows>>
    BY <1>2, <1>4, <1>5 DEF AppendEvent
  <1> QED BY <1>0, <1>1, <1>2, <1>6 DEF TablesInv

\* The outbox tells every row but the one whose event is still to come.
LEMMA StoryByCall ==
  ASSUME CallInv, FreshInv, Alone, Hold > 0, faults = 0, faults' = 0, crashes = 0, CallStep(Me),
         Story
  PROVE  Story'
  <1> USE DEF From, Reads
  <1> DEFINE r == op[Me].res
  <1>0. /\ Goes /\ op[Me] \in Op /\ IInv /\ TablesInv /\ faults \in Nat /\ NilID \notin DOMAIN rows
    BY OneReplica DEF CallInv, Sound, FrontInv, IInv, ProcessTypes, TablesInv, NilID
  <1>1. /\ Saves => r \notin DOMAIN rows /\ r # NilID /\ DOMAIN rows' = DOMAIN rows \cup {r}
                    /\ rows'[r].state = "Active" /\ (\A j \in DOMAIN rows : rows'[j] = rows[j])
                    /\ op[Me].event = "Reserved" /\ outbox' = outbox
        /\ Finishes => /\ r \in DOMAIN rows /\ rows[r].state = "Active" /\ op[Me].event \in TerminalStates
                       /\ DOMAIN rows' = DOMAIN rows /\ rows'[r].state = op[Me].event
                       /\ \A j \in DOMAIN rows : j # r => rows'[j] = rows[j]
                       /\ outbox' = outbox
    BY Hold > 0, faults = 0, faults' = 0, crashes = 0, CallRows DEF Is, Held
  <1>2. outbox' = outbox => \A i : Types(i)' = Types(i)
    BY DEF Types
  <1>3. CASE Saves
    <2>1. pc[Me] = "save" /\ pc'[Me] = "hold" /\ op'[Me] = op[Me]
      BY <1>3 DEF Saves
    <2>2. ~ Owing /\ \A i \in DOMAIN rows : Told(i)
      BY <2>1 DEF Owing, Story
    <2>3. Types(r) = {}
      BY <1>1, <1>3 DEF Types, Story
    <2>4. \A i \in DOMAIN rows : Told(i)'
      BY <1>1, <1>2, <1>3, <2>2 DEF Told
    <2>5. Owing' /\ Is(r, "Active")' /\ Types(r)' = {} /\ op'[Me].event = "Reserved"
      BY <1>1, <1>2, <1>3, <2>1, <2>3 DEF Owing, Is
    <2>6. \A k \in DOMAIN outbox' : outbox'[k].res \in DOMAIN rows' \cup {NilID}
      BY <1>1, <1>3 DEF Story
    <2>7. \A i \in DOMAIN rows' : op'[Me].res = i \/ Told(i)'
      BY <1>1, <1>3, <2>1, <2>4
    <2> QED BY <2>1, <2>5, <2>6, <2>7 DEF Story
  <1>4. CASE Finishes
    <2>1. pc[Me] = "finish" /\ pc'[Me] = "release" /\ op'[Me] = op[Me]
      BY <1>4 DEF Finishes
    <2>2. ~ Owing /\ \A i \in DOMAIN rows : Told(i)
      BY <2>1 DEF Owing, Story
    <2>3. Types(r) = {"Reserved"}
      BY <1>1, <1>4, <2>2 DEF Told, TerminalStates
    <2>4. \A i \in DOMAIN rows : i # r => Told(i)'
      BY <1>1, <1>2, <1>4, <2>2 DEF Told
    <2>5. Owing' /\ Is(r, op[Me].event)' /\ Types(r)' = {"Reserved"} /\ op[Me].event \in TerminalStates
      BY <1>1, <1>2, <1>4, <2>1, <2>3 DEF Owing, Is
    <2>6. \A k \in DOMAIN outbox' : outbox'[k].res \in DOMAIN rows' \cup {NilID}
      BY <1>1, <1>4 DEF Story
    <2>7. \A i \in DOMAIN rows' : op'[Me].res = i \/ Told(i)'
      BY <1>1, <1>4, <2>1, <2>4
    <2> QED BY <2>1, <2>5, <2>6, <2>7 DEF Story
  <1>5. CASE Takes \/ Releases
    <2>1. /\ pc[Me] \in {"hold", "release"} /\ pc'[Me] = "append" /\ op'[Me] = op[Me]
          /\ rows' = rows /\ outbox' = outbox
      BY <1>5 DEF Takes, Releases, Attempt, UpdateProduct, dbVars
    <2>2. Owing /\ op[Me].event # "ReserveRejected"
      BY <2>1 DEF Owing, Story, TerminalStates
    <2>3. Owing'
      BY <2>1, <2>2 DEF Owing
    <2>4. \A i \in DOMAIN rows : Told(i) => Told(i)'
      BY <1>2, <2>1 DEF Told
    <2>5. \A i, state : Is(i, state)' <=> Is(i, state)
      BY <2>1 DEF Is
    <2>6. \A k \in DOMAIN outbox' : outbox'[k].res \in DOMAIN rows' \cup {NilID}
      BY <2>1 DEF Story
    <2>7. \A i \in DOMAIN rows' : op'[Me].res = i \/ Told(i)'
      BY <2>1, <2>2, <2>4 DEF Story
    <2>8. \/ op'[Me].event = "Reserved" /\ Is(r, "Active")' /\ Types(r)' = {}
          \/ op'[Me].event \in TerminalStates /\ Is(r, op[Me].event)' /\ Types(r)' = {"Reserved"}
      BY <1>2, <2>1, <2>2, <2>5 DEF Story
    <2> QED BY <2>1, <2>3, <2>6, <2>7, <2>8 DEF Story
  <1>6. CASE Logs
    <2>1. pc[Me] = "append" /\ pc'[Me] \in {"expire", "answer"} /\ op'[Me] = op[Me]
      BY <1>6 DEF Logs
    <2>2. ~ Owing => r = NilID
      BY <1>0, <2>1 DEF Owing, Goes, Fulfilled, Obliges, Asked, Declined, WriteKinds
    <2>3. r \in DOMAIN rows \cup {NilID}
      BY <2>2 DEF Story, Is
    <2>4. /\ outbox' = Append(outbox, EventOf(Me)) /\ rows' = rows
          /\ EventOf(Me) \in Event /\ EventOf(Me).res = r /\ EventOf(Me).type = op[Me].event
          /\ outbox \in Seq(Event)
      BY <1>6, <2>3, faults = 0, faults' = 0, crashes = 0, EventLogged
    <2>5. \A i : Types(i)' = Types(i) \cup (IF r = i THEN {op[Me].event} ELSE {})
      BY <2>4, TypesWithEvent
    <2>6. ~ Owing'
      BY <2>1 DEF Owing
    <2>7. \A k \in DOMAIN outbox' : outbox'[k].res \in DOMAIN rows' \cup {NilID}
      <3>1. \A k \in DOMAIN outbox' : (k \in DOMAIN outbox /\ outbox'[k] = outbox[k]) \/ outbox'[k] = EventOf(Me)
        BY <2>4
      <3> QED BY <2>3, <2>4, <3>1 DEF Story
    <2>8. ASSUME NEW i \in DOMAIN rows PROVE Told(i)'
      <3>1. CASE r # i
        BY <2>4, <2>5, <3>1 DEF Story, Told
      <3>2. CASE r = i
        <4>1. Owing
          BY <1>0, <2>2, <3>2
        <4>2. \/ op[Me].event = "Reserved" /\ rows[i].state = "Active" /\ Types(i) = {}
              \/ op[Me].event \in TerminalStates /\ rows[i].state = op[Me].event /\ Types(i) = {"Reserved"}
          BY <3>2, <4>1 DEF Story, Is
        <4>3. Types(i)' = Types(i) \cup {op[Me].event} /\ rows'[i] = rows[i]
          BY <2>4, <2>5, <3>2
        <4> QED BY <4>2, <4>3 DEF Told, TerminalStates
      <3> QED BY <3>1, <3>2
    <2> QED BY <2>4, <2>6, <2>7, <2>8 DEF Story
  <1>7. ASSUME rows' = rows, outbox' = outbox, ~ Owing, ~ Owing' PROVE Story'
    BY <1>2, <1>7 DEF Story, Told
  <1>8. CASE Rejects
    <2>1. op'[Me].event = "ReserveRejected"
      BY <1>0, <1>8 DEF Rejects, Op
    <2> QED BY <1>7, <1>8, <2>1 DEF Rejects, Owing, dbVars
  <1>9. CASE Lists \/ Loses \/ Accepts \/ Fetches \/ FindsLate \/ FindsEnded \/ ExpiresNext
              \/ Ends("confirm", "Confirmed") \/ Ends("cancel", "Cancelled") \/ Refrains
    BY <1>7, <1>9 DEF Lists, Loses, Accepts, Fetches, FindsLate, FindsEnded, ExpiresNext, Ends,
                       Refrains, Owing, dbVars
  <1> QED BY <1>0, <1>3, <1>4, <1>5, <1>6, <1>8, <1>9, CallSteps

\* Outside of a call the books are not touched.
LEMMA BooksKept ==
  ASSUME UNCHANGED dbVars,
         \/ UNCHANGED <<pc, op>>
         \/ pc[Me] \in {"idle", "answer"} /\ pc'[Me] \in {"idle", "list", "fetch"},
         Reconciled, Story
  PROVE  Reconciled' /\ Story'
  <1>1. rows' = rows /\ item' = item /\ outbox' = outbox
    BY DEF dbVars
  <1>2. /\ ActiveLag' = ActiveLag /\ ConfirmedLag' = ConfirmedLag /\ (Owing' <=> Owing)
        /\ pc'[Me] \in {"save", "hold"} <=> pc[Me] \in {"save", "hold"}
        /\ ~ Owing \/ op'[Me] = op[Me]
    BY DEF ActiveLag, ConfirmedLag, Owing
  <1>3. /\ \A states : RowsIn(states)' = RowsIn(states)
        /\ AvailableStock(item)' = AvailableStock(item)
        /\ \A i : Types(i)' = Types(i)
    BY <1>1 DEF RowsIn, AvailableStock, Types
  <1>4. Reconciled'
    BY <1>1, <1>2, <1>3 DEF Reconciled
  <1>5. \A i : (Told(i)' <=> Told(i)) /\ \A state : Is(i, state)' <=> Is(i, state)
    BY <1>1, <1>3 DEF Told, Is
  <1>6. \A k \in DOMAIN outbox' : outbox'[k].res \in DOMAIN rows' \cup {NilID}
    BY <1>1 DEF Story
  <1>7. \A i \in DOMAIN rows' : (Owing' /\ op'[Me].res = i) \/ Told(i)'
    BY <1>1, <1>2, <1>5 DEF Story
  <1>8. ASSUME Owing'
        PROVE  (\/ op[Me].event = "Reserved" /\ Is(op[Me].res, "Active") /\ Types(op[Me].res) = {}
                \/ op[Me].event \in TerminalStates /\ Is(op[Me].res, op[Me].event)
                   /\ Types(op[Me].res) = {"Reserved"})'
    <2>1. Owing /\ op'[Me] = op[Me]
      BY <1>2, <1>8
    <2>2. \/ op[Me].event = "Reserved" /\ Is(op[Me].res, "Active") /\ Types(op[Me].res) = {}
          \/ op[Me].event \in TerminalStates /\ Is(op[Me].res, op[Me].event)
             /\ Types(op[Me].res) = {"Reserved"}
      BY <2>1 DEF Story
    <2> QED BY <1>3, <1>5, <2>1, <2>2
  <1>9. Story'
    BY <1>6, <1>7, <1>8 DEF Story
  <1> QED BY <1>4, <1>9

\* Every step of the server keeps the books of the first run.
LEMMA BooksStep ==
  ASSUME BooksInv, Hold > 0, Sweepers = {}, [ServerNext]_allVars
  PROVE  BooksInv'
  <1>0. CallInv /\ FrontInv /\ IInv /\ FreshInv /\ Alone /\ faults \in Nat
    BY DurableAssumption DEF BooksInv, CallInv, FrontInv, ProcessInv
  <1>1. CallInv' /\ FreshInv' /\ Alone'
    BY <1>0, Hold > 0, Sweepers = {}, CallInvStep, FreshStep, AloneStep
  <1> SUFFICES ASSUME FirstRun' PROVE IsFiniteSet(DOMAIN rows)' /\ Reconciled' /\ Story'
    BY <1>1 DEF BooksInv
  <1>2. FirstRun /\ ~ Boot /\ faults = 0 /\ faults' = 0
    BY <1>0, FirstRunStep DEF FirstRun
  <1>3. IsFiniteSet(DOMAIN rows) /\ Reconciled /\ Story
    BY <1>2 DEF BooksInv
  <1>4. ASSUME NEW c \in Clients, Front(c) PROVE Reconciled' /\ Story'
    <2>1. UNCHANGED <<dbVars, pc, op>>
      BY <1>0, <1>4, FrontStep
    <2> QED BY <1>3, <2>1, BooksKept
  <1>5. ASSUME NEW c \in Clients, Call(c) PROVE Reconciled' /\ Story'
    <2>1. UNCHANGED dbVars /\ pc[Me] = "idle" /\ pc'[Me] \in {"list", "fetch"}
      BY <1>0, <1>5, CallEffect
    <2> QED BY <1>3, <2>1, BooksKept
  <1>6. ASSUME NEW c \in Clients, Reply(c) PROVE Reconciled' /\ Story'
    <2>1. UNCHANGED dbVars /\ pc[Me] = "answer" /\ pc'[Me] = "idle"
      BY <1>0, <1>6, ReplyEffect
    <2> QED BY <1>3, <2>1, BooksKept
  <1>7. ASSUME CallStep(Me) PROVE Reconciled' /\ Story'
    <2>1. crashes = 0
      BY <1>0, <1>2, <1>7, CallRunning
    <2> QED BY <1>0, <1>2, <1>3, <1>7, <2>1, Hold > 0, ReconciledByCall, StoryByCall
  <1>8. ~ SweepStep(Me)
    <2> SUFFICES ASSUME SweepStep(Me) PROVE FALSE
      OBVIOUS
    <2> QED BY <1>0, Sweepers = {}, SweeperEffect DEF Alone
  <1>9. ASSUME Drained \/ Timeout \/ ListenFails PROVE Reconciled' /\ Story'
    <2>1. /\ UNCHANGED dbVars /\ pc'[Me] = "idle" /\ conn' = conn
          /\ conn' = [c \in Clients |-> Idle]
      BY <1>0, <1>9, ExitEffect, FirstRunStep
    <2>2. pc[Me] = "idle"
      <3>1. \A c \in Clients : conn[c] = Idle
        BY <2>1
      <3> QED BY <1>0, <3>1 DEF FrontInv, CallsMatch, Alone, Idle
    <2> QED BY <1>3, <2>1, <2>2, BooksKept
  <1>10. ASSUME Signal \/ AdvanceClock \/ UNCHANGED allVars PROVE Reconciled' /\ Story'
    <2>1. UNCHANGED <<dbVars, pc, op>>
      BY <1>10 DEF Signal, AdvanceClock, allVars, vars
    <2> QED BY <1>3, <2>1, BooksKept
  <1>11. Reconciled' /\ Story'
    BY <1>2, <1>4, <1>5, <1>6, <1>7, <1>8, <1>9, <1>10, ServerSteps DEF Inside
  <1>12. DOMAIN rows' = DOMAIN rows \/ \E i : DOMAIN rows' = DOMAIN rows \cup {i}
    <2>1. CASE CallStep(Me)
      <3>1. crashes = 0
        BY <1>0, <1>2, <2>1, CallRunning
      <3> QED BY <1>0, <1>2, <2>1, <3>1, Hold > 0, CallRows
    <2>2. ASSUME NEW c \in Clients, Front(c) \/ Call(c) \/ Reply(c) PROVE rows' = rows
      BY <1>0, <2>2, FrontStep, CallEffect, ReplyEffect DEF dbVars
    <2>3. ASSUME Drained \/ Timeout \/ ListenFails PROVE rows' = rows
      BY <1>0, <2>3, ExitEffect DEF dbVars
    <2>4. ASSUME Signal \/ AdvanceClock \/ UNCHANGED allVars PROVE rows' = rows
      BY <2>4 DEF Signal, AdvanceClock, allVars, vars, dbVars
    <2> QED BY <1>2, <1>8, <2>1, <2>2, <2>3, <2>4, ServerSteps DEF Inside
  <1>13. IsFiniteSet(DOMAIN rows')
    BY <1>3, <1>12, FS_AddElement
  <1> QED BY <1>11, <1>13

\* The books of a server that starts are empty.
LEMMA BooksInitially == ServerInit => BooksInv
  <1> SUFFICES ASSUME ServerInit PROVE BooksInv
    OBVIOUS
  <1>1. /\ DOMAIN rows = {} /\ DOMAIN outbox = {} /\ pc[Me] = "idle" /\ sweep[Me] = NoSweep
        /\ op[Me] = NoOp /\ item = Seeded(TotalStock)
    BY OneReplica DEF ServerInit, Init
  <1>2. FreshInv /\ Alone
    BY <1>1 DEF FreshInv, Alone, NoOp
  <1>3. Reconciled
    <2>1. RowsIn({"Active"}) = {} /\ RowsIn({"Confirmed"}) = {} /\ ActiveLag = 0 /\ ConfirmedLag = 0
      BY <1>1 DEF RowsIn, ActiveLag, ConfirmedLag
    <2>2. Cardinality(RowsIn({"Active"})) = 0 /\ Cardinality(RowsIn({"Confirmed"})) = 0
      BY <2>1, FS_EmptySet
    <2>3. item.activeReservationCount = 0 /\ item.confirmedCount = 0
      BY <1>1 DEF Seeded
    <2> QED BY <1>1, <2>1, <2>2, <2>3 DEF Reconciled
  <1>4. Story
    BY <1>1 DEF Story, Owing
  <1>5. IsFiniteSet(DOMAIN rows)
    BY <1>1, FS_EmptySet
  <1> QED BY <1>2, <1>3, <1>4, <1>5, CallInitially DEF BooksInv

(* A process that is never started again and whose statements do not fail  *)
(* is in its first run until it ends with calls under way.                 *)
LEMMA StillFirstRun ==
  ASSUME FrontInv, MaxFaults = 0, MaxBoots = 0, phase # "down"
  PROVE  FirstRun
  BY ServerAssumption DEF FrontInv, ProcessInv, FirstRun

\* The inductive invariant of a process that has no sweeper.
THEOREM BooksInvariance ==
  ASSUME Hold > 0, Sweepers = {}
  PROVE  ServerSpec => []BooksInv
  <1>1. BooksInv /\ [ServerNext]_allVars => BooksInv'
    BY Hold > 0, Sweepers = {}, BooksStep
  <1> QED BY <1>1, BooksInitially, PTL DEF ServerSpec

(* RL-R1 to RL-R4: at rest the counters count the rows, although a product *)
(* and its reservations are written one after the other.                   *)
THEOREM CountersReconciled ==
  ASSUME Hold > 0, Sweepers = {}, MaxFaults = 0, MaxBoots = 0
  PROVE  ServerSpec => []CountersMatchRows
  <1>1. BooksInv => CountersMatchRows
    <2> SUFFICES ASSUME BooksInv, pc[Me] = "idle", phase # "down"
                 PROVE  /\ item.activeReservationCount = Cardinality(RowsIn({"Active"}))
                        /\ item.confirmedCount = Cardinality(RowsIn({"Confirmed"}))
      BY DEF CountersMatchRows, AtRest
    <2>1. Reconciled /\ IsFiniteSet(DOMAIN rows)
      BY MaxFaults = 0, MaxBoots = 0, StillFirstRun DEF BooksInv, CallInv
    <2>3. \A states : Cardinality(RowsIn(states)) \in Nat
      <3>1. \A states : RowsIn(states) \subseteq DOMAIN rows
        BY DEF RowsIn
      <3> QED BY <2>1, <3>1, FS_Subset, FS_CardinalityType
    <2>2. ActiveLag = 0 /\ ConfirmedLag = 0
      BY DEF ActiveLag, ConfirmedLag
    <2> QED BY <2>1, <2>2, <2>3 DEF Reconciled
  <1>2. ServerSpec => []BooksInv
    BY Hold > 0, Sweepers = {}, BooksInvariance
  <1> QED BY <1>1, <1>2, PTL

(* At rest the outbox has, for each row, its Reserved event and one of its *)
(* terminal state: no write is logged under a number that was in use.      *)
THEOREM OutboxComplete ==
  ASSUME Hold > 0, Sweepers = {}, MaxFaults = 0, MaxBoots = 0
  PROVE  ServerSpec => []RowsLogged
  <1>1. BooksInv => RowsLogged
    <2> SUFFICES ASSUME BooksInv, pc[Me] = "idle", phase # "down", NEW i \in DOMAIN rows PROVE Told(i)
      BY DEF RowsLogged, AtRest, Told, Types
    <2>1. Story
      BY MaxFaults = 0, MaxBoots = 0, StillFirstRun DEF BooksInv, CallInv
    <2> QED BY <2>1 DEF Story, Owing
  <1>2. ServerSpec => []BooksInv
    BY Hold > 0, Sweepers = {}, BooksInvariance
  <1> QED BY <1>1, <1>2, PTL

-----------------------------------------------------------------------------
(* The rows are the abstract ledger.                                       *)

Sheet ==
  [i \in DOMAIN rows |->
    [product |-> Product, state |-> rows[i].state, expiresAt |-> rows[i].expiresAt,
     confirmedAt |-> rows[i].confirmedAt, cancelledAt |-> rows[i].cancelledAt,
     expiredAt |-> rows[i].expiredAt]]

\* A row is saved only while a unit is free, under a number of its own.
LEMMA SheetReserve ==
  ASSUME BooksInv, Hold > 0, FirstRun, faults' = 0, crashes = 0, CallStep(Me), Saves
  PROVE  Ledger!Reserve(Product, op[Me].now)
  <1> DEFINE id == op[Me].res
             new == [product |-> Product, state |-> "Active", expiresAt |-> op[Me].now + Hold,
                     confirmedAt |-> NoTime, cancelledAt |-> NoTime, expiredAt |-> NoTime]
  <1>0. CallInv /\ FreshInv /\ Alone /\ Reconciled /\ faults = 0
    BY DEF BooksInv, FirstRun
  <1>1. /\ id \notin DOMAIN rows /\ DOMAIN rows' = DOMAIN rows \cup {id}
        /\ rows'[id] = Held(op[Me].now + Hold) /\ \A j \in DOMAIN rows : rows'[j] = rows[j]
    BY <1>0, Hold > 0, faults' = 0, crashes = 0, CallRows
  <1>2. Cardinality(RowsIn({"Active"})) + Cardinality(RowsIn({"Confirmed"})) < TotalStock
    <2>1. pc[Me] = "save"
      BY DEF Saves, From
    <2>2. ActiveLag = 0 /\ ConfirmedLag = 0 /\ AvailableStock(item) > 0
      BY <1>0, <2>1 DEF ActiveLag, ConfirmedLag, Reconciled
    <2>3. Cardinality(RowsIn({"Active"})) \in Nat /\ Cardinality(RowsIn({"Confirmed"})) \in Nat
      BY <1>0, crashes = 0, RowsCounted
    <2>4. /\ item.activeReservationCount = Cardinality(RowsIn({"Active"}))
          /\ item.confirmedCount = Cardinality(RowsIn({"Confirmed"}))
      BY <1>0, <2>2, <2>3 DEF Reconciled
    <2> QED BY <1>0, <2>2, <2>3, <2>4, ItemKnown
  <1>3. Ledger!Taken(Product) = RowsIn({"Active"}) \cup RowsIn({"Confirmed"})
    BY DEF Ledger!Taken, RowsIn
  <1>4. Cardinality(Ledger!Taken(Product)) < TotalStock
    <2>1. /\ IsFiniteSet(RowsIn({"Active"})) /\ IsFiniteSet(RowsIn({"Confirmed"}))
          /\ Cardinality(RowsIn({"Active"})) \in Nat /\ Cardinality(RowsIn({"Confirmed"})) \in Nat
      BY <1>0, crashes = 0, RowsCounted
    <2>2. RowsIn({"Active"}) \cap RowsIn({"Confirmed"}) = {}
      BY DEF RowsIn
    <2>3. Cardinality(Ledger!Taken(Product))
            = Cardinality(RowsIn({"Active"})) + Cardinality(RowsIn({"Confirmed"})) - Cardinality({})
      BY <1>3, <2>1, <2>2, FS_Union
    <2> QED BY <1>2, <2>1, <2>3, FS_EmptySet
  <1>5. Sheet' = [i \in DOMAIN Sheet \cup {id} |-> IF i = id THEN new ELSE Sheet[i]]
    BY <1>1 DEF Sheet, Held
  <1>6. id \in DOMAIN Sheet' \ DOMAIN Sheet
    BY <1>1 DEF Sheet
  <1>7. Ledger!Cardinality(Ledger!Taken(Product)) = Cardinality(Ledger!Taken(Product))
    BY DEF Ledger!Cardinality, Cardinality
  <1>8. \E i \in DOMAIN Sheet' \ DOMAIN Sheet :
          Sheet' = [j \in DOMAIN Sheet \cup {i} |-> IF j = i THEN new ELSE Sheet[j]]
    BY <1>5, <1>6
  <1> QED BY <1>4, <1>7, <1>8 DEF Ledger!Reserve, Ledger!NoTime, NoTime, Sheet

\* A row is finished as the ledger allows, on the right side of its expiry.
LEMMA SheetFinish ==
  ASSUME BooksInv, Hold > 0, FirstRun, faults' = 0, crashes = 0, CallStep(Me), Finishes
  PROVE  /\ op[Me].res \in DOMAIN rows
         /\ \/ Ledger!Confirm(op[Me].res, op[Me].now) \/ Ledger!Cancel(op[Me].res, op[Me].now)
            \/ Ledger!Expire(op[Me].res, op[Me].now)
  <1> DEFINE i == op[Me].res
             now == op[Me].now
  <1>0. CallInv /\ FreshInv /\ Alone /\ faults = 0 /\ TablesInv /\ CallOK(Me)
    BY OneReplica DEF BooksInv, FirstRun, CallInv, FrontInv, IInv
  <1>1. /\ i \in DOMAIN rows /\ rows[i].state = "Active" /\ op[Me].event \in TerminalStates
        /\ DOMAIN rows' = DOMAIN rows /\ rows'[i] = Finished(rows[i], op[Me].event, now)
        /\ \A j \in DOMAIN rows : j # i => rows'[j] = rows[j]
    BY <1>0, Hold > 0, faults' = 0, crashes = 0, CallRows DEF Is
  <1>2. /\ op[Me].event = "Confirmed" => ~ Lapsed(rows[i], now)
        /\ op[Me].event = "Expired" => Lapsed(rows[i], now)
    BY <1>0 DEF CallOK, InTime, Finishes, From
  <1>3. rows[i] \in Row
    BY <1>0, <1>1 DEF TablesInv
  <1> HIDE DEF i, now
  <1>4. Sheet[i].state = "Active" /\ (Lapsed(Sheet[i], now) <=> Lapsed(rows[i], now))
    BY <1>1 DEF Sheet, Lapsed
  <1>5. CASE op[Me].event = "Confirmed"
    <2>1. Sheet' = [Sheet EXCEPT ![i].state = "Confirmed", ![i].confirmedAt = now]
      <3>1. /\ rows'[i].state = "Confirmed" /\ rows'[i].confirmedAt = now /\ rows'[i].expiresAt = rows[i].expiresAt
            /\ rows'[i].cancelledAt = rows[i].cancelledAt /\ rows'[i].expiredAt = rows[i].expiredAt
        BY <1>1, <1>3, <1>5 DEF Finished, Row
      <3> QED BY <1>1, <3>1 DEF Sheet
    <2>2. Ledger!Confirm(i, now)
      BY <1>2, <1>4, <1>5, <2>1
      DEF Ledger!Confirm, Ledger!IsActive, Ledger!Lapsed, Lapsed, Sheet
    <2> QED BY <1>1, <2>2 DEF i, now
  <1>6. CASE op[Me].event = "Cancelled"
    <2>1. Sheet' = [Sheet EXCEPT ![i].state = "Cancelled", ![i].cancelledAt = now]
      <3>1. /\ rows'[i].state = "Cancelled" /\ rows'[i].cancelledAt = now /\ rows'[i].expiresAt = rows[i].expiresAt
            /\ rows'[i].confirmedAt = rows[i].confirmedAt /\ rows'[i].expiredAt = rows[i].expiredAt
        BY <1>1, <1>3, <1>6 DEF Finished, Row
      <3> QED BY <1>1, <3>1 DEF Sheet
    <2>2. Ledger!Cancel(i, now)
      BY <1>4, <2>1 DEF Ledger!Cancel, Ledger!IsActive, Sheet
    <2> QED BY <1>1, <2>2 DEF i, now
  <1>7. CASE op[Me].event = "Expired"
    <2>1. Sheet' = [Sheet EXCEPT ![i].state = "Expired", ![i].expiredAt = now]
      <3>1. /\ rows'[i].state = "Expired" /\ rows'[i].expiredAt = now /\ rows'[i].expiresAt = rows[i].expiresAt
            /\ rows'[i].confirmedAt = rows[i].confirmedAt /\ rows'[i].cancelledAt = rows[i].cancelledAt
        BY <1>1, <1>3, <1>7 DEF Finished, Row
      <3> QED BY <1>1, <3>1 DEF Sheet
    <2>2. Ledger!Expire(i, now)
      BY <1>2, <1>4, <1>7, <2>1
      DEF Ledger!Expire, Ledger!IsActive, Ledger!Lapsed, Lapsed, Sheet
    <2> QED BY <1>1, <2>2 DEF i, now
  <1> QED BY <1>1, <1>5, <1>6, <1>7 DEF TerminalStates

\* Each step of the server is a step of the ledger or leaves it as it is.
LEMMA SheetStep ==
  ASSUME BooksInv, Hold > 0, Sweepers = {}, MaxFaults = 0, MaxBoots = 0, [ServerNext]_allVars
  PROVE  [Ledger!Next]_(Ledger!ledgerVars)
  <1> USE DEF Ledger!Next, Ledger!ledgerVars
  <1>0. /\ CallInv /\ FrontInv /\ IInv /\ FreshInv /\ Alone /\ faults \in Nat /\ faults = 0 /\ faults' = 0
        /\ op[Me].now \in 0 .. clock
    BY DurableAssumption, ProcessStep, MaxFaults = 0
    DEF BooksInv, CallInv, FrontInv, ProcessInv, ReadInv
  <1>1. ASSUME rows' = rows, clock' \in {clock, clock + 1} PROVE [Ledger!Next]_(Ledger!ledgerVars)
    BY <1>1 DEF Ledger!Pass
  <1>2. ASSUME NEW c \in Clients, Front(c) \/ Call(c) \/ Reply(c) PROVE rows' = rows /\ clock' = clock
    BY <1>0, <1>2, FrontStep, CallEffect, ReplyEffect DEF dbVars, restVars
  <1>3. ASSUME CallStep(Me) PROVE [Ledger!Next]_(Ledger!ledgerVars)
    <2>1. crashes = 0 /\ FirstRun /\ clock' = clock
      <3>1. phase # "down"
        BY <1>0, <1>3, CallRunning
      <3> QED BY <1>0, <1>3, <3>1, MaxFaults = 0, MaxBoots = 0, StillFirstRun, CallRunning, CallSteps
              DEF restVars
    <2>2. CASE Saves
      <3>1. Ledger!Reserve(Product, op[Me].now)
        BY <1>0, <1>3, <2>1, <2>2, Hold > 0, SheetReserve
      <3>2. Product \in DOMAIN [p \in {Product} |-> TotalStock]
        OBVIOUS
      <3>3. \E now \in 0 .. clock : Ledger!Reserve(Product, now)
        BY <1>0, <3>1 DEF Ledger!Reserve
      <3>4. Ledger!Decide
        BY <2>1, <3>2, <3>3 DEF Ledger!Decide
      <3> QED BY <3>4
    <2>3. CASE Finishes
      <3>1. /\ op[Me].res \in DOMAIN rows
            /\ \/ Ledger!Confirm(op[Me].res, op[Me].now) \/ Ledger!Cancel(op[Me].res, op[Me].now)
               \/ Ledger!Expire(op[Me].res, op[Me].now)
        BY <1>0, <1>3, <2>1, <2>3, Hold > 0, SheetFinish
      <3>2. \E now \in 0 .. clock, i \in DOMAIN rows :
              Ledger!Confirm(i, now) \/ Ledger!Cancel(i, now) \/ Ledger!Expire(i, now)
        BY <1>0, <3>1 DEF Ledger!Confirm, Ledger!Cancel, Ledger!Expire
      <3>3. Ledger!Decide
        BY <2>1, <3>2 DEF Ledger!Decide
      <3> QED BY <3>3
    <2>4. CASE ~ Saves /\ ~ Finishes
      <3>1. rows' = rows
        BY <1>0, <1>3, <2>1, <2>4, Hold > 0, CallRows
      <3> QED BY <1>1, <2>1, <3>1
    <2> QED BY <2>2, <2>3, <2>4
  <1>4. ~ SweepStep(Me)
    <2> SUFFICES ASSUME SweepStep(Me) PROVE FALSE
      OBVIOUS
    <2> QED BY <1>0, Sweepers = {}, SweeperEffect DEF Alone
  <1>5. ASSUME Drained \/ Timeout \/ ListenFails PROVE rows' = rows /\ clock' = clock
    BY <1>0, <1>5, ExitEffect DEF dbVars
  <1>6. ASSUME Signal \/ Boot \/ AdvanceClock \/ UNCHANGED allVars
        PROVE  rows' = rows /\ clock' \in {clock, clock + 1}
    BY <1>6 DEF Signal, Boot, Start, Attempt, AddProduct, AdvanceClock, allVars, vars, dbVars, restVars
  <1> QED BY <1>1, <1>2, <1>3, <1>4, <1>5, <1>6, ServerSteps DEF Inside

(* The adapter keeps the promise of the in-memory service: although rows   *)
(* and counters are separate transactions and the process may end between  *)
(* any two of them, each grant and each end of a reservation is a step     *)
(* that the ledger allows.                                                 *)
THEOREM RowsImplementLedger ==
  ASSUME Hold > 0, Sweepers = {}, MaxFaults = 0, MaxBoots = 0
  PROVE  ServerSpec => ImplementsLedger
  <1>1. ServerInit => Ledger!Init
    BY DEF ServerInit, Init, Ledger!Init
  <1>2. BooksInv /\ [ServerNext]_allVars => [Ledger!Next]_(Ledger!ledgerVars)
    BY Hold > 0, Sweepers = {}, MaxFaults = 0, MaxBoots = 0, SheetStep
  <1>3. ServerSpec => []BooksInv
    BY Hold > 0, Sweepers = {}, BooksInvariance
  <1> QED BY <1>1, <1>2, <1>3, PTL DEF ServerSpec, ImplementsLedger, Ledger!Spec

=============================================================================
