------------------------------- MODULE HttpApi -------------------------------
(***************************************************************************)
(* The HTTP boundary of internal/interface/http: which handler serves a    *)
(* request, what it refuses by itself, the status of each error of the     *)
(* service, and the label under which the middleware counts it.            *)
(* A request has a method, a path, an id (of a reservation or a product,   *)
(* in the path or the body) and a body that the decoder accepts or not.    *)
(***************************************************************************)
EXTENDS Integers

\* An id with a character that is not allowed, or too long.
BadID == -2

\* A path that no pattern has, with the prefix and suffix of one.
NestedConfirm == "/reservations/{x}/{id}/confirm"

Endpoints == [
  reserve |-> [method |-> "POST", path |-> "/reservations"],
  confirm |-> [method |-> "POST", path |-> "/reservations/{id}/confirm"],
  cancel  |-> [method |-> "POST", path |-> "/reservations/{id}/cancel"],
  fetch   |-> [method |-> "GET",  path |-> "/reservations/{id}"],
  stock   |-> [method |-> "GET",  path |-> "/products/{id}/stock"],
  openapi |-> [method |-> "GET",  path |-> "/openapi.yaml"]]

\* Served by the outer mux, outside the metrics middleware.
OuterEndpoints == [healthz |-> [method |-> "GET", path |-> "/healthz"],
                   metrics |-> [method |-> "GET", path |-> "/metrics"]]

\* A pattern of ServeMux for GET also serves HEAD.
Matches(pattern, req) ==
  /\ req.path = pattern.path
  /\ req.method \in {pattern.method} \cup (IF pattern.method = "GET" THEN {"HEAD"} ELSE {})

Counted(req) == ~ \E e \in DOMAIN OuterEndpoints : Matches(OuterEndpoints[e], req)

(* The handler of a request, or the status of the mux's own answer.        *)
Endpoint(req) ==
  IF ~ Counted(req)
  THEN CHOOSE e \in DOMAIN OuterEndpoints : Matches(OuterEndpoints[e], req)
  ELSE IF \E e \in DOMAIN Endpoints : Matches(Endpoints[e], req)
  THEN CHOOSE e \in DOMAIN Endpoints : Matches(Endpoints[e], req)
  ELSE IF \E e \in DOMAIN Endpoints : Endpoints[e].path = req.path THEN "405" ELSE "404"

ValidExternalID(id) == id # BadID

\* What the handlers check before they call the service.
Accepted(req) == ValidExternalID(req.id) /\ (Endpoint(req) = "reserve" => req.body = "valid")

CallsService(req) ==
  Endpoint(req) \in {"reserve", "confirm", "cancel", "fetch", "stock"} /\ Accepted(req)

\* The status of a request that neither the service nor the database sees.
LocalStatus(req) ==
  CASE Endpoint(req) = "404" -> 404
    [] Endpoint(req) = "405" -> 405
    [] Endpoint(req) \in {"openapi", "metrics"} -> 200
    [] OTHER -> 400

\* Mutant of ErrorStatus: the expiry of a hold is not among the conflicts.
ErrorStatusNoExpiry(err) ==
  CASE err \in {"ErrProductNotFound", "ErrReservationNotFound"} -> 404
    [] err \in {"ErrOutOfStock", "ErrReservationAlreadyFinalized"} -> 409
    [] OTHER -> 500

ErrorStatus(err) ==
  CASE err \in {"ErrProductNotFound", "ErrReservationNotFound"} -> 404
    [] err \in {"ErrOutOfStock", "ErrReservationAlreadyFinalized", "ErrReservationExpired"} -> 409
    [] OTHER -> 500

Status(req, err) ==
  IF err # "nil" THEN ErrorStatus(err) ELSE IF Endpoint(req) = "reserve" THEN 201 ELSE 200

(* routeLabel looks at the method and the ends of the path, not at the     *)
(* pattern that served the request.                                        *)
UnderReservations == {Endpoints[e].path : e \in {"confirm", "cancel", "fetch"}} \cup {NestedConfirm}

RouteLabel(req) ==
  CASE req.method = "POST" /\ req.path = NestedConfirm -> Endpoints.confirm.path
    [] req.method = "POST" /\ req.path \in {Endpoints[e].path : e \in {"reserve", "confirm", "cancel"}}
         -> req.path
    [] req.method = "GET" /\ req.path \in UnderReservations -> Endpoints.fetch.path
    [] req.method = "GET" /\ req.path = Endpoints.stock.path -> req.path
    [] OTHER -> "unknown"

=============================================================================
