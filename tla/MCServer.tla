------------------------------- MODULE MCServer -------------------------------
(* The requests of the TLC runs of the server.                               *)
EXTENDS ServerProperties, TLC

Request(method, path, id) == [method |-> method, path |-> path, id |-> id, body |-> "valid"]

\* Requests that reach the service: product 1 is seeded, reservation 1 is the first.
Calls ==
  {Request("POST", Endpoints.reserve.path, 1), Request("POST", Endpoints.reserve.path, 2),
   Request("POST", Endpoints.confirm.path, 1), Request("POST", Endpoints.cancel.path, 1),
   Request("GET", Endpoints.fetch.path, 1), Request("GET", Endpoints.stock.path, 1)}

\* Requests that do not.
Refused ==
  {[Request("POST", Endpoints.reserve.path, 1) EXCEPT !.body = "invalid"],
   Request("POST", Endpoints.confirm.path, BadID), Request("POST", NestedConfirm, 1),
   Request("GET", Endpoints.cancel.path, 1), Request("GET", OuterEndpoints.healthz.path, 1)}

AllRequests == Calls \cup Refused

\* Those that change something, and one whose client may keep its body to itself.
Writes ==
  {Request("POST", Endpoints.reserve.path, 1), Request("POST", Endpoints.confirm.path, 1),
   Request("POST", Endpoints.cancel.path, 1), Request("POST", Endpoints.confirm.path, 3)}

\* Clients are alike; for the run without liveness properties.
ClientSymmetry == Permutations(Clients)

=============================================================================
