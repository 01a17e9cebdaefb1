-------------------------------- MODULE Server --------------------------------
(***************************************************************************)
(* cmd/server as one process with DATABASE_URL set: main and its graceful  *)
(* shutdown, net/http with the handlers and the metrics middleware, and    *)
(* behind them the reservation service over PostgreSQL with its sweeper    *)
(* (DurableService with one replica).  A client may repeat any request, as *)
(* one does whose answer was lost; the service never looks at the context  *)
(* of a request, so a call goes on when its client is gone.                *)
(***************************************************************************)
EXTENDS DurableService, HttpApi

CONSTANTS
  Clients,    \* the connections in use
  Requests,   \* the requests a client may send
  MaxSent,    \* bound: requests sent
  MaxBoots    \* bound: starts after the first

ASSUME ServerAssumption ==
  /\ \E r \in Replicas : Replicas = {r}
  /\ IsFiniteSet(Clients)
  /\ MaxSent \in 0 .. MaxRequests /\ MaxBoots \in Nat

Me == CHOOSE r \in Replicas : TRUE

\* The product that is seeded; every other product id is unknown.
Seed == 1

VARIABLES
  phase,   \* main: "serve", "drain" in Shutdown, "drained" or "down" after its end
  conn,    \* client -> its request and how far it is
  sent,
  stats    \* Metrics.stats: route and status -> count

serverVars == <<phase, conn, sent, stats>>
allVars == <<vars, serverVars>>

Idle == [at |-> "idle"]
NoStats == [k \in {} |-> 0]

ServerInit ==
  /\ Init
  /\ phase = "serve"
  /\ conn = [c \in Clients |-> Idle]
  /\ sent = 0
  /\ stats = NoStats

-----------------------------------------------------------------------------
(* A request.                                                              *)

Moves(c, from, to) ==
  /\ conn[c].at = from
  /\ conn' = [conn EXCEPT ![c].at = to]
  /\ UNCHANGED <<phase, sent, stats>>

Responds(c, from, status) ==
  /\ conn[c].at = from
  /\ conn' = [conn EXCEPT ![c].at = "respond", ![c].status = status]
  /\ UNCHANGED <<phase, sent, stats>>

Asks(c, endpoints) == conn[c].at # "idle" /\ Endpoint(conn[c].req) \in endpoints

Send(c) ==
  /\ phase = "serve" /\ sent < MaxSent /\ conn[c] = Idle
  /\ \E req \in Requests :
       conn' = [conn EXCEPT ![c] = [at |-> "sent", req |-> req, status |-> 0, faultsBefore |-> 0]]
  /\ sent' = sent + 1
  /\ UNCHANGED <<vars, phase, stats>>

(* The mux, or the handler's validation, has the answer.                   *)
AnswerLocally(c) ==
  /\ Responds(c, "sent", LocalStatus(conn[c].req))
  /\ ~ Asks(c, {"healthz"}) /\ ~ CallsService(conn[c].req)
  /\ UNCHANGED vars

(* Only a failed ping of PostgreSQL makes it 503; the one of Redis shows   *)
(* in the body.                                                            *)
Healthz(c) ==
  /\ Asks(c, {"healthz"})
  /\ \E ok \in BOOLEAN : Query(ok) /\ Responds(c, "sent", IF ok THEN 200 ELSE 503)
  /\ UNCHANGED <<restVars, up, idCounter, pc, op>>

(* The body has been read and the request is well formed.                  *)
Decode(c) ==
  /\ Moves(c, "sent", "service")
  /\ CallsService(conn[c].req)
  /\ UNCHANGED vars

Stored(req) == req.id \in IF Endpoint(req) \in {"reserve", "stock"} THEN {Seed} ELSE DOMAIN rows

\* Mutant of Lookup: reservations that have ended are not found.
LookupActive(c) ==
  /\ conn[c].at = "service"
  /\ \E ok \in BOOLEAN :
       /\ Query(ok)
       /\ LET req == conn[c].req
              found == ok /\ Stored(req) /\ (Asks(c, {"stock"}) \/ IsActive(rows[req.id])) IN
          \/ Asks(c, {"fetch", "stock"}) /\ Responds(c, "service", IF found THEN 200 ELSE 404)
          \/ Asks(c, {"confirm", "cancel"}) /\ ~ found /\ Responds(c, "service", 404)
  /\ UNCHANGED <<restVars, up, idCounter, pc, op>>

(* GET of a reservation or a stock, and the lookup before the lock: a      *)
(* failed query is taken for a missing row.                                *)
Lookup(c) ==
  /\ conn[c].at = "service"
  /\ \E ok \in BOOLEAN :
       /\ Query(ok)
       /\ LET found == ok /\ Stored(conn[c].req) IN
          \/ Asks(c, {"fetch", "stock"}) /\ Responds(c, "service", IF found THEN 200 ELSE 404)
          \/ Asks(c, {"confirm", "cancel"}) /\ ~ found /\ Responds(c, "service", 404)
  /\ UNCHANGED <<restVars, up, idCounter, pc, op>>

\* GetProduct finds nothing, under the lock of a product that nobody else wants.
ReserveUnknown(c) ==
  /\ Responds(c, "service", 404)
  /\ Asks(c, {"reserve"}) /\ ~ Stored(conn[c].req)
  /\ UNCHANGED vars

(* The service is called; the call takes the product's lock.  How many     *)
(* statements have failed before is kept for the properties alone.         *)
Call(c) ==
  /\ conn[c].at = "service"
  /\ conn' = [conn EXCEPT ![c].at = "call", ![c].faultsBefore = faults]
  /\ UNCHANGED <<phase, sent, stats>>
  /\ Stored(conn[c].req)
  /\ \/ Asks(c, {"reserve"}) /\ BeginReserve(Me)
     \/ /\ Asks(c, {"confirm", "cancel"}) /\ BeginFinalize(Me)
        /\ op'[Me].kind = Endpoint(conn[c].req) /\ op'[Me].res = conn[c].req.id

Reply(c) ==
  /\ Answer(Me)
  /\ Responds(c, "call", Status(conn[c].req, op[Me].err))

(* The middleware counts the request, then net/http sends the answer,      *)
(* which its client may or may not receive.                                *)
Record(c) ==
  /\ conn[c].at = "respond"
  /\ LET key == [route |-> RouteLabel(conn[c].req), status |-> conn[c].status] IN
     stats' = IF Counted(conn[c].req)
              THEN [k \in DOMAIN stats \cup {key} |->
                      (IF k \in DOMAIN stats THEN stats[k] ELSE 0) + (IF k = key THEN 1 ELSE 0)]
              ELSE stats
  /\ conn' = [conn EXCEPT ![c] = Idle]
  /\ UNCHANGED <<vars, phase, sent>>

Serve(c) == Lookup(c) \/ ReserveUnknown(c) \/ Call(c) \/ Reply(c) \/ Record(c)

-----------------------------------------------------------------------------
(* The service's own steps and its sweeper, which may still take a tick    *)
(* that was ready with the signal.                                         *)
ServiceStep == CallStep(Me) /\ UNCHANGED serverVars

SweeperStep == SweepStep(Me) /\ UNCHANGED serverVars

Pass == AdvanceClock /\ UNCHANGED serverVars

-----------------------------------------------------------------------------
(* The process.                                                            *)

\* SIGTERM or SIGINT: Shutdown closes the listener.
Signal ==
  /\ phase = "serve" /\ crashes < MaxCrashes
  /\ phase' = "drain"
  /\ UNCHANGED <<vars, conn, sent, stats>>

\* A connection that was not yet accepted is reset.
Refuse(c) ==
  /\ phase = "drain"
  /\ conn[c].at = "sent"
  /\ conn' = [conn EXCEPT ![c] = Idle]
  /\ UNCHANGED <<vars, phase, sent, stats>>

(* main returns or log.Fatalf exits: what is in memory is gone, wherever a *)
(* handler or the sweeper stands.                                          *)
Exit(end) ==
  /\ Crash(Me)
  /\ phase' = end
  /\ conn' = [c \in Clients |-> Idle]
  /\ UNCHANGED <<sent, stats>>

\* Mutant of Drained: main does not wait for Shutdown.
DrainedAtOnce == phase = "drain" /\ Exit("drained")

\* Shutdown has seen every connection idle.  Nobody waits for the sweeper.
Drained == phase = "drain" /\ (\A c \in Clients : conn[c] = Idle) /\ Exit("drained")

\* Mutant of Timeout: Shutdown has no deadline.
TimeoutNever == FALSE /\ Exit("down")

Timeout == phase = "drain" /\ (\E c \in Clients : conn[c] # Idle) /\ Exit("down")

\* ListenAndServe returns an error, or the process is killed.
ListenFails == phase = "serve" /\ Exit("down")

Boot ==
  /\ phase \in {"drained", "down"} /\ crashes <= MaxBoots
  /\ Start(Me)
  /\ phase' = "serve"
  /\ stats' = NoStats
  /\ UNCHANGED <<conn, sent>>

\* The bounds are used up and nobody waits.
AllQuiet ==
  /\ \/ phase = "serve" /\ sent = MaxSent /\ crashes = MaxCrashes /\ \A c \in Clients : conn[c] = Idle
     \/ phase \in {"drained", "down"} /\ crashes > MaxBoots
  /\ clock = MaxTime
  /\ UNCHANGED allVars

Lifecycle == Signal \/ Drained \/ Timeout \/ ListenFails \/ Boot

ServerNext ==
  \/ \E c \in Clients :
       Send(c) \/ AnswerLocally(c) \/ Healthz(c) \/ Decode(c) \/ Serve(c) \/ Refuse(c)
  \/ ServiceStep \/ SweeperStep \/ Pass \/ Lifecycle \/ AllQuiet

ServerSpec == ServerInit /\ [][ServerNext]_allVars

=============================================================================
