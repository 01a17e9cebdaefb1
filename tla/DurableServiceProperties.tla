----------------------- MODULE DurableServiceProperties -----------------------
(***************************************************************************)
(* What the service over PostgreSQL keeps with replicas, sweepers, crashes *)
(* and failed statements; and what its comments and specs claim beyond     *)
(* that.  What one process keeps while nothing fails is in the properties  *)
(* of Server.                                                              *)
(***************************************************************************)
EXTENDS DurableService

\* The types; the counters are in the range that the CHECKs leave, whatever
\* the sweep releases twice.
DurableTypeOK ==
  /\ item \in [totalStock : {TotalStock}, confirmedCount : 0 .. TotalStock,
               activeReservationCount : 0 .. TotalStock]
  /\ \A i \in DOMAIN rows : i \in Nat \ {0} /\ rows[i].state \in ReservationStates
  /\ \A k \in DOMAIN outbox : outbox[k].type \in EventTypes
  /\ \A r \in Replicas :
       /\ op[r].todo \cup sweep[r].todo \subseteq DOMAIN rows
       /\ pc[r] \in {"fetch", "decide", "finish"} => op[r].res \in DOMAIN rows

(* The schema ties each timestamp to its state, so a terminal row never    *)
(* moves to another terminal state, whatever two replicas decide on an     *)
(* outdated fetch: it can only come back to life, by a SaveReservation     *)
(* under an id that a restarted counter gave out again.                    *)
TerminalStatesExclusive ==
  [][\A i \in DOMAIN rows :
       rows[i].state \in TerminalStates /\ rows'[i].state # rows[i].state
         => /\ rows'[i].state = "Active"
            /\ \E r \in Replicas : pc[r] = "save" /\ op[r].res = i]_vars

(* EX-R1 and CC-R2 across crashes, lost statements and replicas: no row is *)
(* confirmed at or after its expiry nor expired before it, also when its   *)
(* id has been used again.                                                 *)
WindowRespected ==
  \A i \in DOMAIN rows :
    /\ rows[i].confirmedAt # NoTime => rows[i].confirmedAt < rows[i].expiresAt
    /\ rows[i].expiredAt # NoTime => rows[i].expiredAt >= rows[i].expiresAt

-----------------------------------------------------------------------------
(* postgres_repository.go: concurrent processes cannot oversell.           *)
NoOversell == Cardinality(RowsIn({"Active", "Confirmed"})) <= TotalStock

(* CC-R7 (specs/04): a confirmed reservation never changes state again.    *)
ConfirmedIsFinal ==
  [][\A i \in RowsIn({"Confirmed"}) : rows'[i].state = "Confirmed"]_vars

=============================================================================
