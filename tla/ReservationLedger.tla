--------------------------- MODULE ReservationLedger ---------------------------
(***************************************************************************)
(* What the reservation service promises its clients, without locks,       *)
(* counters or an event log: a hold is granted only while a unit is free,  *)
(* it is confirmed only inside its window and expired only after it, and   *)
(* nothing happens to a reservation that has been confirmed, cancelled or  *)
(* expired.  A decision may rest on a clock reading of the recent past.    *)
(***************************************************************************)
EXTENDS Inventory, FiniteSets

CONSTANTS Stock, Hold

VARIABLES clock, reservations

ledgerVars == <<clock, reservations>>

Init == clock = 0 /\ DOMAIN reservations = {}

\* The reservations that take a unit of product p.
Taken(p) == {i \in DOMAIN reservations :
               reservations[i].product = p /\ reservations[i].state \in {"Active", "Confirmed"}}

Reserve(p, now) ==
  /\ Cardinality(Taken(p)) < Stock[p]
  /\ \E id \in DOMAIN reservations' \ DOMAIN reservations :
       reservations' = [i \in DOMAIN reservations \cup {id} |->
         IF i = id
         THEN [product |-> p, state |-> "Active", expiresAt |-> now + Hold,
               confirmedAt |-> NoTime, cancelledAt |-> NoTime, expiredAt |-> NoTime]
         ELSE reservations[i]]

Confirm(i, now) ==
  /\ IsActive(reservations[i]) /\ ~ Lapsed(reservations[i], now)
  /\ reservations' = [reservations EXCEPT ![i].state = "Confirmed", ![i].confirmedAt = now]

Cancel(i, now) ==
  /\ IsActive(reservations[i])
  /\ reservations' = [reservations EXCEPT ![i].state = "Cancelled", ![i].cancelledAt = now]

Expire(i, now) ==
  /\ IsActive(reservations[i]) /\ Lapsed(reservations[i], now)
  /\ reservations' = [reservations EXCEPT ![i].state = "Expired", ![i].expiredAt = now]

Decide ==
  /\ \E now \in 0 .. clock :
       \/ \E p \in DOMAIN Stock : Reserve(p, now)
       \/ \E i \in DOMAIN reservations : Confirm(i, now) \/ Cancel(i, now) \/ Expire(i, now)
  /\ UNCHANGED clock

Pass == clock' = clock + 1 /\ UNCHANGED reservations

Next == Decide \/ Pass

Spec == Init /\ [][Next]_ledgerVars

=============================================================================
