-------------------------- MODULE PostgresRepository --------------------------
(***************************************************************************)
(* infrastructure.PostgresRepository over the tables of migration 0001, for *)
(* one product.  Each method is one statement or one transaction on one    *)
(* row, which SELECT FOR UPDATE keeps locked to its commit, so each is one *)
(* atomic operator.  A statement that violates a constraint of the schema  *)
(* changes nothing: the method logs or returns the error and the service   *)
(* ignores it.  The product's row is there from the first start on.        *)
(***************************************************************************)
EXTENDS Inventory, Sequences

VARIABLES
  item,     \* the product's row of inventory_items
  rows,     \* reservations: the number n of the id "res-n" -> row
  outbox    \* outbox_events in the order of outbox_id

dbVars == <<item, rows, outbox>>

\* A nil *string, and the id of a reservation that was not found.
NilID == 0
EmptyID == -1

Seeded(total) == [totalStock |-> total, confirmedCount |-> 0, activeReservationCount |-> 0]

(* AddProduct replaces the counters of a product that is already there.    *)
AddProduct(total) == item' = Seeded(total) /\ UNCHANGED <<rows, outbox>>

\* Mutant of ItemCheck: the counters may become negative.
ItemSumOnly(p) == p.totalStock >= p.confirmedCount + p.activeReservationCount

\* The CHECK constraints of inventory_items.
ItemCheck(p) ==
  /\ p.confirmedCount >= 0 /\ p.activeReservationCount >= 0
  /\ p.totalStock >= p.confirmedCount + p.activeReservationCount

UpdateProduct(active, confirmed) ==
  LET new == [item EXCEPT !.activeReservationCount = @ + active, !.confirmedCount = @ + confirmed]
  IN  /\ item' = IF ItemCheck(new) THEN new ELSE item
      /\ UNCHANGED <<rows, outbox>>

Held(expiresAt) == [state |-> "Active", expiresAt |-> expiresAt,
                    confirmedAt |-> NoTime, cancelledAt |-> NoTime, expiredAt |-> NoTime]

\* Mutant of SaveReservation: the upsert writes the expiry of a known id, too.
SaveReplacing(id, now, expiresAt) ==
  /\ expiresAt > now
  /\ rows' = [i \in DOMAIN rows \cup {id} |-> IF i = id THEN Held(expiresAt) ELSE rows[i]]
  /\ UNCHANGED <<item, outbox>>

\* Mutant of SaveReservation: the insert does nothing if the id is known.
SaveUnlessKnown(id, now, expiresAt) ==
  /\ rows' = IF expiresAt > now /\ id \notin DOMAIN rows
             THEN [i \in DOMAIN rows \cup {id} |-> IF i = id THEN Held(expiresAt) ELSE rows[i]]
             ELSE rows
  /\ UNCHANGED <<item, outbox>>

(* The upsert: a row that exists keeps its product, user, creation and     *)
(* expiry.  The schema wants the hold to be positive.                      *)
SaveReservation(id, now, expiresAt) ==
  LET row == Held(IF id \in DOMAIN rows THEN rows[id].expiresAt ELSE expiresAt)
  IN  /\ rows' = IF expiresAt > now
                 THEN [i \in DOMAIN rows \cup {id} |-> IF i = id THEN row ELSE rows[i]]
                 ELSE rows
      /\ UNCHANGED <<item, outbox>>

\* The callbacks of UpdateReservation set the state and its timestamp only.
Finished(row, state, now) ==
  CASE state = "Confirmed" -> [row EXCEPT !.state = state, !.confirmedAt = now]
    [] state = "Cancelled" -> [row EXCEPT !.state = state, !.cancelledAt = now]
    [] state = "Expired"   -> [row EXCEPT !.state = state, !.expiredAt = now]

\* Mutant of RowCheck: the schema does not tie the timestamps to the state.
RowUnchecked(row) == row.state \in ReservationStates

\* The CHECK constraints of reservations: a timestamp for its state alone.
RowCheck(row) ==
  /\ (row.state = "Confirmed") = (row.confirmedAt # NoTime)
  /\ (row.state = "Cancelled") = (row.cancelledAt # NoTime)
  /\ (row.state = "Expired") = (row.expiredAt # NoTime)

UpdateReservation(id, state, now) ==
  LET new == Finished(rows[id], state, now)
  IN  /\ rows' = IF id \in DOMAIN rows /\ RowCheck(new) THEN [rows EXCEPT ![id] = new] ELSE rows
      /\ UNCHANGED <<item, outbox>>

(* ON CONFLICT DO NOTHING, and a reservation_id must be stored or NULL.    *)
AppendEvent(e) ==
  /\ outbox' = IF \/ \E k \in DOMAIN outbox : outbox[k].id = e.id
                  \/ e.res # NilID /\ e.res \notin DOMAIN rows
               THEN outbox ELSE Append(outbox, e)
  /\ UNCHANGED <<item, rows>>

RowsIn(states) == {i \in DOMAIN rows : rows[i].state \in states}

ActiveReservations == RowsIn({"Active"})

(* A row that cannot be scanned is skipped, and nobody asks the result     *)
(* whether it came to its end: a query that fails yields any part.         *)
ScanReservations(found, ok) == IF ok THEN {found} ELSE SUBSET found

=============================================================================
