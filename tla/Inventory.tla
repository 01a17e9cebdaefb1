------------------------------ MODULE Inventory ------------------------------
(***************************************************************************)
(* The value types of internal/domain: reservations, product counters and  *)
(* inventory events, with the two tests the service makes on them.         *)
(* Times are integers; NoTime stands for a nil *time.Time.                 *)
(***************************************************************************)
EXTENDS Integers

NoTime == -1

TerminalStates == {"Confirmed", "Cancelled", "Expired"}

ReservationStates == {"Active"} \cup TerminalStates

EventTypes == {"Reserved", "ReserveRejected", "Confirmed", "Cancelled", "Expired"}

IsActive(r) == r.state = "Active"

\* Mutant of Lapsed: a hold still stands at the very instant of its expiry.
LapsedStrictly(r, now) == now > r.expiresAt

\* !now.Before(r.ExpiresAt)
Lapsed(r, now) == now >= r.expiresAt

\* Mutant of AvailableStock: sold units are forgotten.
StockIgnoringSales(p) == p.totalStock - p.activeReservationCount

AvailableStock(p) == p.totalStock - p.confirmedCount - p.activeReservationCount

=============================================================================
