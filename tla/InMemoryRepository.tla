-------------------------- MODULE InMemoryRepository --------------------------
(***************************************************************************)
(* infrastructure.InMemoryRepository: the product and reservation maps and *)
(* the append-only event log.  Every method holds the repository's own     *)
(* mutex from its first to its last line, so each is one atomic operator   *)
(* here, whatever per-product lock its caller holds.                       *)
(*                                                                         *)
(* Users and reasons are not modelled: no decision of the code reads them. *)
(* A reservation is known by the number n of its id "res-n".               *)
(***************************************************************************)
EXTENDS Inventory, Sequences

CONSTANTS
  ProductIDs,   \* every product id a caller may name
  Stock         \* the seeded products and their total stock

ASSUME StockAssumption ==
  /\ DOMAIN Stock \subseteq ProductIDs
  /\ Stock \in [DOMAIN Stock -> Nat]

VARIABLES
  products,      \* seeded id -> counters
  reservations,  \* saved id  -> reservation
  events         \* the log, in insertion order

repoVars == <<products, reservations, events>>

ProductInventory ==
  [totalStock : Nat, confirmedCount : Int, activeReservationCount : Int]

Reservation ==
  [product : DOMAIN Stock, state : ReservationStates, expiresAt : Int,
   confirmedAt : Int, cancelledAt : Int, expiredAt : Int]

InventoryEvent ==
  [id : Nat, type : EventTypes, product : DOMAIN Stock, res : Nat, at : Int]

RepoTypeOK ==
  /\ products \in [DOMAIN Stock -> ProductInventory]
  /\ DOMAIN reservations \subseteq Nat
  /\ reservations \in [DOMAIN reservations -> Reservation]
  /\ events \in Seq(InventoryEvent)

-----------------------------------------------------------------------------
(* The repository as cmd/server hands it to the service: empty maps, then  *)
(* one AddProduct per seeded product.                                      *)
RepoInit ==
  /\ products = [p \in DOMAIN Stock |->
       [totalStock |-> Stock[p], confirmedCount |-> 0, activeReservationCount |-> 0]]
  /\ reservations = [i \in {} |-> {}]
  /\ events = << >>

\* Mutant of UpdateProduct: a sale does not reach ConfirmedCount.
UpdateActiveOnly(p, active, confirmed) ==
  products' = [products EXCEPT ![p].activeReservationCount = @ + active]

(* UpdateProduct with a callback that adds to the two counters.  Callers   *)
(* only name products they have found, so ErrProductNotFound cannot occur. *)
UpdateProduct(p, active, confirmed) ==
  products' = [products EXCEPT ![p].activeReservationCount = @ + active,
                               ![p].confirmedCount = @ + confirmed]

\* Inserts, or replaces whatever was stored under the id.
SaveReservation(id, r) ==
  reservations' = [i \in DOMAIN reservations \cup {id} |->
                     IF i = id THEN r ELSE reservations[i]]

\* UpdateReservation whose callback assigns the state and one timestamp.
MarkConfirmed(id, now) ==
  reservations' = [reservations EXCEPT ![id].state = "Confirmed", ![id].confirmedAt = now]
MarkCancelled(id, now) ==
  reservations' = [reservations EXCEPT ![id].state = "Cancelled", ![id].cancelledAt = now]
MarkExpired(id, now) ==
  reservations' = [reservations EXCEPT ![id].state = "Expired", ![id].expiredAt = now]

AppendEvent(e) == events' = Append(events, e)

AllActiveReservations == {i \in DOMAIN reservations : IsActive(reservations[i])}

ActiveReservationsByProduct(p) ==
  {i \in AllActiveReservations : reservations[i].product = p}

=============================================================================
