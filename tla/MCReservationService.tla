------------------------- MODULE MCReservationService -------------------------
(* Constants of the TLC runs of the reservation service.                     *)
EXTENDS ReservationServiceProperties, TLC

CONSTANTS p1, p2

OneUnit == p1 :> 1

TwoUnits == p1 :> 2

OneUnitEach == p1 :> 1 @@ p2 :> 1

=============================================================================
