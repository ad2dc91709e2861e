---------------------------- MODULE MCParkingLot ----------------------------
(* Instances of the parking lot for TLC. *)
EXTENDS ParkingLot, TLC

CONSTANTS automobile, pickup

\* A lot of hw3.c, where there are 8 and 4 places, that fills up sooner.
Places == (automobile :> 2) @@ (pickup :> 1)
=============================================================================
