---------------------------- MODULE MCShipments ----------------------------
(* TLC instances of Shipments. *)
EXTENDS Shipments, TLC

CONSTANTS a1, w1, p1
=============================================================================
