--------------------------- MODULE MCFleetDrill ---------------------------
(* Small instances of FleetDrill for TLC.                                  *)
EXTENDS FleetDrill

CONSTANTS h1, h2, a1, a2
=============================================================================
