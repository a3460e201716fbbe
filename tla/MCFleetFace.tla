--------------------------- MODULE MCFleetFace ---------------------------
(* Small instances of FleetFace for TLC.                                   *)
EXTENDS FleetFace

AppPermutations == Permutations(App)
=============================================================================
