---------------------------- MODULE MCFleetState ----------------------------
(* Small fleets for FleetState. *)
EXTENDS FleetState, TLC

CONSTANTS d1, d2, d3

AnyRadio == {"lossy", "timely"}

\* The peers are interchangeable.
Peers == Permutations(Drone \ {Self})
=============================================================================
