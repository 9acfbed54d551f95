--------------------------- MODULE MCFleetLeader ---------------------------
(***************************************************************************)
(* Instance of FleetLeader for TLC.  The clock unit is one heartbeat       *)
(* interval.                                                               *)
(***************************************************************************)
EXTENDS FleetLeader

CONSTANTS d1, d2

Drones2 == {d1, d2}

\* A mesh that is timely from the start, or lossy for as long as it takes.
AnyRadio == {"lossy", "timely"}
=============================================================================
