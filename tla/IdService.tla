----------------------------- MODULE IdService -----------------------------
(***************************************************************************)
(* What fleet_id.h promises its users: "every drone agrees on a unique     *)
(* node ID without any central coordinator".  A drone holds an ID or none; *)
(* it acquires one nobody else holds, and it goes from one ID to another   *)
(* only through holding none.  How the drones find this out is FleetId.    *)
(***************************************************************************)
EXTENDS Integers

CONSTANTS Drone, FLEET_ID_MAX

VARIABLE holder   \* holder[d]: what fleetHasId()/fleetIdGet() report on d

FLEET_ID_UNASSIGNED == 0

Init == holder = [d \in Drone |-> FLEET_ID_UNASSIGNED]

Acquire(d, i) ==
    /\ holder[d] = FLEET_ID_UNASSIGNED
    /\ \A e \in Drone : holder[e] # i
    /\ holder' = [holder EXCEPT ![d] = i]

Release(d) ==
    /\ holder[d] # FLEET_ID_UNASSIGNED
    /\ holder' = [holder EXCEPT ![d] = FLEET_ID_UNASSIGNED]

Next == \E d \in Drone : Release(d) \/ \E i \in 1..FLEET_ID_MAX : Acquire(d, i)

Spec == Init /\ [][Next]_holder
=============================================================================
