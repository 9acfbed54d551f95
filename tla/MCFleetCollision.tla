-------------------------- MODULE MCFleetCollision --------------------------
(* A strip of sky for FleetCollision. *)
EXTENDS FleetCollision

CONSTANTS Length, Width

Strip == {Vec(x, y, 0) : x \in 0..Length, y \in 0..Width}
Courses == {Still, Vec(1, 0, 0), Vec(-1, 0, 0), Vec(0, 1, 0), Vec(0, -1, 0)}
=============================================================================
