----------------------------- MODULE MCFleetId -----------------------------
(***************************************************************************)
(* Instances of FleetId for TLC.  The clock unit is half a probe interval; *)
(* the intervals keep the order probe < announce < timeout of the code.    *)
(***************************************************************************)
EXTENDS FleetId

\* Three boards that all start from the same candidate: Uid % 3 = 1.  Their
\* staggers differ, so their first probes do too.
Uid3 == <<1, 4, 7>>

\* The same collision with a fourth ID to spare.
Uid3of4 == <<1, 5, 9>>

\* Two boards that collide on every pick.
Uid2 == <<2, 8>>

Timely == {"timely"}
Lossy == {"lossy"}

\* fleetIdInit right after the reset (or followed by fleetIdSetUid), and a boot
\* so long that the first probe is due at once.
BootDelays == {0, 2}
BootDelay1 == {1}
=============================================================================
