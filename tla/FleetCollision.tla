--------------------------- MODULE FleetCollision ---------------------------
(***************************************************************************)
(* The collision check of src/main/fleet/fleet_state.c on two drones in    *)
(* motion.  "self" judges its own live state against the last sample it    *)
(* has of "peer", which is as old as the broadcast interval, the mesh and  *)
(* lost samples make it: fleetStateUpdate puts no sample forward in time   *)
(* (timestampMs is never read) and drops it after ENTRY_TIMEOUT.  The peer *)
(* judges in the same way with the roles exchanged, and with a sample of   *)
(* another age.                                                            *)
(*                                                                         *)
(* Lengths and times are integers in units of the instance; tca is kept as *)
(* a fraction, so that nothing is rounded.  The code computes the same in  *)
(* single-precision floats.  A sample's position comes from the drone's    *)
(* own position estimator, "in local ENU centimeters, zeroed at arm point" *)
(* (position_estimator.h:31), so each drone has an origin of its own.      *)
(* Time and radio are those of FleetState: on a timely mesh a sample       *)
(* arrives in the clock unit it was sent in.  fleetStateUpdate, at 50 Hz,  *)
(* runs in every clock unit after the last sample of it.                   *)
(***************************************************************************)
EXTENDS Integers, FiniteSets

CONSTANTS
    SafetyDistance,     \* FLEET_STATE_SAFETY_DISTANCE_CM
    Horizon,            \* FLEET_STATE_COLLISION_HORIZON_S, in clock units
    BROADCAST_INTERVAL, \* FLEET_STATE_BROADCAST_INTERVAL_US, in clock units
    ENTRY_TIMEOUT,      \* FLEET_STATE_ENTRY_TIMEOUT_MS, in clock units
    RadioAtStart,
    MaxDelay,           \* how long a lossy radio may hold a sample, in clock units
    MaxAir,             \* bound: samples on their way at once
    Place, Velocity,    \* where drones are and how fast, sets of vectors
    MaxSpeed,           \* no drone is faster
    Separate,           \* every drone has its own origin, or all have the same
    MaxDen              \* bound: denominators of the times looked at

Vec(x, y, z) == [x |-> x, y |-> y, z |-> z]
Still == Vec(0, 0, 0)
Plus(u, v) == Vec(u.x + v.x, u.y + v.y, u.z + v.z)
Minus(u, v) == Vec(u.x - v.x, u.y - v.y, u.z - v.z)
Times(n, u) == Vec(n * u.x, n * u.y, n * u.z)
Dot(u, v) == u.x * v.x + u.y * v.y + u.z * v.z

\* Vectors are records [x, y, z] of integers.
ASSUME GeometryAssumption ==
    /\ SafetyDistance \in Nat /\ Horizon \in Nat /\ MaxSpeed \in Nat
    /\ Place \subseteq [x : Int, y : Int, z : Int]
    /\ Velocity \subseteq [x : Int, y : Int, z : Int]
    /\ \A v \in Velocity : Dot(v, v) <= MaxSpeed * MaxSpeed
    /\ Separate \in BOOLEAN /\ MaxDen \in Nat
ASSUME SampleAssumption ==
    /\ BROADCAST_INTERVAL \in Nat \ {0} /\ ENTRY_TIMEOUT \in Nat
    /\ BROADCAST_INTERVAL < ENTRY_TIMEOUT /\ BROADCAST_INTERVAL <= Horizon
    /\ RadioAtStart \subseteq {"lossy", "timely"} /\ MaxDelay \in Nat /\ MaxAir \in Nat

Self == "self"
Peer == "peer"
Pilot == {Self, Peer}

VARIABLES
    origin,      \* where each drone was armed
    place, velocity,
    radio,
    sinceTx,     \* age of the peer's lastTxUs
    air,         \* samples of the peer on their way
    remote,      \* the peer's entry of remoteStates: one sample or none
    sinceSeen,   \* age of remoteLastSeenMs
    course,      \* history: "new" when a drone has turned and Self has no sample of the
                 \* present course of the peer since, then whether the drones were "apart"
                 \* or "close" when it got the first one
    warned       \* history: Self has warned since a drone turned, before the last unit

mesh == <<radio, sinceTx, air, remote, sinceSeen>>
vars == <<origin, place, velocity, mesh, course, warned>>

-----------------------------------------------------------------------------
(* fleetStateEvaluateCollision *)

\* Mutant: the velocity of the other drone is forgotten.
RelativeVelocity_SelfOnly(self, other) == self.vel

RelativeVelocity(self, other) == Minus(self.vel, other.vel)

\* Mutant: the closest approach may lie in the past or beyond the horizon.
InHorizon_Always(num, den) == TRUE

\* tca = num / den lies between now and the horizon.
InHorizon(num, den) == num >= 0 /\ num <= Horizon * den

\* At time num / den drones at distance d and with relative velocity v are within r.
Within(r, d, v, num, den) ==
    LET at == Plus(Times(den, d), Times(num, v))
    IN  Dot(at, at) <= r * r * den * den

\* Mutant: the sign of the time of closest approach.
TcaNum_Sign(d, v) == Dot(d, v)

TcaNum(d, v) == -Dot(d, v)

EvaluateCollision(self, other) ==
    LET d == Minus(self.pos, other.pos)
        v == RelativeVelocity(self, other)
    IN  IF Dot(v, v) = 0 THEN Within(SafetyDistance, d, v, 0, 1)
        ELSE /\ InHorizon(TcaNum(d, v), Dot(v, v))
             /\ Within(SafetyDistance, d, v, TcaNum(d, v), Dot(v, v))

-----------------------------------------------------------------------------
(* Samples *)

\* fleetStateUpdate: what the position estimator says now.  History: the clock units
\* since then, and whether the drone has not turned since.
Sample(d) == [pos |-> Minus(place[d], origin[d]), vel |-> velocity[d],
              lag |-> 0, current |-> TRUE]

Warns == \E s \in remote : EvaluateCollision(Sample(Self), s)

Distance == Minus(place[Self], place[Peer])
Approach == Minus(velocity[Self], velocity[Peer])

Close == Dot(Distance, Distance) <= SafetyDistance * SafetyDistance

\* Armed and parked; Self has heard nobody yet.
Init ==
    /\ place \in [Pilot -> Place]
    /\ origin \in [Pilot -> {Still} \cup Place]
    /\ \A d \in Pilot : origin[d] = IF Separate THEN place[d] ELSE Still
    /\ velocity = [d \in Pilot |-> Still]
    /\ radio \in RadioAtStart
    /\ sinceTx = BROADCAST_INTERVAL
    /\ air = {} /\ remote = {} /\ sinceSeen = ENTRY_TIMEOUT
    /\ course = "new" /\ warned = FALSE

\* sendStateBroadcast on the peer
Broadcast ==
    /\ sinceTx >= BROADCAST_INTERVAL /\ Cardinality(air) < MaxAir
    /\ sinceTx' = 0
    /\ air' = air \cup {Sample(Peer)}
    /\ UNCHANGED <<origin, place, velocity, radio, remote, sinceSeen, course, warned>>

Lose(m) ==
    /\ radio = "lossy"
    /\ air' = air \ {m}
    /\ UNCHANGED <<origin, place, velocity, radio, sinceTx, remote, sinceSeen, course, warned>>

\* Mutant: only the time of an entry that is there already is set.
Stored_First(m) == IF remote = {} THEN {m} ELSE remote

\* markRemoteSeen
Stored(m) == {m}

\* fleetStateReceive on Self
Receive(m) ==
    /\ air' = air \ {m} \/ (radio = "lossy" /\ UNCHANGED air)
    /\ remote' = Stored(m) /\ sinceSeen' = 0
    /\ course' = IF course = "new" /\ m.current
                  THEN IF Close THEN "close" ELSE "apart"
                  ELSE course
    /\ UNCHANGED <<origin, place, velocity, radio, sinceTx, warned>>

Older(samples) == {[m EXCEPT !.lag = @ + 1] : m \in samples}

\* ageRemoteStates
TooOld(age) == age >= ENTRY_TIMEOUT

LongestDelay == IF radio = "lossy" THEN MaxDelay ELSE 0

\* Self judges, and one unit of time passes in straight flight; an entry that has
\* become too old is dropped before Self judges again.
Fly ==
    /\ sinceTx < BROADCAST_INTERVAL /\ \A m \in air : m.lag < LongestDelay
    /\ place' = [d \in Pilot |-> Plus(place[d], velocity[d])]
    /\ place' \in [Pilot -> Place]
    /\ warned' = (warned \/ Warns)
    /\ sinceTx' = sinceTx + 1
    /\ air' = Older(air)
    /\ remote' = IF TooOld(sinceSeen + 1) THEN {} ELSE Older(remote)
    /\ sinceSeen' = IF sinceSeen < ENTRY_TIMEOUT THEN sinceSeen + 1 ELSE sinceSeen
    /\ UNCHANGED <<origin, velocity, radio, course>>

Outdated(samples) == {[m EXCEPT !.current = FALSE] : m \in samples}

Turn(d, v) ==
    /\ velocity[d] # v
    /\ velocity' = [velocity EXCEPT ![d] = v]
    /\ IF d = Peer THEN air' = Outdated(air) /\ remote' = Outdated(remote)
                   ELSE UNCHANGED <<air, remote>>
    /\ course' = "new" /\ warned' = FALSE
    /\ UNCHANGED <<origin, place, radio, sinceTx, sinceSeen>>

Next ==
    \/ Broadcast
    \/ \E m \in air : Receive(m) \/ Lose(m)
    \/ Fly
    \/ \E d \in Pilot, v \in Velocity : Turn(d, v)

Spec == Init /\ [][Next]_vars

-----------------------------------------------------------------------------
(* Properties *)

\* If neither turns, the drones come within r of each other by the horizon.
ComeWithin(r) ==
    \E den \in 1..MaxDen : \E num \in 0..(Horizon * den) :
        Within(r, Distance, Approach, num, den)

\* How far the peer may be from where its sample says.
Drift(s) == s.lag * MaxSpeed

\* A warning is about a danger, fleet_state.h:78: "Returns true if they are predicted
\* to come within safetyDistanceCm".  The peer being where its last sample was taken,
\* and not where it is by now, adds what it can fly meanwhile.
WarningIsReal ==
    \A s \in remote :
        s.current /\ EvaluateCollision(Sample(Self), s)
        => ComeWithin(SafetyDistance + Drift(s))

Abs(n) == IF n < 0 THEN -n ELSE n

\* The closest approach lies between now and the horizon, by more than it seems to
\* move when the peer is displaced along its course to where the sample was taken.
Soon(s) ==
    LET num == TcaNum(Distance, Approach)
        den == Dot(Approach, Approach)
        slip == s.lag * Abs(Dot(velocity[Peer], Approach))
    IN  Approach = Still \/ (num >= slip /\ num + slip <= Horizon * den)

\* No danger goes without a warning, however old the sample, if the drones come closer
\* than the safety distance by what the peer can have flown since, and soon: the code
\* looks at the time of closest approach only (fleet_state.c:258-276).  It holds of
\* either drone, so of a clear danger both are warned, with samples of different ages.
NoApproachMissed ==
    \A s \in remote :
        /\ s.current /\ Drift(s) <= SafetyDistance
        /\ ComeWithin(SafetyDistance - Drift(s)) /\ Soon(s)
        => EvaluateCollision(Sample(Self), s)

\* On a timely mesh drones that have been apart when Self first heard of their present
\* courses, and approach fast enough to meet within the horizon less a broadcast, are
\* warned on the way, at the latest when they have become close.
FastApproachIsSeen ==
    LET time == Horizon - BROADCAST_INTERVAL
        fast == Dot(Approach, Approach) * time * time >= SafetyDistance * SafetyDistance
    IN  radio = "timely" /\ course = "apart" /\ Close /\ fast /\ Approach # Still
        => warned \/ Warns
=============================================================================
