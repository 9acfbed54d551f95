------------------------------ MODULE FleetId ------------------------------
(***************************************************************************)
(* Node-ID consensus, src/main/fleet/fleet_id.c, run by every drone of a   *)
(* fleet: probe a candidate ID, settle on it when PROBE_COUNT probes met   *)
(* no objection, then announce and defend it.  Each drone's static         *)
(* variables are one entry of a function on Drone.                         *)
(*                                                                         *)
(* Time.  Tick is one unit of the clock; a timer variable of the code (the *)
(* time of an event) is modelled by its age, saturated at the largest      *)
(* value any comparison tells apart.  TASK_FLEET runs many times per unit, *)
(* so the clock does not advance past an expired timer that fleetIdUpdate  *)
(* has not seen yet (UpdateDue).                                           *)
(*                                                                         *)
(* The mesh.  inbox[d] holds the claims in flight to d.  While radio is    *)
(* "lossy" a claim may be lost, duplicated, reordered or delayed without   *)
(* bound (drones out of range included); once it is "timely" every claim   *)
(* arrives within the unit it was sent in.                                 *)
(***************************************************************************)
EXTENDS Integers, FiniteSets

CONSTANTS
    Drone,              \* the boards
    Uid,                \* Uid[d]: the hardware identifier nodeUid of d
    FLEET_ID_MAX,       \* IDs are 1..FLEET_ID_MAX
    PROBE_INTERVAL,     \* FLEET_ID_PROBE_INTERVAL_US, in clock units
    PROBE_COUNT,        \* FLEET_ID_PROBE_COUNT
    ANNOUNCE_INTERVAL,  \* FLEET_ID_ANNOUNCE_INTERVAL_US, in clock units
    MEMBER_TIMEOUT,     \* FLEET_MEMBER_TIMEOUT_MS, in clock units
    Echoing,            \* the boards whose link echoes what they send back to them
    RadioAtStart,       \* how the mesh may behave at first
    BootDelay,          \* clock units from the reset of micros() to fleetIdInit
    MaxCrashes          \* bound: power losses in one behaviour

ASSUME UidAssumption == Uid \in [Drone -> Nat]
ASSUME IdMaxAssumption == FLEET_ID_MAX \in Nat \ {0}
ASSUME TimingAssumption ==
    /\ PROBE_INTERVAL \in Nat \ {0}
    /\ PROBE_COUNT \in Nat \ {0}
    /\ ANNOUNCE_INTERVAL \in Nat
    /\ MEMBER_TIMEOUT \in Nat
    /\ PROBE_INTERVAL <= ANNOUNCE_INTERVAL
    /\ ANNOUNCE_INTERVAL <= MEMBER_TIMEOUT
ASSUME RadioAssumption == RadioAtStart \subseteq {"lossy", "timely"}
ASSUME BootAssumption == BootDelay \subseteq Nat /\ MaxCrashes \in Nat

VARIABLES
    up,           \* up[d]: d is powered and fleetIdInit has run
    nodeId,       \* the ID d holds or is probing, 0 for none
    state,        \* PROBING or CLAIMED
    probesSent,
    sinceTx,      \* age of lastTxUs
    observedIds,  \* the bitset of IDs believed claimed by others
    sinceHeard,   \* sinceHeard[d][i]: age of idLastHeardMs[i - 1]
    inbox,        \* claims in flight to each drone
    radio,
    crashes

local == <<up, nodeId, state, probesSent, sinceTx, observedIds, sinceHeard>>
vars == <<local, inbox, radio, crashes>>

FLEET_ID_UNASSIGNED == 0
ID == 1..FLEET_ID_MAX
State == {"PROBING", "CLAIMED"}

\* fleetIdMessage_t; its type byte is what fleetLinkDispatch has routed on.
Claim == [nodeId : 0..FLEET_ID_MAX, state : State, uid : {Uid[d] : d \in Drone}]

AtMost(n, limit) == IF n <= limit THEN n ELSE limit

-----------------------------------------------------------------------------
(* Helpers of fleet_id.c *)

\* How many steps pickCandidateId takes from its UID-derived start to reach i.
Offset(d, i) == (i - 1 - (Uid[d] % FLEET_ID_MAX)) % FLEET_ID_MAX

\* The first ID from that start, wrapping, that is not in observed.
pickCandidateId(d, observed) ==
    LET free == ID \ observed
    IN  IF free = {} THEN FLEET_ID_UNASSIGNED
        ELSE CHOOSE i \in free : \A j \in free : Offset(d, i) <= Offset(d, j)

\* The head start enterProbing gives the first probe.
Stagger(d) == Uid[d] % PROBE_INTERVAL

\* Mutants: the tiebreak alone decides; the higher UID wins; settled drones
\* never yield to each other.
remoteOutranksUs_UidOnly(d, m) == m.uid < Uid[d]
remoteOutranksUs_Highest(d, m) ==
    IF m.state = state[d] THEN m.uid > Uid[d] ELSE m.state = "CLAIMED"
remoteOutranksUs_NoMerge(d, m) ==
    state[d] = "PROBING" /\ (m.state = "CLAIMED" \/ m.uid < Uid[d])

remoteOutranksUs(d, m) ==
    IF m.state = state[d] THEN m.uid < Uid[d] ELSE m.state = "CLAIMED"

fleetHasId(d) ==
    up[d] /\ state[d] = "CLAIMED" /\ nodeId[d] # FLEET_ID_UNASSIGNED

fleetIdIsResolved(d) == up[d] /\ state[d] = "CLAIMED"

fleetMemberMask(d) ==
    observedIds[d] \cup (IF fleetHasId(d) THEN {nodeId[d]} ELSE {})

ClaimOf(d, s) == [nodeId |-> nodeId[d], state |-> s, uid |-> Uid[d]]

\* The inboxes after d has called sendFn with each of the claims.
Broadcast(d, claims, boxes) ==
    [e \in Drone |-> IF up[e] /\ (e # d \/ d \in Echoing)
                     THEN boxes[e] \cup claims ELSE boxes[e]]

\* Mutant: the probes sent for the previous candidate still count.
enterProbing_KeepCount(d, candidate) ==
    /\ nodeId' = [nodeId EXCEPT ![d] = candidate]
    /\ state' = [state EXCEPT ![d] = "PROBING"]
    /\ UNCHANGED probesSent

enterProbing(d, candidate) ==
    /\ nodeId' = [nodeId EXCEPT ![d] = candidate]
    /\ state' = [state EXCEPT ![d] = "PROBING"]
    /\ probesSent' = [probesSent EXCEPT ![d] = 0]

-----------------------------------------------------------------------------
(* The environment: power, clock and radio *)

Init ==
    /\ up = [d \in Drone |-> FALSE]
    /\ nodeId = [d \in Drone |-> FLEET_ID_UNASSIGNED]
    /\ state = [d \in Drone |-> "PROBING"]
    /\ probesSent = [d \in Drone |-> 0]
    /\ sinceTx = [d \in Drone |-> 0]
    /\ observedIds = [d \in Drone |-> {}]
    /\ sinceHeard = [d \in Drone |-> [i \in ID |-> MEMBER_TIMEOUT]]
    /\ inbox = [d \in Drone |-> {}]
    /\ radio \in RadioAtStart
    /\ crashes = 0

\* fleetIdInit, with lastTxUs computed from time 0 and not from the present;
\* a delay of 0 is fleetIdInit followed by fleetIdSetUid, as tests do.
Boot(d) ==
    /\ ~up[d]
    /\ up' = [up EXCEPT ![d] = TRUE]
    /\ enterProbing(d, pickCandidateId(d, {}))
    /\ \E elapsed \in BootDelay :
          sinceTx' = [sinceTx EXCEPT ![d] =
                         AtMost(elapsed + Stagger(d), ANNOUNCE_INTERVAL)]
    /\ UNCHANGED <<observedIds, sinceHeard, inbox, radio, crashes>>

\* Power loss: nothing of fleet_id.c is persisted.
Crash(d) ==
    /\ up[d]
    /\ crashes < MaxCrashes
    /\ crashes' = crashes + 1
    /\ up' = [up EXCEPT ![d] = FALSE]
    /\ enterProbing(d, FLEET_ID_UNASSIGNED)
    /\ sinceTx' = [sinceTx EXCEPT ![d] = 0]
    /\ observedIds' = [observedIds EXCEPT ![d] = {}]
    /\ sinceHeard' = [sinceHeard EXCEPT ![d] = [i \in ID |-> MEMBER_TIMEOUT]]
    /\ inbox' = [inbox EXCEPT ![d] = {}]
    /\ UNCHANGED radio

Lose(d) ==
    /\ radio = "lossy"
    /\ \E m \in inbox[d] : inbox' = [inbox EXCEPT ![d] = @ \ {m}]
    /\ UNCHANGED <<local, radio, crashes>>

Heal ==
    /\ radio = "lossy"
    /\ radio' = "timely"
    /\ UNCHANGED <<local, inbox, crashes>>

\* Mutant: silent members are never dropped.
Silent_Never(d) == {}

\* The members ageObservedIds is about to drop.
Silent(d) == {i \in observedIds[d] : sinceHeard[d][i] >= MEMBER_TIMEOUT}

TxDue(d) ==
    sinceTx[d] >= IF state[d] = "PROBING" THEN PROBE_INTERVAL
                                          ELSE ANNOUNCE_INTERVAL

UpdateDue(d) == up[d] /\ (TxDue(d) \/ Silent(d) # {})

Tick ==
    /\ \A d \in Drone : ~UpdateDue(d)
    /\ radio = "timely" => \A d \in Drone : inbox[d] = {}
    /\ sinceTx' = [d \in Drone |->
          IF up[d] THEN AtMost(sinceTx[d] + 1, ANNOUNCE_INTERVAL) ELSE sinceTx[d]]
    /\ sinceHeard' = [d \in Drone |->
          [i \in ID |-> AtMost(sinceHeard[d][i] + 1, MEMBER_TIMEOUT)]]
    /\ UNCHANGED <<up, nodeId, state, probesSent, observedIds, inbox, radio, crashes>>

-----------------------------------------------------------------------------
(* fleetIdReceive: the claim m has come in on d *)

\* Mutant: the timer of an ID is only set when its bit is.
AgesAfterHearing_FirstOnly(d, heard) ==
    [i \in ID |-> IF i \in heard \ observedIds[d] THEN 0 ELSE sinceHeard[d][i]]

AgesAfterHearing(d, heard) ==
    [i \in ID |-> IF i \in heard THEN 0 ELSE sinceHeard[d][i]]

\* After the early returns: recordHeard, then the conflict on our own ID, if any.
HandleClaim(d, m, boxes) ==
    LET heard == IF m.nodeId \in ID THEN {m.nodeId} ELSE {}
        observed == observedIds[d] \cup heard
        conflict == m.nodeId = nodeId[d]
        yields == conflict /\ remoteOutranksUs(d, m)
        defends == conflict /\ ~yields /\ state[d] = "CLAIMED"
    IN  /\ observedIds' = [observedIds EXCEPT ![d] = observed]
        /\ sinceHeard' = [sinceHeard EXCEPT ![d] = AgesAfterHearing(d, heard)]
        /\ IF yields
           THEN enterProbing(d, pickCandidateId(d, observed))
           ELSE UNCHANGED <<nodeId, state, probesSent>>
        /\ sinceTx' = CASE yields  -> [sinceTx EXCEPT ![d] = Stagger(d)]
                        [] defends -> [sinceTx EXCEPT ![d] = 0]
                        [] OTHER   -> sinceTx
        /\ inbox' = IF defends THEN Broadcast(d, {ClaimOf(d, "CLAIMED")}, boxes)
                               ELSE boxes

Receive(d) ==
    /\ up[d]
    /\ \E m \in inbox[d] :
          /\ m.uid # Uid[d]
          /\ \/ HandleClaim(d, m, [inbox EXCEPT ![d] = @ \ {m}])
             \/ radio = "lossy" /\ HandleClaim(d, m, inbox)   \* delivered again later
    /\ UNCHANGED <<up, radio, crashes>>

\* Our own claim echoed back, or that of a board with our UID, is dropped.
ReceiveEcho(d) ==
    /\ up[d]
    /\ \E m \in inbox[d] :
          /\ m.uid = Uid[d]
          /\ inbox' = [inbox EXCEPT ![d] = @ \ {m}]
    /\ UNCHANGED <<local, radio, crashes>>

-----------------------------------------------------------------------------
(* fleetIdUpdate; each disjunct runs ageObservedIds first *)

ageObservedIds(d) ==
    /\ observedIds' = [observedIds EXCEPT ![d] = @ \ Silent(d)]
    /\ UNCHANGED sinceHeard

\* Mutant: one probe too few before settling.
Settles_Early(d) == probesSent[d] + 2 >= PROBE_COUNT

\* The probe now sent is the last one: nobody objected to this candidate.
Settles(d) == probesSent[d] + 1 >= PROBE_COUNT

SendProbe(d) ==
    /\ up[d] /\ state[d] = "PROBING" /\ TxDue(d)
    /\ ageObservedIds(d)
    /\ probesSent' = [probesSent EXCEPT ![d] = @ + 1]
    /\ state' = [state EXCEPT ![d] = IF Settles(d) THEN "CLAIMED" ELSE @]
    /\ inbox' = Broadcast(d, {ClaimOf(d, s) : s \in
                    IF Settles(d) THEN {"PROBING", "CLAIMED"} ELSE {"PROBING"}}, inbox)
    /\ sinceTx' = [sinceTx EXCEPT ![d] = 0]
    /\ UNCHANGED <<up, nodeId, radio, crashes>>

Announce(d) ==
    /\ up[d] /\ state[d] = "CLAIMED" /\ TxDue(d)
    /\ ageObservedIds(d)
    /\ inbox' = Broadcast(d, {ClaimOf(d, "CLAIMED")}, inbox)
    /\ sinceTx' = [sinceTx EXCEPT ![d] = 0]
    /\ UNCHANGED <<up, nodeId, state, probesSent, radio, crashes>>

AgeOnly(d) ==
    /\ up[d] /\ ~TxDue(d) /\ Silent(d) # {}
    /\ ageObservedIds(d)
    /\ UNCHANGED <<up, nodeId, state, probesSent, sinceTx, inbox, radio, crashes>>

Update(d) == SendProbe(d) \/ Announce(d) \/ AgeOnly(d)

-----------------------------------------------------------------------------
Next ==
    \/ Tick
    \/ Heal
    \/ \E d \in Drone : Boot(d) \/ Crash(d) \/ Lose(d)
    \/ \E d \in Drone : Receive(d) \/ ReceiveEcho(d) \/ Update(d)

Spec == Init /\ [][Next]_vars

\* TASK_FLEET is never starved for ever, the clock runs, and bytes that arrived
\* are read; nothing makes the radio heal or a board boot.
Fairness ==
    /\ WF_vars(Tick)
    /\ \A d \in Drone : /\ WF_vars(Update(d))
                        /\ WF_vars(Receive(d))
                        /\ WF_vars(ReceiveEcho(d))

FairSpec == Spec /\ Fairness

-----------------------------------------------------------------------------
(* Properties *)

\* Every variable of fleet_id.c keeps its type: an ID is never out of 0..32, a
\* timer never past its largest threshold, and the probe counter never past
\* PROBE_COUNT however often a drone starts over.
TypeOK ==
    /\ up \in [Drone -> BOOLEAN]
    /\ nodeId \in [Drone -> 0..FLEET_ID_MAX]
    /\ state \in [Drone -> State]
    /\ probesSent \in [Drone -> 0..PROBE_COUNT]
    /\ sinceTx \in [Drone -> 0..ANNOUNCE_INTERVAL]
    /\ observedIds \in [Drone -> SUBSET ID]
    /\ sinceHeard \in [Drone -> [ID -> 0..MEMBER_TIMEOUT]]
    /\ inbox \in [Drone -> SUBSET Claim]
    /\ radio \in {"lossy", "timely"}
    /\ crashes \in 0..MaxCrashes

\* What the rest of the fleet code sees: the ID each drone has, 0 for none.
HeldId == [d \in Drone |-> IF fleetHasId(d) THEN nodeId[d] ELSE FLEET_ID_UNASSIGNED]

IdSvc == INSTANCE IdService WITH holder <- HeldId

\* The protocol implements the ID service: no drone settles on an ID another
\* drone holds, and none changes IDs without giving the old one up first.
ImplementsIdService == IdSvc!Spec

\* On a timely mesh a held ID is only lost with the power: a late-comer never
\* takes it away, however its probes interleave with the defender's answers.
HeldIdIsKept ==
    [][\A d \in Drone : fleetHasId(d) /\ up'[d] => HeldId'[d] = nodeId[d]]_vars

\* A member that keeps its ID never drops out of the view of a drone that has
\* seen it: its announcements always come back before MEMBER_TIMEOUT expires.
NoFalseExpiry ==
    [][\A d, e \in Drone :
          /\ d # e /\ fleetHasId(e) /\ nodeId[e] \in observedIds[d]
          /\ up'[d] /\ HeldId'[e] = nodeId[e]
          => nodeId[e] \in observedIds'[d]]_vars

Lowest(d) == \A e \in Drone \ {d} : Uid[d] < Uid[e]

\* Whatever is lost, duplicated or reordered, the drone with the lowest UID
\* never gives up an ID it has settled on ("lowest hardware UID wins").
LowestUidKeepsId ==
    [][\A d \in Drone : Lowest(d) /\ fleetHasId(d) /\ up'[d]
          => HeldId'[d] = nodeId[d]]_vars

\* Every powered drone has an ID, all different, and sees exactly the others.
Converged ==
    LET Powered == {d \in Drone : up[d]}
        Held == {nodeId[d] : d \in Powered}
    IN  \A d \in Powered :
          /\ fleetHasId(d)
          /\ \A e \in Powered \ {d} : nodeId[e] # nodeId[d]
          /\ fleetMemberMask(d) = Held

\* Once the mesh is timely, the fleet settles for good, also when partitions had
\* settled on the same IDs, and the ghosts of abandoned IDs leave every view.
FleetSettles == <>[](radio = "timely") => <>[]Converged

\* fleet_id.h on fleetIdIsResolved: "true once we hold an uncontested ID".
ResolvedMeansHoldsId ==
    \A d \in Drone : fleetIdIsResolved(d) => nodeId[d] # FLEET_ID_UNASSIGNED
=============================================================================
