----------------------------- MODULE FleetState -----------------------------
(***************************************************************************)
(* The table of peer states of one drone, Self, src/main/fleet/            *)
(* fleet_state.c: every drone broadcasts a sample of its motion, Self      *)
(* keeps the last sample of each node ID in a few slots, forgets the ones  *)
(* it has not heard for a while and looks for a predicted collision.       *)
(*                                                                         *)
(* A sample is abstracted to what fleetStateEvaluateCollision says of it   *)
(* against Self's own motion: a "threat" or "clear" (FleetCollision models *)
(* the geometry).  IDs come from IdService.  Time and radio are those of   *)
(* FleetId, but that a lossy radio delays a sample by MaxDelay at most.    *)
(* TASK_FLEET, at 50 Hz, runs at least once in every clock unit.           *)
(***************************************************************************)
EXTENDS Integers, FiniteSets

CONSTANTS
    Drone, Self,
    FLEET_ID_MAX,
    SLOTS,                 \* length of remoteStates, 8
    BROADCAST_INTERVAL,    \* FLEET_STATE_BROADCAST_INTERVAL_US, in clock units
    ENTRY_TIMEOUT,         \* FLEET_STATE_ENTRY_TIMEOUT_MS, in clock units
    MaxDelay,              \* how long a lossy radio may hold a sample, in clock units
    RadioAtStart,
    MaxAir,                \* bound: samples on their way at once
    MaxChanges             \* bound: changes of what drones do and of their IDs

ASSUME SelfAssumption == Self \in Drone /\ FLEET_ID_MAX \in Nat \ {0}
ASSUME TableAssumption ==
    /\ SLOTS \in Nat \ {0} /\ BROADCAST_INTERVAL \in Nat \ {0}
    /\ ENTRY_TIMEOUT \in Nat \ {0} /\ MaxDelay \in Nat
ASSUME TimingAssumption == BROADCAST_INTERVAL < ENTRY_TIMEOUT
ASSUME StateBoundAssumption == MaxChanges \in Nat /\ MaxAir \in Nat
ASSUME StateRadioAssumption == RadioAtStart \subseteq {"lossy", "timely"}

VARIABLES
    holder,          \* the ID each drone has (fleetHasId, fleetIdGet), 0 for none
    situation,       \* "blind" (no position estimate), "clear" or "threat" to Self
    sinceTx,         \* age of each drone's lastTxUs
    air,             \* samples on their way to Self
    remoteStates,    \* Self's slots
    sinceSeen,       \* age of remoteLastSeenMs
    alarm,           \* collisionNodeId, or NoAlarm when collisionTriggered is false
    updated,         \* fleetStateUpdate has run on Self in this clock unit
    radio,
    steady,          \* history: how long no drone has changed
    changes

table == <<remoteStates, sinceSeen>>
vars == <<holder, situation, sinceTx, air, table, alarm, updated, radio, steady, changes>>

FLEET_ID_UNASSIGNED == 0
NodeId == 0..FLEET_ID_MAX
NoAlarm == -1
Slot == 1..SLOTS
Peer == Drone \ {Self}

Free == [valid |-> FALSE, nodeId |-> 0, threat |-> FALSE]

\* fleetStateMessage_t and its time on the air
Message == [nodeId : NodeId, threat : BOOLEAN, age : 0..MaxDelay]

AtMost(n, limit) == IF n <= limit THEN n ELSE limit

Ids == INSTANCE IdService

fleetHasId == holder[Self] # FLEET_ID_UNASSIGNED

\* Long enough for an entry's life, a broadcast, its time on the air and an update.
Settled == ENTRY_TIMEOUT + BROADCAST_INTERVAL + MaxDelay + 1

\* fleetStateInit on Self in a fleet that is under way; Self has heard nobody yet.
Init ==
    /\ holder \in [Drone -> NodeId]
    /\ \A d, e \in Drone : d # e => holder[d] # holder[e] \/ holder[d] = FLEET_ID_UNASSIGNED
    /\ situation \in [Drone -> {"blind", "clear", "threat"}] /\ situation[Self] # "threat"
    /\ sinceTx = [d \in Drone |-> BROADCAST_INTERVAL]
    /\ air = {}
    /\ remoteStates = [i \in Slot |-> Free]
    /\ sinceSeen = [i \in Slot |-> ENTRY_TIMEOUT]
    /\ alarm = NoAlarm
    /\ updated = FALSE
    /\ radio \in RadioAtStart
    /\ steady = 0
    /\ changes = 0

-----------------------------------------------------------------------------
(* The drones and the air *)

Turn(d, s) ==
    /\ changes < MaxChanges /\ changes' = changes + 1
    /\ s # situation[d] /\ (d = Self => s # "threat")
    /\ situation' = [situation EXCEPT ![d] = s]
    /\ steady' = 0
    /\ UNCHANGED <<holder, sinceTx, air, table, alarm, updated, radio>>

ChangeId(d) ==
    /\ changes < MaxChanges /\ changes' = changes + 1
    /\ Ids!Release(d) \/ \E i \in 1..FLEET_ID_MAX : Ids!Acquire(d, i)
    /\ steady' = 0
    /\ UNCHANGED <<situation, sinceTx, air, table, alarm, updated, radio>>

Lose(m) ==
    /\ radio = "lossy"
    /\ air' = air \ {m}
    /\ UNCHANGED <<holder, situation, sinceTx, table, alarm, updated, radio, steady, changes>>

LongestDelay == IF radio = "lossy" THEN MaxDelay ELSE 0

Tick ==
    /\ updated /\ updated' = FALSE
    /\ \A m \in air : m.age < LongestDelay
    /\ \A d \in Peer : sinceTx[d] < BROADCAST_INTERVAL
    /\ air' = {[m EXCEPT !.age = @ + 1] : m \in air}
    /\ sinceTx' = [d \in Drone |-> AtMost(sinceTx[d] + 1, BROADCAST_INTERVAL)]
    /\ sinceSeen' = [i \in Slot |-> AtMost(sinceSeen[i] + 1, ENTRY_TIMEOUT)]
    /\ steady' = AtMost(steady + 1, Settled)
    /\ UNCHANGED <<holder, situation, remoteStates, alarm, radio, changes>>

-----------------------------------------------------------------------------
(* sendStateBroadcast, on a peer *)

\* Whether a drone has a sample to send: localState.valid.
Sample(d) == situation[d] # "blind"

Broadcast(d) ==
    /\ sinceTx[d] >= BROADCAST_INTERVAL /\ Cardinality(air) < MaxAir
    /\ sinceTx' = [sinceTx EXCEPT ![d] = 0]
    /\ air' = IF Sample(d)
              THEN air \cup {[nodeId |-> holder[d], threat |-> situation[d] = "threat",
                              age |-> 0]}
              ELSE air
    /\ UNCHANGED <<holder, situation, table, alarm, updated, radio, steady, changes>>

-----------------------------------------------------------------------------
(* fleetStateReceive *)

Ignored(m) == ~fleetHasId \/ m.nodeId = holder[Self]

Lowest(slots) == CHOOSE i \in slots : \A j \in slots : i <= j

\* Mutant: a sample takes the first free slot, whether its node has one or not.
SlotsFor_FirstFree(n) == {i \in Slot : ~remoteStates[i].valid}

\* The slots a node's sample may be written to: its own, or else the free ones.
SlotsFor(n) ==
    LET own == {i \in Slot : remoteStates[i].valid /\ remoteStates[i].nodeId = n}
    IN  IF own # {} THEN own ELSE {i \in Slot : ~remoteStates[i].valid}

markRemoteSeen(i, m) ==
    /\ remoteStates' = [remoteStates EXCEPT
                            ![i] = [valid |-> TRUE, nodeId |-> m.nodeId, threat |-> m.threat]]
    /\ sinceSeen' = [sinceSeen EXCEPT ![i] = 0]

\* With no slot left the sample is dropped.
Receive(m) ==
    /\ air' = air \ {m} \/ (radio = "lossy" /\ UNCHANGED air)
    /\ IF Ignored(m) \/ SlotsFor(m.nodeId) = {}
       THEN UNCHANGED table
       ELSE markRemoteSeen(Lowest(SlotsFor(m.nodeId)), m)
    /\ UNCHANGED <<holder, situation, sinceTx, alarm, updated, radio, steady, changes>>

-----------------------------------------------------------------------------
(* fleetStateUpdate, on Self *)

\* Mutant: entries are never too old.
TooOld_Never(i) == FALSE

TooOld(i) == remoteStates[i].valid /\ sinceSeen[i] >= ENTRY_TIMEOUT

\* ageRemoteStates; clearRemoteState keeps the rest of the sample, which nobody reads
\* in a slot that is not valid.
Aged == [i \in Slot |-> IF TooOld(i) THEN Free ELSE remoteStates[i]]

\* Mutant: the scan leaves out the last slot.
Threats_LastLeftOut(states) == {i \in Slot : i < SLOTS /\ states[i].valid /\ states[i].threat}

Threats(states) == {i \in Slot : states[i].valid /\ states[i].threat}

\* The alarm is that of the first slot with a threat, while Self knows where it is.
Update ==
    /\ remoteStates' = Aged
    /\ alarm' = IF situation[Self] # "blind" /\ Threats(Aged) # {}
                THEN Aged[Lowest(Threats(Aged))].nodeId ELSE NoAlarm
    /\ updated' = TRUE
    /\ UNCHANGED <<holder, situation, sinceTx, air, sinceSeen, radio, steady, changes>>

Next ==
    \/ \E d \in Drone : ChangeId(d) \/ \E s \in {"blind", "clear", "threat"} : Turn(d, s)
    \/ \E d \in Peer : Broadcast(d)
    \/ \E m \in air : Receive(m) \/ Lose(m)
    \/ Update
    \/ Tick

Spec == Init /\ [][Next]_vars

-----------------------------------------------------------------------------
(* Properties *)

\* Types; and after an update no entry is too old (fleet_state.c:73).
TypeOK ==
    /\ holder \in [Drone -> NodeId]
    /\ situation \in [Drone -> {"blind", "clear", "threat"}]
    /\ sinceTx \in [Drone -> 0..BROADCAST_INTERVAL]
    /\ air \subseteq Message
    /\ remoteStates \in [Slot -> [valid : BOOLEAN, nodeId : NodeId, threat : BOOLEAN]]
    /\ sinceSeen \in [Slot -> 0..ENTRY_TIMEOUT]
    /\ alarm \in NodeId \cup {NoAlarm}
    /\ updated \in BOOLEAN /\ radio \in {"lossy", "timely"}
    /\ steady \in 0..Settled
    /\ changes \in 0..MaxChanges
    /\ updated => \A i \in Slot : remoteStates[i].valid => sinceSeen[i] < ENTRY_TIMEOUT

\* A node has one slot, whatever is lost, repeated, late or comes under another ID:
\* otherwise an old threat would outlive the news that it is over
\* (fleet_state.c:175-187).
OneSlotPerNode ==
    \A i, j \in Slot :
        /\ remoteStates[i].valid /\ remoteStates[j].valid
        /\ remoteStates[i].nodeId = remoteStates[j].nodeId
        => i = j

\* On a timely mesh a peer with an ID that threatens Self long enough raises the
\* alarm, in a fleet with as many peers as slots, even when IDs that are no longer
\* used hold slots until they time out.  The alarm is that of the first slot, so it
\* may name another threat.
ThreatIsSeen ==
    \A d \in Peer :
        /\ situation[d] = "threat" /\ holder[d] # FLEET_ID_UNASSIGNED
        /\ fleetHasId /\ situation[Self] # "blind"
        /\ radio = "timely" /\ steady = Settled /\ updated
        => alarm # NoAlarm

\* An alarm is about somebody: it ends in time once no drone is a threat any more,
\* with a radio that loses the news as well (ageRemoteStates, fleet_state.c:69-77).
AlarmEnds ==
    /\ \A d \in Drone : situation[d] # "threat"
    /\ steady > ENTRY_TIMEOUT + MaxDelay /\ updated
    => alarm = NoAlarm
=============================================================================
