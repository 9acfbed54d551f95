---------------------------- MODULE FleetLeader ----------------------------
(***************************************************************************)
(* Leadership of the fleet, src/main/fleet/fleet_leader.c, on every drone: *)
(* the leader of a term sends heartbeats, the others follow the newest     *)
(* term they hear and drop a leader that falls silent.                     *)
(*                                                                         *)
(* The environment.  IDs come from the ID service (IdService, implemented  *)
(* by FleetId).  Who becomes leader is decided by an election that is not  *)
(* in the repository yet: fleet_leader.h says it calls                     *)
(* fleetLeaderBecomeLeader "after winning a term", so a term has one       *)
(* winner, a drone with an ID, and is newer than the winner's own term.    *)
(* Time and mesh are those of FleetId: ages instead of times, Tick not     *)
(* past an expired timer, a radio that is "lossy" until it is "timely".    *)
(***************************************************************************)
EXTENDS Integers, FiniteSets

CONSTANTS
    Drone,
    FLEET_ID_MAX,
    HEARTBEAT_INTERVAL,   \* FLEET_HEARTBEAT_INTERVAL_US, in clock units
    LEADER_TIMEOUT,       \* FLEET_LEADER_TIMEOUT_US, in clock units
    RadioAtStart,
    NoWinner,             \* what is no drone
    MaxTerm,              \* bound: terms the election hands out
    MaxIdLosses           \* bound: IDs given up and power losses, together

ASSUME FleetAssumption == FLEET_ID_MAX \in Nat \ {0}
ASSUME LeaderTimingAssumption ==
    /\ HEARTBEAT_INTERVAL \in Nat \ {0}
    /\ LEADER_TIMEOUT \in Nat \ {0}
    /\ HEARTBEAT_INTERVAL < LEADER_TIMEOUT
ASSUME BoundAssumption == MaxTerm \in Nat /\ MaxIdLosses \in Nat
ASSUME NoWinnerAssumption == NoWinner \notin Drone
ASSUME LeaderRadioAssumption == RadioAtStart \subseteq {"lossy", "timely"}

VARIABLES
    holder,          \* the ID each drone has (fleetHasId, fleetIdGet), 0 for none
    isLeader,
    leaderId,        \* who d believes leads, 0 for none
    currentTerm,
    cachedLiveMask,  \* the membership the leader last published
    sinceRx,         \* age of lastHeartbeatRxUs
    sinceTx,         \* age of lastHeartbeatTxUs
    inbox,           \* heartbeats in flight to each drone
    radio,
    winner,          \* history: winner[t] won term t, NoWinner if nobody has
    idLosses

local == <<isLeader, leaderId, currentTerm, cachedLiveMask, sinceRx, sinceTx>>
environment == <<radio, winner, idLosses>>
vars == <<holder, local, inbox, environment>>

FLEET_ID_UNASSIGNED == 0
ID == 1..FLEET_ID_MAX
Term == 1..MaxTerm

\* fleetHeartbeatMessage_t
Heartbeat == [leaderId : ID, term : Term, liveMask : SUBSET ID]

AtMost(n, limit) == IF n <= limit THEN n ELSE limit

Ids == INSTANCE IdService

fleetHasId(d) == holder[d] # FLEET_ID_UNASSIGNED

\* The leader's view of the fleet once the ID claims have gone round.
fleetMemberMask == {holder[e] : e \in Drone} \ {FLEET_ID_UNASSIGNED}

-----------------------------------------------------------------------------
(* fleetLeaderInit, at power-up *)

Init ==
    /\ Ids!Init
    /\ isLeader = [d \in Drone |-> FALSE]
    /\ leaderId = [d \in Drone |-> FLEET_ID_UNASSIGNED]
    /\ currentTerm = [d \in Drone |-> 0]
    /\ cachedLiveMask = [d \in Drone |-> {}]
    /\ sinceRx = [d \in Drone |-> LEADER_TIMEOUT]
    /\ sinceTx = [d \in Drone |-> HEARTBEAT_INTERVAL]
    /\ inbox = [d \in Drone |-> {}]
    /\ radio \in RadioAtStart
    /\ winner = [t \in Term |-> NoWinner]
    /\ idLosses = 0

\* Power loss and restart: nothing is persisted, not even the term.
Reboot(d) ==
    /\ idLosses < MaxIdLosses
    /\ idLosses' = idLosses + 1
    /\ holder' = [holder EXCEPT ![d] = FLEET_ID_UNASSIGNED]
    /\ isLeader' = [isLeader EXCEPT ![d] = FALSE]
    /\ leaderId' = [leaderId EXCEPT ![d] = FLEET_ID_UNASSIGNED]
    /\ currentTerm' = [currentTerm EXCEPT ![d] = 0]
    /\ cachedLiveMask' = [cachedLiveMask EXCEPT ![d] = {}]
    /\ sinceRx' = [sinceRx EXCEPT ![d] = LEADER_TIMEOUT]
    /\ sinceTx' = [sinceTx EXCEPT ![d] = HEARTBEAT_INTERVAL]
    /\ inbox' = [inbox EXCEPT ![d] = {}]
    /\ UNCHANGED <<radio, winner>>

-----------------------------------------------------------------------------
(* The ID service, the clock and the radio *)

AcquireId(d) ==
    /\ \E i \in ID : Ids!Acquire(d, i)
    /\ UNCHANGED <<local, inbox, environment>>

\* fleetIdReceive made d yield its ID; fleet_leader.c is not told.
YieldId(d) ==
    /\ idLosses < MaxIdLosses
    /\ idLosses' = idLosses + 1
    /\ Ids!Release(d)
    /\ UNCHANGED <<local, inbox, radio, winner>>

Lose(d) ==
    /\ radio = "lossy"
    /\ \E m \in inbox[d] : inbox' = [inbox EXCEPT ![d] = @ \ {m}]
    /\ UNCHANGED <<holder, local, environment>>

Heal ==
    /\ radio = "lossy"
    /\ radio' = "timely"
    /\ UNCHANGED <<holder, local, inbox, winner, idLosses>>

\* Mutant: a leader that has lost its ID goes on sending.
HeartbeatDue_NoGate(d) == isLeader[d] /\ sinceTx[d] >= HEARTBEAT_INTERVAL

HeartbeatDue(d) == fleetHasId(d) /\ isLeader[d] /\ sinceTx[d] >= HEARTBEAT_INTERVAL

\* Mutant: a leader that was just heard is dropped one unit early.
LeaderSilent_Early(d) ==
    /\ fleetHasId(d) /\ ~isLeader[d] /\ leaderId[d] # FLEET_ID_UNASSIGNED
    /\ sinceRx[d] >= HEARTBEAT_INTERVAL

\* Mutant: the follower never looks at the timer.
LeaderSilent_Never(d) == FALSE

LeaderSilent(d) ==
    /\ fleetHasId(d) /\ ~isLeader[d] /\ leaderId[d] # FLEET_ID_UNASSIGNED
    /\ sinceRx[d] >= LEADER_TIMEOUT

Tick ==
    /\ \A d \in Drone : ~HeartbeatDue(d) /\ ~LeaderSilent(d)
    /\ radio = "timely" => \A d \in Drone : inbox[d] = {}
    /\ sinceRx' = [d \in Drone |-> AtMost(sinceRx[d] + 1, LEADER_TIMEOUT)]
    /\ sinceTx' = [d \in Drone |-> AtMost(sinceTx[d] + 1, HEARTBEAT_INTERVAL)]
    /\ UNCHANGED <<holder, isLeader, leaderId, currentTerm, cachedLiveMask,
                   inbox, environment>>

-----------------------------------------------------------------------------
(* fleetLeaderBecomeLeader, called by the election after d has won term t *)

BecomeLeader(d, t) ==
    /\ fleetHasId(d) /\ winner[t] = NoWinner /\ currentTerm[d] < t
    /\ winner' = [winner EXCEPT ![t] = d]
    /\ isLeader' = [isLeader EXCEPT ![d] = TRUE]
    /\ currentTerm' = [currentTerm EXCEPT ![d] = t]
    /\ leaderId' = [leaderId EXCEPT ![d] = holder[d]]
    /\ sinceRx' = [sinceRx EXCEPT ![d] = 0]
    /\ sinceTx' = [sinceTx EXCEPT ![d] = HEARTBEAT_INTERVAL]
    /\ UNCHANGED <<holder, cachedLiveMask, inbox, radio, idLosses>>

-----------------------------------------------------------------------------
(* fleetLeaderUpdate *)

SendHeartbeat(d) ==
    /\ HeartbeatDue(d)
    /\ LET m == [leaderId |-> holder[d], term |-> currentTerm[d],
                 liveMask |-> fleetMemberMask]
       IN  inbox' = [e \in Drone |-> IF e = d THEN inbox[e] ELSE inbox[e] \cup {m}]
    /\ sinceTx' = [sinceTx EXCEPT ![d] = 0]
    /\ UNCHANGED <<holder, isLeader, leaderId, currentTerm, cachedLiveMask, sinceRx,
                   environment>>

DropLeader(d) ==
    /\ LeaderSilent(d)
    /\ leaderId' = [leaderId EXCEPT ![d] = FLEET_ID_UNASSIGNED]
    /\ UNCHANGED <<holder, isLeader, currentTerm, cachedLiveMask, sinceRx, sinceTx,
                   inbox, environment>>

Update(d) == SendHeartbeat(d) \/ DropLeader(d)

-----------------------------------------------------------------------------
(* fleetLeaderReceiveHeartbeat *)

\* Mutant: heartbeats of older terms are accepted.
Ignored_NotStale(d, m) == ~fleetHasId(d) \/ m.leaderId = holder[d]

Ignored(d, m) ==
    \/ ~fleetHasId(d)
    \/ m.leaderId = holder[d]      \* taken for an echo of our own heartbeat
    \/ m.term < currentTerm[d]     \* a stale leader

\* Mutant: a newer term is adopted without stepping down.
AdoptTerm_StillLeader(d, term) ==
    /\ currentTerm' = [currentTerm EXCEPT ![d] = IF term > @ THEN term ELSE @]
    /\ UNCHANGED isLeader

AdoptTerm(d, term) ==
    IF term > currentTerm[d]
    THEN /\ currentTerm' = [currentTerm EXCEPT ![d] = term]
         /\ isLeader' = [isLeader EXCEPT ![d] = FALSE]
    ELSE UNCHANGED <<currentTerm, isLeader>>

Accept(d, m) ==
    /\ ~Ignored(d, m)
    /\ AdoptTerm(d, m.term)
    /\ leaderId' = [leaderId EXCEPT ![d] = m.leaderId]
    /\ cachedLiveMask' = [cachedLiveMask EXCEPT ![d] = m.liveMask]
    /\ sinceRx' = [sinceRx EXCEPT ![d] = 0]
    /\ UNCHANGED sinceTx

Handle(d, m) == Accept(d, m) \/ (Ignored(d, m) /\ UNCHANGED local)

Receive(d) ==
    /\ \E m \in inbox[d] :
          /\ Handle(d, m)
          /\ \/ inbox' = [inbox EXCEPT ![d] = @ \ {m}]
             \/ radio = "lossy" /\ UNCHANGED inbox   \* delivered again later
    /\ UNCHANGED <<holder, environment>>

-----------------------------------------------------------------------------
Next ==
    \/ Tick
    \/ Heal
    \/ \E d \in Drone : AcquireId(d) \/ YieldId(d) \/ Reboot(d) \/ Lose(d)
    \/ \E d \in Drone : Update(d) \/ Receive(d) \/ \E t \in Term : BecomeLeader(d, t)

Spec == Init /\ [][Next]_vars

\* The clock runs, TASK_FLEET runs, bytes that arrived are read.  Nothing makes
\* the radio heal, an election happen or a drone obtain an ID.
Fairness ==
    /\ WF_vars(Tick)
    /\ \A d \in Drone : WF_vars(Update(d)) /\ WF_vars(Receive(d))

FairSpec == Spec /\ Fairness

-----------------------------------------------------------------------------
(* Queries *)

fleetHasLeader(d) ==
    \/ isLeader[d]
    \/ leaderId[d] # FLEET_ID_UNASSIGNED /\ sinceRx[d] < LEADER_TIMEOUT

fleetLeaderLiveMask(d) == IF isLeader[d] THEN fleetMemberMask ELSE cachedLiveMask[d]

-----------------------------------------------------------------------------
(* Properties *)

\* The state of fleet_leader.c keeps its types on every drone; a heartbeat in flight
\* carries an ID, so a leader that has lost its own does not send any.
TypeOK ==
    /\ holder \in [Drone -> 0..FLEET_ID_MAX]
    /\ isLeader \in [Drone -> BOOLEAN]
    /\ leaderId \in [Drone -> 0..FLEET_ID_MAX]
    /\ currentTerm \in [Drone -> 0..MaxTerm]
    /\ cachedLiveMask \in [Drone -> SUBSET ID]
    /\ sinceRx \in [Drone -> 0..LEADER_TIMEOUT]
    /\ sinceTx \in [Drone -> 0..HEARTBEAT_INTERVAL]
    /\ inbox \in [Drone -> SUBSET Heartbeat]
    /\ radio \in {"lossy", "timely"}
    /\ winner \in [Term -> Drone \cup {NoWinner}]
    /\ idLosses \in 0..MaxIdLosses

\* Two drones that lead at once lead different terms, so one of them steps down
\* as soon as it hears the other ("a higher term always wins").
OneLeaderPerTerm ==
    \A d, e \in Drone :
        isLeader[d] /\ isLeader[e] /\ currentTerm[d] = currentTerm[e] => d = e

\* Followers of one term follow the same drone, whatever was lost, duplicated or
\* came late from older terms, as long as no drone has lost its ID.
SameTermSameLeader ==
    idLosses = 0 => \A d, e \in Drone :
        /\ leaderId[d] # FLEET_ID_UNASSIGNED /\ leaderId[e] # FLEET_ID_UNASSIGNED
        /\ currentTerm[d] = currentTerm[e]
        => leaderId[d] = leaderId[e]

Follows(d, e) ==
    /\ d # e /\ fleetHasId(d) /\ fleetHasId(e) /\ isLeader[e] /\ ~isLeader[d]
    /\ leaderId[d] = holder[e] /\ currentTerm[d] = currentTerm[e]

\* d has heard the last heartbeat of e, or has it coming in.
UpToDate(d, e) ==
    /\ sinceRx[d] < LEADER_TIMEOUT
    /\ \/ sinceRx[d] <= sinceTx[e]
       \/ \E m \in inbox[d] : m.leaderId = holder[e] /\ m.term = currentTerm[e]

\* A follower that is up to date with its leader stays so, and never takes it for
\* lost, for as long as the leader goes on leading and both keep their IDs: on a timely
\* mesh heartbeats are never LEADER_TIMEOUT apart.
NoFalseLeaderLoss ==
    [][\A d, e \in Drone :
          /\ radio = "timely" /\ Follows(d, e) /\ UpToDate(d, e)
          /\ isLeader'[e] /\ currentTerm'[e] = currentTerm[e]
          /\ holder'[e] = holder[e] /\ holder'[d] = holder[d]
          => fleetHasLeader(d)' /\ (Follows(d, e)' => UpToDate(d, e)')]_vars

Leading(e) == isLeader[e] /\ fleetHasId(e)

\* e leads with an ID, and no drone knows of a newer term.
TopLeader(e) == Leading(e) /\ \A d \in Drone : currentTerm[d] <= currentTerm[e]

\* Every drone with an ID follows e, knows the fleet as e published it, and no
\* other such drone still believes it leads.
FollowedByAll(e) ==
    \A d \in Drone \ {e} : fleetHasId(d) =>
        /\ leaderId[d] = holder[e] /\ ~isLeader[d] /\ fleetHasLeader(d)
        /\ fleetLeaderLiveMask(d) = fleetMemberMask

\* Once the mesh is timely, the leader of the newest term, if it goes on leading, is
\* followed by everybody: stale leaders step down, also those that lost their ID
\* while leading and got another, and those cut off while terms went by.
NewestLeaderPrevails ==
    <>[](radio = "timely") =>
        \A e \in Drone : <>[]TopLeader(e) => <>[]FollowedByAll(e)

\* A fleet whose leader is gone notices: drones with an ID end up without one.
LeaderLossIsNoticed ==
    <>[](radio = "timely" /\ \A e \in Drone : ~isLeader[e])
        => <>[](\A d \in Drone : fleetHasId(d) => ~fleetHasLeader(d)
                                                 /\ leaderId[d] = FLEET_ID_UNASSIGNED)
=============================================================================
