------------------------- MODULE FleetLeaderProofs -------------------------
(***************************************************************************)
(* Theorems about FleetLeader for every fleet, every number of terms and   *)
(* every behaviour of the mesh.                                            *)
(***************************************************************************)
EXTENDS FleetLeader, TLAPS

\* A leader leads a term it has won itself.
LeadersWon ==
    \A d \in Drone : isLeader[d] => currentTerm[d] \in Term /\ winner[currentTerm[d]] = d

IndInv == TypeOK /\ LeadersWon

\* What a heartbeat or a follower says about a term is the ID of its winner.
WinnersHoldIds == \A t \in Term : winner[t] \in Drone => fleetHasId(winner[t])

HeartbeatsFromWinners ==
    \A d \in Drone : \A m \in inbox[d] :
        winner[m.term] \in Drone /\ m.leaderId = holder[winner[m.term]]

FollowersFollowWinners ==
    \A d \in Drone : leaderId[d] # FLEET_ID_UNASSIGNED =>
        /\ currentTerm[d] \in Term /\ winner[currentTerm[d]] \in Drone
        /\ leaderId[d] = holder[winner[currentTerm[d]]]

AgreeInv ==
    IndInv /\ WinnersHoldIds /\ HeartbeatsFromWinners /\ FollowersFollowWinners

-----------------------------------------------------------------------------
(* Type correctness, and leaders won their terms *)

LEMMA InitInv == Init => IndInv
BY FleetAssumption, LeaderTimingAssumption, BoundAssumption, LeaderRadioAssumption
   DEF Init, Ids!Init, Ids!FLEET_ID_UNASSIGNED, FLEET_ID_UNASSIGNED, IndInv, TypeOK,
       LeadersWon

LEMMA IdStep ==
    ASSUME IndInv, NEW d \in Drone, AcquireId(d) \/ YieldId(d) \/ Lose(d)
    PROVE  IndInv'
<1>1. CASE AcquireId(d)
  <2>1. PICK i \in ID : holder' = [holder EXCEPT ![d] = i]
    BY <1>1 DEF AcquireId, Ids!Acquire
  <2>2. holder' \in [Drone -> 0..FLEET_ID_MAX]
    BY <2>1, FleetAssumption DEF IndInv, TypeOK, ID
  <2> QED
    BY <1>1, <2>2 DEF AcquireId, local, environment, IndInv, TypeOK, LeadersWon
<1>2. CASE YieldId(d)
  <2>1. holder' \in [Drone -> 0..FLEET_ID_MAX]
    BY <1>2, FleetAssumption
       DEF YieldId, Ids!Release, Ids!FLEET_ID_UNASSIGNED, IndInv, TypeOK
  <2>2. idLosses' \in 0..MaxIdLosses
    BY <1>2, BoundAssumption DEF YieldId, IndInv, TypeOK
  <2> QED
    BY <1>2, <2>1, <2>2 DEF YieldId, local, IndInv, TypeOK, LeadersWon
<1>3. CASE Lose(d)
  BY <1>3 DEF Lose, local, environment, IndInv, TypeOK, LeadersWon
<1> QED
  BY <1>1, <1>2, <1>3

LEMMA RebootStep ==
    ASSUME IndInv, NEW d \in Drone, Reboot(d)
    PROVE  IndInv'
<1>1. /\ idLosses' \in 0..MaxIdLosses
      /\ sinceRx' \in [Drone -> 0..LEADER_TIMEOUT]
      /\ sinceTx' \in [Drone -> 0..HEARTBEAT_INTERVAL]
  BY BoundAssumption, LeaderTimingAssumption DEF Reboot, IndInv, TypeOK
<1>2. /\ holder' \in [Drone -> 0..FLEET_ID_MAX]
      /\ leaderId' \in [Drone -> 0..FLEET_ID_MAX]
      /\ currentTerm' \in [Drone -> 0..MaxTerm]
      /\ isLeader' \in [Drone -> BOOLEAN]
  BY BoundAssumption, FleetAssumption DEF Reboot, IndInv, TypeOK, FLEET_ID_UNASSIGNED
<1>3. /\ cachedLiveMask' \in [Drone -> SUBSET ID]
      /\ inbox' \in [Drone -> SUBSET Heartbeat]
  BY DEF Reboot, IndInv, TypeOK
<1>4. LeadersWon'
  BY DEF Reboot, IndInv, TypeOK, LeadersWon
<1> QED
  BY <1>1, <1>2, <1>3, <1>4 DEF Reboot, IndInv, TypeOK

LEMMA TickStep ==
    ASSUME IndInv, Tick
    PROVE  IndInv'
<1>1. /\ sinceRx' \in [Drone -> 0..LEADER_TIMEOUT]
      /\ sinceTx' \in [Drone -> 0..HEARTBEAT_INTERVAL]
  BY LeaderTimingAssumption DEF Tick, AtMost, IndInv, TypeOK
<1> QED
  BY <1>1 DEF Tick, environment, IndInv, TypeOK, LeadersWon

LEMMA ElectionStep ==
    ASSUME IndInv, NEW d \in Drone, NEW t \in Term, BecomeLeader(d, t)
    PROVE  IndInv'
<1>1. t \in 0..MaxTerm
  BY BoundAssumption DEF Term
<1>2. TypeOK'
  BY <1>1, LeaderTimingAssumption DEF BecomeLeader, IndInv, TypeOK
<1>3. LeadersWon'
  <2>1. ASSUME NEW e \in Drone, isLeader'[e]
        PROVE  currentTerm'[e] \in Term /\ winner'[currentTerm'[e]] = e
    <3>1. CASE e = d
      BY <3>1 DEF BecomeLeader, IndInv, TypeOK
    <3>2. CASE e # d
      <4>1. isLeader[e] /\ currentTerm'[e] = currentTerm[e]
        BY <2>1, <3>2 DEF BecomeLeader, IndInv, TypeOK
      <4>2. currentTerm[e] \in Term /\ winner[currentTerm[e]] = e
        BY <4>1 DEF IndInv, LeadersWon
      <4>3. currentTerm[e] # t
        BY <4>2, NoWinnerAssumption DEF BecomeLeader
      <4> QED
        BY <4>1, <4>2, <4>3 DEF BecomeLeader, IndInv, TypeOK
    <3> QED
      BY <3>1, <3>2
  <2> QED
    BY <2>1 DEF LeadersWon
<1> QED
  BY <1>2, <1>3 DEF IndInv

LEMMA UpdateStep ==
    ASSUME IndInv, NEW d \in Drone, Update(d)
    PROVE  IndInv'
<1>1. CASE SendHeartbeat(d)
  <2> DEFINE m == [leaderId |-> holder[d], term |-> currentTerm[d],
                   liveMask |-> fleetMemberMask]
  <2>1. holder[d] \in ID
    BY <1>1, FleetAssumption
       DEF SendHeartbeat, HeartbeatDue, fleetHasId, FLEET_ID_UNASSIGNED, IndInv, TypeOK, ID
  <2>2. currentTerm[d] \in Term
    BY <1>1 DEF SendHeartbeat, HeartbeatDue, IndInv, LeadersWon
  <2>3. fleetMemberMask \in SUBSET ID
    BY FleetAssumption DEF fleetMemberMask, FLEET_ID_UNASSIGNED, IndInv, TypeOK, ID
  <2>4. m \in Heartbeat
    BY <2>1, <2>2, <2>3 DEF Heartbeat
  <2>5. inbox' = [e \in Drone |-> IF e = d THEN inbox[e] ELSE inbox[e] \cup {m}]
    BY <1>1 DEF SendHeartbeat
  <2> HIDE DEF m
  <2>6. inbox' \in [Drone -> SUBSET Heartbeat]
    BY <2>4, <2>5 DEF IndInv, TypeOK
  <2>7. sinceTx' \in [Drone -> 0..HEARTBEAT_INTERVAL]
    BY <1>1, LeaderTimingAssumption DEF SendHeartbeat, IndInv, TypeOK
  <2> QED
    BY <1>1, <2>6, <2>7 DEF SendHeartbeat, environment, IndInv, TypeOK, LeadersWon
<1>2. CASE DropLeader(d)
  BY <1>2, FleetAssumption
     DEF DropLeader, environment, FLEET_ID_UNASSIGNED, IndInv, TypeOK, LeadersWon
<1> QED
  BY <1>1, <1>2 DEF Update

LEMMA ReceiveStep ==
    ASSUME IndInv, NEW d \in Drone, Receive(d)
    PROVE  IndInv'
<1>1. PICK m \in inbox[d] : Handle(d, m)
  BY DEF Receive
<1>2. m.leaderId \in ID /\ m.term \in Term /\ m.liveMask \in SUBSET ID
  BY DEF IndInv, TypeOK, Heartbeat
<1>3. inbox' \in [Drone -> SUBSET Heartbeat] /\ UNCHANGED <<holder, environment>>
  BY DEF Receive, IndInv, TypeOK
<1>4. CASE Accept(d, m)
  <2>1. /\ leaderId' \in [Drone -> 0..FLEET_ID_MAX]
        /\ cachedLiveMask' \in [Drone -> SUBSET ID]
        /\ sinceRx' \in [Drone -> 0..LEADER_TIMEOUT]
        /\ sinceTx' = sinceTx
    <3>1. m.leaderId \in 0..FLEET_ID_MAX /\ 0 \in 0..LEADER_TIMEOUT
      BY <1>2, FleetAssumption, LeaderTimingAssumption DEF ID
    <3>2. /\ leaderId' = [leaderId EXCEPT ![d] = m.leaderId]
          /\ cachedLiveMask' = [cachedLiveMask EXCEPT ![d] = m.liveMask]
          /\ sinceRx' = [sinceRx EXCEPT ![d] = 0]
          /\ sinceTx' = sinceTx
      BY <1>4 DEF Accept
    <3> QED
      BY <1>2, <3>1, <3>2 DEF IndInv, TypeOK
  <2>2. /\ currentTerm' \in [Drone -> 0..MaxTerm]
        /\ isLeader' \in [Drone -> BOOLEAN]
    <3>1. m.term \in 0..MaxTerm
      BY <1>2, BoundAssumption DEF Term
    <3>2. \/ /\ currentTerm' = [currentTerm EXCEPT ![d] = m.term]
             /\ isLeader' = [isLeader EXCEPT ![d] = FALSE]
          \/ UNCHANGED <<currentTerm, isLeader>>
      BY <1>4 DEF Accept, AdoptTerm
    <3> QED
      BY <3>1, <3>2 DEF IndInv, TypeOK
  <2>3. LeadersWon'
    BY <1>3, <1>4 DEF Accept, AdoptTerm, environment, IndInv, TypeOK, LeadersWon
  <2> QED
    BY <1>3, <2>1, <2>2, <2>3 DEF environment, IndInv, TypeOK
<1>5. CASE Ignored(d, m) /\ UNCHANGED local
  BY <1>3, <1>5 DEF local, environment, IndInv, TypeOK, LeadersWon
<1> QED
  BY <1>1, <1>4, <1>5 DEF Handle

LEMMA InvStep == IndInv /\ [Next]_vars => IndInv'
<1> SUFFICES ASSUME IndInv, [Next]_vars PROVE IndInv'
  OBVIOUS
<1>1. CASE Tick
  BY <1>1, TickStep
<1>2. CASE Heal \/ UNCHANGED vars
  BY <1>2 DEF Heal, vars, local, environment, IndInv, TypeOK, LeadersWon
<1>3. ASSUME NEW d \in Drone, AcquireId(d) \/ YieldId(d) \/ Reboot(d) \/ Lose(d)
      PROVE  IndInv'
  BY <1>3, IdStep, RebootStep
<1>4. ASSUME NEW d \in Drone,
             Update(d) \/ Receive(d) \/ \E t \in Term : BecomeLeader(d, t)
      PROVE  IndInv'
  BY <1>4, UpdateStep, ReceiveStep, ElectionStep
<1> QED
  BY <1>1, <1>2, <1>3, <1>4 DEF Next

LEMMA Invariance == Spec => []IndInv
BY InitInv, InvStep, PTL DEF Spec

\* The leadership state keeps its types on every drone, and no heartbeat is ever
\* sent without an ID or for a term nobody has won.
THEOREM TypeCorrect == Spec => []TypeOK
<1>1. IndInv => TypeOK
  BY DEF IndInv
<1> QED
  BY <1>1, Invariance, PTL

\* No two drones lead the same term, whatever the mesh does to their heartbeats and
\* whichever drones restart or change IDs.
THEOREM AtMostOneLeaderPerTerm == Spec => []OneLeaderPerTerm
<1>1. IndInv => OneLeaderPerTerm
  BY DEF IndInv, LeadersWon, OneLeaderPerTerm
<1> QED
  BY <1>1, Invariance, PTL

-----------------------------------------------------------------------------
(* Followers of a term agree, as long as IDs are only acquired *)

KeptIds == IndInv /\ (idLosses = 0 => AgreeInv)

LEMMA AgreeInit == Init => AgreeInv
<1> SUFFICES ASSUME Init PROVE AgreeInv
  OBVIOUS
<1>1. WinnersHoldIds /\ HeartbeatsFromWinners /\ FollowersFollowWinners
  BY NoWinnerAssumption
     DEF Init, WinnersHoldIds, HeartbeatsFromWinners, FollowersFollowWinners
<1> QED
  BY <1>1, InitInv DEF AgreeInv

\* An ID held by the winner of a term stays: nothing but a loss changes it.
LEMMA AcquireAgrees ==
    ASSUME AgreeInv, NEW d \in Drone, AcquireId(d)
    PROVE  (WinnersHoldIds /\ HeartbeatsFromWinners /\ FollowersFollowWinners)'
<1>1. PICK i \in ID : holder[d] = FLEET_ID_UNASSIGNED /\ holder' = [holder EXCEPT ![d] = i]
  BY DEF AcquireId, Ids!Acquire, Ids!FLEET_ID_UNASSIGNED, FLEET_ID_UNASSIGNED
<1>2. UNCHANGED <<winner, inbox, leaderId, currentTerm>>
  BY DEF AcquireId, local, environment
<1>3. \A e \in Drone : holder[e] # FLEET_ID_UNASSIGNED => holder'[e] = holder[e]
  BY <1>1 DEF AgreeInv, IndInv, TypeOK
<1>4. \A t \in Term : winner[t] \in Drone => holder'[winner[t]] = holder[winner[t]]
  BY <1>3 DEF AgreeInv, WinnersHoldIds, fleetHasId
<1>5. \A e \in Drone : \A m \in inbox[e] : m.term \in Term
  BY DEF AgreeInv, IndInv, TypeOK, Heartbeat
<1>6. WinnersHoldIds'
  BY <1>2, <1>4 DEF AgreeInv, WinnersHoldIds, fleetHasId
<1>7. HeartbeatsFromWinners'
  BY <1>2, <1>4, <1>5 DEF AgreeInv, HeartbeatsFromWinners
<1>8. FollowersFollowWinners'
  BY <1>2, <1>4 DEF AgreeInv, FollowersFollowWinners
<1> QED
  BY <1>6, <1>7, <1>8

LEMMA ElectionAgrees ==
    ASSUME AgreeInv, NEW d \in Drone, NEW t \in Term, BecomeLeader(d, t)
    PROVE  (WinnersHoldIds /\ HeartbeatsFromWinners /\ FollowersFollowWinners)'
<1>1. winner[t] = NoWinner /\ fleetHasId(d) /\ UNCHANGED <<holder, inbox>>
  BY DEF BecomeLeader
<1>2. winner' = [winner EXCEPT ![t] = d]
  BY DEF BecomeLeader
<1>3. /\ winner'[t] = d
      /\ \A u \in Term : winner[u] \in Drone => u # t /\ winner'[u] = winner[u]
      /\ \A u \in Term : u # t => winner'[u] = winner[u]
  BY <1>1, <1>2, NoWinnerAssumption DEF AgreeInv, IndInv, TypeOK
<1>4. WinnersHoldIds'
  BY <1>1, <1>3 DEF AgreeInv, WinnersHoldIds, fleetHasId
<1>5. HeartbeatsFromWinners'
  <2>1. \A e \in Drone : \A m \in inbox[e] : m.term \in Term
    BY DEF AgreeInv, IndInv, TypeOK, Heartbeat
  <2> QED
    BY <1>1, <1>3, <2>1 DEF AgreeInv, HeartbeatsFromWinners
<1>6. FollowersFollowWinners'
  <2>1. ASSUME NEW e \in Drone, leaderId'[e] # FLEET_ID_UNASSIGNED
        PROVE  /\ currentTerm'[e] \in Term /\ winner'[currentTerm'[e]] \in Drone
               /\ leaderId'[e] = holder'[winner'[currentTerm'[e]]]
    <3>1. CASE e = d
      BY <1>1, <1>3, <3>1 DEF BecomeLeader, AgreeInv, IndInv, TypeOK
    <3>2. CASE e # d
      <4>1. leaderId'[e] = leaderId[e] /\ currentTerm'[e] = currentTerm[e]
        BY <3>2 DEF BecomeLeader, AgreeInv, IndInv, TypeOK
      <4> QED
        BY <1>1, <1>3, <2>1, <4>1 DEF AgreeInv, FollowersFollowWinners
    <3> QED
      BY <3>1, <3>2
  <2> QED
    BY <2>1 DEF FollowersFollowWinners
<1> QED
  BY <1>4, <1>5, <1>6

LEMMA UpdateAgrees ==
    ASSUME AgreeInv, NEW d \in Drone, Update(d)
    PROVE  (WinnersHoldIds /\ HeartbeatsFromWinners /\ FollowersFollowWinners)'
<1>1. CASE SendHeartbeat(d)
  <2> DEFINE m == [leaderId |-> holder[d], term |-> currentTerm[d],
                   liveMask |-> fleetMemberMask]
  <2>1. winner[m.term] = d /\ m.leaderId = holder[d]
    BY <1>1 DEF SendHeartbeat, HeartbeatDue, AgreeInv, IndInv, LeadersWon
  <2>2. inbox' = [e \in Drone |-> IF e = d THEN inbox[e] ELSE inbox[e] \cup {m}]
    BY <1>1 DEF SendHeartbeat
  <2>3. UNCHANGED <<holder, leaderId, currentTerm, winner>>
    BY <1>1 DEF SendHeartbeat, environment
  <2> HIDE DEF m
  <2>4. HeartbeatsFromWinners'
    BY <2>1, <2>2, <2>3 DEF AgreeInv, HeartbeatsFromWinners
  <2> QED
    BY <2>3, <2>4
       DEF AgreeInv, WinnersHoldIds, FollowersFollowWinners, fleetHasId
<1>2. CASE DropLeader(d)
  BY <1>2 DEF DropLeader, environment, AgreeInv, IndInv, TypeOK, WinnersHoldIds,
              HeartbeatsFromWinners, FollowersFollowWinners, fleetHasId
<1> QED
  BY <1>1, <1>2 DEF Update

LEMMA ReceiveAgrees ==
    ASSUME AgreeInv, NEW d \in Drone, Receive(d)
    PROVE  (WinnersHoldIds /\ HeartbeatsFromWinners /\ FollowersFollowWinners)'
<1>1. PICK m \in inbox[d] : Handle(d, m)
  BY DEF Receive
<1>2. UNCHANGED <<holder, winner>>
  BY DEF Receive, environment
<1>3. \A e \in Drone : inbox'[e] \subseteq inbox[e]
  BY DEF Receive, AgreeInv, IndInv, TypeOK
<1>4. /\ m.term \in Term /\ winner[m.term] \in Drone
      /\ m.leaderId = holder[winner[m.term]]
  BY DEF AgreeInv, IndInv, TypeOK, Heartbeat, HeartbeatsFromWinners
<1>5. WinnersHoldIds' /\ HeartbeatsFromWinners'
  BY <1>2, <1>3 DEF AgreeInv, WinnersHoldIds, HeartbeatsFromWinners, fleetHasId
<1>6. CASE Accept(d, m)
  <2>1. currentTerm' = [currentTerm EXCEPT ![d] = m.term]
    <3>1. currentTerm[d] \in Nat /\ m.term \in Nat /\ ~(m.term < currentTerm[d])
      BY <1>4, <1>6, BoundAssumption DEF Accept, Ignored, AgreeInv, IndInv, TypeOK, Term
    <3>2. CASE m.term > currentTerm[d]
      BY <1>6, <3>2 DEF Accept, AdoptTerm
    <3>3. CASE m.term = currentTerm[d]
      BY <1>6, <3>3 DEF Accept, AdoptTerm, AgreeInv, IndInv, TypeOK
    <3> QED
      BY <3>1, <3>2, <3>3
  <2>2. leaderId' = [leaderId EXCEPT ![d] = m.leaderId]
    BY <1>6 DEF Accept
  <2>3. FollowersFollowWinners'
    BY <1>2, <1>4, <2>1, <2>2 DEF AgreeInv, IndInv, TypeOK, FollowersFollowWinners
  <2> QED
    BY <1>5, <2>3
<1>7. CASE Ignored(d, m) /\ UNCHANGED local
  BY <1>2, <1>5, <1>7 DEF local, AgreeInv, FollowersFollowWinners
<1> QED
  BY <1>1, <1>6, <1>7 DEF Handle

LEMMA AgreeStep == ASSUME AgreeInv, [Next]_vars, idLosses' = 0 PROVE AgreeInv'
<1>1. IndInv'
  BY InvStep DEF AgreeInv
<1> SUFFICES (WinnersHoldIds /\ HeartbeatsFromWinners /\ FollowersFollowWinners)'
  BY <1>1 DEF AgreeInv
<1>2. CASE Tick \/ Heal \/ UNCHANGED vars
  BY <1>2 DEF Tick, Heal, vars, local, environment, AgreeInv, WinnersHoldIds,
              HeartbeatsFromWinners, FollowersFollowWinners, fleetHasId
<1>3. ASSUME NEW d \in Drone, YieldId(d) \/ Reboot(d)
      PROVE  FALSE
  BY <1>3, BoundAssumption DEF YieldId, Reboot, AgreeInv, IndInv, TypeOK
<1>4. ASSUME NEW d \in Drone, Lose(d)
      PROVE  (WinnersHoldIds /\ HeartbeatsFromWinners /\ FollowersFollowWinners)'
  <2>1. \A e \in Drone : inbox'[e] \subseteq inbox[e]
    BY <1>4 DEF Lose, AgreeInv, IndInv, TypeOK
  <2> QED
    BY <1>4, <2>1 DEF Lose, local, environment, AgreeInv, WinnersHoldIds,
                      HeartbeatsFromWinners, FollowersFollowWinners, fleetHasId
<1> QED
  BY <1>2, <1>3, <1>4, AcquireAgrees, ElectionAgrees, UpdateAgrees, ReceiveAgrees DEF Next

LEMMA KeptStep == ASSUME KeptIds, [Next]_vars PROVE KeptIds'
<1>1. IndInv'
  BY InvStep DEF KeptIds
<1>2. ASSUME idLosses' = 0 PROVE AgreeInv'
  <2>1. idLosses = 0
    <3>1. idLosses \in Nat
      BY BoundAssumption DEF KeptIds, IndInv, TypeOK
    <3>2. idLosses' = idLosses \/ idLosses' = idLosses + 1
      BY DEF Next, vars, environment, local, Tick, Heal, AcquireId, YieldId, Reboot, Lose,
             Update, SendHeartbeat, DropLeader, Receive, BecomeLeader
    <3> QED
      BY <1>2, <3>1, <3>2
  <2> QED
    BY <1>2, <2>1, AgreeStep DEF KeptIds
<1> QED
  BY <1>1, <1>2 DEF KeptIds

\* Followers of one term follow the same drone, under any loss, duplication and
\* reordering of heartbeats, for as long as the drones keep the IDs they have.
THEOREM FollowersAgree == Spec => []SameTermSameLeader
<1>1. Init => KeptIds
  BY AgreeInit, InitInv DEF KeptIds
<1>2. KeptIds /\ [Next]_vars => KeptIds'
  BY KeptStep
<1>3. KeptIds => SameTermSameLeader
  BY DEF KeptIds, AgreeInv, FollowersFollowWinners, SameTermSameLeader
<1> QED
  BY <1>1, <1>2, <1>3, PTL DEF Spec

-----------------------------------------------------------------------------
(* A follower keeps a leader that leads *)

UniqueIds ==
    \A d, e \in Drone : holder[d] = holder[e] /\ fleetHasId(d) => d = e

LEMMA UniqueStep ==
    ASSUME TypeOK, UniqueIds, [Next]_vars
    PROVE  UniqueIds'
<1>1. CASE UNCHANGED holder
  BY <1>1 DEF UniqueIds, fleetHasId
<1>2. ASSUME NEW d \in Drone, AcquireId(d)
      PROVE  UniqueIds'
  <2>1. PICK i \in ID : (\A e \in Drone : holder[e] # i) /\ holder' = [holder EXCEPT ![d] = i]
    BY <1>2 DEF AcquireId, Ids!Acquire
  <2> QED
    BY <2>1 DEF TypeOK, UniqueIds, fleetHasId
<1>3. ASSUME NEW d \in Drone, YieldId(d) \/ Reboot(d)
      PROVE  UniqueIds'
  <2>1. holder' = [holder EXCEPT ![d] = FLEET_ID_UNASSIGNED]
    BY <1>3 DEF YieldId, Reboot, Ids!Release, Ids!FLEET_ID_UNASSIGNED, FLEET_ID_UNASSIGNED
  <2> QED
    BY <2>1 DEF TypeOK, UniqueIds, fleetHasId
<1>4. \/ UNCHANGED holder
      \/ \E d \in Drone : AcquireId(d) \/ YieldId(d) \/ Reboot(d)
  BY DEF Next, vars, Tick, Heal, Lose, Update, SendHeartbeat, DropLeader, Receive,
         BecomeLeader
<1> QED
  BY <1>1, <1>2, <1>3, <1>4

\* The steps that a follower could lose its leader by.

LEMMA TickUpToDate ==
    ASSUME TypeOK, NEW d \in Drone, NEW e \in Drone, Follows(d, e), UpToDate(d, e),
           radio = "timely", Tick
    PROVE  fleetHasLeader(d)' /\ UpToDate(d, e)'
<1>1. inbox[d] = {} /\ ~HeartbeatDue(e) /\ leaderId' = leaderId
  BY DEF Tick
<1>2. /\ sinceRx[d] \in Nat /\ sinceTx[e] \in Nat
      /\ LEADER_TIMEOUT \in Nat /\ HEARTBEAT_INTERVAL \in Nat
      /\ HEARTBEAT_INTERVAL < LEADER_TIMEOUT
  BY LeaderTimingAssumption DEF TypeOK
<1>3. sinceRx[d] <= sinceTx[e] /\ sinceTx[e] < HEARTBEAT_INTERVAL
  BY <1>1, <1>2 DEF UpToDate, HeartbeatDue, Follows
<1>4. sinceRx'[d] = sinceRx[d] + 1 /\ sinceTx'[e] = sinceTx[e] + 1
  BY <1>2, <1>3 DEF Tick, AtMost
<1>5. leaderId[d] # FLEET_ID_UNASSIGNED
  BY DEF Follows, fleetHasId
<1> QED
  BY <1>1, <1>2, <1>3, <1>4, <1>5 DEF UpToDate, fleetHasLeader

LEMMA SendUpToDate ==
    ASSUME TypeOK, NEW d \in Drone, NEW e \in Drone, Follows(d, e), UpToDate(d, e),
           NEW s \in Drone, SendHeartbeat(s)
    PROVE  UpToDate(d, e)'
<1>1. UNCHANGED <<holder, currentTerm, sinceRx>>
  BY DEF SendHeartbeat
<1> DEFINE m == [leaderId |-> holder[s], term |-> currentTerm[s],
                 liveMask |-> fleetMemberMask]
<1>2. inbox' = [f \in Drone |-> IF f = s THEN inbox[f] ELSE inbox[f] \cup {m}]
  BY DEF SendHeartbeat
<1>3. m.leaderId = holder[s] /\ m.term = currentTerm[s]
  OBVIOUS
<1> HIDE DEF m
<1>4. inbox[d] \subseteq inbox'[d] /\ (s # d => m \in inbox'[d])
  BY <1>2
<1>5. CASE s = e
  <2>1. s # d
    BY <1>5 DEF Follows
  <2> QED
    BY <1>1, <1>3, <1>4, <1>5, <2>1 DEF UpToDate
<1>6. CASE s # e
  <2>1. sinceTx'[e] = sinceTx[e]
    BY <1>6 DEF SendHeartbeat, TypeOK
  <2> QED
    BY <1>1, <1>4, <2>1 DEF UpToDate
<1> QED
  BY <1>5, <1>6

LEMMA ReceiveUpToDate ==
    ASSUME TypeOK, UniqueIds, NEW d \in Drone, NEW e \in Drone,
           Follows(d, e), UpToDate(d, e), radio = "timely", NEW r \in Drone, Receive(r)
    PROVE  fleetHasLeader(d)' /\ (Follows(d, e)' => UpToDate(d, e)')
<1>1. PICK m \in inbox[r] : Handle(r, m) /\ inbox' = [inbox EXCEPT ![r] = @ \ {m}]
  BY DEF Receive
<1>2. holder' = holder
  BY DEF Receive
<1>3. /\ sinceRx[d] \in Nat /\ sinceTx[e] \in Nat /\ LEADER_TIMEOUT \in Nat \ {0}
      /\ leaderId[d] # FLEET_ID_UNASSIGNED
  BY LeaderTimingAssumption DEF TypeOK, Follows, fleetHasId
<1>4. CASE r = d /\ Accept(r, m)
  <2>1. m.leaderId # FLEET_ID_UNASSIGNED
    BY DEF TypeOK, Heartbeat, ID, FLEET_ID_UNASSIGNED
  <2>2. leaderId'[d] = m.leaderId /\ sinceRx'[d] = 0 /\ sinceTx'[e] = sinceTx[e]
    BY <1>4 DEF Accept, TypeOK
  <2> QED
    BY <1>3, <2>1, <2>2 DEF fleetHasLeader, UpToDate
<1>5. CASE r = d /\ ~Accept(r, m)
  <2>1. Ignored(d, m) /\ UNCHANGED local
    BY <1>1, <1>5 DEF Handle
  <2>2. ~(m.leaderId = holder[e] /\ m.term = currentTerm[e])
    <3>1. holder[d] # holder[e] /\ currentTerm[d] = currentTerm[e] /\ currentTerm[d] \in Int
      BY BoundAssumption DEF UniqueIds, Follows, TypeOK
    <3> QED
      BY <2>1, <3>1 DEF Ignored, Follows
  <2>3. inbox'[d] = inbox[d] \ {m}
    BY <1>1, <1>5 DEF TypeOK
  <2> QED
    BY <1>2, <1>3, <2>1, <2>2, <2>3 DEF local, UpToDate, fleetHasLeader
<1>6. CASE r # d
  <2>1. inbox'[d] = inbox[d]
    BY <1>1, <1>6 DEF TypeOK
  <2>2. leaderId'[d] = leaderId[d] /\ sinceRx'[d] = sinceRx[d] /\ sinceTx' = sinceTx
    BY <1>1, <1>6 DEF Handle, Accept, local, TypeOK
  <2>3. currentTerm'[d] = currentTerm[d]
    BY <1>1, <1>6 DEF Handle, Accept, AdoptTerm, local, TypeOK
  <2>4. fleetHasLeader(d)'
    BY <1>3, <2>2 DEF fleetHasLeader, UpToDate
  <2>5. Follows(d, e)' => currentTerm'[e] = currentTerm[e]
    BY <2>3 DEF Follows
  <2> QED
    BY <1>2, <2>1, <2>2, <2>4, <2>5 DEF UpToDate
<1> QED
  BY <1>4, <1>5, <1>6

LEMMA LeaderKept ==
    ASSUME TypeOK, UniqueIds, [Next]_vars, NEW d \in Drone, NEW e \in Drone,
           radio = "timely", Follows(d, e), UpToDate(d, e),
           isLeader'[e], currentTerm'[e] = currentTerm[e],
           holder'[e] = holder[e], holder'[d] = holder[d]
    PROVE  fleetHasLeader(d)' /\ (Follows(d, e)' => UpToDate(d, e)')
<1>1. /\ leaderId[d] # FLEET_ID_UNASSIGNED /\ sinceRx[d] < LEADER_TIMEOUT
      /\ fleetHasId(d)
  BY DEF Follows, fleetHasId, UpToDate
<1>2. CASE Tick
  BY <1>2, TickUpToDate
<1>3. CASE /\ leaderId'[d] = leaderId[d] /\ sinceRx'[d] = sinceRx[d]
           /\ sinceTx'[e] = sinceTx[e] /\ inbox'[d] = inbox[d]
  BY <1>1, <1>3 DEF UpToDate, fleetHasLeader
<1>4. CASE Heal \/ UNCHANGED vars
  BY <1>3, <1>4 DEF Heal, vars, local
<1>5. ASSUME NEW f \in Drone, AcquireId(f) \/ YieldId(f) \/ Lose(f)
      PROVE  fleetHasLeader(d)' /\ (Follows(d, e)' => UpToDate(d, e)')
  BY <1>3, <1>5 DEF AcquireId, YieldId, Lose, local
<1>6. ASSUME NEW f \in Drone, Reboot(f)
      PROVE  fleetHasLeader(d)' /\ (Follows(d, e)' => UpToDate(d, e)')
  <2>1. f # d /\ f # e
    BY <1>1, <1>6 DEF Reboot, TypeOK, fleetHasId
  <2> QED
    BY <1>3, <1>6, <2>1 DEF Reboot, TypeOK
<1>7. ASSUME NEW f \in Drone, SendHeartbeat(f)
      PROVE  fleetHasLeader(d)' /\ (Follows(d, e)' => UpToDate(d, e)')
  <2>1. leaderId' = leaderId /\ sinceRx' = sinceRx
    BY <1>7 DEF SendHeartbeat
  <2> QED
    BY <1>1, <1>7, <2>1, SendUpToDate DEF fleetHasLeader
<1>8. ASSUME NEW f \in Drone, DropLeader(f)
      PROVE  fleetHasLeader(d)' /\ (Follows(d, e)' => UpToDate(d, e)')
  <2>1. f # d
    BY <1>1, <1>8, LeaderTimingAssumption DEF DropLeader, LeaderSilent, TypeOK
  <2> QED
    BY <1>3, <1>8, <2>1 DEF DropLeader, TypeOK
<1>9. ASSUME NEW f \in Drone, NEW t \in Term, BecomeLeader(f, t)
      PROVE  fleetHasLeader(d)' /\ (Follows(d, e)' => UpToDate(d, e)')
  <2>1. CASE f = d
    <3>1. isLeader'[d]
      BY <1>9, <2>1 DEF BecomeLeader, TypeOK
    <3> QED
      BY <3>1 DEF fleetHasLeader, Follows
  <2>2. CASE f = e
    BY <1>9, <2>2, BoundAssumption DEF BecomeLeader, TypeOK, Term
  <2>3. CASE f # d /\ f # e
    BY <1>3, <1>9, <2>3 DEF BecomeLeader, TypeOK
  <2> QED
    BY <2>1, <2>2, <2>3
<1>10. ASSUME NEW f \in Drone, Receive(f)
       PROVE  fleetHasLeader(d)' /\ (Follows(d, e)' => UpToDate(d, e)')
  BY <1>10, ReceiveUpToDate
<1> QED
  BY <1>2, <1>4, <1>5, <1>6, <1>7, <1>8, <1>9, <1>10 DEF Next, Update

\* The timeout never races a heartbeat of a leader that leads: on a timely mesh a
\* follower that is up to date keeps its leader (fleet_leader.c:140-145).
THEOREM LeadersAreNotMissed == Spec => NoFalseLeaderLoss
<1>1. Init => UniqueIds
  BY DEF Init, Ids!Init, Ids!FLEET_ID_UNASSIGNED, UniqueIds, fleetHasId, FLEET_ID_UNASSIGNED
<1>2. IndInv /\ UniqueIds /\ [Next]_vars => UniqueIds'
  BY UniqueStep DEF IndInv
<1>3. IndInv /\ UniqueIds /\ [Next]_vars =>
        [\A d, e \in Drone :
            /\ radio = "timely" /\ Follows(d, e) /\ UpToDate(d, e)
            /\ isLeader'[e] /\ currentTerm'[e] = currentTerm[e]
            /\ holder'[e] = holder[e] /\ holder'[d] = holder[d]
            => fleetHasLeader(d)' /\ (Follows(d, e)' => UpToDate(d, e)')]_vars
  BY LeaderKept DEF IndInv
<1> QED
  BY <1>1, <1>2, <1>3, Invariance, PTL DEF Spec, NoFalseLeaderLoss
=============================================================================
