--------------------------- MODULE FleetIdProofs ---------------------------
(***************************************************************************)
(* Theorems about FleetId for every fleet, every assignment of UIDs and    *)
(* every choice of the intervals: TypeCorrect and LowestUidWins for every  *)
(* behaviour of the mesh, the others for a timely one (TimelyMesh).        *)
(***************************************************************************)
EXTENDS FleetId, TLAPS, WellFoundedInduction

\* What makes TypeOK inductive: a drone still probing has probes left to send.
ProbesLeft == \A d \in Drone : state[d] = "PROBING" => probesSent[d] < PROBE_COUNT

IndInv == TypeOK /\ ProbesLeft

-----------------------------------------------------------------------------
(* Helpers *)

\* A non-empty set of IDs has a member nearest to the start of d's search.
LEMMA NearestExists ==
    ASSUME NEW d \in Drone, NEW free \in SUBSET ID, free # {}
    PROVE  \E i \in free : \A j \in free : Offset(d, i) <= Offset(d, j)
<1> DEFINE T == {Offset(d, i) : i \in free}
<1>1. \A i \in ID : Offset(d, i) \in Nat
  BY IdMaxAssumption, UidAssumption DEF ID, Offset
<1>2. T \subseteq Nat /\ T # {}
  BY <1>1
<1>3. PICK x \in T : \A y \in T : <<y, x>> \notin OpToRel(<, Nat)
  BY <1>2, NatLessThanWellFounded, WFMin
<1>4. \A y \in T : ~(y < x)
  BY <1>2, <1>3 DEF OpToRel
<1>5. PICK i \in free : x = Offset(d, i)
  OBVIOUS
<1>6. ASSUME NEW j \in free PROVE Offset(d, i) <= Offset(d, j)
  BY <1>1, <1>4, <1>5
<1> QED
  BY <1>6

\* pickCandidateId returns an ID that is not observed, or 0 when there is none.
LEMMA PickCandidate ==
    ASSUME NEW d \in Drone, NEW observed \in SUBSET ID
    PROVE  /\ pickCandidateId(d, observed) \in 0..FLEET_ID_MAX
           /\ pickCandidateId(d, observed) \notin observed
<1> DEFINE free == ID \ observed
<1>1. CASE free = {}
  BY <1>1, IdMaxAssumption DEF pickCandidateId, FLEET_ID_UNASSIGNED, ID
<1>2. CASE free # {}
  <2>1. \E i \in free : \A j \in free : Offset(d, i) <= Offset(d, j)
    BY <1>2, NearestExists
  <2>2. pickCandidateId(d, observed) =
          CHOOSE i \in free : \A j \in free : Offset(d, i) <= Offset(d, j)
    BY <1>2 DEF pickCandidateId
  <2>3. pickCandidateId(d, observed) \in free
    BY <2>1, <2>2
  <2> QED
    BY <2>3, IdMaxAssumption DEF ID
<1> QED
  BY <1>1, <1>2

LEMMA StaggerInRange ==
    ASSUME NEW d \in Drone
    PROVE  Stagger(d) \in 0..ANNOUNCE_INTERVAL
BY UidAssumption, TimingAssumption DEF Stagger

LEMMA AtMostInRange ==
    ASSUME NEW n \in Nat, NEW limit \in Nat
    PROVE  AtMost(n, limit) \in 0..limit
BY DEF AtMost

\* The claims a drone sends are well formed and carry its own UID.
LEMMA ClaimTyped ==
    ASSUME TypeOK, NEW d \in Drone, NEW s \in State
    PROVE  ClaimOf(d, s) \in Claim
BY DEF TypeOK, ClaimOf, Claim

LEMMA BroadcastTyped ==
    ASSUME NEW d \in Drone, NEW claims \in SUBSET Claim,
           NEW boxes \in [Drone -> SUBSET Claim]
    PROVE  Broadcast(d, claims, boxes) \in [Drone -> SUBSET Claim]
BY DEF Broadcast

-----------------------------------------------------------------------------
(* Type correctness *)

LEMMA InitTyped == Init => IndInv
BY IdMaxAssumption, TimingAssumption, RadioAssumption, BootAssumption
   DEF Init, IndInv, TypeOK, ProbesLeft, FLEET_ID_UNASSIGNED, State

LEMMA BootTyped ==
    ASSUME IndInv, NEW d \in Drone, Boot(d)
    PROVE  IndInv'
<1>1. PICK elapsed \in BootDelay :
        sinceTx' = [sinceTx EXCEPT ![d] = AtMost(elapsed + Stagger(d), ANNOUNCE_INTERVAL)]
  BY DEF Boot
<1>2. AtMost(elapsed + Stagger(d), ANNOUNCE_INTERVAL) \in 0..ANNOUNCE_INTERVAL
  <2>1. elapsed + Stagger(d) \in Nat
    BY StaggerInRange, BootAssumption, TimingAssumption
  <2> QED
    BY <2>1, AtMostInRange, TimingAssumption
<1>3. pickCandidateId(d, {}) \in 0..FLEET_ID_MAX
  BY PickCandidate
<1> QED
  BY <1>1, <1>2, <1>3, TimingAssumption
     DEF IndInv, TypeOK, ProbesLeft, Boot, enterProbing, State

LEMMA CrashTyped ==
    ASSUME IndInv, NEW d \in Drone, Crash(d)
    PROVE  IndInv'
<1>1. /\ up' \in [Drone -> BOOLEAN]
      /\ nodeId' \in [Drone -> 0..FLEET_ID_MAX]
      /\ state' \in [Drone -> State]
      /\ probesSent' \in [Drone -> 0..PROBE_COUNT]
  BY IdMaxAssumption, TimingAssumption
     DEF IndInv, TypeOK, Crash, enterProbing, State, FLEET_ID_UNASSIGNED
<1>2. /\ sinceTx' \in [Drone -> 0..ANNOUNCE_INTERVAL]
      /\ observedIds' \in [Drone -> SUBSET ID]
      /\ inbox' \in [Drone -> SUBSET Claim]
      /\ radio' \in {"lossy", "timely"}
      /\ crashes' \in 0..MaxCrashes
  BY TimingAssumption, BootAssumption DEF IndInv, TypeOK, Crash
<1>3. sinceHeard' \in [Drone -> [ID -> 0..MEMBER_TIMEOUT]]
  BY TimingAssumption DEF IndInv, TypeOK, Crash
<1>4. ProbesLeft'
  BY TimingAssumption DEF IndInv, TypeOK, ProbesLeft, Crash, enterProbing
<1> QED
  BY <1>1, <1>2, <1>3, <1>4 DEF IndInv, TypeOK

LEMMA RadioTyped ==
    ASSUME IndInv, Heal \/ \E d \in Drone : Lose(d) \/ ReceiveEcho(d)
    PROVE  IndInv'
BY DEF IndInv, TypeOK, ProbesLeft, Heal, Lose, ReceiveEcho, local

LEMMA TickTyped ==
    ASSUME IndInv, Tick
    PROVE  IndInv'
<1>1. sinceTx' \in [Drone -> 0..ANNOUNCE_INTERVAL]
  BY TimingAssumption DEF IndInv, TypeOK, Tick, AtMost
<1>2. sinceHeard' \in [Drone -> [ID -> 0..MEMBER_TIMEOUT]]
  BY TimingAssumption DEF IndInv, TypeOK, Tick, AtMost
<1> QED
  BY <1>1, <1>2 DEF IndInv, TypeOK, ProbesLeft, Tick

\* A handled claim, whether or not the mesh keeps a copy of it in flight.
LEMMA HandleClaimTyped ==
    ASSUME IndInv, NEW d \in Drone, NEW m \in Claim,
           NEW boxes \in [Drone -> SUBSET Claim],
           HandleClaim(d, m, boxes),
           UNCHANGED <<up, radio, crashes>>
    PROVE  IndInv'
<1> DEFINE heard == IF m.nodeId \in ID THEN {m.nodeId} ELSE {}
           observed == observedIds[d] \cup heard
           conflict == m.nodeId = nodeId[d]
           yields == conflict /\ remoteOutranksUs(d, m)
           defends == conflict /\ ~yields /\ state[d] = "CLAIMED"
<1>1. observedIds' = [observedIds EXCEPT ![d] = observed]
  BY DEF HandleClaim
<1>2. sinceHeard' = [sinceHeard EXCEPT ![d] = AgesAfterHearing(d, heard)]
  BY DEF HandleClaim
<1>3. IF yields THEN enterProbing(d, pickCandidateId(d, observed))
                ELSE UNCHANGED <<nodeId, state, probesSent>>
  BY DEF HandleClaim
<1>4. sinceTx' = CASE yields  -> [sinceTx EXCEPT ![d] = Stagger(d)]
                   [] defends -> [sinceTx EXCEPT ![d] = 0]
                   [] OTHER   -> sinceTx
  BY DEF HandleClaim
<1>5. inbox' = IF defends THEN Broadcast(d, {ClaimOf(d, "CLAIMED")}, boxes) ELSE boxes
  BY DEF HandleClaim
<1>6. observed \in SUBSET ID
  BY DEF IndInv, TypeOK
<1>7. observedIds' \in [Drone -> SUBSET ID]
  BY <1>1, <1>6 DEF IndInv, TypeOK
<1>8. sinceHeard' \in [Drone -> [ID -> 0..MEMBER_TIMEOUT]]
  <2>1. AgesAfterHearing(d, heard) \in [ID -> 0..MEMBER_TIMEOUT]
    BY TimingAssumption DEF IndInv, TypeOK, AgesAfterHearing
  <2> QED
    BY <1>2, <2>1 DEF IndInv, TypeOK
<1>9. /\ nodeId' \in [Drone -> 0..FLEET_ID_MAX]
      /\ state' \in [Drone -> State]
      /\ probesSent' \in [Drone -> 0..PROBE_COUNT]
      /\ ProbesLeft'
  <2> HIDE DEF observed
  <2>1. pickCandidateId(d, observed) \in 0..FLEET_ID_MAX
    BY <1>6, PickCandidate
  <2>2. CASE yields
    <3>1. PICK c \in 0..FLEET_ID_MAX : enterProbing(d, c)
      BY <1>3, <2>1, <2>2
    <3>2. /\ nodeId' = [nodeId EXCEPT ![d] = c]
          /\ state' = [state EXCEPT ![d] = "PROBING"]
          /\ probesSent' = [probesSent EXCEPT ![d] = 0]
      BY <3>1 DEF enterProbing
    <3> HIDE DEF heard, conflict, yields, defends
    <3> QED
      BY <3>2, TimingAssumption DEF IndInv, TypeOK, ProbesLeft, State
  <2>3. CASE ~yields
    BY <1>3, <2>3 DEF IndInv, TypeOK, ProbesLeft
  <2> QED
    BY <2>2, <2>3
<1>10. sinceTx' \in [Drone -> 0..ANNOUNCE_INTERVAL]
  <2>1. Stagger(d) \in 0..ANNOUNCE_INTERVAL /\ 0 \in 0..ANNOUNCE_INTERVAL
    BY StaggerInRange, TimingAssumption
  <2>2. \/ sinceTx' = [sinceTx EXCEPT ![d] = Stagger(d)]
        \/ sinceTx' = [sinceTx EXCEPT ![d] = 0]
        \/ sinceTx' = sinceTx
    BY <1>4
  <2> QED
    BY <2>1, <2>2 DEF IndInv, TypeOK
<1>11. inbox' \in [Drone -> SUBSET Claim]
  <2>1. ClaimOf(d, "CLAIMED") \in Claim
    BY ClaimTyped DEF IndInv, State
  <2>2. Broadcast(d, {ClaimOf(d, "CLAIMED")}, boxes) \in [Drone -> SUBSET Claim]
    BY <2>1, BroadcastTyped
  <2> QED
    BY <1>5, <2>2
<1> QED
  BY <1>7, <1>8, <1>9, <1>10, <1>11 DEF IndInv, TypeOK

LEMMA ReceiveTyped ==
    ASSUME IndInv, NEW d \in Drone, Receive(d)
    PROVE  IndInv'
<1>1. PICK m \in inbox[d] :
        \/ HandleClaim(d, m, [inbox EXCEPT ![d] = @ \ {m}])
        \/ HandleClaim(d, m, inbox)
  BY DEF Receive
<1>2. m \in Claim
  BY DEF IndInv, TypeOK
<1>3. /\ inbox \in [Drone -> SUBSET Claim]
      /\ [inbox EXCEPT ![d] = @ \ {m}] \in [Drone -> SUBSET Claim]
  BY DEF IndInv, TypeOK
<1>4. UNCHANGED <<up, radio, crashes>>
  BY DEF Receive
<1> QED
  BY <1>1, <1>2, <1>3, <1>4, HandleClaimTyped

LEMMA UpdateTyped ==
    ASSUME IndInv, NEW d \in Drone, Update(d)
    PROVE  IndInv'
<1>1. ASSUME ageObservedIds(d)
      PROVE  /\ observedIds' \in [Drone -> SUBSET ID]
             /\ sinceHeard' \in [Drone -> [ID -> 0..MEMBER_TIMEOUT]]
  BY <1>1 DEF IndInv, TypeOK, ageObservedIds
<1>2. ASSUME NEW S \in SUBSET State
      PROVE  Broadcast(d, {ClaimOf(d, s) : s \in S}, inbox) \in [Drone -> SUBSET Claim]
  <2>1. \A s \in S : ClaimOf(d, s) \in Claim
    BY ClaimTyped DEF IndInv
  <2>2. {ClaimOf(d, s) : s \in S} \in SUBSET Claim
    BY <2>1
  <2>3. inbox \in [Drone -> SUBSET Claim]
    BY DEF IndInv, TypeOK
  <2> QED
    BY <2>2, <2>3, BroadcastTyped
<1>3. 0 \in 0..ANNOUNCE_INTERVAL
  BY TimingAssumption
<1>4. CASE SendProbe(d)
  <2>1. inbox' \in [Drone -> SUBSET Claim]
    BY <1>2, <1>4 DEF SendProbe, State
  <2>2. /\ state' \in [Drone -> State]
        /\ probesSent' \in [Drone -> 0..PROBE_COUNT]
        /\ ProbesLeft'
    BY <1>4, TimingAssumption DEF IndInv, TypeOK, ProbesLeft, SendProbe, Settles, State
  <2>3. ageObservedIds(d)
    BY <1>4 DEF SendProbe
  <2>4. sinceTx' \in [Drone -> 0..ANNOUNCE_INTERVAL]
    BY <1>3, <1>4 DEF SendProbe, IndInv, TypeOK
  <2>5. UNCHANGED <<up, nodeId, radio, crashes>>
    BY <1>4 DEF SendProbe
  <2> QED
    BY <1>1, <2>1, <2>2, <2>3, <2>4, <2>5 DEF IndInv, TypeOK
<1>5. CASE Announce(d)
  <2>1. inbox' \in [Drone -> SUBSET Claim]
    <3>1. {ClaimOf(d, "CLAIMED")} = {ClaimOf(d, s) : s \in {"CLAIMED"}}
      OBVIOUS
    <3> QED
      BY <1>2, <1>5, <3>1 DEF Announce, State
  <2>2. ageObservedIds(d)
    BY <1>5 DEF Announce
  <2>3. sinceTx' \in [Drone -> 0..ANNOUNCE_INTERVAL]
    BY <1>3, <1>5 DEF Announce, IndInv, TypeOK
  <2>4. UNCHANGED <<up, nodeId, state, probesSent, radio, crashes>>
    BY <1>5 DEF Announce
  <2> QED
    BY <1>1, <2>1, <2>2, <2>3, <2>4 DEF IndInv, TypeOK, ProbesLeft
<1>6. CASE AgeOnly(d)
  BY <1>1, <1>6 DEF AgeOnly, IndInv, TypeOK, ProbesLeft
<1> QED
  BY <1>4, <1>5, <1>6 DEF Update

LEMMA StepTyped == IndInv /\ [Next]_vars => IndInv'
<1> SUFFICES ASSUME IndInv, [Next]_vars PROVE IndInv'
  OBVIOUS
<1>1. CASE Tick
  BY <1>1, TickTyped
<1>2. CASE Heal
  BY <1>2, RadioTyped
<1>3. ASSUME NEW d \in Drone, Boot(d) \/ Crash(d) \/ Lose(d) PROVE IndInv'
  BY <1>3, BootTyped, CrashTyped, RadioTyped
<1>4. ASSUME NEW d \in Drone, Receive(d) \/ ReceiveEcho(d) \/ Update(d) PROVE IndInv'
  BY <1>4, ReceiveTyped, RadioTyped, UpdateTyped
<1>5. CASE UNCHANGED vars
  BY <1>5 DEF IndInv, TypeOK, ProbesLeft, vars, local
<1> QED
  BY <1>1, <1>2, <1>3, <1>4, <1>5 DEF Next

\* Every drone's ID stays within 0..FLEET_ID_MAX, its timers within their
\* thresholds and its probe counter within PROBE_COUNT, however claims are lost,
\* duplicated and reordered and boards lose power.
THEOREM TypeCorrect == Spec => []TypeOK
<1>1. Spec => []IndInv
  BY InitTyped, StepTyped, PTL DEF Spec
<1>2. IndInv => TypeOK
  BY DEF IndInv
<1> QED
  BY <1>1, <1>2, PTL

-----------------------------------------------------------------------------
(* Lowest UID wins *)

\* No claim makes the drone with the lowest UID yield an ID it has settled on.
LEMMA LowestNeverOutranked ==
    ASSUME TypeOK, NEW d \in Drone, Lowest(d), state[d] = "CLAIMED",
           NEW m \in Claim, m.uid # Uid[d]
    PROVE  ~remoteOutranksUs(d, m)
<1>1. PICK e \in Drone : m.uid = Uid[e]
  BY DEF Claim
<1>2. Uid[d] < Uid[e] /\ Uid[d] \in Nat /\ Uid[e] \in Nat
  BY <1>1, UidAssumption DEF Lowest
<1>3. ~(m.uid < Uid[d])
  BY <1>1, <1>2
<1>4. m.state \in {"PROBING", "CLAIMED"}
  BY DEF Claim, State
<1> QED
  BY <1>3, <1>4 DEF remoteOutranksUs

\* One step of the system, from a state in which d has settled.
LEMMA LowestStep ==
    ASSUME TypeOK, [Next]_vars, NEW d \in Drone, Lowest(d), fleetHasId(d), up'[d]
    PROVE  HeldId'[d] = nodeId[d]
<1> USE DEF fleetHasId
<1>1. nodeId'[d] = nodeId[d] /\ state'[d] = "CLAIMED"
  <2>1. CASE Tick \/ Heal \/ UNCHANGED vars
    BY <2>1 DEF Tick, Heal, vars, local
  <2>2. ASSUME NEW e \in Drone, Boot(e) \/ Crash(e) \/ Lose(e)
        PROVE  nodeId'[d] = nodeId[d] /\ state'[d] = "CLAIMED"
    BY <2>2 DEF TypeOK, Boot, Crash, Lose, enterProbing, local
  <2>3. ASSUME NEW e \in Drone, Receive(e)
        PROVE  nodeId'[d] = nodeId[d] /\ state'[d] = "CLAIMED"
    <3>1. PICK m \in inbox[e] :
            /\ m.uid # Uid[e]
            /\ \E boxes : HandleClaim(e, m, boxes)
      BY <2>3 DEF Receive
    <3>2. m \in Claim
      BY DEF TypeOK
    <3>3. CASE e = d
      <4>1. ~remoteOutranksUs(e, m)
        BY <3>1, <3>2, <3>3, LowestNeverOutranked
      <4>2. UNCHANGED <<nodeId, state>>
        BY <3>1, <4>1 DEF HandleClaim
      <4> QED
        BY <4>2
    <3>4. CASE e # d
      <4>1. \/ UNCHANGED <<nodeId, state>>
            \/ \E c : enterProbing(e, c)
        BY <3>1 DEF HandleClaim
      <4> QED
        BY <3>4, <4>1 DEF enterProbing, TypeOK
    <3> QED
      BY <3>3, <3>4
  <2>4. ASSUME NEW e \in Drone, ReceiveEcho(e) \/ Update(e)
        PROVE  nodeId'[d] = nodeId[d] /\ state'[d] = "CLAIMED"
    BY <2>4 DEF TypeOK, ReceiveEcho, Update, SendProbe, Announce, AgeOnly, local
  <2> QED
    BY <2>1, <2>2, <2>3, <2>4 DEF Next
<1> QED
  BY <1>1 DEF HeldId, FLEET_ID_UNASSIGNED

\* "Lowest hardware UID wins": on any mesh whatsoever, the drone with the lowest
\* UID keeps the ID it has settled on for as long as it is powered.
THEOREM LowestUidWins == Spec => LowestUidKeepsId
<1>1. TypeOK /\ [Next]_vars =>
        [\A d \in Drone : Lowest(d) /\ fleetHasId(d) /\ up'[d]
            => HeldId'[d] = nodeId[d]]_vars
  BY LowestStep
<1> QED
  BY <1>1, TypeCorrect, PTL DEF Spec, LowestUidKeepsId

-----------------------------------------------------------------------------
(* A timely mesh *)

\* On the mesh of fleet_id.c with its own constants: boards differ in their UIDs, three
\* probes at least, and announcements more frequent than the timeout of members.
TimelyMesh ==
    /\ RadioAtStart = {"timely"}
    /\ \A d, e \in Drone : Uid[d] = Uid[e] => d = e
    /\ PROBE_COUNT >= 3 /\ ANNOUNCE_INTERVAL < MEMBER_TIMEOUT

\* Two drones are after the same ID, or have it.
Rivals(d, e) ==
    /\ d # e /\ up[d] /\ up[e]
    /\ nodeId[d] = nodeId[e] /\ nodeId[d] # FLEET_ID_UNASSIGNED

\* Under way since an earlier clock unit: probes of this candidate have been sent.
Probing(d) == up[d] /\ state[d] = "PROBING" /\ probesSent[d] > 0

\* The next update would be the last probe.
Settling(d) == TxDue(d) /\ Settles(d)

\* What a probing drone has sent is either read or was sent in this clock unit.
ProbeTimes ==
    \A d \in Drone : Probing(d) =>
        /\ sinceTx[d] <= PROBE_INTERVAL
        /\ \A e \in Drone : \A m \in inbox[e] : m.uid = Uid[d] => sinceTx[d] = 0

\* An ID has one holder.
OneHolder ==
    \A d, e \in Drone : Rivals(d, e) => ~(state[d] = "CLAIMED" /\ state[e] = "CLAIMED")

\* Who probes an ID that is held will learn so before its next probe is due.
HolderObjects ==
    \A d, e \in Drone :
        Rivals(d, e) /\ state[d] = "CLAIMED" /\ Probing(e) =>
            /\ ClaimOf(e, "PROBING") \in inbox[d] \/ ClaimOf(d, "CLAIMED") \in inbox[e]
            /\ ~Settling(e)

\* Who has a claim to its ID coming in is not about to settle on it.
ClaimsInTime ==
    \A e \in Drone : \A m \in inbox[e] :
        /\ up[e] /\ m.uid # Uid[e] /\ m.state = "CLAIMED"
        /\ m.nodeId = nodeId[e] /\ m.nodeId # FLEET_ID_UNASSIGNED
        => state[e] = "PROBING" /\ ~Settling(e)

\* Of two drones that probe the same ID the one with the higher UID hears of the other
\* before its third probe: it began after the last probe of the other.
LowerProbesFirst ==
    \A d, e \in Drone :
        Rivals(d, e) /\ Probing(d) /\ Probing(e) /\ Uid[d] < Uid[e] =>
            \/ ClaimOf(d, "PROBING") \in inbox[e]
            \/ probesSent[e] = 1 /\ sinceTx[e] <= sinceTx[d]
            \/ probesSent[e] = 2 /\ sinceTx[e] + PROBE_INTERVAL <= sinceTx[d]

ServiceInv ==
    /\ radio = "timely"
    /\ ProbeTimes /\ OneHolder /\ HolderObjects /\ ClaimsInTime /\ LowerProbesFirst

\* Of the members a drone has in view it has heard since their last claim, or will in
\* this clock unit.
MembersHeard ==
    /\ \A d \in Drone : ~up[d] => observedIds[d] = {}
    /\ \A d, e \in Drone :
          /\ d # e /\ up[d] /\ up[e] /\ (state[e] = "CLAIMED" \/ Probing(e))
          /\ nodeId[e] \in observedIds[d]
          => /\ \/ sinceHeard[d][nodeId[e]] <= sinceTx[e]
                \/ \E m \in inbox[d] : m.uid = Uid[e] /\ m.nodeId = nodeId[e]
             /\ state[e] = "CLAIMED" => sinceHeard[d][nodeId[e]] <= ANNOUNCE_INTERVAL

-----------------------------------------------------------------------------
(* What a step does, seen by the protocol *)

Same(d) ==
    /\ up'[d] = up[d] /\ nodeId'[d] = nodeId[d] /\ state'[d] = state[d]
    /\ probesSent'[d] = probesSent[d] /\ sinceTx'[d] = sinceTx[d]

\* d has the claims broadcast; its own inbox may lose some.
Sends(d, claims) ==
    /\ \A e \in Drone \ {d} : inbox'[e] = IF up[e] THEN inbox[e] \cup claims ELSE inbox[e]
    /\ inbox'[d] \subseteq inbox[d] \cup claims

\* d boots, loses power, or yields; it gives up an ID only in the last two cases.
StartsOver(d) ==
    /\ \A e \in Drone \ {d} : Same(e) /\ inbox'[e] = inbox[e]
    /\ state'[d] = "PROBING" /\ probesSent'[d] = 0 /\ inbox'[d] \subseteq inbox[d]
    /\ fleetHasId(d) /\ up'[d] =>
          \E m \in inbox[d] : /\ m.uid # Uid[d] /\ m.nodeId = nodeId[d]
                              /\ remoteOutranksUs(d, m)

\* d reads claims that do not concern it, if any.
Reads(d) ==
    /\ \A e \in Drone : Same(e)
    /\ \A e \in Drone \ {d} : inbox'[e] = inbox[e]
    /\ inbox'[d] \subseteq inbox[d]
    /\ \A m \in inbox[d] \ inbox'[d] :
          \/ m.uid = Uid[d] \/ m.nodeId # nodeId[d]
          \/ state[d] = "PROBING" /\ ~remoteOutranksUs(d, m)

\* d announces or defends its ID.
Claims(d) ==
    /\ up[d] /\ state[d] = "CLAIMED" /\ Sends(d, {ClaimOf(d, "CLAIMED")})
    /\ \A e \in Drone \ {d} : Same(e)
    /\ up'[d] = up[d] /\ nodeId'[d] = nodeId[d] /\ state'[d] = state[d]
    /\ probesSent'[d] = probesSent[d] /\ sinceTx'[d] = 0

\* d sends a probe, the last one together with its claim.
Probes(d) ==
    /\ up[d] /\ state[d] = "PROBING" /\ TxDue(d)
    /\ Sends(d, {ClaimOf(d, s) : s \in
                     IF Settles(d) THEN {"PROBING", "CLAIMED"} ELSE {"PROBING"}})
    /\ inbox[d] \subseteq inbox'[d]
    /\ \A e \in Drone \ {d} : Same(e)
    /\ up'[d] = up[d] /\ nodeId'[d] = nodeId[d]
    /\ state'[d] = IF Settles(d) THEN "CLAIMED" ELSE "PROBING"
    /\ probesSent'[d] = probesSent[d] + 1 /\ sinceTx'[d] = 0

LEMMA BroadcastSends ==
    ASSUME NEW d \in Drone, NEW claims, NEW boxes \in [Drone -> SUBSET Claim],
           \A e \in Drone \ {d} : boxes[e] = inbox[e], boxes[d] \subseteq inbox[d],
           inbox' = Broadcast(d, claims, boxes)
    PROVE  Sends(d, claims)
<1>1. \A e \in Drone : inbox'[e] = IF up[e] /\ (e # d \/ d \in Echoing)
                                   THEN boxes[e] \cup claims ELSE boxes[e]
  BY DEF Broadcast
<1> QED
  BY <1>1 DEF Sends

LEMMA HandleKinds ==
    ASSUME TypeOK, NEW d \in Drone, up[d], UNCHANGED up,
           NEW m \in inbox[d], m.uid # Uid[d],
           NEW boxes, boxes = [inbox EXCEPT ![d] = @ \ {m}], HandleClaim(d, m, boxes)
    PROVE  StartsOver(d) \/ Reads(d) \/ Claims(d)
<1> DEFINE heard == IF m.nodeId \in ID THEN {m.nodeId} ELSE {}
           observed == observedIds[d] \cup heard
           conflict == m.nodeId = nodeId[d]
           yields == conflict /\ remoteOutranksUs(d, m)
           defends == conflict /\ ~yields /\ state[d] = "CLAIMED"
<1>1. /\ IF yields THEN enterProbing(d, pickCandidateId(d, observed))
                   ELSE UNCHANGED <<nodeId, state, probesSent>>
      /\ sinceTx' = CASE yields  -> [sinceTx EXCEPT ![d] = Stagger(d)]
                      [] defends -> [sinceTx EXCEPT ![d] = 0]
                      [] OTHER   -> sinceTx
      /\ inbox' = IF defends THEN Broadcast(d, {ClaimOf(d, "CLAIMED")}, boxes) ELSE boxes
  BY DEF HandleClaim
<1>2. /\ boxes \in [Drone -> SUBSET Claim] /\ boxes[d] = inbox[d] \ {m}
      /\ \A e \in Drone \ {d} : boxes[e] = inbox[e]
  BY DEF TypeOK
<1>3. CASE yields
  <2>1. PICK c : enterProbing(d, c)
    BY <1>1, <1>3
  <2>2. sinceTx' = [sinceTx EXCEPT ![d] = Stagger(d)] /\ inbox' = boxes
    BY <1>1, <1>3
  <2>3. m.nodeId = nodeId[d] /\ remoteOutranksUs(d, m)
    BY <1>3
  <2> HIDE DEF heard, observed, conflict, yields, defends
  <2>4. \A e \in Drone \ {d} : Same(e)
    BY <2>1, <2>2 DEF enterProbing, Same, TypeOK
  <2>5. state'[d] = "PROBING" /\ probesSent'[d] = 0
    BY <2>1 DEF enterProbing, TypeOK
  <2> QED
    BY <1>2, <2>2, <2>3, <2>4, <2>5 DEF StartsOver
<1>4. CASE defends
  <2>1. UNCHANGED <<nodeId, state, probesSent>> /\ sinceTx' = [sinceTx EXCEPT ![d] = 0]
    BY <1>1, <1>4
  <2>2. inbox' = Broadcast(d, {ClaimOf(d, "CLAIMED")}, boxes) /\ state[d] = "CLAIMED"
    BY <1>1, <1>4
  <2> HIDE DEF heard, observed, conflict, yields, defends
  <2>3. Sends(d, {ClaimOf(d, "CLAIMED")})
    BY <1>2, <2>2, BroadcastSends
  <2>4. \A e \in Drone \ {d} : Same(e)
    BY <2>1 DEF Same, TypeOK
  <2>5. sinceTx'[d] = 0
    BY <2>1 DEF TypeOK
  <2> QED
    BY <2>1, <2>2, <2>3, <2>4, <2>5 DEF Claims
<1>5. CASE ~yields /\ ~defends
  <2>1. UNCHANGED <<nodeId, state, probesSent, sinceTx>> /\ inbox' = boxes
    BY <1>1, <1>5
  <2>2. m.nodeId # nodeId[d] \/ (state[d] = "PROBING" /\ ~remoteOutranksUs(d, m))
    BY <1>5 DEF TypeOK, State
  <2> HIDE DEF heard, observed, conflict, yields, defends
  <2> QED
    BY <1>2, <2>1, <2>2 DEF Reads, Same
<1> QED
  BY <1>3, <1>4, <1>5

LEMMA StepKinds ==
    ASSUME TypeOK, radio = "timely", [Next]_vars
    PROVE  /\ radio' = "timely"
           /\ \/ Tick \/ UNCHANGED vars
              \/ \E d \in Drone : StartsOver(d) \/ Reads(d) \/ Claims(d) \/ Probes(d)
<1>1. CASE Tick \/ UNCHANGED vars
  BY <1>1 DEF Tick, vars
<1>2. CASE Heal \/ \E d \in Drone : Lose(d)
  BY <1>2 DEF Heal, Lose
<1>3. CASE \E d \in Drone : Boot(d)
  <2>1. PICK d \in Drone : Boot(d)
    BY <1>3
  <2>2. PICK t \in BootDelay :
           sinceTx' = [sinceTx EXCEPT ![d] = AtMost(t + Stagger(d), ANNOUNCE_INTERVAL)]
    BY <2>1 DEF Boot
  <2>3. /\ \A e \in Drone \ {d} : Same(e)
        /\ state'[d] = "PROBING" /\ probesSent'[d] = 0 /\ ~up[d]
    BY <2>1, <2>2 DEF Boot, enterProbing, Same, TypeOK
  <2>4. UNCHANGED <<inbox, radio>>
    BY <2>1 DEF Boot
  <2> QED
    BY <2>3, <2>4 DEF StartsOver, fleetHasId
<1>4. CASE \E d \in Drone : Crash(d)
  <2>1. PICK d \in Drone : Crash(d)
    BY <1>4
  <2>2. /\ \A e \in Drone \ {d} : Same(e)
        /\ state'[d] = "PROBING" /\ probesSent'[d] = 0 /\ ~up'[d]
    BY <2>1 DEF Crash, enterProbing, Same, TypeOK
  <2>3. inbox'[d] = {} /\ \A e \in Drone \ {d} : inbox'[e] = inbox[e]
    BY <2>1 DEF Crash, TypeOK
  <2>4. radio' = radio
    BY <2>1 DEF Crash
  <2> QED
    BY <2>2, <2>3, <2>4 DEF StartsOver
<1>5. CASE \E d \in Drone : Receive(d)
  <2>1. PICK d \in Drone : Receive(d)
    BY <1>5
  <2>2. PICK m \in inbox[d] : m.uid # Uid[d] /\ HandleClaim(d, m, [inbox EXCEPT ![d] = @ \ {m}])
    BY <2>1 DEF Receive
  <2>3. up[d] /\ UNCHANGED <<up, radio>>
    BY <2>1 DEF Receive
  <2> QED
    BY <2>2, <2>3, HandleKinds
<1>6. CASE \E d \in Drone : ReceiveEcho(d)
  <2>1. PICK d \in Drone : ReceiveEcho(d)
    BY <1>6
  <2>2. PICK m \in inbox[d] : m.uid = Uid[d] /\ inbox' = [inbox EXCEPT ![d] = @ \ {m}]
    BY <2>1 DEF ReceiveEcho
  <2>3. inbox'[d] = inbox[d] \ {m} /\ \A e \in Drone \ {d} : inbox'[e] = inbox[e]
    BY <2>2 DEF TypeOK
  <2>4. radio' = radio /\ \A e \in Drone : Same(e)
    BY <2>1 DEF ReceiveEcho, local, Same
  <2> QED
    BY <2>2, <2>3, <2>4 DEF Reads
<1>7. CASE \E d \in Drone : Update(d)
  <2>1. PICK d \in Drone : Update(d)
    BY <1>7
  <2>2. inbox \in [Drone -> SUBSET Claim]
    BY DEF TypeOK
  <2>3. CASE SendProbe(d)
    <3> DEFINE claims == {ClaimOf(d, s) : s \in
                     IF Settles(d) THEN {"PROBING", "CLAIMED"} ELSE {"PROBING"}}
    <3>1. inbox' = Broadcast(d, claims, inbox) /\ radio' = radio
      BY <2>3 DEF SendProbe
    <3> HIDE DEF claims
    <3>2. Sends(d, claims) /\ inbox[d] \subseteq inbox'[d]
      BY <2>2, <3>1, BroadcastSends DEF Broadcast
    <3>3. \A e \in Drone \ {d} : Same(e)
      BY <2>3 DEF SendProbe, Same, TypeOK
    <3>4. /\ up[d] /\ state[d] = "PROBING" /\ TxDue(d) /\ up'[d] = up[d]
          /\ nodeId'[d] = nodeId[d] /\ state'[d] = IF Settles(d) THEN "CLAIMED" ELSE "PROBING"
          /\ probesSent'[d] = probesSent[d] + 1 /\ sinceTx'[d] = 0
      BY <2>3 DEF SendProbe, TypeOK
    <3> QED
      BY <3>1, <3>2, <3>3, <3>4 DEF Probes, claims
  <2>4. CASE Announce(d)
    <3>1. inbox' = Broadcast(d, {ClaimOf(d, "CLAIMED")}, inbox) /\ radio' = radio
      BY <2>4 DEF Announce
    <3>2. Sends(d, {ClaimOf(d, "CLAIMED")})
      BY <2>2, <3>1, BroadcastSends
    <3>3. /\ \A e \in Drone \ {d} : Same(e)
          /\ up[d] /\ state[d] = "CLAIMED" /\ sinceTx'[d] = 0
          /\ UNCHANGED <<up, nodeId, state, probesSent>>
      BY <2>4 DEF Announce, Same, TypeOK
    <3> QED
      BY <3>1, <3>2, <3>3 DEF Claims
  <2>5. CASE AgeOnly(d)
    BY <2>5 DEF AgeOnly, Reads, Same
  <2> QED
    BY <2>1, <2>3, <2>4, <2>5 DEF Update
<1> QED
  BY <1>1, <1>2, <1>3, <1>4, <1>5, <1>6, <1>7 DEF Next

-----------------------------------------------------------------------------
(* Each kind of step keeps ServiceInv *)

\* What a drone that has only begun, or has just sent, is far from.
LEMMA NotSettling ==
    ASSUME TypeOK, TimelyMesh, NEW d \in Drone, probesSent[d] = 0 \/ sinceTx[d] = 0,
           state[d] = "PROBING"
    PROVE  ~Settling(d)
BY TimingAssumption DEF TypeOK, TimelyMesh, Settling, Settles, TxDue

LEMMA StartsOverKeeps ==
    ASSUME TypeOK, TypeOK', TimelyMesh, ServiceInv, NEW d \in Drone, StartsOver(d),
           radio' = "timely"
    PROVE  ServiceInv'
<1>1. /\ \A e \in Drone \ {d} : Same(e) /\ inbox'[e] = inbox[e]
      /\ state'[d] = "PROBING" /\ probesSent'[d] = 0 /\ inbox'[d] \subseteq inbox[d]
  BY DEF StartsOver
<1>2. ~Probing(d)'
  BY <1>1 DEF Probing, TypeOK
<1>3. ~Settling(d)'
  BY <1>1, TimingAssumption DEF Settling, Settles, TimelyMesh
<1>4. \A e \in Drone : Probing(e)' => e # d /\ Probing(e) /\ sinceTx'[e] = sinceTx[e]
  BY <1>1, <1>2 DEF Probing, Same
<1>5. \A e \in Drone \ {d} : Settling(e)' = Settling(e)
  BY <1>1 DEF Settling, Settles, TxDue, Same
<1>6. \A e, f \in Drone : Rivals(e, f)' /\ e # d /\ f # d => Rivals(e, f)
  BY <1>1 DEF Rivals, Same
<1>7. \A e \in Drone : inbox'[e] \subseteq inbox[e]
  BY <1>1
<1>8. \A e \in Drone \ {d} : \A s : ClaimOf(e, s)' = ClaimOf(e, s)
  BY <1>1 DEF ClaimOf, Same
<1>9. ProbeTimes'
  BY <1>4, <1>7 DEF ServiceInv, ProbeTimes
<1>10. OneHolder'
  BY <1>1, <1>6 DEF ServiceInv, OneHolder, Same
<1>11. HolderObjects'
  <2> SUFFICES ASSUME NEW r \in Drone, NEW e \in Drone,
                      Rivals(r, e)', state'[r] = "CLAIMED", Probing(e)'
               PROVE  /\ ClaimOf(e, "PROBING")' \in inbox'[r] \/ ClaimOf(r, "CLAIMED")' \in inbox'[e]
                      /\ ~Settling(e)'
    BY DEF HolderObjects
  <2>1. r # d /\ e # d
    BY <1>1, <1>4
  <2>2. Rivals(r, e) /\ state[r] = "CLAIMED" /\ Probing(e)
    BY <1>1, <1>4, <1>6, <2>1 DEF Same
  <2>3. (ClaimOf(e, "PROBING") \in inbox[r] \/ ClaimOf(r, "CLAIMED") \in inbox[e]) /\ ~Settling(e)
    BY <2>2 DEF ServiceInv, HolderObjects
  <2> QED
    BY <1>1, <1>5, <1>8, <2>1, <2>3
<1>12. ClaimsInTime'
  <2> SUFFICES ASSUME NEW e \in Drone, NEW m \in inbox'[e],
                      up'[e], m.uid # Uid[e], m.state = "CLAIMED",
                      m.nodeId = nodeId'[e], m.nodeId # FLEET_ID_UNASSIGNED
               PROVE  state'[e] = "PROBING" /\ ~Settling(e)'
    BY DEF ClaimsInTime
  <2>1. CASE e = d
    BY <2>1, <1>1, <1>3
  <2>2. CASE e # d
    <3>1. m \in inbox[e] /\ up[e] /\ m.nodeId = nodeId[e]
      BY <1>1, <2>2 DEF Same
    <3>2. state[e] = "PROBING" /\ ~Settling(e)
      BY <3>1 DEF ServiceInv, ClaimsInTime
    <3> QED
      BY <1>1, <1>5, <2>2, <3>2 DEF Same
  <2> QED
    BY <2>1, <2>2
<1>13. LowerProbesFirst'
  <2> SUFFICES ASSUME NEW x \in Drone, NEW e \in Drone,
                      Rivals(x, e)', Probing(x)', Probing(e)', Uid[x] < Uid[e]
               PROVE  \/ ClaimOf(x, "PROBING")' \in inbox'[e]
                      \/ probesSent'[e] = 1 /\ sinceTx'[e] <= sinceTx'[x]
                      \/ probesSent'[e] = 2 /\ sinceTx'[e] + PROBE_INTERVAL <= sinceTx'[x]
    BY DEF LowerProbesFirst
  <2>1. x # d /\ e # d /\ Probing(x) /\ Probing(e)
    BY <1>4
  <2>2. Rivals(x, e)
    BY <1>6, <2>1
  <2>3. \/ ClaimOf(x, "PROBING") \in inbox[e]
        \/ probesSent[e] = 1 /\ sinceTx[e] <= sinceTx[x]
        \/ probesSent[e] = 2 /\ sinceTx[e] + PROBE_INTERVAL <= sinceTx[x]
    BY <2>1, <2>2 DEF ServiceInv, LowerProbesFirst
  <2> QED
    BY <1>1, <1>8, <2>1, <2>3 DEF Same
<1> QED
  BY <1>9, <1>10, <1>11, <1>12, <1>13 DEF ServiceInv

LEMMA ReadsKeeps ==
    ASSUME TypeOK, TypeOK', TimelyMesh, ServiceInv, NEW d \in Drone, Reads(d),
           radio' = "timely"
    PROVE  ServiceInv'
<1>1. \A e \in Drone : Same(e) /\ inbox'[e] \subseteq inbox[e]
  BY DEF Reads
<1>2. \A e \in Drone : /\ Probing(e)' = Probing(e) /\ Settling(e)' = Settling(e)
                      /\ \A s : ClaimOf(e, s)' = ClaimOf(e, s)
  BY <1>1 DEF Probing, Settling, Settles, TxDue, Same, ClaimOf
<1>3. \A e, f \in Drone : Rivals(e, f)' = Rivals(e, f)
  BY <1>1 DEF Rivals, Same
<1>4. \A e \in Drone : \A m : m \in inbox[e] /\ m \notin inbox'[e] =>
         \/ m.uid = Uid[e] \/ m.nodeId # nodeId[e]
         \/ state[e] = "PROBING" /\ ~remoteOutranksUs(e, m)
  BY DEF Reads
<1>5. ProbeTimes'
  BY <1>1, <1>2 DEF ServiceInv, ProbeTimes, Same
<1>6. OneHolder'
  BY <1>1, <1>3 DEF ServiceInv, OneHolder, Same
<1>7. ClaimsInTime'
  BY <1>1, <1>2 DEF ServiceInv, ClaimsInTime, Same
<1>8. HolderObjects'
  <2> SUFFICES ASSUME NEW r \in Drone, NEW e \in Drone,
                      Rivals(r, e), state[r] = "CLAIMED", Probing(e)
               PROVE  /\ ClaimOf(e, "PROBING") \in inbox'[r] \/ ClaimOf(r, "CLAIMED") \in inbox'[e]
                      /\ ~Settling(e)
    BY <1>1, <1>2, <1>3 DEF HolderObjects, Same
  <2>1. (ClaimOf(e, "PROBING") \in inbox[r] \/ ClaimOf(r, "CLAIMED") \in inbox[e]) /\ ~Settling(e)
    BY DEF ServiceInv, HolderObjects
  <2>2. nodeId[r] = nodeId[e] /\ r # e /\ Uid[r] # Uid[e]
    BY DEF Rivals, TimelyMesh
  <2>3. CASE ClaimOf(e, "PROBING") \in inbox[r]
    BY <1>4, <2>1, <2>2, <2>3 DEF ClaimOf
  <2>4. CASE ClaimOf(r, "CLAIMED") \in inbox[e]
    <3>1. remoteOutranksUs(e, ClaimOf(r, "CLAIMED"))
      BY DEF remoteOutranksUs, ClaimOf, Probing
    <3> QED
      BY <1>4, <2>1, <2>2, <2>4, <3>1 DEF ClaimOf
  <2> QED
    BY <2>1, <2>3, <2>4
<1>9. LowerProbesFirst'
  <2> SUFFICES ASSUME NEW x \in Drone, NEW e \in Drone,
                      Rivals(x, e), Probing(x), Probing(e), Uid[x] < Uid[e]
               PROVE  \/ ClaimOf(x, "PROBING") \in inbox'[e]
                      \/ probesSent[e] = 1 /\ sinceTx[e] <= sinceTx[x]
                      \/ probesSent[e] = 2 /\ sinceTx[e] + PROBE_INTERVAL <= sinceTx[x]
    BY <1>1, <1>2, <1>3 DEF LowerProbesFirst, Same
  <2>1. \/ ClaimOf(x, "PROBING") \in inbox[e]
        \/ probesSent[e] = 1 /\ sinceTx[e] <= sinceTx[x]
        \/ probesSent[e] = 2 /\ sinceTx[e] + PROBE_INTERVAL <= sinceTx[x]
    BY DEF ServiceInv, LowerProbesFirst
  <2>2. nodeId[x] = nodeId[e] /\ Uid[x] # Uid[e]
    BY DEF Rivals, TimelyMesh
  <2>3. remoteOutranksUs(e, ClaimOf(x, "PROBING"))
    BY DEF remoteOutranksUs, ClaimOf, Probing
  <2>4. ClaimOf(x, "PROBING") \in inbox[e] => ClaimOf(x, "PROBING") \in inbox'[e]
    BY <1>4, <2>2, <2>3 DEF ClaimOf
  <2> QED
    BY <2>1, <2>4
<1> QED
  BY <1>5, <1>6, <1>7, <1>8, <1>9 DEF ServiceInv

LEMMA TickKeeps ==
    ASSUME TypeOK, TypeOK', TimelyMesh, ServiceInv, Tick
    PROVE  ServiceInv'
<1>1. /\ \A d \in Drone : ~UpdateDue(d) /\ inbox[d] = {}
      /\ UNCHANGED <<up, nodeId, state, probesSent, inbox, radio>>
  BY DEF Tick, ServiceInv
<1>2. \A d \in Drone : sinceTx[d] \in Nat /\ PROBE_INTERVAL \in Nat /\ ANNOUNCE_INTERVAL \in Nat
  BY TimingAssumption DEF TypeOK
<1>3. \A d \in Drone : Probing(d) => sinceTx[d] < PROBE_INTERVAL /\ sinceTx'[d] = sinceTx[d] + 1
  <2> SUFFICES ASSUME NEW d \in Drone, Probing(d)
               PROVE  sinceTx[d] < PROBE_INTERVAL /\ sinceTx'[d] = sinceTx[d] + 1
    OBVIOUS
  <2>1. up[d] /\ sinceTx[d] < PROBE_INTERVAL
    BY <1>1, <1>2 DEF Probing, UpdateDue, TxDue
  <2>2. sinceTx'[d] = AtMost(sinceTx[d] + 1, ANNOUNCE_INTERVAL)
    BY <2>1 DEF Tick
  <2> QED
    BY <1>2, <2>1, <2>2, TimingAssumption DEF AtMost
<1>4. \A d \in Drone : Probing(d)' = Probing(d)
  BY <1>1 DEF Probing
<1>5. \A d, e \in Drone : Rivals(d, e)' = Rivals(d, e)
  BY <1>1 DEF Rivals
<1>6. ProbeTimes'
  BY <1>1, <1>2, <1>3, <1>4 DEF ProbeTimes
<1>7. OneHolder' /\ HolderObjects' /\ ClaimsInTime'
  BY <1>1, <1>4, <1>5 DEF ServiceInv, OneHolder, HolderObjects, ClaimsInTime
<1>8. LowerProbesFirst'
  <2> SUFFICES ASSUME NEW x \in Drone, NEW e \in Drone,
                      Rivals(x, e), Probing(x), Probing(e), Uid[x] < Uid[e]
               PROVE  \/ probesSent[e] = 1 /\ sinceTx'[e] <= sinceTx'[x]
                      \/ probesSent[e] = 2 /\ sinceTx'[e] + PROBE_INTERVAL <= sinceTx'[x]
    BY <1>1, <1>4, <1>5 DEF LowerProbesFirst
  <2>1. \/ probesSent[e] = 1 /\ sinceTx[e] <= sinceTx[x]
        \/ probesSent[e] = 2 /\ sinceTx[e] + PROBE_INTERVAL <= sinceTx[x]
    BY <1>1 DEF ServiceInv, LowerProbesFirst
  <2> QED
    BY <1>2, <1>3, <2>1
<1> QED
  BY <1>1, <1>6, <1>7, <1>8 DEF ServiceInv

LEMMA ClaimsKeeps ==
    ASSUME TypeOK, TypeOK', TimelyMesh, ServiceInv, NEW d \in Drone, Claims(d),
           radio' = "timely"
    PROVE  ServiceInv'
<1> PICK c : c = ClaimOf(d, "CLAIMED")
  OBVIOUS
<1>1. /\ up[d] /\ state[d] = "CLAIMED" /\ \A e \in Drone \ {d} : Same(e)
      /\ up'[d] = up[d] /\ nodeId'[d] = nodeId[d] /\ state'[d] = state[d]
      /\ \A e \in Drone \ {d} : inbox'[e] = IF up[e] THEN inbox[e] \cup {c} ELSE inbox[e]
      /\ inbox'[d] \subseteq inbox[d] \cup {c}
  BY DEF Claims, Sends
<1>2. /\ c.uid = Uid[d] /\ c.nodeId = nodeId[d] /\ c.state = "CLAIMED"
      /\ c = ClaimOf(d, "CLAIMED")
  BY DEF ClaimOf
<1>3. /\ ~Probing(d) /\ ~Probing(d)'
      /\ \A e \in Drone \ {d} : Probing(e)' = Probing(e) /\ Settling(e)' = Settling(e)
  BY <1>1 DEF Probing, Same, Settling, Settles, TxDue
<1>4. \A e, f \in Drone : Rivals(e, f)' = Rivals(e, f)
  BY <1>1 DEF Rivals, Same
<1>5. \A e \in Drone : \A s : ClaimOf(e, s)' = ClaimOf(e, s)
  BY <1>1 DEF ClaimOf, Same
<1>6. \A e \in Drone \ {d} : inbox[e] \subseteq inbox'[e]
  BY <1>1
<1>7. \A e \in Drone : \A m \in inbox'[e] : m \in inbox[e] \/ m = c
  <2> SUFFICES ASSUME NEW e \in Drone, NEW m \in inbox'[e], m \notin inbox[e]
               PROVE  m = c
    OBVIOUS
  <2>1. CASE e = d
    BY <1>1, <2>1
  <2>2. CASE e # d
    <3>1. inbox'[e] = IF up[e] THEN inbox[e] \cup {c} ELSE inbox[e]
      BY <1>1, <2>2
    <3>2. inbox'[e] \subseteq inbox[e] \cup {c}
      BY <3>1
    <3> QED
      BY <3>2
  <2> QED
    BY <2>1, <2>2
<1>8. ProbeTimes'
  <2> SUFFICES ASSUME NEW x \in Drone, Probing(x)'
               PROVE  /\ sinceTx'[x] <= PROBE_INTERVAL
                      /\ \A e \in Drone : \A m \in inbox'[e] : m.uid = Uid[x] => sinceTx'[x] = 0
    BY DEF ProbeTimes
  <2>1. x # d /\ Probing(x) /\ sinceTx'[x] = sinceTx[x] /\ Uid[x] # Uid[d]
    BY <1>1, <1>3 DEF Same, TimelyMesh
  <2> QED
    BY <1>2, <1>7, <2>1 DEF ServiceInv, ProbeTimes
<1>9. OneHolder'
  BY <1>1, <1>4 DEF ServiceInv, OneHolder, Same
<1>10. HolderObjects'
  <2> SUFFICES ASSUME NEW r \in Drone, NEW e \in Drone,
                      Rivals(r, e), state[r] = "CLAIMED", Probing(e)
               PROVE  /\ ClaimOf(e, "PROBING") \in inbox'[r] \/ ClaimOf(r, "CLAIMED") \in inbox'[e]
                      /\ ~Settling(e)'
    BY <1>1, <1>3, <1>4, <1>5 DEF HolderObjects, Same
  <2>1. (ClaimOf(e, "PROBING") \in inbox[r] \/ ClaimOf(r, "CLAIMED") \in inbox[e]) /\ ~Settling(e)
    BY DEF ServiceInv, HolderObjects
  <2>2. e # d /\ up[e]
    BY <1>3 DEF Rivals
  <2>3. CASE r = d
    BY <1>1, <1>2, <1>3, <2>1, <2>2, <2>3
  <2>4. CASE r # d
    BY <1>3, <1>6, <2>1, <2>2, <2>4
  <2> QED
    BY <2>3, <2>4
<1>11. ClaimsInTime'
  <2> SUFFICES ASSUME NEW e \in Drone, NEW m \in inbox'[e],
                      up'[e], m.uid # Uid[e], m.state = "CLAIMED",
                      m.nodeId = nodeId'[e], m.nodeId # FLEET_ID_UNASSIGNED
               PROVE  state'[e] = "PROBING" /\ ~Settling(e)'
    BY DEF ClaimsInTime
  <2>1. up[e] /\ m.nodeId = nodeId[e]
    BY <1>1 DEF Same
  <2>2. CASE m \in inbox[e]
    <3>1. state[e] = "PROBING" /\ ~Settling(e)
      BY <2>1, <2>2 DEF ServiceInv, ClaimsInTime
    <3> QED
      BY <1>1, <1>3, <3>1 DEF Same
  <2>3. CASE m = c
    <3>1. e # d /\ Rivals(d, e)
      BY <1>1, <1>2, <2>1, <2>3 DEF Rivals
    <3>2. state[e] = "PROBING"
      BY <1>1, <3>1 DEF ServiceInv, OneHolder, TypeOK, State
    <3>3. ~Settling(e)
      <4>1. CASE Probing(e)
        BY <1>1, <3>1, <4>1 DEF ServiceInv, HolderObjects
      <4>2. CASE ~Probing(e)
        BY <2>1, <3>2, <4>2, NotSettling DEF Probing, TypeOK
      <4> QED
        BY <4>1, <4>2
    <3> QED
      BY <1>1, <1>3, <3>1, <3>2, <3>3 DEF Same
  <2> QED
    BY <1>7, <2>2, <2>3
<1>12. LowerProbesFirst'
  <2> SUFFICES ASSUME NEW x \in Drone, NEW e \in Drone,
                      Rivals(x, e), Probing(x), Probing(e), Uid[x] < Uid[e]
               PROVE  \/ ClaimOf(x, "PROBING") \in inbox'[e]
                      \/ probesSent'[e] = 1 /\ sinceTx'[e] <= sinceTx'[x]
                      \/ probesSent'[e] = 2 /\ sinceTx'[e] + PROBE_INTERVAL <= sinceTx'[x]
    BY <1>3, <1>4, <1>5 DEF LowerProbesFirst
  <2>1. x # d /\ e # d
    BY <1>3
  <2>2. \/ ClaimOf(x, "PROBING") \in inbox[e]
        \/ probesSent[e] = 1 /\ sinceTx[e] <= sinceTx[x]
        \/ probesSent[e] = 2 /\ sinceTx[e] + PROBE_INTERVAL <= sinceTx[x]
    BY DEF ServiceInv, LowerProbesFirst
  <2> QED
    BY <1>1, <1>6, <2>1, <2>2 DEF Same
<1> QED
  BY <1>8, <1>9, <1>10, <1>11, <1>12 DEF ServiceInv

\* The last probe meets nobody who holds the ID, and no other drone about to settle on it.
LEMMA SettlesAlone ==
    ASSUME TypeOK, TimelyMesh, ServiceInv, NEW d \in Drone, Probes(d), Settles(d),
           NEW e \in Drone, Rivals(d, e)
    PROVE  state[e] = "PROBING" /\ ~Settling(e)
<1>1. up[d] /\ state[d] = "PROBING" /\ TxDue(d) /\ Settling(d)
  BY DEF Probes, Settling
<1>2. probesSent[d] >= 2 /\ Probing(d)
  BY <1>1, TimingAssumption DEF Probing, Settles, TimelyMesh, TypeOK
<1>3. Rivals(e, d)
  BY DEF Rivals
<1>4. state[e] = "PROBING"
  BY <1>1, <1>2, <1>3 DEF ServiceInv, HolderObjects, TypeOK, State
<1>5. ASSUME Settling(e) PROVE FALSE
  <2>1. probesSent[e] >= 2 /\ Probing(e) /\ TxDue(e)
    BY <1>4, <1>5, TimingAssumption DEF Settling, Probing, Settles, TimelyMesh, TypeOK, Rivals
  <2>2. sinceTx[d] = PROBE_INTERVAL /\ sinceTx[e] = PROBE_INTERVAL
    <3>1. sinceTx[d] <= PROBE_INTERVAL /\ sinceTx[e] <= PROBE_INTERVAL
      BY <1>2, <2>1 DEF ServiceInv, ProbeTimes
    <3>2. PROBE_INTERVAL <= sinceTx[d] /\ PROBE_INTERVAL <= sinceTx[e]
      BY <1>1, <1>4, <2>1 DEF TxDue
    <3>3. sinceTx[d] \in 0..ANNOUNCE_INTERVAL /\ sinceTx[e] \in 0..ANNOUNCE_INTERVAL
      BY DEF TypeOK
    <3>4. PROBE_INTERVAL \in Nat /\ ANNOUNCE_INTERVAL \in Nat
      BY TimingAssumption
    <3> QED
      BY <3>1, <3>2, <3>3, <3>4
  <2>3. ClaimOf(d, "PROBING") \notin inbox[e] /\ ClaimOf(e, "PROBING") \notin inbox[d]
    BY <1>2, <2>1, <2>2, TimingAssumption DEF ServiceInv, ProbeTimes, ClaimOf
  <2>4. Uid[d] < Uid[e] \/ Uid[e] < Uid[d]
    BY UidAssumption DEF Rivals, TimelyMesh
  <2>5. \A x, y \in Drone :
           /\ Rivals(x, y) /\ Probing(x) /\ Probing(y)
           /\ sinceTx[x] = PROBE_INTERVAL /\ sinceTx[y] = PROBE_INTERVAL
           /\ ClaimOf(x, "PROBING") \notin inbox[y] /\ probesSent[y] >= 2
           => ~(Uid[x] < Uid[y])
    BY TimingAssumption DEF ServiceInv, LowerProbesFirst
  <2> QED
    BY <1>2, <1>3, <2>1, <2>2, <2>3, <2>4, <2>5
<1> QED
  BY <1>4, <1>5

LEMMA ProbesKeeps ==
    ASSUME TypeOK, TypeOK', TimelyMesh, ServiceInv, NEW d \in Drone, Probes(d),
           radio' = "timely"
    PROVE  ServiceInv'
<1> DEFINE claims == {ClaimOf(d, s) : s \in
                          IF Settles(d) THEN {"PROBING", "CLAIMED"} ELSE {"PROBING"}}
<1>1. /\ up[d] /\ state[d] = "PROBING" /\ TxDue(d)
      /\ \A e \in Drone \ {d} : Same(e)
      /\ up'[d] = up[d] /\ nodeId'[d] = nodeId[d]
      /\ state'[d] = IF Settles(d) THEN "CLAIMED" ELSE "PROBING"
      /\ probesSent'[d] = probesSent[d] + 1 /\ sinceTx'[d] = 0
      /\ \A e \in Drone \ {d} : inbox'[e] = IF up[e] THEN inbox[e] \cup claims ELSE inbox[e]
      /\ inbox'[d] \subseteq inbox[d] \cup claims /\ inbox[d] \subseteq inbox'[d]
  BY DEF Probes, Sends
<1>2. /\ \A e \in Drone : e = d => ClaimOf(e, "PROBING") \in claims
      /\ \A e \in Drone : e = d /\ Settles(d) => ClaimOf(e, "CLAIMED") \in claims
      /\ \A m \in claims : /\ m.uid = Uid[d] /\ m.nodeId = nodeId[d]
                           /\ m.state = "CLAIMED" => Settles(d)
  BY DEF ClaimOf
<1> HIDE DEF claims
<1>3. \A e \in Drone \ {d} : Probing(e)' = Probing(e) /\ Settling(e)' = Settling(e)
  BY <1>1 DEF Probing, Same, Settling, Settles, TxDue
<1>4. \A e, f \in Drone : Rivals(e, f)' = Rivals(e, f)
  BY <1>1 DEF Rivals, Same
<1>5. \A e \in Drone : \A s : ClaimOf(e, s)' = ClaimOf(e, s)
  BY <1>1 DEF ClaimOf, Same
<1>6. \A e \in Drone : inbox[e] \subseteq inbox'[e]
  BY <1>1
<1>7. \A e \in Drone : \A m \in inbox'[e] : m \in inbox[e] \/ m \in claims
  BY <1>1
<1>8. ~Settles(d) => ~Settling(d)'
  BY <1>1, TimingAssumption DEF Settling, TxDue
<1>9. Probing(d)' => ~Settles(d)
  BY <1>1 DEF Probing
<1>10. \A e \in Drone : Rivals(d, e) /\ Settles(d) => state[e] = "PROBING" /\ ~Settling(e)
  BY SettlesAlone
<1>11. ProbeTimes'
  <2> SUFFICES ASSUME NEW x \in Drone, Probing(x)'
               PROVE  /\ sinceTx'[x] <= PROBE_INTERVAL
                      /\ \A e \in Drone : \A m \in inbox'[e] : m.uid = Uid[x] => sinceTx'[x] = 0
    BY DEF ProbeTimes
  <2>1. CASE x = d
    BY <1>1, <2>1, TimingAssumption
  <2>2. CASE x # d
    <3>1. Probing(x) /\ sinceTx'[x] = sinceTx[x] /\ Uid[x] # Uid[d]
      BY <1>1, <1>3, <2>2 DEF Same, TimelyMesh
    <3> QED
      BY <1>2, <1>7, <3>1 DEF ServiceInv, ProbeTimes
  <2> QED
    BY <2>1, <2>2
<1>12. OneHolder'
  <2> SUFFICES ASSUME NEW x \in Drone, NEW e \in Drone, Rivals(x, e),
                      state'[x] = "CLAIMED", state'[e] = "CLAIMED"
               PROVE  FALSE
    BY <1>4 DEF OneHolder
  <2>1. Rivals(e, x) /\ x # e
    BY DEF Rivals
  <2>2. CASE x = d
    BY <1>1, <1>10, <2>1, <2>2 DEF Same
  <2>3. CASE e = d
    BY <1>1, <1>10, <2>1, <2>3 DEF Same
  <2>4. CASE x # d /\ e # d
    BY <1>1, <2>4 DEF Same, ServiceInv, OneHolder
  <2> QED
    BY <2>2, <2>3, <2>4
<1>13. HolderObjects'
  <2> SUFFICES ASSUME NEW r \in Drone, NEW e \in Drone,
                      Rivals(r, e), state'[r] = "CLAIMED", Probing(e)'
               PROVE  /\ ClaimOf(e, "PROBING") \in inbox'[r] \/ ClaimOf(r, "CLAIMED") \in inbox'[e]
                      /\ ~Settling(e)'
    BY <1>4, <1>5 DEF HolderObjects
  <2>1. r # e /\ up[r] /\ up[e]
    BY DEF Rivals
  <2>2. CASE e = d
    <3>1. ~Settling(e)'
      BY <1>1, <2>2, TimingAssumption DEF Settling, TxDue, Probing
    <3>2. inbox'[r] = inbox[r] \cup claims
      BY <1>1, <2>1, <2>2
    <3> QED
      BY <1>2, <2>2, <3>1, <3>2
  <2>3. CASE r = d
    <3>1. Settles(d) /\ inbox'[e] = inbox[e] \cup claims
      BY <1>1, <2>1, <2>3
    <3>2. ~Settling(e)'
      BY <1>3, <1>10, <2>1, <2>3, <3>1
    <3> QED
      BY <1>2, <2>3, <3>1, <3>2
  <2>4. CASE r # d /\ e # d
    <3>1. state[r] = "CLAIMED" /\ Probing(e)
      BY <1>1, <1>3, <2>4 DEF Same
    <3> QED
      BY <1>3, <1>6, <2>4, <3>1 DEF ServiceInv, HolderObjects
  <2> QED
    BY <2>2, <2>3, <2>4
<1>14. ClaimsInTime'
  <2> SUFFICES ASSUME NEW e \in Drone, NEW m \in inbox'[e],
                      up'[e], m.uid # Uid[e], m.state = "CLAIMED",
                      m.nodeId = nodeId'[e], m.nodeId # FLEET_ID_UNASSIGNED
               PROVE  state'[e] = "PROBING" /\ ~Settling(e)'
    BY DEF ClaimsInTime
  <2>1. up[e] /\ m.nodeId = nodeId[e]
    BY <1>1 DEF Same
  <2>2. CASE m \in inbox[e]
    <3>1. state[e] = "PROBING" /\ ~Settling(e)
      BY <2>1, <2>2 DEF ServiceInv, ClaimsInTime
    <3>2. e = d => ~Settles(d)
      BY <1>1, <3>1 DEF Settling
    <3> QED
      BY <1>1, <1>3, <1>8, <3>1, <3>2 DEF Same
  <2>3. CASE m \in claims
    <3>1. e # d /\ Rivals(d, e) /\ Settles(d)
      BY <1>1, <1>2, <2>1, <2>3 DEF Rivals
    <3> QED
      BY <1>1, <1>3, <1>10, <3>1 DEF Same
  <2> QED
    BY <1>7, <2>2, <2>3
<1>15. LowerProbesFirst'
  <2> SUFFICES ASSUME NEW x \in Drone, NEW e \in Drone,
                      Rivals(x, e), Probing(x)', Probing(e)', Uid[x] < Uid[e]
               PROVE  \/ ClaimOf(x, "PROBING") \in inbox'[e]
                      \/ probesSent'[e] = 1 /\ sinceTx'[e] <= sinceTx'[x]
                      \/ probesSent'[e] = 2 /\ sinceTx'[e] + PROBE_INTERVAL <= sinceTx'[x]
    BY <1>4, <1>5 DEF LowerProbesFirst
  <2>1. x # e /\ up[x] /\ up[e]
    BY DEF Rivals
  <2>2. CASE x = d
    <3>1. inbox'[e] = inbox[e] \cup claims
      BY <1>1, <2>1, <2>2
    <3> QED
      BY <1>2, <2>2, <3>1
  <2>3. CASE x # d /\ e # d
    <3>1. Probing(x) /\ Probing(e)
      BY <1>3, <2>3
    <3>2. \/ ClaimOf(x, "PROBING") \in inbox[e]
          \/ probesSent[e] = 1 /\ sinceTx[e] <= sinceTx[x]
          \/ probesSent[e] = 2 /\ sinceTx[e] + PROBE_INTERVAL <= sinceTx[x]
      BY <3>1 DEF ServiceInv, LowerProbesFirst
    <3> QED
      BY <1>1, <1>6, <2>3, <3>2 DEF Same
  <2>4. CASE e = d
    <3>1. Probing(x) /\ sinceTx'[x] = sinceTx[x] /\ sinceTx[x] \in Nat
      BY <1>1, <1>3, <2>1, <2>4 DEF Same, TypeOK
    <3>2. CASE probesSent[d] = 0
      BY <1>1, <2>4, <3>1, <3>2
    <3>3. CASE probesSent[d] # 0
      <4>1. Probing(d) /\ PROBE_INTERVAL <= sinceTx[d] /\ sinceTx[d] \in Nat
        BY <1>1, <3>3 DEF Probing, TxDue, TypeOK
      <4>2. \/ ClaimOf(x, "PROBING") \in inbox[d]
            \/ probesSent[d] = 1 /\ sinceTx[d] <= sinceTx[x]
            \/ probesSent[d] = 2 /\ sinceTx[d] + PROBE_INTERVAL <= sinceTx[x]
        BY <2>4, <3>1, <4>1 DEF ServiceInv, LowerProbesFirst
      <4>3. sinceTx[x] <= PROBE_INTERVAL
        BY <3>1 DEF ServiceInv, ProbeTimes
      <4> QED
        BY <1>1, <1>6, <2>4, <3>1, <4>1, <4>2, <4>3, TimingAssumption
    <3> QED
      BY <3>2, <3>3
  <2> QED
    BY <2>2, <2>3, <2>4
<1> QED
  BY <1>11, <1>12, <1>13, <1>14, <1>15 DEF ServiceInv

LEMMA ServiceStep ==
    ASSUME TypeOK, TypeOK', TimelyMesh, ServiceInv, [Next]_vars
    PROVE  ServiceInv'
<1>1. radio = "timely"
  BY DEF ServiceInv
<1>2. /\ radio' = "timely"
      /\ \/ Tick \/ UNCHANGED vars
         \/ \E d \in Drone : StartsOver(d) \/ Reads(d) \/ Claims(d) \/ Probes(d)
  BY <1>1, StepKinds
<1>3. CASE Tick
  BY <1>3, TickKeeps
<1>4. CASE UNCHANGED vars
  BY <1>4 DEF vars, local, ServiceInv, ProbeTimes, OneHolder, HolderObjects, ClaimsInTime,
       LowerProbesFirst, Probing, Settling, Settles, TxDue, Rivals, ClaimOf
<1>5. CASE \E d \in Drone : StartsOver(d) \/ Reads(d) \/ Claims(d) \/ Probes(d)
  BY <1>2, <1>5, StartsOverKeeps, ReadsKeeps, ClaimsKeeps, ProbesKeeps
<1> QED
  BY <1>2, <1>3, <1>4, <1>5

LEMMA InitServes ==
    ASSUME TimelyMesh, Init
    PROVE  ServiceInv
BY DEF TimelyMesh, Init, ServiceInv, ProbeTimes, OneHolder, HolderObjects, ClaimsInTime,
       LowerProbesFirst, Probing, Rivals

\* On a timely mesh the protocol keeps to what the theorems below need.
LEMMA ServiceCorrect ==
    ASSUME TimelyMesh
    PROVE  Spec => [](IndInv /\ ServiceInv)
<1>1. Init => IndInv /\ ServiceInv
  BY InitTyped, InitServes
<1>2. IndInv /\ ServiceInv /\ [Next]_vars => (IndInv /\ ServiceInv)'
  <2> SUFFICES ASSUME IndInv, ServiceInv, [Next]_vars
               PROVE  IndInv' /\ ServiceInv'
    OBVIOUS
  <2>1. IndInv'
    BY StepTyped
  <2> QED
    BY <2>1, ServiceStep DEF IndInv
<1> QED
  BY <1>1, <1>2, PTL DEF Spec

\* fleet_id.h's "unique node ID", as a state property: no two drones have one ID.
THEOREM HeldIdsDiffer ==
    ASSUME TimelyMesh
    PROVE  Spec => [](\A d, e \in Drone :
                         fleetHasId(d) /\ fleetHasId(e) /\ nodeId[d] = nodeId[e] => d = e)
<1>1. ServiceInv => \A d, e \in Drone :
                       fleetHasId(d) /\ fleetHasId(e) /\ nodeId[d] = nodeId[e] => d = e
  BY DEF ServiceInv, OneHolder, Rivals, fleetHasId
<1> QED
  BY <1>1, ServiceCorrect, PTL

-----------------------------------------------------------------------------
(* A held ID is kept *)

LEMMA SameHeld ==
    ASSUME NEW e \in Drone, Same(e)
    PROVE  HeldId'[e] = HeldId[e]
BY DEF Same, HeldId, fleetHasId

LEMMA StutterHeld ==
    ASSUME Tick \/ UNCHANGED vars
    PROVE  HeldId' = HeldId
<1>1. UNCHANGED <<up, nodeId, state>>
  BY DEF Tick, vars, local
<1> QED
  BY <1>1 DEF HeldId, fleetHasId

\* On a timely mesh a drone yields a held ID to nobody.
LEMMA HeldIsNotYielded ==
    ASSUME TypeOK, ServiceInv, NEW d \in Drone, StartsOver(d), fleetHasId(d)
    PROVE  ~up'[d]
<1> SUFFICES ASSUME up'[d] PROVE FALSE
  BY DEF TypeOK
<1>1. PICK m \in inbox[d] : /\ m.uid # Uid[d] /\ m.nodeId = nodeId[d]
                            /\ remoteOutranksUs(d, m)
  BY DEF StartsOver
<1>2. m.state = "CLAIMED"
  BY <1>1 DEF remoteOutranksUs, fleetHasId
<1>3. state[d] = "PROBING"
  BY <1>1, <1>2 DEF ServiceInv, ClaimsInTime, fleetHasId
<1> QED
  BY <1>3 DEF fleetHasId

\* fleet_id.c: whoever has settled on an ID has it until its power goes, on a timely mesh.
THEOREM HoldersKeepTheirId ==
    ASSUME TimelyMesh
    PROVE  Spec => HeldIdIsKept
<1>1. ASSUME IndInv, ServiceInv, [Next]_vars, NEW d \in Drone, fleetHasId(d), up'[d]
      PROVE  HeldId'[d] = nodeId[d]
  <2>1. TypeOK /\ radio = "timely" /\ HeldId[d] = nodeId[d]
    BY <1>1 DEF IndInv, ServiceInv, HeldId
  <2>2. CASE Tick \/ UNCHANGED vars
    BY <2>1, <2>2, StutterHeld
  <2>3. CASE \E c \in Drone : StartsOver(c) \/ Reads(c) \/ Claims(c) \/ Probes(c)
    <3>1. PICK c \in Drone : StartsOver(c) \/ Reads(c) \/ Claims(c) \/ Probes(c)
      BY <2>3
    <3>2. CASE c # d \/ Reads(c)
      <4>1. Same(d)
        BY <3>1, <3>2 DEF StartsOver, Reads, Claims, Probes
      <4> QED
        BY <2>1, <4>1, SameHeld
    <3>3. CASE StartsOver(c) /\ c = d
      BY <1>1, <2>1, <3>3, HeldIsNotYielded
    <3>4. CASE Claims(c) /\ c = d
      BY <1>1, <3>4 DEF Claims, HeldId, fleetHasId
    <3>5. CASE Probes(c) /\ c = d
      BY <1>1, <3>5 DEF Probes, fleetHasId
    <3> QED
      BY <3>1, <3>2, <3>3, <3>4, <3>5
  <2> QED
    BY <1>1, <2>1, <2>2, <2>3, StepKinds
<1>2. IndInv /\ ServiceInv /\ [Next]_vars =>
         [\A d \in Drone : fleetHasId(d) /\ up'[d] => HeldId'[d] = nodeId[d]]_vars
  BY <1>1
<1> QED
  BY <1>2, ServiceCorrect, PTL DEF Spec, HeldIdIsKept

-----------------------------------------------------------------------------
(* The ID service *)

LEMMA InitHolds ==
    ASSUME Init
    PROVE  IdSvc!Init
BY DEF Init, IdSvc!Init, IdSvc!FLEET_ID_UNASSIGNED, HeldId, fleetHasId, FLEET_ID_UNASSIGNED

\* Starting over is giving the ID up, for a drone that held one.
LEMMA StartsOverServes ==
    ASSUME TypeOK, NEW d \in Drone, StartsOver(d)
    PROVE  [IdSvc!Next]_HeldId
<1>1. \A e \in Drone \ {d} : HeldId'[e] = HeldId[e]
  BY SameHeld DEF StartsOver
<1>2. HeldId'[d] = 0
  BY DEF StartsOver, HeldId, fleetHasId, FLEET_ID_UNASSIGNED
<1>3. HeldId' = [HeldId EXCEPT ![d] = 0]
  BY <1>1, <1>2 DEF HeldId
<1>4. CASE HeldId[d] = 0
  BY <1>1, <1>2, <1>4 DEF HeldId
<1>5. CASE HeldId[d] # 0
  <2>1. IdSvc!Release(d)
    BY <1>3, <1>5 DEF IdSvc!Release, IdSvc!FLEET_ID_UNASSIGNED
  <2> QED
    BY <2>1 DEF IdSvc!Next
<1> QED
  BY <1>4, <1>5

\* The last probe is acquiring the ID, for a drone that had one to probe.
LEMMA ProbesServes ==
    ASSUME TypeOK, TimelyMesh, ServiceInv, NEW d \in Drone, Probes(d)
    PROVE  [IdSvc!Next]_HeldId
<1>1. /\ up[d] /\ state[d] = "PROBING" /\ up'[d] /\ nodeId'[d] = nodeId[d]
      /\ state'[d] = IF Settles(d) THEN "CLAIMED" ELSE "PROBING"
      /\ \A e \in Drone \ {d} : HeldId'[e] = HeldId[e]
  BY SameHeld DEF Probes
<1>2. HeldId[d] = 0
  BY <1>1 DEF HeldId, fleetHasId, FLEET_ID_UNASSIGNED
<1>3. CASE ~Settles(d) \/ nodeId[d] = 0
  <2>1. HeldId'[d] = 0
    BY <1>1, <1>3 DEF HeldId, fleetHasId, FLEET_ID_UNASSIGNED
  <2> QED
    BY <1>1, <1>2, <2>1 DEF HeldId
<1>4. CASE Settles(d) /\ nodeId[d] # 0
  <2>1. HeldId'[d] = nodeId[d]
    BY <1>1, <1>4 DEF HeldId, fleetHasId, FLEET_ID_UNASSIGNED
  <2>2. \A e \in Drone : HeldId[e] # nodeId[d]
    <3> SUFFICES ASSUME NEW e \in Drone, HeldId[e] = nodeId[d] PROVE FALSE
      OBVIOUS
    <3>1. fleetHasId(e) /\ nodeId[e] = nodeId[d] /\ e # d
      BY <1>2, <1>4 DEF HeldId, FLEET_ID_UNASSIGNED
    <3>2. Rivals(d, e)
      BY <1>1, <1>4, <3>1 DEF Rivals, fleetHasId, FLEET_ID_UNASSIGNED
    <3> QED
      BY <1>4, <3>1, <3>2, SettlesAlone DEF fleetHasId
  <2>3. nodeId[d] \in 1..FLEET_ID_MAX
    BY <1>4, IdMaxAssumption DEF TypeOK
  <2>4. HeldId' = [HeldId EXCEPT ![d] = nodeId[d]]
    BY <1>1, <2>1 DEF HeldId
  <2>5. IdSvc!Acquire(d, nodeId[d])
    BY <1>2, <2>2, <2>4 DEF IdSvc!Acquire, IdSvc!FLEET_ID_UNASSIGNED
  <2> QED
    BY <2>3, <2>5 DEF IdSvc!Next
<1> QED
  BY <1>3, <1>4

\* fleet_id.h's "unique node ID": on a timely mesh the fleet implements the ID service,
\* power losses and boards that boot at any time included.
THEOREM IdsAreServed ==
    ASSUME TimelyMesh
    PROVE  Spec => ImplementsIdService
<1>1. Init => IdSvc!Init
  BY InitHolds
<1>2. ASSUME IndInv, ServiceInv, [Next]_vars
      PROVE  [IdSvc!Next]_HeldId
  <2>1. TypeOK /\ radio = "timely"
    BY <1>2 DEF IndInv, ServiceInv
  <2>2. CASE Tick \/ UNCHANGED vars
    BY <2>2, StutterHeld
  <2>3. ASSUME NEW d \in Drone, Reads(d) \/ Claims(d)
        PROVE  HeldId' = HeldId
    <3>1. \A e \in Drone : UNCHANGED <<up[e], nodeId[e], state[e]>>
      BY <2>3 DEF Reads, Claims, Same
    <3> QED
      BY <3>1 DEF HeldId, fleetHasId
  <2> QED
    BY <1>2, <2>1, <2>2, <2>3, StepKinds, StartsOverServes, ProbesServes
<1>3. IndInv /\ ServiceInv /\ [Next]_vars => [IdSvc!Next]_HeldId
  BY <1>2
<1> QED
  BY <1>1, <1>3, ServiceCorrect, PTL DEF Spec, ImplementsIdService, IdSvc!Spec

-----------------------------------------------------------------------------
(* Members in view stay in view *)

\* What d knows of ID i after a step is fresh, or as before with the claims on i unread.
Fresh(d, i) ==
    \/ sinceHeard'[d][i] = 0
    \/ /\ i \in observedIds[d] /\ sinceHeard'[d][i] = sinceHeard[d][i]
       /\ \A m \in inbox[d] : m.nodeId = i /\ m.uid # Uid[d] => m \in inbox'[d]

KeepsView(d) == \A i \in observedIds'[d] : Fresh(d, i)

LEMMA UnchangedView ==
    ASSUME NEW d \in Drone, observedIds'[d] \subseteq observedIds[d],
           sinceHeard'[d] = sinceHeard[d],
           \A m \in inbox[d] : m.uid # Uid[d] => m \in inbox'[d]
    PROVE  KeepsView(d)
BY DEF KeepsView, Fresh

LEMMA HandleView ==
    ASSUME TypeOK, NEW d \in Drone, NEW m \in inbox[d],
           NEW boxes, boxes = [inbox EXCEPT ![d] = @ \ {m}], HandleClaim(d, m, boxes),
           NEW e \in Drone
    PROVE  KeepsView(e) /\ observedIds[e] \subseteq observedIds'[e]
                        /\ (e # d => observedIds'[e] = observedIds[e])
<1> DEFINE heard == IF m.nodeId \in ID THEN {m.nodeId} ELSE {}
<1>1. /\ observedIds' = [observedIds EXCEPT ![d] = observedIds[d] \cup heard]
      /\ sinceHeard' = [sinceHeard EXCEPT ![d] = AgesAfterHearing(d, heard)]
  BY DEF HandleClaim
<1>2. inbox' = boxes \/ inbox' = Broadcast(d, {ClaimOf(d, "CLAIMED")}, boxes)
  BY DEF HandleClaim
<1>3. \A f \in Drone : boxes[f] \subseteq inbox'[f]
  BY <1>2 DEF Broadcast
<1>4. CASE e # d
  <2>1. /\ observedIds'[e] = observedIds[e] /\ sinceHeard'[e] = sinceHeard[e]
        /\ boxes[e] = inbox[e]
    BY <1>1, <1>4 DEF TypeOK
  <2>2. KeepsView(e)
    BY <1>3, <2>1, UnchangedView
  <2> QED
    BY <2>1, <2>2
<1>5. CASE e = d
  <2>1. observedIds'[d] = observedIds[d] \cup heard /\ boxes[d] = inbox[d] \ {m}
    BY <1>1 DEF TypeOK
  <2>2. \A i \in ID : sinceHeard'[d][i] = IF i \in heard THEN 0 ELSE sinceHeard[d][i]
    BY <1>1 DEF TypeOK, AgesAfterHearing
  <2>3. observedIds[d] \subseteq ID /\ heard \subseteq ID
    BY DEF TypeOK
  <2>4. \A i \in ID : m.nodeId = i => i \in heard
    OBVIOUS
  <2> HIDE DEF heard
  <2>5. ASSUME NEW i \in observedIds[d] \cup heard PROVE Fresh(d, i)
    <3>1. CASE i \in heard
      BY <2>2, <2>3, <3>1 DEF Fresh
    <3>2. CASE i \notin heard
      <4>1. i \in ID /\ i \in observedIds[d] /\ sinceHeard'[d][i] = sinceHeard[d][i]
        BY <2>2, <2>3, <2>5, <3>2
      <4>2. \A n \in inbox[d] : n.nodeId = i => n \in inbox'[d]
        BY <1>3, <2>1, <2>4, <3>2, <4>1
      <4> QED
        BY <4>1, <4>2 DEF Fresh
    <3> QED
      BY <3>1, <3>2
  <2>6. KeepsView(d)
    BY <2>1, <2>5 DEF KeepsView
  <2> QED
    BY <1>5, <2>1, <2>6
<1> QED
  BY <1>4, <1>5

\* A drone drops from its view who has been silent for MEMBER_TIMEOUT, or everybody when
\* it loses its power.
LEMMA ViewStep ==
    ASSUME TypeOK, radio = "timely", [Next]_vars, ~Tick, NEW e \in Drone,
           ~up[e] => observedIds[e] = {}
    PROVE  /\ KeepsView(e)
           /\ ~up'[e] => observedIds'[e] = {}
           /\ \A i \in observedIds[e] \ observedIds'[e] :
                 ~up'[e] \/ sinceHeard[e][i] >= MEMBER_TIMEOUT
<1>1. CASE UNCHANGED vars \/ \E d \in Drone : Lose(d)
  <2>1. UNCHANGED <<up, observedIds, sinceHeard, inbox>>
    BY <1>1 DEF vars, local, Lose
  <2>2. KeepsView(e)
    BY <2>1, UnchangedView
  <2> QED
    BY <2>1, <2>2
<1>2. CASE Heal
  BY <1>2 DEF Heal
<1>3. ASSUME NEW d \in Drone, Boot(d)
      PROVE  UNCHANGED <<observedIds, sinceHeard, inbox>> /\ (up'[e] \/ ~up[e])
  BY <1>3 DEF Boot, TypeOK
<1>4. CASE \E d \in Drone : Boot(d)
  <2>1. UNCHANGED <<observedIds, sinceHeard, inbox>> /\ (up'[e] \/ ~up[e])
    BY <1>3, <1>4
  <2>2. KeepsView(e)
    BY <2>1, UnchangedView
  <2> QED
    BY <2>1, <2>2
<1>5. ASSUME NEW d \in Drone, Crash(d)
      PROVE  IF e = d THEN ~up'[e] /\ observedIds'[e] = {}
             ELSE UNCHANGED <<up[e], observedIds[e], sinceHeard[e], inbox[e]>>
  BY <1>5 DEF Crash, TypeOK
<1>6. CASE \E d \in Drone : Crash(d)
  <2>1. CASE ~up'[e] /\ observedIds'[e] = {}
    BY <2>1 DEF KeepsView
  <2>2. CASE UNCHANGED <<up[e], observedIds[e], sinceHeard[e], inbox[e]>>
    <3>1. KeepsView(e)
      BY <2>2, UnchangedView
    <3> QED
      BY <2>2, <3>1
  <2> QED
    BY <1>5, <1>6, <2>1, <2>2
<1>7. CASE \E d \in Drone : Receive(d)
  <2>1. PICK d \in Drone : Receive(d)
    BY <1>7
  <2>2. PICK m \in inbox[d] : HandleClaim(d, m, [inbox EXCEPT ![d] = @ \ {m}])
    BY <2>1 DEF Receive
  <2>3. up[d] /\ up' = up
    BY <2>1 DEF Receive
  <2>4. /\ KeepsView(e) /\ observedIds[e] \subseteq observedIds'[e]
        /\ e # d => observedIds'[e] = observedIds[e]
    BY <2>2, HandleView
  <2> QED
    BY <2>3, <2>4
<1>8. CASE \E d \in Drone : ReceiveEcho(d)
  <2>1. PICK d \in Drone : ReceiveEcho(d)
    BY <1>8
  <2>2. PICK m \in inbox[d] : m.uid = Uid[d] /\ inbox' = [inbox EXCEPT ![d] = @ \ {m}]
    BY <2>1 DEF ReceiveEcho
  <2>3. UNCHANGED <<up, observedIds, sinceHeard>>
    BY <2>1 DEF ReceiveEcho, local
  <2>4. \A n \in inbox[e] : n.uid # Uid[e] => n \in inbox'[e]
    BY <2>2 DEF TypeOK
  <2>5. KeepsView(e)
    BY <2>3, <2>4, UnchangedView
  <2> QED
    BY <2>3, <2>5
<1>9. CASE \E d \in Drone : Update(d)
  <2>1. PICK d \in Drone : Update(d)
    BY <1>9
  <2>2. up[d] /\ ageObservedIds(d) /\ up' = up
    BY <2>1 DEF Update, SendProbe, Announce, AgeOnly
  <2>3. \A f \in Drone : inbox[f] \subseteq inbox'[f]
    BY <2>1 DEF Update, SendProbe, Announce, AgeOnly, Broadcast
  <2>4. /\ observedIds'[e] = IF e = d THEN observedIds[e] \ Silent(d) ELSE observedIds[e]
        /\ sinceHeard' = sinceHeard
    BY <2>2 DEF ageObservedIds, TypeOK
  <2>5. KeepsView(e)
    BY <2>3, <2>4, UnchangedView
  <2>6. \A i \in Silent(d) : sinceHeard[d][i] >= MEMBER_TIMEOUT
    BY DEF Silent
  <2> QED
    BY <2>2, <2>4, <2>5, <2>6
<1> QED
  BY <1>1, <1>2, <1>4, <1>6, <1>7, <1>8, <1>9 DEF Next

\* The clock: nobody is due, so no member's age passes that of its last claim.
LEMMA TickHeard ==
    ASSUME TypeOK, ServiceInv, MembersHeard, Tick
    PROVE  MembersHeard'
<1>1. /\ \A d \in Drone : ~UpdateDue(d) /\ inbox[d] = {}
      /\ UNCHANGED <<up, nodeId, state, probesSent, observedIds, inbox>>
  BY DEF Tick, ServiceInv
<1> SUFFICES ASSUME NEW d \in Drone, NEW e \in Drone, d # e, up[d], up[e],
                    state[e] = "CLAIMED" \/ Probing(e), nodeId[e] \in observedIds[d]
             PROVE  /\ sinceHeard'[d][nodeId[e]] <= sinceTx'[e]
                    /\ state[e] = "CLAIMED" => sinceHeard'[d][nodeId[e]] <= ANNOUNCE_INTERVAL
  BY <1>1 DEF MembersHeard, Probing
<1>2. nodeId[e] \in ID /\ sinceTx[e] \in Nat /\ sinceHeard[d][nodeId[e]] \in Nat
  BY DEF TypeOK
<1>3. sinceHeard[d][nodeId[e]] <= sinceTx[e]
  BY <1>1 DEF MembersHeard
<1>4. sinceTx[e] < ANNOUNCE_INTERVAL
  BY <1>1, <1>2, TimingAssumption DEF UpdateDue, TxDue
<1>5. /\ sinceTx'[e] = AtMost(sinceTx[e] + 1, ANNOUNCE_INTERVAL)
      /\ sinceHeard'[d][nodeId[e]] = AtMost(sinceHeard[d][nodeId[e]] + 1, MEMBER_TIMEOUT)
  BY <1>2 DEF Tick
<1> QED
  BY <1>2, <1>3, <1>4, <1>5, TimingAssumption DEF AtMost

LEMMA HeardStep ==
    ASSUME TypeOK, TypeOK', TimelyMesh, ServiceInv, MembersHeard, [Next]_vars
    PROVE  MembersHeard'
<1>1. CASE Tick
  BY <1>1, TickHeard
<1>2. CASE ~Tick
  <2>1. \A d \in Drone : KeepsView(d) /\ (~up'[d] => observedIds'[d] = {})
    BY <1>2, ViewStep DEF ServiceInv, MembersHeard
  <2> SUFFICES ASSUME NEW d \in Drone, NEW e \in Drone, d # e, up'[d], up'[e],
                      state'[e] = "CLAIMED" \/ Probing(e)', nodeId'[e] \in observedIds'[d]
               PROVE  /\ \/ sinceHeard'[d][nodeId'[e]] <= sinceTx'[e]
                         \/ \E m \in inbox'[d] : m.uid = Uid[e] /\ m.nodeId = nodeId'[e]
                      /\ state'[e] = "CLAIMED" =>
                            sinceHeard'[d][nodeId'[e]] <= ANNOUNCE_INTERVAL
    BY <2>1 DEF MembersHeard
  <2>2. PICK i : i = nodeId'[e]
    OBVIOUS
  <2>3. Fresh(d, i) /\ i \in ID /\ Uid[e] # Uid[d]
    BY <2>1, <2>2 DEF KeepsView, TypeOK, TimelyMesh
  <2>4. sinceTx[e] \in Nat /\ sinceTx'[e] \in Nat /\ ANNOUNCE_INTERVAL \in Nat
        /\ PROBE_INTERVAL \in Nat \ {0} /\ PROBE_INTERVAL <= ANNOUNCE_INTERVAL
        /\ sinceHeard[d][i] \in Nat
    BY <2>3, TimingAssumption DEF TypeOK
  <2>5. \/ Same(e) \/ StartsOver(e) \/ Claims(e) \/ Probes(e)
    <3>1. CASE UNCHANGED vars
      BY <3>1 DEF vars, local, Same
    <3>2. CASE ~UNCHANGED vars
      <4>1. PICK c \in Drone : StartsOver(c) \/ Reads(c) \/ Claims(c) \/ Probes(c)
        BY <1>2, <3>2, StepKinds DEF ServiceInv
      <4> QED
        BY <4>1 DEF StartsOver, Reads, Claims, Probes
    <3> QED
      BY <3>1, <3>2
  <2>6. CASE StartsOver(e)
    BY <2>6 DEF StartsOver, Probing, TypeOK
  <2>7. CASE Same(e)
    <3>1. /\ up[e] /\ nodeId[e] = i /\ state'[e] = state[e] /\ sinceTx'[e] = sinceTx[e]
          /\ state[e] = "CLAIMED" \/ Probing(e)
      BY <2>2, <2>7 DEF Same, Probing
    <3>2. CASE sinceHeard'[d][i] = 0
      BY <2>2, <2>4, <3>1, <3>2
    <3>3. CASE sinceHeard'[d][i] # 0
      <4>1. /\ i \in observedIds[d] /\ sinceHeard'[d][i] = sinceHeard[d][i]
            /\ \A m \in inbox[d] : m.nodeId = i /\ m.uid # Uid[d] => m \in inbox'[d]
        BY <2>3, <3>3 DEF Fresh
      <4>2. up[d]
        BY <4>1 DEF MembersHeard, TypeOK
      <4>3. /\ \/ sinceHeard[d][i] <= sinceTx[e]
               \/ \E m \in inbox[d] : m.uid = Uid[e] /\ m.nodeId = i
            /\ state[e] = "CLAIMED" => sinceHeard[d][i] <= ANNOUNCE_INTERVAL
        BY <3>1, <4>1, <4>2 DEF MembersHeard
      <4> QED
        BY <2>2, <2>3, <3>1, <4>1, <4>3
    <3> QED
      BY <3>2, <3>3
  <2>8. CASE Claims(e) \/ Probes(e)
    <3>1. up[e] /\ nodeId[e] = i /\ Same(d)
      BY <2>2, <2>8 DEF Claims, Probes
    <3>2. PICK s : ClaimOf(e, s) \in inbox'[d]
      <4>1. up[d] /\ d \in Drone \ {e}
        BY <3>1 DEF Same
      <4>2. CASE Claims(e)
        BY <4>1, <4>2 DEF Claims, Sends
      <4>3. CASE Probes(e)
        <5>1. PICK claims : Sends(e, claims) /\ ClaimOf(e, "PROBING") \in claims
          BY <4>3 DEF Probes
        <5> QED
          BY <4>1, <5>1 DEF Sends
      <4> QED
        BY <2>8, <4>2, <4>3
    <3>3. ClaimOf(e, s).uid = Uid[e] /\ ClaimOf(e, s).nodeId = i
      BY <3>1 DEF ClaimOf
    <3>4. state'[e] = "CLAIMED" => sinceHeard'[d][i] <= ANNOUNCE_INTERVAL
      <4>1. CASE sinceHeard'[d][i] = 0
        BY <2>4, <4>1
      <4>2. CASE sinceHeard'[d][i] # 0
        <5>1. /\ i \in observedIds[d] /\ sinceHeard'[d][i] = sinceHeard[d][i]
              /\ up[d]
          BY <2>3, <3>1, <4>2 DEF Fresh, Same
        <5>2. CASE Claims(e)
          BY <3>1, <5>1, <5>2 DEF Claims, MembersHeard
        <5>3. CASE Probes(e) /\ state'[e] = "CLAIMED"
          <6>1. state[e] = "PROBING" /\ TxDue(e) /\ Settles(e)
            BY <5>3 DEF Probes
          <6>2. Probing(e)
            BY <3>1, <6>1, TimingAssumption DEF Probing, Settles, TimelyMesh, TypeOK
          <6>3. PROBE_INTERVAL <= sinceTx[e] /\ sinceTx[e] <= PROBE_INTERVAL
            BY <6>1, <6>2 DEF TxDue, ServiceInv, ProbeTimes
          <6>4. \A m \in inbox[d] : m.uid # Uid[e]
            BY <2>4, <6>2, <6>3 DEF ServiceInv, ProbeTimes
          <6>5. sinceHeard[d][i] <= sinceTx[e]
            BY <3>1, <5>1, <6>2, <6>4 DEF MembersHeard
          <6> QED
            BY <2>4, <5>1, <6>3, <6>5
        <5> QED
          BY <2>8, <5>2, <5>3
      <4> QED
        BY <4>1, <4>2
    <3> QED
      BY <2>2, <3>2, <3>3, <3>4
  <2> QED
    BY <2>5, <2>6, <2>7, <2>8
<1> QED
  BY <1>1, <1>2

\* fleet_id.c: on a timely mesh a member that has an ID, and keeps it, never drops out of
\* the mask of a drone that has seen it.
THEOREM MembersStayInView ==
    ASSUME TimelyMesh
    PROVE  Spec => NoFalseExpiry
<1>1. Init => MembersHeard
  BY DEF Init, MembersHeard
<1>2. IndInv /\ IndInv' /\ ServiceInv /\ MembersHeard /\ [Next]_vars => MembersHeard'
  BY HeardStep DEF IndInv
<1>3. ASSUME IndInv, ServiceInv, MembersHeard, [Next]_vars,
             NEW d \in Drone, NEW e \in Drone,
             d # e, fleetHasId(e), nodeId[e] \in observedIds[d], up'[d]
      PROVE  nodeId[e] \in observedIds'[d]
  <2>1. TypeOK /\ radio = "timely" /\ up[d] /\ up[e] /\ state[e] = "CLAIMED"
    BY <1>3 DEF IndInv, TypeOK, ServiceInv, MembersHeard, fleetHasId
  <2>2. CASE Tick
    BY <1>3, <2>2 DEF Tick
  <2>3. CASE ~Tick
    <3>1. sinceHeard[d][nodeId[e]] <= ANNOUNCE_INTERVAL
      BY <1>3, <2>1 DEF MembersHeard
    <3>2. sinceHeard[d][nodeId[e]] \in Nat
      BY <1>3, <2>1 DEF TypeOK
    <3>3. ~(sinceHeard[d][nodeId[e]] >= MEMBER_TIMEOUT)
      BY <3>1, <3>2, TimingAssumption DEF TimelyMesh
    <3> QED
      BY <1>3, <2>1, <2>3, <3>3, ViewStep
  <2> QED
    BY <2>2, <2>3
<1>4. IndInv /\ ServiceInv /\ MembersHeard /\ [Next]_vars =>
         [\A d, e \in Drone :
             /\ d # e /\ fleetHasId(e) /\ nodeId[e] \in observedIds[d]
             /\ up'[d] /\ HeldId'[e] = nodeId[e]
             => nodeId[e] \in observedIds'[d]]_vars
  BY <1>3
<1> QED
  BY <1>1, <1>2, <1>4, ServiceCorrect, PTL DEF Spec, NoFalseExpiry
=============================================================================
