-------------------------- MODULE FleetStateProofs --------------------------
(***************************************************************************)
(* Theorems about FleetState for every fleet, table length, timing and     *)
(* radio.                                                                  *)
(***************************************************************************)
EXTENDS FleetState, FiniteSetTheorems, WellFoundedInduction, TLAPS

Sample3 == [valid : BOOLEAN, nodeId : NodeId, threat : BOOLEAN]

\* What OneSlotPerNode needs of the types.
TableOK == remoteStates \in [Slot -> Sample3]

SlotInv == TableOK /\ OneSlotPerNode

-----------------------------------------------------------------------------
(* Lemmas about the slots *)

\* There is a lowest slot in every set of slots that is not empty.
LEMMA LowestExists ==
    ASSUME NEW S \in SUBSET Slot, S # {}
    PROVE  Lowest(S) \in S /\ \A j \in S : Lowest(S) <= j
<1>1. S \subseteq Nat
  BY TableAssumption DEF Slot
<1>2. PICK x \in S : \A y \in S : <<y, x>> \notin OpToRel(<, Nat)
  BY <1>1, NatLessThanWellFounded, WFMin
<1>3. \A y \in S : ~(y < x)
  BY <1>1, <1>2 DEF OpToRel
<1>4. \E i \in S : \A j \in S : i <= j
  BY <1>1, <1>3
<1> QED
  BY <1>4 DEF Lowest

LEMMA SlotsForSlots == ASSUME NEW n PROVE SlotsFor(n) \subseteq Slot
BY DEF SlotsFor

\* Writing a node's sample where SlotsFor says keeps one slot per node.
LEMMA MarkKeepsOneSlot ==
    ASSUME SlotInv, NEW m \in Message, SlotsFor(m.nodeId) # {},
           markRemoteSeen(Lowest(SlotsFor(m.nodeId)), m)
    PROVE  SlotInv'
<1> DEFINE k == Lowest(SlotsFor(m.nodeId))
<1>1. k \in SlotsFor(m.nodeId) /\ k \in Slot
  BY LowestExists, SlotsForSlots
<1> HIDE DEF k
<1>2. remoteStates' = [remoteStates EXCEPT ![k] =
          [valid |-> TRUE, nodeId |-> m.nodeId, threat |-> m.threat]]
  BY DEF markRemoteSeen, k
<1>3. m.nodeId \in NodeId /\ m.threat \in BOOLEAN
  BY DEF Message
<1>4. TableOK'
  BY <1>1, <1>2, <1>3 DEF SlotInv, TableOK, Sample3
<1>5. \A i \in Slot : remoteStates[i].valid /\ remoteStates[i].nodeId = m.nodeId => i = k
  BY <1>1 DEF SlotsFor, SlotInv, OneSlotPerNode
<1>6. /\ \A i \in Slot \ {k} : remoteStates'[i] = remoteStates[i]
      /\ remoteStates'[k].nodeId = m.nodeId
  BY <1>1, <1>2 DEF SlotInv, TableOK
<1>7. OneSlotPerNode'
  <2> SUFFICES ASSUME NEW i \in Slot, NEW j \in Slot,
                      remoteStates'[i].valid, remoteStates'[j].valid,
                      remoteStates'[i].nodeId = remoteStates'[j].nodeId
               PROVE  i = j
    BY DEF OneSlotPerNode
  <2>1. CASE i = k /\ j # k
    BY <2>1, <1>5, <1>6
  <2>2. CASE j = k /\ i # k
    BY <2>2, <1>5, <1>6
  <2>3. CASE i # k /\ j # k
    BY <2>3, <1>6 DEF SlotInv, OneSlotPerNode
  <2> QED
    BY <2>1, <2>2, <2>3
<1> QED
  BY <1>4, <1>7 DEF SlotInv

-----------------------------------------------------------------------------
(* Samples on the air are well formed *)

AirOK == air \subseteq Message /\ holder \in [Drone -> NodeId]

LEMMA AirStep == ASSUME AirOK, [Next]_vars PROVE AirOK'
<1>1. CASE \E d \in Drone : ChangeId(d)
  <2>1. PICK d \in Drone : ChangeId(d)
    BY <1>1
  <2> QED
    BY <2>1, SelfAssumption
       DEF ChangeId, Ids!Release, Ids!Acquire, Ids!FLEET_ID_UNASSIGNED, AirOK, NodeId
<1>2. CASE \E d \in Drone, s \in {"blind", "clear", "threat"} : Turn(d, s)
  BY <1>2 DEF Turn, AirOK
<1>3. CASE \E d \in Peer : Broadcast(d)
  <2>1. PICK d \in Peer : Broadcast(d)
    BY <1>3
  <2>2. [nodeId |-> holder[d], threat |-> situation[d] = "threat", age |-> 0] \in Message
    <3>1. holder[d] \in NodeId /\ 0 \in 0..MaxDelay
      BY TableAssumption DEF AirOK, Peer
    <3>2. (situation[d] = "threat") \in BOOLEAN
      BY Zenon
    <3> QED
      BY <3>1, <3>2 DEF Message
  <2> QED
    BY <2>1, <2>2 DEF Broadcast, AirOK
<1>4. CASE \E m \in air : Receive(m) \/ Lose(m)
  BY <1>4 DEF Receive, Lose, AirOK
<1>5. CASE Update
  BY <1>5 DEF Update, AirOK
<1>6. CASE Tick
  <2>1. \A m \in air : [m EXCEPT !.age = @ + 1] \in Message
    BY <1>6, TableAssumption DEF Tick, LongestDelay, AirOK, Message
  <2> QED
    BY <1>6, <2>1 DEF Tick, AirOK
<1>7. CASE UNCHANGED vars
  BY <1>7 DEF vars, AirOK
<1> QED
  BY <1>1, <1>2, <1>3, <1>4, <1>5, <1>6, <1>7 DEF Next

-----------------------------------------------------------------------------

LEMMA SlotStep == ASSUME SlotInv, AirOK, [Next]_vars PROVE SlotInv'
<1>1. CASE \E m \in air : Receive(m)
  <2>1. PICK m \in air : Receive(m)
    BY <1>1
  <2>2. CASE UNCHANGED table
    BY <2>2 DEF table, SlotInv, TableOK, OneSlotPerNode
  <2>3. CASE SlotsFor(m.nodeId) # {} /\ markRemoteSeen(Lowest(SlotsFor(m.nodeId)), m)
    <3>1. m \in Message
      BY <2>1 DEF AirOK
    <3> QED
      BY <2>3, <3>1, MarkKeepsOneSlot
  <2> QED
    BY <2>1, <2>2, <2>3 DEF Receive
<1>2. CASE Update
  <2>1. \A i \in Slot : \/ remoteStates'[i] = remoteStates[i]
                        \/ remoteStates'[i] = Free
    BY <1>2 DEF Update, Aged
  <2>2. TableOK'
    <3>1. Free \in Sample3
      BY SelfAssumption DEF Free, Sample3, NodeId
    <3> QED
      BY <1>2, <3>1 DEF Update, Aged, SlotInv, TableOK
  <2>3. ~Free.valid
    BY DEF Free
  <2> QED
    BY <2>1, <2>2, <2>3 DEF SlotInv, OneSlotPerNode
<1>3. CASE UNCHANGED remoteStates
  BY <1>3 DEF SlotInv, TableOK, OneSlotPerNode
<1> QED
  BY <1>1, <1>2, <1>3
     DEF Next, vars, table, ChangeId, Turn, Broadcast, Lose, Tick

\* A node has one slot, whatever is lost, repeated, late or comes under another ID:
\* fleetStateReceive and ageRemoteStates, fleet_state.c:69-77, 141-188.
THEOREM OneSlot == Spec => []OneSlotPerNode
<1>1. Init => SlotInv /\ AirOK
  BY SelfAssumption
     DEF Init, SlotInv, TableOK, Sample3, OneSlotPerNode, AirOK, Free, NodeId
<1>2. SlotInv /\ AirOK /\ [Next]_vars => (SlotInv /\ AirOK)'
  BY SlotStep, AirStep
<1>3. SlotInv => OneSlotPerNode
  BY DEF SlotInv
<1> QED
  BY <1>1, <1>2, <1>3, PTL DEF Spec

-----------------------------------------------------------------------------
(* Types *)

\* TypeOK without what it says of the age of the entries.
Types ==
    /\ AirOK /\ TableOK
    /\ situation \in [Drone -> {"blind", "clear", "threat"}]
    /\ sinceTx \in [Drone -> 0..BROADCAST_INTERVAL]
    /\ sinceSeen \in [Slot -> 0..ENTRY_TIMEOUT]
    /\ alarm \in NodeId \cup {NoAlarm}
    /\ updated \in BOOLEAN /\ radio \in {"lossy", "timely"}
    /\ steady \in 0..Settled /\ changes \in 0..MaxChanges

\* After an update no entry is too old.
Fresh == updated => \A i \in Slot : remoteStates[i].valid => sinceSeen[i] < ENTRY_TIMEOUT

LEMMA TypesOfParts == (TypeOK <=> Types /\ Fresh) /\ (TypeOK' <=> (Types /\ Fresh)')
BY DEF TypeOK, Types, Fresh, AirOK, TableOK, Sample3

LEMMA FreeType == Free \in Sample3
BY SelfAssumption DEF Free, Sample3, NodeId

LEMMA Counters ==
    /\ 0 \in 0..Settled /\ 0 \in 0..ENTRY_TIMEOUT /\ 0 < ENTRY_TIMEOUT
    /\ 0 \in 0..BROADCAST_INTERVAL /\ BROADCAST_INTERVAL \in 0..BROADCAST_INTERVAL
    /\ ENTRY_TIMEOUT \in 0..ENTRY_TIMEOUT /\ Settled \in Nat /\ 0 \in 0..MaxChanges
BY TableAssumption, StateBoundAssumption DEF Settled

LEMMA TypesInit == Init => Types /\ Fresh
<1> SUFFICES ASSUME Init PROVE Types /\ Fresh
  OBVIOUS
<1>1. TableOK
  BY FreeType DEF Init, TableOK
<1> QED
  BY <1>1, Counters, StateRadioAssumption DEF Init, Types, AirOK, Fresh

\* What the steps do to the table.
LEMMA TableStep ==
    ASSUME Types, Fresh, [Next]_vars
    PROVE  TableOK' /\ sinceSeen' \in [Slot -> 0..ENTRY_TIMEOUT] /\ Fresh'
<1>1. CASE \E m \in air : Receive(m)
  <2>1. PICK m \in air : Receive(m)
    BY <1>1
  <2>2. CASE UNCHANGED table
    BY <2>1, <2>2 DEF table, Receive, Types, TableOK, Fresh
  <2>3. CASE SlotsFor(m.nodeId) # {} /\ markRemoteSeen(Lowest(SlotsFor(m.nodeId)), m)
    <3> DEFINE k == Lowest(SlotsFor(m.nodeId))
               sample == [valid |-> TRUE, nodeId |-> m.nodeId, threat |-> m.threat]
    <3>1. k \in Slot
      BY <2>3, LowestExists, SlotsForSlots
    <3>2. sample \in Sample3
      BY <2>1 DEF Types, AirOK, Message, Sample3
    <3>3. /\ remoteStates' = [remoteStates EXCEPT ![k] = sample]
          /\ sinceSeen' = [sinceSeen EXCEPT ![k] = 0]
          /\ UNCHANGED updated
      BY <2>1, <2>3 DEF markRemoteSeen, Receive
    <3> HIDE DEF k, sample
    <3>4. TableOK'
      BY <3>2, <3>3 DEF Types, TableOK
    <3>5. sinceSeen' \in [Slot -> 0..ENTRY_TIMEOUT]
      BY <3>3, Counters DEF Types
    <3>6. Fresh'
      BY <3>1, <3>3, Counters DEF Fresh, Types, TableOK
    <3> QED
      BY <3>4, <3>5, <3>6
  <2> QED
    BY <2>1, <2>2, <2>3 DEF Receive
<1>2. CASE Update
  <2>1. TableOK'
    BY <1>2, FreeType DEF Update, Aged, Types, TableOK
  <2>2. Fresh'
    <3> SUFFICES ASSUME NEW i \in Slot, remoteStates'[i].valid
                 PROVE  sinceSeen'[i] < ENTRY_TIMEOUT
      BY DEF Fresh
    <3>1. ~TooOld(i) /\ remoteStates[i].valid
      BY <1>2 DEF Update, Aged, Free
    <3>2. sinceSeen[i] \in Nat /\ ENTRY_TIMEOUT \in Nat /\ sinceSeen' = sinceSeen
      BY <1>2, TableAssumption DEF Types, Update
    <3> QED
      BY <3>1, <3>2 DEF TooOld
  <2> QED
    BY <1>2, <2>1, <2>2 DEF Update, Types
<1>3. CASE Tick
  <2>1. \A i \in Slot : AtMost(sinceSeen[i] + 1, ENTRY_TIMEOUT) \in 0..ENTRY_TIMEOUT
    BY TableAssumption DEF AtMost, Types
  <2> QED
    BY <1>3, <2>1 DEF Tick, Types, TableOK, Fresh
<1>4. CASE UNCHANGED <<remoteStates, sinceSeen, updated>>
  BY <1>4 DEF Types, TableOK, Fresh
<1> QED
  BY <1>1, <1>2, <1>3, <1>4 DEF Next, vars, table, ChangeId, Turn, Broadcast, Lose

LEMMA TypesStep ==
    ASSUME Types, Fresh, [Next]_vars
    PROVE  Types' /\ Fresh'
<1>0. /\ AirOK' /\ TableOK' /\ sinceSeen' \in [Slot -> 0..ENTRY_TIMEOUT] /\ Fresh'
  BY AirStep, TableStep DEF Types
<1>1. CASE \E d \in Drone : ChangeId(d)
  BY <1>0, <1>1, Counters, StateBoundAssumption DEF ChangeId, Types
<1>2. CASE \E d \in Drone, s \in {"blind", "clear", "threat"} : Turn(d, s)
  BY <1>0, <1>2, Counters, StateBoundAssumption DEF Turn, Types
<1>3. CASE \E d \in Peer : Broadcast(d)
  BY <1>0, <1>3, Counters DEF Broadcast, Types
<1>4. CASE \E m \in air : Receive(m) \/ Lose(m)
  BY <1>0, <1>4 DEF Receive, Lose, Types
<1>5. CASE Update
  <2>1. alarm' \in NodeId \cup {NoAlarm}
    <3>1. CASE Threats(Aged) # {}
      <4>1. Lowest(Threats(Aged)) \in Slot
        BY <3>1, LowestExists DEF Threats
      <4>2. Aged \in [Slot -> Sample3]
        BY FreeType DEF Aged, Types, TableOK
      <4>3. Aged[Lowest(Threats(Aged))].nodeId \in NodeId
        BY <4>1, <4>2 DEF Sample3
      <4> QED
        BY <1>5, <4>3 DEF Update
    <3>2. CASE Threats(Aged) = {}
      BY <1>5, <3>2 DEF Update
    <3> QED
      BY <3>1, <3>2
  <2> QED
    BY <1>0, <1>5, <2>1 DEF Update, Types
<1>6. CASE Tick
  <2>1. \A d \in Drone : AtMost(sinceTx[d] + 1, BROADCAST_INTERVAL) \in 0..BROADCAST_INTERVAL
    BY TableAssumption DEF AtMost, Types
  <2>2. AtMost(steady + 1, Settled) \in 0..Settled
    BY Counters DEF AtMost, Types
  <2> QED
    BY <1>0, <1>6, <2>1, <2>2 DEF Tick, Types
<1>7. CASE UNCHANGED vars
  BY <1>0, <1>7 DEF vars, Types
<1> QED
  BY <1>1, <1>2, <1>3, <1>4, <1>5, <1>6, <1>7 DEF Next

\* The table, the air and the clocks of fleet_state.c keep their types; no entry older
\* than ENTRY_TIMEOUT survives an update (fleet_state.c:69-77).
THEOREM TypeCorrect == Spec => []TypeOK
<1>1. Init => Types /\ Fresh
  BY TypesInit
<1>2. (Types /\ Fresh) /\ [Next]_vars => (Types /\ Fresh)'
  BY TypesStep
<1>3. Types /\ Fresh => TypeOK
  BY TypesOfParts
<1> QED
  BY <1>1, <1>2, <1>3, PTL DEF Spec

-----------------------------------------------------------------------------
(* The end of an alarm *)

NoThreat == \A d \in Drone : situation[d] # "threat"

\* News of a threat is as old as the peace: on the air, and in the table.
OldNews ==
    NoThreat =>
        /\ \A m \in air : m.threat => steady <= m.age
        /\ \A i \in Slot : remoteStates[i].valid /\ remoteStates[i].threat
               => steady <= sinceSeen[i] + MaxDelay \/ sinceSeen[i] = ENTRY_TIMEOUT

AlarmInv == OldNews /\ AlarmEnds

LEMMA OldNewsStep ==
    ASSUME Types, OldNews, [Next]_vars
    PROVE  OldNews'
<1>0. /\ steady \in Nat /\ MaxDelay \in Nat /\ ENTRY_TIMEOUT \in Nat
      /\ \A m \in air : m.age \in 0..MaxDelay
      /\ \A i \in Slot : sinceSeen[i] \in 0..ENTRY_TIMEOUT
  BY Counters, TableAssumption DEF Types, AirOK, Message
<1>1. CASE \/ \E d \in Drone : ChangeId(d)
           \/ \E d \in Drone, s \in {"blind", "clear", "threat"} : Turn(d, s)
  <2>1. steady' = 0 /\ UNCHANGED <<air, remoteStates, sinceSeen>>
    BY <1>1 DEF ChangeId, Turn, table
  <2> QED
    BY <1>0, <2>1 DEF OldNews
<1>2. CASE \E d \in Peer : Broadcast(d)
  <2>1. PICK d \in Peer : Broadcast(d)
    BY <1>2
  <2> DEFINE threat == situation[d] = "threat"
             sample == [nodeId |-> holder[d], threat |-> threat, age |-> 0]
  <2>2. UNCHANGED <<situation, steady, remoteStates, sinceSeen>> /\ air' \subseteq air \cup {sample}
    BY <2>1 DEF Broadcast, table
  <2>3. threat \in BOOLEAN /\ (NoThreat => ~threat)
    BY <2>1, Zenon DEF NoThreat, Peer
  <2> HIDE DEF threat
  <2>4. sample.threat = threat
    OBVIOUS
  <2> HIDE DEF sample
  <2> QED
    BY <2>2, <2>3, <2>4 DEF OldNews, NoThreat, Peer
<1>3. CASE \E m \in air : Receive(m)
  <2>1. PICK m \in air : Receive(m)
    BY <1>3
  <2>2. UNCHANGED <<situation, steady>> /\ air' \subseteq air
    BY <2>1 DEF Receive
  <2>3. CASE UNCHANGED table
    BY <2>2, <2>3 DEF table, OldNews, NoThreat
  <2>4. CASE SlotsFor(m.nodeId) # {} /\ markRemoteSeen(Lowest(SlotsFor(m.nodeId)), m)
    <3> DEFINE k == Lowest(SlotsFor(m.nodeId))
    <3>1. k \in Slot
      BY <2>4, LowestExists, SlotsForSlots
    <3> HIDE DEF k
    <3>2. /\ remoteStates'[k].threat = m.threat /\ sinceSeen'[k] = 0
          /\ \A i \in Slot \ {k} : remoteStates'[i] = remoteStates[i]
                                   /\ sinceSeen'[i] = sinceSeen[i]
      BY <2>4, <3>1 DEF markRemoteSeen, k, Types, TableOK
    <3>3. NoThreat /\ m.threat => steady <= MaxDelay
      BY <1>0, <2>1 DEF OldNews
    <3> QED
      BY <1>0, <2>2, <3>2, <3>3 DEF OldNews, NoThreat
  <2> QED
    BY <2>1, <2>3, <2>4 DEF Receive
<1>4. CASE \E m \in air : Lose(m)
  BY <1>4 DEF Lose, table, OldNews, NoThreat
<1>5. CASE Update
  <2>1. \A i \in Slot : remoteStates'[i] = remoteStates[i] \/ ~remoteStates'[i].valid
    BY <1>5 DEF Update, Aged, Free
  <2> QED
    BY <1>5, <2>1 DEF Update, OldNews, NoThreat
<1>6. CASE Tick
  <2>1. UNCHANGED <<situation, remoteStates>> /\ steady' <= steady + 1 /\ steady' \in Nat
    BY <1>0, <1>6, Counters DEF Tick, AtMost
  <2>2. \A m \in air' : \E n \in air : m.age = n.age + 1 /\ m.threat = n.threat
    <3> SUFFICES ASSUME NEW n \in air
                 PROVE  /\ [n EXCEPT !.age = @ + 1].age = n.age + 1
                        /\ [n EXCEPT !.age = @ + 1].threat = n.threat
      BY <1>6 DEF Tick
    <3>1. n \in Message
      BY DEF Types, AirOK
    <3> QED
      BY <3>1 DEF Message
  <2>3. \A i \in Slot : \/ sinceSeen[i] # ENTRY_TIMEOUT /\ sinceSeen'[i] = sinceSeen[i] + 1
                        \/ sinceSeen'[i] = ENTRY_TIMEOUT
    BY <1>0, <1>6 DEF Tick, AtMost
  <2>4. NoThreat => \A m \in air' : m.threat => steady' <= m.age
    BY <1>0, <2>1, <2>2 DEF OldNews
  <2>5. NoThreat => \A i \in Slot : remoteStates[i].valid /\ remoteStates[i].threat =>
           steady' <= sinceSeen'[i] + MaxDelay \/ sinceSeen'[i] = ENTRY_TIMEOUT
    BY <1>0, <2>1, <2>3 DEF OldNews
  <2> QED
    BY <2>1, <2>4, <2>5 DEF OldNews, NoThreat
<1>7. CASE UNCHANGED vars
  BY <1>7 DEF vars, table, OldNews, NoThreat
<1> QED
  BY <1>1, <1>2, <1>3, <1>4, <1>5, <1>6, <1>7 DEF Next

LEMMA AlarmStep ==
    ASSUME Types, Fresh, AlarmInv, [Next]_vars
    PROVE  AlarmEnds'
<1>0. /\ steady \in Nat /\ MaxDelay \in Nat /\ ENTRY_TIMEOUT \in Nat
      /\ \A i \in Slot : sinceSeen[i] \in 0..ENTRY_TIMEOUT
  BY Counters, TableAssumption DEF Types
<1>1. CASE Update
  <2> SUFFICES ASSUME NoThreat', steady' > ENTRY_TIMEOUT + MaxDelay PROVE alarm' = NoAlarm
    BY DEF AlarmEnds, NoThreat
  <2>1. NoThreat /\ steady > ENTRY_TIMEOUT + MaxDelay
    BY <1>1 DEF Update, NoThreat
  <2>2. ASSUME NEW i \in Threats(Aged) PROVE FALSE
    <3>1. i \in Slot /\ remoteStates[i].valid /\ remoteStates[i].threat /\ ~TooOld(i)
      BY <2>2 DEF Threats, Aged, Free
    <3>2. sinceSeen[i] < ENTRY_TIMEOUT
      BY <1>0, <3>1 DEF TooOld
    <3> QED
      BY <1>0, <2>1, <3>1, <3>2 DEF AlarmInv, OldNews
  <2>3. Threats(Aged) = {}
    BY <2>2
  <2> QED
    BY <1>1, <2>3 DEF Update
<1>2. CASE \/ \E d \in Drone : ChangeId(d)
           \/ \E d \in Drone, s \in {"blind", "clear", "threat"} : Turn(d, s)
  <2>1. steady' = 0
    BY <1>2 DEF ChangeId, Turn
  <2> QED
    BY <1>0, <2>1 DEF AlarmEnds
<1>3. CASE Tick
  BY <1>3 DEF Tick, AlarmEnds
<1>4. CASE UNCHANGED <<situation, steady, updated, alarm>>
  BY <1>4 DEF AlarmInv, AlarmEnds
<1> QED
  BY <1>1, <1>2, <1>3, <1>4 DEF Next, Broadcast, Receive, Lose, vars

\* With any radio an alarm ends ENTRY_TIMEOUT after the last sample of the threat, at
\* the latest, even if nobody says that it is over (fleet_state.c:69-77, 263-282).
THEOREM AlarmsEnd == Spec => []AlarmEnds
<1>1. Init => Types /\ Fresh /\ AlarmInv
  <2>1. Init => AlarmInv
    BY SelfAssumption DEF Init, AlarmInv, OldNews, AlarmEnds, Free
  <2> QED
    BY <2>1, TypesInit
<1>2. (Types /\ Fresh /\ AlarmInv) /\ [Next]_vars => (Types /\ Fresh /\ AlarmInv)'
  BY TypesStep, OldNewsStep, AlarmStep DEF AlarmInv
<1>3. Types /\ Fresh /\ AlarmInv => AlarmEnds
  BY DEF AlarmInv
<1> QED
  BY <1>1, <1>2, <1>3, PTL DEF Spec

-----------------------------------------------------------------------------
(* A threat is seen *)

UniqueIds ==
    \A d, e \in Drone : d # e => holder[d] # holder[e] \/ holder[d] = FLEET_ID_UNASSIGNED

\* What a sample says is so of the peer that sent it.
Truthful(s) == \E p \in Peer : holder[p] = s.nodeId /\ (s.threat <=> situation[p] = "threat")

\* On a timely mesh a sample that is younger than the last change is true, and so is
\* every entry once the older ones have timed out.
TrueNews ==
    radio = "timely" =>
        /\ steady > 0 => \A m \in air : Truthful(m)
        /\ \A i \in Slot :
              /\ remoteStates[i].valid
              /\ \/ sinceSeen[i] < steady /\ sinceSeen[i] < ENTRY_TIMEOUT
                 \/ steady > ENTRY_TIMEOUT
              => Truthful(remoteStates[i])

Threatens(d) == situation[d] = "threat" /\ holder[d] # FLEET_ID_UNASSIGNED /\ fleetHasId

\* Self has heard of a drone in this time.
Entry(d, age) ==
    \E i \in Slot : /\ remoteStates[i].valid /\ remoteStates[i].nodeId = holder[d]
                    /\ sinceSeen[i] <= age

\* A peer that has broadcast since all entries are true is heard before the next clock
\* unit begins, and has an entry from then on.
Heard ==
    radio = "timely" =>
        \A d \in Peer : Threatens(d) =>
            /\ steady > ENTRY_TIMEOUT + sinceTx[d] =>
                  (\E m \in air : m.nodeId = holder[d]) \/ Entry(d, sinceTx[d])
            /\ steady > ENTRY_TIMEOUT + BROADCAST_INTERVAL => Entry(d, BROADCAST_INTERVAL)

ThreatInv == UniqueIds /\ TrueNews /\ Heard /\ ThreatIsSeen

\* The drones of the fleet fit in Self's table.
FleetFits == IsFiniteSet(Peer) /\ Cardinality(Peer) <= SLOTS

LEMMA UniqueIdsStep == ASSUME Types, UniqueIds, [Next]_vars PROVE UniqueIds'
<1>1. CASE \E d \in Drone : ChangeId(d)
  <2>1. PICK d \in Drone : ChangeId(d)
    BY <1>1
  <2>2. CASE Ids!Release(d)
    BY <2>2 DEF Ids!Release, Ids!FLEET_ID_UNASSIGNED, FLEET_ID_UNASSIGNED, UniqueIds,
                Types, AirOK
  <2>3. CASE \E i \in 1..FLEET_ID_MAX : Ids!Acquire(d, i)
    BY <2>3 DEF Ids!Acquire, UniqueIds, Types, AirOK
  <2> QED
    BY <2>1, <2>2, <2>3 DEF ChangeId
<1>2. CASE UNCHANGED holder
  BY <1>2 DEF UniqueIds
<1> QED
  BY <1>1, <1>2 DEF Next, vars, Turn, Broadcast, Receive, Lose, Update, Tick

LEMMA TruthStays ==
    ASSUME UNCHANGED <<holder, situation>>, NEW s
    PROVE  Truthful(s) <=> Truthful(s)'
BY DEF Truthful

LEMMA TrueNewsStep ==
    ASSUME Types, Fresh, TrueNews, [Next]_vars
    PROVE  TrueNews'
<1>0. /\ steady \in 0..Settled /\ ENTRY_TIMEOUT \in Nat \ {0} /\ Settled \in Nat
      /\ ENTRY_TIMEOUT < Settled
      /\ \A i \in Slot : sinceSeen[i] \in 0..ENTRY_TIMEOUT
  BY Counters, TableAssumption DEF Types, Settled
<1>1. CASE \/ \E d \in Drone : ChangeId(d)
           \/ \E d \in Drone, s \in {"blind", "clear", "threat"} : Turn(d, s)
  <2>1. steady' = 0 /\ \A i \in Slot : sinceSeen'[i] \in Nat
    BY <1>0, <1>1 DEF ChangeId, Turn, table
  <2> QED
    BY <1>0, <2>1 DEF TrueNews
<1>2. CASE \E d \in Peer : Broadcast(d)
  <2>1. PICK d \in Peer : Broadcast(d)
    BY <1>2
  <2>2. PICK new : new = [nodeId |-> holder[d], threat |-> situation[d] = "threat",
                          age |-> 0]
    OBVIOUS
  <2>3. /\ UNCHANGED <<holder, situation, steady, remoteStates, sinceSeen, radio>>
        /\ air' \subseteq air \cup {new}
    BY <2>1, <2>2 DEF Broadcast, table
  <2>4. Truthful(new)
    <3>1. new.nodeId = holder[d] /\ (new.threat <=> situation[d] = "threat")
      BY <2>2
    <3> QED
      BY <2>1, <3>1 DEF Truthful
  <2>5. Truthful(new)' /\ \A m \in air : Truthful(m) => Truthful(m)'
    BY <2>3, <2>4, TruthStays
  <2>6. \A i \in Slot : Truthful(remoteStates[i]) => Truthful(remoteStates[i])'
    BY <2>3 DEF Truthful
  <2> QED
    BY <2>3, <2>5, <2>6 DEF TrueNews
<1>3. CASE \E m \in air : Receive(m)
  <2>1. PICK m \in air : Receive(m)
    BY <1>3
  <2>2. UNCHANGED <<holder, situation, steady, radio>> /\ air' \subseteq air
    BY <2>1 DEF Receive
  <2>3. CASE UNCHANGED table
    <3>1. /\ \A a \in air : Truthful(a) => Truthful(a)'
          /\ \A i \in Slot : Truthful(remoteStates[i]) => Truthful(remoteStates[i])'
      BY <2>2, <2>3 DEF table, Truthful
    <3> QED
      BY <2>2, <2>3, <3>1 DEF table, TrueNews
  <2>4. CASE SlotsFor(m.nodeId) # {} /\ markRemoteSeen(Lowest(SlotsFor(m.nodeId)), m)
    <3>1. PICK k \in Slot : k = Lowest(SlotsFor(m.nodeId))
      BY <2>4, LowestExists, SlotsForSlots
    <3>2. /\ remoteStates'[k].threat = m.threat /\ remoteStates'[k].nodeId = m.nodeId
          /\ sinceSeen'[k] = 0
          /\ \A i \in Slot \ {k} : remoteStates'[i] = remoteStates[i]
                                   /\ sinceSeen'[i] = sinceSeen[i]
      BY <2>4, <3>1 DEF markRemoteSeen, Types, TableOK
    <3>3. radio = "timely" /\ steady > 0 => Truthful(remoteStates[k])'
      <4>1. radio = "timely" /\ steady > 0 => Truthful(m)
        BY <2>1 DEF TrueNews
      <4>2. Truthful(m) => Truthful(remoteStates[k])'
        BY <2>2, <3>2 DEF Truthful
      <4> QED
        BY <4>1, <4>2
    <3>4. \A i \in Slot \ {k} : Truthful(remoteStates[i]) => Truthful(remoteStates[i])'
      BY <2>2, <3>2 DEF Truthful
    <3>5. \A a \in air : Truthful(a) => Truthful(a)'
      BY <2>2 DEF Truthful
    <3> QED
      BY <1>0, <2>2, <3>2, <3>3, <3>4, <3>5 DEF TrueNews
  <2> QED
    BY <2>1, <2>3, <2>4 DEF Receive
<1>4. CASE \E m \in air : Lose(m)
  BY <1>4 DEF Lose, table, TrueNews, Truthful
<1>5. CASE Update
  <2>1. \A i \in Slot : remoteStates'[i] = remoteStates[i] \/ ~remoteStates'[i].valid
    BY <1>5 DEF Update, Aged, Free
  <2>2. UNCHANGED <<holder, situation, steady, radio, air, sinceSeen>>
    BY <1>5 DEF Update
  <2>3. \A s : Truthful(s) => Truthful(s)'
    BY <2>2 DEF Truthful
  <2>4. \A i \in Slot : remoteStates'[i] = remoteStates[i] /\ Truthful(remoteStates[i])
                           => Truthful(remoteStates[i])'
    BY <2>2 DEF Truthful
  <2> QED
    BY <2>1, <2>2, <2>3, <2>4 DEF TrueNews
<1>6. CASE Tick
  <2>1. /\ UNCHANGED <<holder, situation, remoteStates, radio>> /\ updated
        /\ steady' = AtMost(steady + 1, Settled)
    BY <1>6 DEF Tick
  <2>2. radio = "timely" => air' = {}
    <3>1. radio = "timely" => \A m \in air : m.age < 0
      BY <1>6 DEF Tick, LongestDelay
    <3>2. \A m \in air : m.age \in Nat
      BY TableAssumption DEF Types, AirOK, Message
    <3> QED
      BY <1>6, <3>1, <3>2 DEF Tick
  <2>3. \A i \in Slot : sinceSeen'[i] = AtMost(sinceSeen[i] + 1, ENTRY_TIMEOUT)
    BY <1>6 DEF Tick
  <2>4. ASSUME NEW i \in Slot, radio = "timely", remoteStates[i].valid,
               \/ sinceSeen'[i] < steady' /\ sinceSeen'[i] < ENTRY_TIMEOUT
               \/ steady' > ENTRY_TIMEOUT
        PROVE  Truthful(remoteStates[i])'
    <3>1. sinceSeen[i] < ENTRY_TIMEOUT
      BY <2>1, <2>4 DEF Fresh
    <3>2. sinceSeen[i] < steady \/ steady > ENTRY_TIMEOUT
      BY <1>0, <2>1, <2>3, <2>4, <3>1 DEF AtMost
    <3>3. Truthful(remoteStates[i])
      BY <2>4, <3>1, <3>2 DEF TrueNews
    <3> QED
      BY <2>1, <3>3 DEF Truthful
  <2> QED
    BY <2>1, <2>2, <2>4 DEF TrueNews
<1>7. CASE UNCHANGED vars
  BY <1>7 DEF vars, table, TrueNews, Truthful
<1> QED
  BY <1>1, <1>2, <1>3, <1>4, <1>5, <1>6, <1>7 DEF Next

\* Among true entries there is a slot for every peer: each other slot that is taken is
\* that of another peer.
LEMMA RoomForAll ==
    ASSUME FleetFits, Types, OneSlotPerNode, TrueNews, radio = "timely",
           steady > ENTRY_TIMEOUT, NEW d \in Peer
    PROVE  SlotsFor(holder[d]) # {}
<1> SUFFICES ASSUME SlotsFor(holder[d]) = {} PROVE FALSE
  OBVIOUS
<1>1. \A i \in Slot : remoteStates[i].valid /\ remoteStates[i].nodeId # holder[d]
  BY Zenon DEF SlotsFor
<1>2. \A i \in Slot : \E p \in Peer \ {d} : holder[p] = remoteStates[i].nodeId
  BY <1>1 DEF TrueNews, Truthful
<1> DEFINE owner == [i \in Slot |-> CHOOSE p \in Peer \ {d} :
                                        holder[p] = remoteStates[i].nodeId]
<1>3. /\ owner \in [Slot -> Peer \ {d}]
      /\ \A i \in Slot : holder[owner[i]] = remoteStates[i].nodeId
  BY <1>2
<1> HIDE DEF owner
<1>4. \A i, j \in Slot : owner[i] = owner[j] => i = j
  BY <1>1, <1>3 DEF OneSlotPerNode
<1>5. /\ IsFiniteSet(Peer \ {d}) /\ Cardinality(Peer \ {d}) = Cardinality(Peer) - 1
      /\ Cardinality(Peer) \in Nat
  BY FS_RemoveElement, FS_CardinalityType DEF FleetFits
<1>6. IsFiniteSet(Slot) /\ Cardinality(Slot) = SLOTS
  BY FS_Interval, TableAssumption DEF Slot
<1>7. Cardinality(Peer \ {d}) < Cardinality(Slot)
  BY <1>5, <1>6, TableAssumption DEF FleetFits
<1>8. \E i, j \in Slot : i # j /\ owner[i] = owner[j]
  BY <1>3, <1>5, <1>6, <1>7, FS_PigeonHole
<1> QED
  BY <1>4, <1>8

\* A sample of a drone, once received, is in the table.
LEMMA ReceivedIsHeard ==
    ASSUME Types, NEW m \in air, Receive(m), ~Ignored(m), SlotsFor(m.nodeId) # {}
    PROVE  \E k \in Slot : /\ remoteStates'[k].valid /\ remoteStates'[k].nodeId = m.nodeId
                           /\ sinceSeen'[k] = 0
<1>1. PICK k \in Slot : k = Lowest(SlotsFor(m.nodeId))
  BY LowestExists, SlotsForSlots
<1> QED
  BY <1>1 DEF Receive, markRemoteSeen, Types, TableOK

\* The sample of one drone does not take the slot of another.
LEMMA ReceiveSpares ==
    ASSUME Types, NEW m \in air, Receive(m),
           NEW i \in Slot, remoteStates[i].valid, remoteStates[i].nodeId # m.nodeId
    PROVE  remoteStates'[i] = remoteStates[i] /\ sinceSeen'[i] = sinceSeen[i]
<1>1. CASE UNCHANGED table
  BY <1>1 DEF table
<1>2. CASE SlotsFor(m.nodeId) # {} /\ markRemoteSeen(Lowest(SlotsFor(m.nodeId)), m)
  <2>1. PICK k \in SlotsFor(m.nodeId) : k = Lowest(SlotsFor(m.nodeId))
    BY <1>2, LowestExists, SlotsForSlots
  <2>2. k # i
    BY <2>1 DEF SlotsFor
  <2> QED
    BY <1>2, <2>1, <2>2 DEF markRemoteSeen, Types, TableOK
<1> QED
  BY <1>1, <1>2 DEF Receive

LEMMA HeardStep ==
    ASSUME FleetFits, Types, Fresh, OneSlotPerNode, UniqueIds, TrueNews, Heard, [Next]_vars
    PROVE  Heard'
<1>0. /\ steady \in 0..Settled /\ ENTRY_TIMEOUT \in Nat /\ Settled \in Nat
      /\ BROADCAST_INTERVAL \in Nat /\ BROADCAST_INTERVAL < ENTRY_TIMEOUT
      /\ \A i \in Slot : sinceSeen[i] \in 0..ENTRY_TIMEOUT
      /\ \A d \in Peer : sinceTx[d] \in 0..BROADCAST_INTERVAL
  BY Counters, TableAssumption, TimingAssumption DEF Types, Peer
<1> SUFFICES ASSUME radio' = "timely", NEW d \in Peer, Threatens(d)'
             PROVE  /\ steady' > ENTRY_TIMEOUT + sinceTx'[d] =>
                          (\E m \in air' : m.nodeId = holder'[d]) \/ Entry(d, sinceTx[d])'
                    /\ steady' > ENTRY_TIMEOUT + BROADCAST_INTERVAL =>
                          Entry(d, BROADCAST_INTERVAL)'
  BY DEF Heard
<1>a. radio = "timely"
  BY DEF Next, vars, ChangeId, Turn, Broadcast, Receive, Lose, Update, Tick
<1>b. ASSUME UNCHANGED <<holder, situation>>
      PROVE  /\ Threatens(d)
             /\ steady > ENTRY_TIMEOUT + sinceTx[d] =>
                   (\E m \in air : m.nodeId = holder[d]) \/ Entry(d, sinceTx[d])
             /\ steady > ENTRY_TIMEOUT + BROADCAST_INTERVAL => Entry(d, BROADCAST_INTERVAL)
  BY <1>a, <1>b DEF Heard, Threatens, fleetHasId
<1>1. CASE \/ \E e \in Drone : ChangeId(e)
           \/ \E e \in Drone, s \in {"blind", "clear", "threat"} : Turn(e, s)
  <2>1. steady' = 0 /\ sinceTx' = sinceTx
    BY <1>1 DEF ChangeId, Turn
  <2> QED
    BY <1>0, <2>1
<1>2. CASE \E e \in Peer : Broadcast(e)
  <2>1. PICK e \in Peer : Broadcast(e)
    BY <1>2
  <2>2. UNCHANGED <<holder, situation, steady, remoteStates, sinceSeen>> /\ air \subseteq air'
    BY <2>1 DEF Broadcast, table
  <2>3. CASE e = d
    <3>1. Sample(d)
      BY <1>b, <2>2 DEF Threatens, Sample
    <3>2. PICK new : new = [nodeId |-> holder[d], threat |-> situation[d] = "threat",
                            age |-> 0]
      OBVIOUS
    <3>3. new \in air'
      BY <2>1, <2>3, <3>1, <3>2 DEF Broadcast
    <3>4. new.nodeId = holder'[d]
      BY <2>2, <3>2
    <3> QED
      BY <1>b, <2>2, <3>3, <3>4 DEF Entry
  <2>4. CASE e # d
    <3>1. sinceTx'[d] = sinceTx[d]
      BY <2>1, <2>4 DEF Broadcast, Types, Peer
    <3> QED
      BY <1>b, <2>2, <3>1 DEF Entry
  <2> QED
    BY <2>3, <2>4
<1>3. CASE \E m \in air : Receive(m)
  <2>1. PICK m \in air : Receive(m)
    BY <1>3
  <2>2. UNCHANGED <<holder, situation, steady, sinceTx>> /\ \A a \in air : a = m \/ a \in air'
    BY <2>1 DEF Receive
  <2>3. CASE m.nodeId = holder[d] /\ steady > ENTRY_TIMEOUT
    <3>1. ~Ignored(m)
      BY <1>b, <2>2, <2>3, SelfAssumption DEF Ignored, Threatens, UniqueIds, Peer
    <3>2. SlotsFor(m.nodeId) # {}
      BY <1>a, <2>3, RoomForAll
    <3>3. \E k \in Slot : /\ remoteStates'[k].valid /\ remoteStates'[k].nodeId = holder'[d]
                          /\ sinceSeen'[k] = 0
      BY <2>1, <2>2, <2>3, <3>1, <3>2, ReceivedIsHeard
    <3> QED
      BY <1>0, <2>2, <3>3 DEF Entry
  <2>4. CASE m.nodeId # holder[d]
    <3>1. \A i \in Slot : remoteStates[i].valid /\ remoteStates[i].nodeId = holder[d]
             => remoteStates'[i] = remoteStates[i] /\ sinceSeen'[i] = sinceSeen[i]
      BY <2>1, <2>4, ReceiveSpares
    <3> QED
      BY <1>b, <2>2, <2>4, <3>1 DEF Entry
  <2>5. CASE ~(steady > ENTRY_TIMEOUT)
    BY <1>0, <2>2, <2>5
  <2> QED
    BY <2>3, <2>4, <2>5
<1>4. CASE \E m \in air : Lose(m)
  BY <1>4, <1>a DEF Lose
<1>5. CASE Update
  <2>1. UNCHANGED <<holder, situation, steady, sinceTx, air, sinceSeen>>
    BY <1>5 DEF Update
  <2>2. ASSUME NEW i \in Slot, sinceSeen[i] < ENTRY_TIMEOUT
        PROVE  remoteStates'[i] = remoteStates[i]
    BY <1>0, <1>5, <2>2 DEF Update, Aged, TooOld
  <2>3. \A i \in Slot : sinceSeen[i] <= sinceTx[d] \/ sinceSeen[i] <= BROADCAST_INTERVAL
                           => sinceSeen[i] < ENTRY_TIMEOUT
    BY <1>0
  <2> QED
    BY <1>b, <2>1, <2>2, <2>3 DEF Entry
<1>6. CASE Tick
  <2>1. /\ UNCHANGED <<holder, situation, remoteStates>>
        /\ steady' = AtMost(steady + 1, Settled) /\ sinceTx[d] < BROADCAST_INTERVAL
        /\ sinceTx'[d] = AtMost(sinceTx[d] + 1, BROADCAST_INTERVAL)
        /\ \A i \in Slot : sinceSeen'[i] = AtMost(sinceSeen[i] + 1, ENTRY_TIMEOUT)
    BY <1>6 DEF Tick, Peer
  <2>2. air = {}
    <3>1. \A m \in air : m.age < 0
      BY <1>6, <1>a DEF Tick, LongestDelay
    <3>2. \A m \in air : m.age \in Nat
      BY TableAssumption DEF Types, AirOK, Message
    <3> QED
      BY <3>1, <3>2
  <2>3. sinceTx'[d] = sinceTx[d] + 1 /\ sinceTx'[d] <= BROADCAST_INTERVAL /\ steady' <= steady + 1
    BY <1>0, <2>1 DEF AtMost
  <2>4. ASSUME steady > ENTRY_TIMEOUT + sinceTx[d]
        PROVE  \E i \in Slot : /\ remoteStates'[i].valid /\ remoteStates'[i].nodeId = holder'[d]
                               /\ sinceSeen'[i] <= sinceTx'[d]
    <3>1. PICK i \in Slot : /\ remoteStates[i].valid /\ remoteStates[i].nodeId = holder[d]
                            /\ sinceSeen[i] <= sinceTx[d]
      BY <1>b, <2>1, <2>2, <2>4 DEF Entry
    <3>2. sinceSeen'[i] <= sinceTx'[d]
      BY <1>0, <2>1, <2>3, <3>1 DEF AtMost
    <3> QED
      BY <2>1, <3>1, <3>2
  <2>5. /\ steady' > ENTRY_TIMEOUT + sinceTx'[d] => steady > ENTRY_TIMEOUT + sinceTx[d]
        /\ steady' > ENTRY_TIMEOUT + BROADCAST_INTERVAL => steady > ENTRY_TIMEOUT + sinceTx[d]
        /\ \A i \in Slot : sinceSeen'[i] <= sinceTx'[d] => sinceSeen'[i] <= BROADCAST_INTERVAL
    BY <1>0, <2>1, <2>3 DEF AtMost
  <2> QED
    BY <2>4, <2>5 DEF Entry
<1>7. CASE UNCHANGED vars
  BY <1>7, <1>b DEF vars, table, Entry
<1> QED
  BY <1>1, <1>2, <1>3, <1>4, <1>5, <1>6, <1>7 DEF Next

LEMMA ThreatIsSeenStep ==
    ASSUME FleetFits, Types, UniqueIds, TrueNews, Heard, ThreatIsSeen, [Next]_vars
    PROVE  ThreatIsSeen'
<1>0. /\ ENTRY_TIMEOUT \in Nat /\ MaxDelay \in Nat /\ BROADCAST_INTERVAL \in Nat
      /\ BROADCAST_INTERVAL < ENTRY_TIMEOUT
      /\ \A i \in Slot : sinceSeen[i] \in 0..ENTRY_TIMEOUT
  BY TableAssumption, TimingAssumption DEF Types
<1>1. CASE Update
  <2> SUFFICES ASSUME NEW d \in Peer, Threatens(d)', situation'[Self] # "blind",
                      radio' = "timely", steady' = Settled
               PROVE  alarm' # NoAlarm
    BY DEF ThreatIsSeen, Threatens
  <2>1. /\ Threatens(d) /\ situation[Self] # "blind" /\ radio = "timely"
        /\ steady > ENTRY_TIMEOUT /\ steady > ENTRY_TIMEOUT + BROADCAST_INTERVAL
    BY <1>0, <1>1, TableAssumption DEF Update, Threatens, fleetHasId, Settled
  <2>2. PICK i \in Slot : /\ remoteStates[i].valid /\ remoteStates[i].nodeId = holder[d]
                          /\ sinceSeen[i] <= BROADCAST_INTERVAL
    BY <2>1 DEF Heard, Entry
  <2>3. Aged[i] = remoteStates[i]
    BY <1>0, <2>2 DEF Aged, TooOld
  <2>4. remoteStates[i].threat
    <3>1. PICK p \in Peer : /\ holder[p] = remoteStates[i].nodeId
                            /\ remoteStates[i].threat <=> situation[p] = "threat"
      BY <2>1, <2>2 DEF TrueNews, Truthful
    <3>2. p = d
      BY <2>1, <2>2, <3>1 DEF UniqueIds, Threatens, Peer
    <3> QED
      BY <2>1, <3>1, <3>2 DEF Threatens
  <2>5. Threats(Aged) # {}
    BY <2>2, <2>3, <2>4 DEF Threats
  <2>6. Lowest(Threats(Aged)) \in Slot
    BY <2>5, LowestExists DEF Threats
  <2>7. Aged \in [Slot -> Sample3]
    BY FreeType DEF Aged, Types, TableOK
  <2>8. Aged[Lowest(Threats(Aged))].nodeId \in NodeId
    BY <2>6, <2>7 DEF Sample3
  <2> QED
    BY <1>1, <2>1, <2>5, <2>8, SelfAssumption DEF Update, NodeId, NoAlarm
<1>2. CASE \/ \E d \in Drone : ChangeId(d)
           \/ \E d \in Drone, s \in {"blind", "clear", "threat"} : Turn(d, s)
  <2>1. steady' = 0 /\ Settled # 0
    BY <1>0, <1>2 DEF ChangeId, Turn, Settled
  <2> QED
    BY <2>1 DEF ThreatIsSeen
<1>3. CASE Tick
  BY <1>3 DEF Tick, ThreatIsSeen
<1>4. CASE UNCHANGED <<holder, situation, radio, steady, updated, alarm>>
  BY <1>4 DEF ThreatIsSeen, fleetHasId
<1> QED
  BY <1>1, <1>2, <1>3, <1>4 DEF Next, Broadcast, Receive, Lose, vars

\* On a timely mesh a peer with an ID that threatens Self raises the alarm at the latest
\* an entry's life, a broadcast and an update after the last change, in a fleet with at
\* most as many peers as slots (fleet_state.c:69-137, 141-188, 263-282).
THEOREM ThreatsAreSeen == ASSUME FleetFits PROVE Spec => []ThreatIsSeen
<1>1. Init => Types /\ Fresh /\ SlotInv /\ ThreatInv
  <2> SUFFICES ASSUME Init PROVE Types /\ Fresh /\ SlotInv /\ ThreatInv
    OBVIOUS
  <2>1. Types /\ Fresh
    BY TypesInit
  <2>2. SlotInv
    BY <2>1 DEF Init, Free, Types, SlotInv, OneSlotPerNode
  <2>3. /\ steady = 0 /\ ENTRY_TIMEOUT \in Nat /\ Settled # 0 /\ BROADCAST_INTERVAL \in Nat
        /\ \A d \in Peer : sinceTx[d] \in Nat
    BY TableAssumption DEF Init, Settled, Peer
  <2>4. UniqueIds /\ TrueNews
    BY <2>3 DEF Init, UniqueIds, TrueNews, Free
  <2>5. Heard /\ ThreatIsSeen
    BY <2>3 DEF Heard, ThreatIsSeen
  <2> QED
    BY <2>1, <2>2, <2>4, <2>5 DEF ThreatInv
<1>2. (Types /\ Fresh /\ SlotInv /\ ThreatInv) /\ [Next]_vars
      => (Types /\ Fresh /\ SlotInv /\ ThreatInv)'
  <2> SUFFICES ASSUME Types, Fresh, SlotInv, ThreatInv, [Next]_vars
               PROVE  (Types /\ Fresh /\ SlotInv /\ ThreatInv)'
    OBVIOUS
  <2>1. Types' /\ Fresh' /\ SlotInv'
    BY TypesStep, SlotStep DEF Types
  <2>2. ThreatInv'
    BY UniqueIdsStep, TrueNewsStep, HeardStep, ThreatIsSeenStep DEF ThreatInv, SlotInv
  <2> QED
    BY <2>1, <2>2
<1>3. Types /\ Fresh /\ SlotInv /\ ThreatInv => ThreatIsSeen
  BY DEF ThreatInv
<1> QED
  BY <1>1, <1>2, <1>3, PTL DEF Spec
=============================================================================
