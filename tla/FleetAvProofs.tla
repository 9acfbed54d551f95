--------------------------- MODULE FleetAvProofs ---------------------------
(***************************************************************************)
(* Theorems about FleetAv for every retry count, every period, any number  *)
(* of changes and lost commands.                                           *)
(***************************************************************************)
EXTENDS FleetAv, TLAPS

\* What the driver wants is what the gate asked for, unless the pilot's switch has
\* changed it; and the gate has decided before the driver, once it is online, runs.
GateDecides ==
    /\ videoApplied = "off" => trampConfPitMode \/ overruled
    /\ videoApplied = "unknown" /\ VtxReady => ~gateRan

-----------------------------------------------------------------------------
(* Type correctness: the retries are counted down only while there are some. *)

LEMMA TypeProcess ==
    ASSUME TypeOK, NEW pit \in BOOLEAN, NEW retries \in 0..TRAMP_MAX_RETRIES,
           FailedAfterWish(pit) \in 0..(TRAMP_MAX_RETRIES - retries),
           TrampProcess(pit, retries)
    PROVE  /\ reply' \in {"none", "r", "v", "s"} /\ reported' \in BOOLEAN
           /\ trampCurPitMode' \in BOOLEAN
           /\ trampRetryCount' \in 0..TRAMP_MAX_RETRIES
           /\ failed' \in 0..(TRAMP_MAX_RETRIES - trampRetryCount')
           /\ trampStatus' \in {"OFFLINE", "INIT"} \cup Online
           /\ sinceLast' \in 0..STATUS_REQUEST_PERIOD
           /\ query' \in {"none", "r", "v", "s"}
           /\ devicePit' \in BOOLEAN /\ lost' \in 0..MaxLost
<1> DEFINE update == /\ trampStatus = "MONITOR_FREQPWRPIT" /\ Slow
                     /\ MayRetry(retries) /\ pit # Reported
<1>1. /\ reply' = "none" /\ reported' = reported /\ trampCurPitMode' = Reported
      /\ Reported \in BOOLEAN
  BY DEF TrampProcess, Reported, TypeOK
<1>2. trampRetryCount' \in 0..TRAMP_MAX_RETRIES
  BY TrampAssumption DEF TrampProcess, MayRetry
<1>3. CASE update
  <2>1. Configure(pit) /\ trampRetryCount' = retries - 1
    BY <1>3 DEF TrampProcess
  <2>2. failed' \in {FailedAfterWish(pit), FailedAfterWish(pit) + 1}
    BY <2>1, Zenon DEF Configure, SendPitMode
  <2>3. retries > 0
    BY <1>3 DEF MayRetry
  <2>4. failed' \in 0..(TRAMP_MAX_RETRIES - trampRetryCount')
    BY <2>1, <2>2, <2>3, TrampAssumption
  <2> QED
    BY <2>1, <2>4, <1>1, <1>2, TrampAssumption, PilotAssumption
       DEF Configure, SendPitMode, TypeOK, Online
<1>4. CASE ~update
  <2>1. Connect \/ Monitor \/ MonitorTemp \/ Requery
    BY <1>4 DEF TrampProcess
  <2>2. failed' \in 0..(TRAMP_MAX_RETRIES - trampRetryCount')
    <3> DEFINE mayUpdate == trampStatus = "MONITOR_FREQPWRPIT" /\ Slow /\ MayRetry(retries)
    <3>1. /\ failed' = IF mayUpdate THEN 0 ELSE FailedAfterWish(pit)
          /\ trampRetryCount' = IF mayUpdate THEN TRAMP_MAX_RETRIES ELSE retries
      BY <1>4 DEF TrampProcess
    <3> QED
      BY <3>1, TrampAssumption
  <2>3. /\ sinceLast' \in {sinceLast, 0} /\ query' \in {query, "r", "v", "s"}
        /\ UNCHANGED <<devicePit, lost>>
    <3>1. CASE Connect
      BY <3>1 DEF Connect, AskUntil, Ask, Goto
    <3>2. CASE Monitor
      BY <3>2 DEF Monitor, Ask
    <3>3. CASE MonitorTemp
      BY <3>3 DEF MonitorTemp, Goto
    <3>4. CASE Requery
      BY <3>4 DEF Requery, Ask
    <3> QED
      BY <2>1, <3>1, <3>2, <3>3, <3>4
  <2>4. trampStatus' \in {"OFFLINE", "INIT"} \cup Online
    <3>1. CASE Connect
      BY <3>1 DEF Connect, AskUntil, Goto, TypeOK, Online
    <3>2. CASE Monitor
      BY <3>2 DEF Monitor, TypeOK, Online
    <3>3. CASE MonitorTemp
      BY <3>3 DEF MonitorTemp, Goto, TypeOK, Online
    <3>4. CASE Requery
      BY <3>4 DEF Requery, TypeOK, Online
    <3> QED
      BY <2>1, <3>1, <3>2, <3>3, <3>4
  <2>5. sinceLast' \in 0..STATUS_REQUEST_PERIOD /\ query' \in {"none", "r", "v", "s"}
    BY <2>3, TrampAssumption DEF TypeOK
  <2>6. devicePit' \in BOOLEAN /\ lost' \in 0..MaxLost
    BY <2>3 DEF TypeOK
  <2>7. reply' \in {"none", "r", "v", "s"} /\ reported' \in BOOLEAN
    BY <1>1 DEF TypeOK
  <2> QED
    BY <2>2, <2>4, <2>5, <2>6, <2>7, <1>1, <1>2
<1> QED
  BY <1>3, <1>4

LEMMA TypeStep == ASSUME TypeOK, [Next]_vars PROVE TypeOK'
<1>1. CASE Change
  <2>1. changes' \in 0..MaxChanges
    BY <1>1, PilotAssumption DEF Change, TypeOK
  <2>2. /\ isLeader' \in BOOLEAN /\ armed' \in BOOLEAN
        /\ pitSwitch' \in BOOLEAN /\ controlDisabled' \in BOOLEAN
    BY <1>1, Zenon DEF Change, TypeOK
  <2>3. UNCHANGED <<videoApplied, audioApplied, gateRan, prevPmSwitchState, overruled,
                    trampConfPitMode, trampRetryCount, failed, trampStatus,
                    trampCurPitMode, sinceLast, query, devicePit, reply, reported, lost>>
    BY <1>1 DEF Change, gate, switch, wish, driver, device
  <2> QED
    BY <2>1, <2>2, <2>3 DEF TypeOK
<1>2. CASE Tick
  BY <1>2, TrampAssumption DEF Tick, pilot, gate, switch, wish, device, TypeOK, Online
<1>3. CASE Answer
  BY <1>3 DEF Answer, pilot, gate, switch, wish, TypeOK
<1>4. CASE LoseQuery
  BY <1>4, PilotAssumption DEF LoseQuery, pilot, gate, switch, wish, TypeOK
<1>5. CASE FleetAvUpdate
  <2>1. trampConfPitMode' \in BOOLEAN
    BY <1>5 DEF FleetAvUpdate, SetPitMode, wish, TypeOK
  <2>2. /\ trampRetryCount' \in 0..TRAMP_MAX_RETRIES
        /\ failed' \in 0..(TRAMP_MAX_RETRIES - trampRetryCount')
    BY <1>5, TrampAssumption
       DEF FleetAvUpdate, SetPitMode, RetriesAfterWish, FailedAfterWish, wish, TypeOK
  <2>3. /\ videoApplied' \in {"unknown", "off", "on"}
        /\ audioApplied' \in {"unknown", "off", "on"} /\ gateRan' \in BOOLEAN
        /\ overruled' \in BOOLEAN
    BY <1>5 DEF FleetAvUpdate, VideoAfterHook, Wanted, TypeOK
  <2>4. UNCHANGED <<isLeader, armed, pitSwitch, controlDisabled, changes, prevPmSwitchState, trampStatus,
                    trampCurPitMode, sinceLast, query, devicePit, reply, reported, lost>>
    BY <1>5 DEF FleetAvUpdate, pilot, driver, device
  <2> QED
    BY <2>1, <2>2, <2>3, <2>4 DEF TypeOK
<1>6. CASE VtxUpdate
  <2>1. CASE armed
    <3>1. prevPmSwitchState' \in BOOLEAN /\ gateRan' \in BOOLEAN /\ overruled' \in BOOLEAN
      BY <1>6 DEF VtxUpdate, TypeOK
    <3> QED
      BY <1>6, <2>1, <3>1 DEF VtxUpdate, pilot, gate, wish, driver, device, TypeOK
  <2>2. CASE ~armed
    <3> DEFINE pit == IF SwitchMoved THEN pitSwitch ELSE trampConfPitMode
    <3>1. /\ pit \in BOOLEAN /\ RetriesAfterWish(pit) \in 0..TRAMP_MAX_RETRIES
          /\ FailedAfterWish(pit) \in 0..(TRAMP_MAX_RETRIES - RetriesAfterWish(pit))
      BY TrampAssumption DEF RetriesAfterWish, FailedAfterWish, TypeOK
    <3>2. trampConfPitMode' = pit /\ TrampProcess(pit, RetriesAfterWish(pit))
      BY <1>6, <2>2 DEF VtxUpdate
    <3> QED
      <4>1. prevPmSwitchState' \in BOOLEAN /\ gateRan' \in BOOLEAN /\ overruled' \in BOOLEAN
        BY <1>6 DEF VtxUpdate, TypeOK
      <4>2. UNCHANGED <<isLeader, armed, pitSwitch, controlDisabled, changes, videoApplied, audioApplied>>
        BY <1>6 DEF VtxUpdate, pilot, gate
      <4>3. trampConfPitMode' \in BOOLEAN
        BY <3>1, <3>2
      <4> HIDE DEF pit
      <4> QED
        BY <3>1, <3>2, <4>1, <4>2, <4>3, TypeProcess DEF TypeOK
  <2> QED
    BY <2>1, <2>2
<1>7. CASE UNCHANGED vars
  BY <1>7 DEF vars, pilot, gate, switch, wish, driver, device, TypeOK
<1> QED
  BY <1>1, <1>2, <1>3, <1>4, <1>5, <1>6, <1>7 DEF Next

\* Every variable keeps its type, and a wish is never sent more often than the
\* retries allow (vtx_tramp.c:371-395).
THEOREM TypeCorrect == Spec => []TypeOK
<1>1. Init => TypeOK
  <2> SUFFICES ASSUME Init PROVE TypeOK
    OBVIOUS
  <2>1. /\ isLeader \in BOOLEAN /\ armed \in BOOLEAN
        /\ pitSwitch \in BOOLEAN /\ controlDisabled \in BOOLEAN
        /\ gateRan \in BOOLEAN /\ prevPmSwitchState \in BOOLEAN /\ overruled \in BOOLEAN
        /\ trampConfPitMode \in BOOLEAN /\ trampCurPitMode \in BOOLEAN
        /\ reported \in BOOLEAN /\ devicePit \in BOOLEAN
    BY Zenon DEF Init
  <2>2. /\ changes \in 0..MaxChanges /\ lost \in 0..MaxLost
        /\ trampRetryCount \in 0..TRAMP_MAX_RETRIES
        /\ failed \in 0..(TRAMP_MAX_RETRIES - trampRetryCount)
        /\ sinceLast \in 0..STATUS_REQUEST_PERIOD
    BY TrampAssumption, PilotAssumption DEF Init
  <2> QED
    BY <2>1, <2>2 DEF Init, TypeOK
<1> QED
  BY <1>1, TypeStep, PTL DEF Spec

-----------------------------------------------------------------------------
(* A silent transmitter is switched on only for a leader. *)

LEMMA ProcessKeepsPit ==
    ASSUME NEW pit, NEW retries, TrampProcess(pit, retries), devicePit, ~devicePit'
    PROVE  ~pit /\ VtxReady
<1>1. Configure(pit)
  BY DEF TrampProcess, Connect, Monitor, MonitorTemp, Requery
<1>2. ~pit
  BY <1>1, Zenon DEF Configure, SendPitMode
<1> QED
  BY <1>1, <1>2 DEF Configure, VtxReady, Online

LEMMA DecidesStep == ASSUME GateDecides, [Next]_vars PROVE GateDecides'
<1>1. CASE Change
  BY <1>1 DEF Change, gate, switch, wish, driver, GateDecides, VtxReady
<1>2. CASE Tick
  BY <1>2 DEF Tick, pilot, gate, switch, wish, GateDecides, VtxReady
<1>3. CASE Answer
  BY <1>3 DEF Answer, pilot, gate, switch, wish, GateDecides, VtxReady
<1>4. CASE LoseQuery
  BY <1>4 DEF LoseQuery, pilot, gate, switch, wish, GateDecides, VtxReady
<1>5. CASE FleetAvUpdate
  <2>1. videoApplied' = "off" => trampConfPitMode' \/ overruled'
    BY <1>5 DEF FleetAvUpdate, VideoAfterHook, Wanted, SetPitMode, wish, GateDecides
  <2>2. videoApplied' = "unknown" => ~VtxReady
    BY <1>5 DEF FleetAvUpdate, VideoAfterHook, Wanted
  <2>3. VtxReady' = VtxReady
    BY <1>5 DEF FleetAvUpdate, driver, VtxReady
  <2> QED
    BY <2>1, <2>2, <2>3 DEF GateDecides
<1>6. CASE VtxUpdate
  <2>1. videoApplied' = videoApplied /\ ~gateRan'
    BY <1>6 DEF VtxUpdate, gate
  <2>2. trampConfPitMode => trampConfPitMode' \/ overruled'
    <3>1. CASE SwitchMoved
      BY <1>6, <3>1 DEF VtxUpdate, SwitchMoved
    <3>2. CASE ~SwitchMoved
      BY <1>6, <3>2 DEF VtxUpdate, wish
    <3> QED
      BY <3>1, <3>2
  <2>3. overruled => overruled'
    BY <1>6 DEF VtxUpdate
  <2> QED
    BY <2>1, <2>2, <2>3 DEF GateDecides
<1>7. CASE UNCHANGED vars
  BY <1>7 DEF vars, gate, switch, wish, driver, GateDecides, VtxReady
<1> QED
  BY <1>1, <1>2, <1>3, <1>4, <1>5, <1>6, <1>7 DEF Next

LEMMA SilentStep ==
    ASSUME TypeOK, GateDecides, [Next]_vars, devicePit, ~devicePit'
    PROVE  videoApplied = "on" \/ overruled'
<1>1. VtxUpdate /\ ~armed
  BY DEF Next, vars, Change, Tick, Answer, LoseQuery, FleetAvUpdate, VtxUpdate, device
<1> DEFINE pit == IF SwitchMoved THEN pitSwitch ELSE trampConfPitMode
<1>2. TrampProcess(pit, RetriesAfterWish(pit)) /\ gateRan
  BY <1>1 DEF VtxUpdate
<1>3. ~pit /\ VtxReady
  BY <1>2, ProcessKeepsPit
<1>4. CASE trampConfPitMode
  <2>1. SwitchMoved /\ ~pitSwitch
    BY <1>3, <1>4
  <2> QED
    BY <1>1, <1>4, <2>1 DEF VtxUpdate
<1>5. CASE ~trampConfPitMode
  <2>1. overruled => overruled'
    BY <1>1 DEF VtxUpdate
  <2> QED
    BY <1>2, <1>3, <1>5, <2>1 DEF GateDecides, TypeOK
<1> QED
  BY <1>4, <1>5

\* A silent transmitter is only switched on when the gate has let the drone transmit,
\* or the pilot's switch has moved since: fleet_av.c:84-90 with the hook
\* fc/init.c:665-673 and vtxProcessPitMode, vtx.c:186-221.
THEOREM SilenceIsKept == Spec => SilentUntilLeader
<1>1. Init => GateDecides
  BY DEF Init, GateDecides
<1>2. GateDecides /\ [Next]_vars => GateDecides'
  BY DecidesStep
<1>3. Spec => []GateDecides
  BY <1>1, <1>2, PTL DEF Spec
<1>4. TypeOK /\ GateDecides /\ [Next]_vars
          => [devicePit /\ ~devicePit' => videoApplied = "on" \/ overruled']_vars
  BY SilentStep
<1> QED
  BY <1>3, <1>4, TypeCorrect, PTL DEF Spec, SilentUntilLeader
=============================================================================
