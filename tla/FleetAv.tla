------------------------------ MODULE FleetAv ------------------------------
(***************************************************************************)
(* The audio/video gate of one drone, from fleet_av.c through its hook in  *)
(* fc/init.c and the VTX task (io/vtx.c) to an IRC Tramp video transmitter *)
(* (io/vtx_tramp.c): only a fleet leader transmits, everybody else puts    *)
(* the transmitter into pit mode.                                          *)
(*                                                                         *)
(* Frequency and power are taken to be in step with the device and         *)
(* lowPowerDisarm to be off, so that vtxProcessPower, vtxProcessFrequency  *)
(* and vtxProcessStateUpdate have nothing to do, and every vtxUpdate runs  *)
(* vtxProcessPitMode once.  The device may lose a command or a query, and  *)
(* answers the last query it got after any delay.  The VTX CONTROL DISABLE *)
(* switch keeps commands from it, not queries.                             *)
(***************************************************************************)
EXTENDS Integers

CONSTANTS
    TRAMP_MAX_RETRIES,
    MIN_REQUEST_PERIOD,      \* TRAMP_MIN_REQUEST_PERIOD_US, in clock units
    STATUS_REQUEST_PERIOD,   \* TRAMP_STATUS_REQUEST_PERIOD_US, in clock units
    PitSwitchUsed,           \* the pilot may operate the VTX PIT MODE switch
    ControlSwitchUsed,       \* the pilot may operate the VTX CONTROL DISABLE switch
    MaxChanges,              \* bound: changes of leadership, arming and switches
    MaxLost                  \* bound: commands and queries the device loses

ASSUME TrampAssumption ==
    /\ TRAMP_MAX_RETRIES \in Nat \ {0}
    /\ MIN_REQUEST_PERIOD \in Nat \ {0}
    /\ STATUS_REQUEST_PERIOD \in Nat
    /\ MIN_REQUEST_PERIOD < STATUS_REQUEST_PERIOD
ASSUME PilotAssumption ==
    /\ PitSwitchUsed \in BOOLEAN /\ ControlSwitchUsed \in BOOLEAN
    /\ MaxChanges \in Nat /\ MaxLost \in Nat

VARIABLES
    isLeader,              \* fleetIsLeader()
    armed, pitSwitch,      \* ARMING_FLAG(ARMED), IS_RC_MODE_ACTIVE(BOXVTXPITMODE)
    controlDisabled,       \* IS_RC_MODE_ACTIVE(BOXVTXCONTROLDISABLE)
    changes,
    videoApplied,          \* "unknown" (-1), "off" (0) or "on" (1)
    audioApplied,
    overruled,             \* history: the pilot's switch has had its way since the gate
                           \* last set pit mode
    gateRan,               \* TASK_FLEET (50 Hz) has run since TASK_VTXCTRL (5 Hz)
    prevPmSwitchState,
    trampConfPitMode,      \* what the flight controller wants; trampLastConfPitMode
                           \* always equals it
    trampRetryCount,
    failed,                \* history: commands that did not reach the device since the
                           \* retries were last renewed
    trampStatus,
    trampCurPitMode,       \* what the device last reported
    sinceLast,             \* age of trampLastTimeUs
    query,                 \* request the device has not answered yet
    reply, reported,       \* answer not read yet, and the pit mode a "v" reports
    devicePit,             \* the transmitter itself: TRUE when it is silent
    lost

pilot == <<isLeader, armed, pitSwitch, controlDisabled, changes>>
gate == <<videoApplied, audioApplied>>
switch == <<prevPmSwitchState, overruled>>
wish == <<trampConfPitMode, trampRetryCount, failed>>
device == <<devicePit, reply, reported, lost>>
driver == <<trampStatus, trampCurPitMode, sinceLast, query>>
vars == <<pilot, gate, gateRan, switch, wish, driver, device>>

Online == {"MONITOR_FREQPWRPIT", "MONITOR_TEMP", "CONFIG"}

Init ==
    /\ isLeader = FALSE /\ armed = FALSE /\ changes = 0
    /\ pitSwitch = FALSE /\ controlDisabled = FALSE
    /\ videoApplied = "unknown" /\ audioApplied = "unknown" /\ gateRan = FALSE
    /\ prevPmSwitchState = FALSE /\ overruled = FALSE
    /\ trampConfPitMode = FALSE /\ trampRetryCount = TRAMP_MAX_RETRIES /\ failed = 0
    /\ trampStatus = "OFFLINE" /\ trampCurPitMode = FALSE
    /\ sinceLast = STATUS_REQUEST_PERIOD
    /\ query = "none" /\ reply = "none" /\ reported = FALSE
    /\ devicePit \in BOOLEAN /\ lost = 0

-----------------------------------------------------------------------------
(* The pilot, the fleet, the clock and the device *)

Change ==
    /\ changes < MaxChanges
    /\ changes' = changes + 1
    /\ \/ isLeader' = ~isLeader /\ UNCHANGED <<armed, pitSwitch, controlDisabled>>
       \/ armed' = ~armed /\ UNCHANGED <<isLeader, pitSwitch, controlDisabled>>
       \/ /\ PitSwitchUsed /\ pitSwitch' = ~pitSwitch
          /\ UNCHANGED <<isLeader, armed, controlDisabled>>
       \/ /\ ControlSwitchUsed /\ controlDisabled' = ~controlDisabled
          /\ UNCHANGED <<isLeader, armed, pitSwitch>>
    /\ UNCHANGED <<gate, gateRan, switch, wish, driver, device>>

Tick ==
    /\ sinceLast < STATUS_REQUEST_PERIOD
    /\ sinceLast' = sinceLast + 1
    /\ UNCHANGED <<pilot, gate, gateRan, switch, wish, device,
                   trampStatus, trampCurPitMode, query>>

Answer ==
    /\ query # "none"
    /\ query' = "none" /\ reply' = query /\ reported' = devicePit
    /\ UNCHANGED <<pilot, gate, gateRan, switch, wish, devicePit, lost,
                   trampStatus, trampCurPitMode, sinceLast>>

LoseQuery ==
    /\ query # "none" /\ lost < MaxLost
    /\ query' = "none" /\ lost' = lost + 1
    /\ UNCHANGED <<pilot, gate, gateRan, switch, wish, devicePit, reply,
                   reported, trampStatus, trampCurPitMode, sinceLast>>

\* trampSendCommand('I', ...): the device obeys, or the command is lost, or nothing is
\* sent because the pilot has disabled the control of the VTX.
SendPitMode(pit, failures) ==
    \/ ~controlDisabled /\ devicePit' = pit /\ failed' = failures /\ UNCHANGED lost
    \/ /\ ~controlDisabled /\ lost < MaxLost /\ lost' = lost + 1
       /\ failed' = failures + 1 /\ UNCHANGED devicePit
    \/ controlDisabled /\ failed' = failures + 1 /\ UNCHANGED <<devicePit, lost>>

-----------------------------------------------------------------------------
(* vtxTrampSetPitMode *)

\* Mutant: a new wish does not renew the retries.
RetriesAfterWish_Kept(pit) == trampRetryCount

RetriesAfterWish(pit) ==
    IF pit # trampConfPitMode THEN TRAMP_MAX_RETRIES ELSE trampRetryCount

FailedAfterWish(pit) == IF pit # trampConfPitMode THEN 0 ELSE failed

SetPitMode(pit) ==
    /\ trampConfPitMode' = pit
    /\ trampRetryCount' = RetriesAfterWish(pit)
    /\ failed' = FailedAfterWish(pit)

-----------------------------------------------------------------------------
(* fleetAvUpdate *)

VtxReady == trampStatus \in Online

Wanted == IF isLeader THEN "on" ELSE "off"

\* Mutant: the result of the hook is ignored.
VideoAfterHook_Ignored == Wanted

\* The hook fleetAvVtxControl fails while the VTX is not ready.
VideoAfterHook == IF VtxReady THEN Wanted ELSE videoApplied

\* applyStream for video with the hook, and for audio, which has none installed.
FleetAvUpdate ==
    /\ gateRan' = TRUE
    /\ audioApplied' = Wanted
    /\ videoApplied' = VideoAfterHook
    /\ IF videoApplied # Wanted /\ VtxReady
       THEN SetPitMode(~isLeader) /\ overruled' = FALSE
       ELSE UNCHANGED <<wish, overruled>>
    /\ UNCHANGED <<pilot, prevPmSwitchState, driver, device>>

-----------------------------------------------------------------------------
(* vtxTrampProcess, reading at most one answer *)

Slow == sinceLast >= MIN_REQUEST_PERIOD

Ask(q) == query' = q /\ sinceLast' = 0

Goto(s) == trampStatus' = s /\ UNCHANGED <<query, sinceLast>>

\* Wait for an answer, and ask again after a while.
AskUntil(q, next) ==
    IF reply = q THEN Goto(next)
    ELSE UNCHANGED trampStatus /\ IF Slow THEN Ask(q) ELSE UNCHANGED <<query, sinceLast>>

Connect ==
    /\ \/ trampStatus = "OFFLINE" /\ AskUntil("r", "INIT")
       \/ trampStatus = "INIT" /\ AskUntil("v", "MONITOR_FREQPWRPIT")
    /\ UNCHANGED <<devicePit, lost>>

\* Mutant: the retries are counted but never run out.
MayRetry_Always(retries) == TRUE

MayRetry(retries) == retries > 0

Configure(pit) ==
    /\ trampStatus = "MONITOR_FREQPWRPIT"
    /\ SendPitMode(pit, FailedAfterWish(pit))
    /\ sinceLast' = 0
    /\ trampStatus' = "CONFIG"
    /\ UNCHANGED query

Monitor ==
    /\ trampStatus = "MONITOR_FREQPWRPIT"
    /\ IF sinceLast >= STATUS_REQUEST_PERIOD THEN Ask("v") /\ UNCHANGED trampStatus
       ELSE IF reply = "v" THEN Ask("s") /\ trampStatus' = "MONITOR_TEMP"
       ELSE UNCHANGED <<query, sinceLast, trampStatus>>
    /\ UNCHANGED <<devicePit, lost>>

\* An answer to the temperature query keeps this state; it is left when none comes.
MonitorTemp ==
    /\ trampStatus = "MONITOR_TEMP"
    /\ Goto(IF reply # "s" /\ Slow THEN "MONITOR_FREQPWRPIT" ELSE trampStatus)
    /\ UNCHANGED <<devicePit, lost>>

Requery ==
    /\ trampStatus = "CONFIG"
    /\ IF Slow THEN Ask("v") /\ trampStatus' = "MONITOR_FREQPWRPIT"
               ELSE UNCHANGED <<query, sinceLast, trampStatus>>
    /\ UNCHANGED <<devicePit, lost>>

Reported == IF reply = "v" THEN reported ELSE trampCurPitMode

\* pit and retries are what vtxProcessPitMode has left.
TrampProcess(pit, retries) ==
    LET mayUpdate == trampStatus = "MONITOR_FREQPWRPIT" /\ Slow /\ MayRetry(retries)
        update == mayUpdate /\ pit # Reported
    IN  /\ reply' = "none" /\ UNCHANGED reported
        /\ trampCurPitMode' = Reported
        /\ IF update THEN Configure(pit) ELSE Connect \/ Monitor \/ MonitorTemp \/ Requery
        /\ trampRetryCount' = IF update THEN retries - 1
                              ELSE IF mayUpdate THEN TRAMP_MAX_RETRIES ELSE retries
        /\ ~update => failed' = IF mayUpdate THEN 0 ELSE FailedAfterWish(pit)

-----------------------------------------------------------------------------
(* vtxUpdate *)

SwitchMoved == ~armed /\ VtxReady /\ pitSwitch # prevPmSwitchState

\* vtxProcessPitMode asks for the position of a switch that moved, unless pit mode
\* is configured that way already; vtxCommonProcess runs only while disarmed, or
\* when there is such a request (which there is only while disarmed).
VtxUpdate ==
    /\ gateRan /\ gateRan' = FALSE
    /\ prevPmSwitchState' = IF SwitchMoved THEN pitSwitch ELSE prevPmSwitchState
    /\ overruled' = (overruled \/ (SwitchMoved /\ pitSwitch # trampConfPitMode))
    /\ IF armed THEN UNCHANGED <<wish, driver, device>>
       ELSE LET pit == IF SwitchMoved THEN pitSwitch ELSE trampConfPitMode
            IN  trampConfPitMode' = pit /\ TrampProcess(pit, RetriesAfterWish(pit))
    /\ UNCHANGED <<pilot, gate>>

Next == Change \/ Tick \/ Answer \/ LoseQuery \/ FleetAvUpdate \/ VtxUpdate

Spec == Init /\ [][Next]_vars

\* The tasks run again and again, time passes and the device answers what it gets.
Fairness == WF_vars(Tick) /\ WF_vars(Answer) /\ WF_vars(FleetAvUpdate) /\ WF_vars(VtxUpdate)

FairSpec == Spec /\ Fairness

-----------------------------------------------------------------------------
(* Properties *)

\* Types; the count of retries never runs below zero, where an unsigned byte would
\* wrap to another 255 commands (vtx_tramp.c:371-395), and every command that does not
\* reach the device has used up one of them.
TypeOK ==
    /\ isLeader \in BOOLEAN /\ armed \in BOOLEAN
    /\ pitSwitch \in BOOLEAN /\ controlDisabled \in BOOLEAN
    /\ changes \in 0..MaxChanges /\ lost \in 0..MaxLost
    /\ videoApplied \in {"unknown", "off", "on"}
    /\ audioApplied \in {"unknown", "off", "on"}
    /\ gateRan \in BOOLEAN /\ prevPmSwitchState \in BOOLEAN /\ overruled \in BOOLEAN
    /\ trampConfPitMode \in BOOLEAN /\ trampCurPitMode \in BOOLEAN
    /\ trampRetryCount \in 0..TRAMP_MAX_RETRIES
    /\ failed \in 0..(TRAMP_MAX_RETRIES - trampRetryCount)
    /\ trampStatus \in {"OFFLINE", "INIT"} \cup Online
    /\ sinceLast \in 0..STATUS_REQUEST_PERIOD
    /\ query \in {"none", "r", "v", "s"} /\ reply \in {"none", "r", "v", "s"}
    /\ reported \in BOOLEAN /\ devicePit \in BOOLEAN

\* A silent transmitter is only switched on when the gate has let this drone transmit,
\* or the pilot's switch has moved since the gate last spoke: not while the VTX is
\* still coming up with its configuration "out of pit mode" (vtx_tramp.c:116), and not
\* when stale answers make the driver send again.
SilentUntilLeader ==
    [][devicePit /\ ~devicePit' => videoApplied = "on" \/ overruled']_vars

\* On the ground the transmitter ends up following the leadership, through VTX start-up,
\* lost commands, stale answers and wishes that change half way: unless the pilot's pit
\* switch has overruled the gate, or as many commands as there are retries were lost or
\* held back by VTX CONTROL DISABLE.  Then nothing renews the retries and the driver has
\* given up on this wish (vtx_tramp.c:371-405).
GateReachesDevice ==
    \A lead \in BOOLEAN :
        <>[](~armed /\ isLeader = lead /\ ~overruled /\ failed < TRAMP_MAX_RETRIES)
        => <>[](devicePit = ~lead)

\* fleet_av.h:23-26: a leader that transmits and steps down is silent in the end, also
\* when it is flying.
StepDownSilences ==
    <>(armed /\ isLeader /\ videoApplied = "on" /\ ~devicePit) /\ <>[]~isLeader
    => <>[]devicePit
=============================================================================
