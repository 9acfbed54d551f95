------------------------------ MODULE RcInput -------------------------------
(***************************************************************************)
(* From the receiver to the motors: the frame check of the scheduler and   *)
(* the signal-loss detection (rx/rx.c), the three states of TASK_RX        *)
(* (fc/tasks.c), the arm switch (fc/rc_controls.c), the reasons not to arm *)
(* (fc/core.c) and the failsafe, on one clock.                             *)
(*                                                                         *)
(* The transmitter has an arm switch and a failsafe switch, mapped to      *)
(* BOXARM and BOXFAILSAFE.  All channels fail to their default values (aux *)
(* channels hold, throttle is low); 3D, stick arming and the reasons not   *)
(* to arm that have nothing to do with the receiver are left out.          *)
(***************************************************************************)
EXTENDS Failsafe

CONSTANTS
    LOSS_TRIGGER,          \* RXLOSS_TRIGGER_INTERVAL, in clock units
    RECHECK,               \* RX_FRAME_RECHECK_INTERVAL
    MAX_INVALID_PULSE,     \* MAX_INVALID_PULSE_TIME_MS
    POWER_ON_DELAY,        \* FAILSAFE_POWER_ON_DELAY_US
    MaxSaves               \* bound: how often the configuration is saved

ASSUME RxAssumption ==
    /\ LOSS_TRIGGER \in Nat \ {0} /\ RECHECK \in Nat \ {0}
    /\ MAX_INVALID_PULSE \in Nat \ {0} /\ POWER_ON_DELAY \in Nat /\ MaxSaves \in Nat

VARIABLES
    rxSignalReceived,
    needRxSignalBefore,    \* countdown, -1 once it has passed
    validRxSignalTimeout,  \* countdown: flight channels may be bad for as long
    rxState,               \* of TASK_RX: "CHECK", "MODES" or "UPDATE"
    hadRx,                 \* static in updateArmingStatus
    uptime,
    saves, savedActive     \* history: saves, one of them while a failsafe was active

rx == <<rxSignalReceived, needRxSignalBefore, validRxSignalTimeout>>
failsafe == <<failsafeConfig, failsafeState, pass, checked>>
arming == <<armed, armingDisabled, disarmedBy>>
history == <<saves, savedActive>>
vars == <<failsafe, monitoring, arming, modes, rcData, rx, rxState, hadRx, uptime, history>>

Init ==
    /\ FailsafeInit
    /\ armed = FALSE /\ armingDisabled = {} /\ disarmedBy = "none"
    /\ modes = [arm |-> FALSE, box |-> FALSE]
    /\ rcData = [arm |-> FALSE, box |-> FALSE, low |-> TRUE]
    /\ rxSignalReceived = FALSE /\ needRxSignalBefore = -1
    /\ validRxSignalTimeout = MAX_INVALID_PULSE
    /\ rxState = "CHECK" /\ hadRx = FALSE /\ uptime = 0
    /\ saves = 0 /\ savedActive = FALSE

-----------------------------------------------------------------------------
(* detectAndApplySignalLossBehaviour *)

\* rxFlightChannelsValid; good is whether the pulses of all flight channels are valid.
FlightChannelsValid(signal, good) ==
    /\ signal /\ ~modes.box
    /\ failsafeState.active \/ good \/ validRxSignalTimeout > 0

\* The switches get through while all is well, or in a switch-induced failsafe.
Switches(signal, good, raw) ==
    IF modes.box \/ (~failsafeState.active /\ FlightChannelsValid(signal, good))
    THEN raw ELSE rcData

\* What the throttle may read: as received, held, or low.  A flight channel that is
\* bad need not be the throttle.
Throttles(signal, good, raw) ==
    LET valid == FlightChannelsValid(signal, good)
        forced == modes.box \/ failsafeState.active
    IN  CASE valid /\ good -> {raw.low}
          [] valid /\ ~good -> {raw.low, failsafeState.active \/ rcData.low}
          [] ~valid /\ ~forced /\ validRxSignalTimeout > 0 -> {rcData.low}
          [] OTHER -> {TRUE} \cup (IF signal /\ ~forced THEN {rcData.low} ELSE {})

Process(signal, good, raw) ==
    /\ \E low \in Throttles(signal, good, raw) :
          rcData' = [Switches(signal, good, raw) EXCEPT !.low = low]
    /\ validRxSignalTimeout' = IF signal /\ good /\ ~modes.box THEN MAX_INVALID_PULSE
                               ELSE validRxSignalTimeout
    /\ IF FlightChannelsValid(signal, good) THEN ValidDataReceived ELSE ValidDataFailed

-----------------------------------------------------------------------------
(* rxFrameCheck and TASK_RX *)

\* processRx starts the failsafe once the power-on delay is over.
CheckState ==
    /\ rxState = "CHECK" /\ ~pass.on
    /\ rxState' = "MODES"
    /\ monitoring' = (monitoring \/ uptime >= POWER_ON_DELAY)
    /\ checked' = (checked /\ monitoring' = monitoring)
    /\ UNCHANGED <<failsafeConfig, pass, armed, disarmedBy, modes, hadRx, uptime, history>>

Frame(good, raw) ==
    /\ CheckState
    /\ rxSignalReceived' = TRUE /\ needRxSignalBefore' = LOSS_TRIGGER
    /\ Process(TRUE, good, raw)

\* No frame in time: the last channels are processed again.
LossTimeout ==
    /\ needRxSignalBefore < 0 /\ CheckState
    /\ rxSignalReceived' = FALSE /\ needRxSignalBefore' = RECHECK - 1
    /\ Process(FALSE, TRUE, rcData)

-----------------------------------------------------------------------------
(* updateArmingStatus, tryArm and the arm switch *)

JustGotRxBack == rxSignalReceived /\ ~hadRx

\* Reasons that are evaluated whenever they are asked for.
Momentary == modes.box \/ ~rcData.low

\* Mutant: the arm switch need not be released after a reason not to arm has gone.
SwitchReason_None(reasons) == {}

SwitchReason(reasons) ==
    IF modes.arm /\ (reasons # {} \/ Momentary) THEN {"ARM_SWITCH"} ELSE {}

\* updateArmingStatus leaves these reasons not to arm, while disarmed.
Reasons ==
    LET kept == armingDisabled \ (IF modes.arm THEN {} ELSE {"ARM_SWITCH"})
        notDisarmed ==
            IF JustGotRxBack /\ modes.arm THEN kept \cup {"NOT_DISARMED"}
            ELSE IF rxSignalReceived /\ ~modes.arm THEN kept \ {"NOT_DISARMED"}
            ELSE kept
    IN  notDisarmed \cup SwitchReason(notDisarmed)

UpdateArmingStatus ==
    IF armed THEN UNCHANGED <<armingDisabled, hadRx>>
    ELSE armingDisabled' = Reasons /\ hadRx' = rxSignalReceived

TryArm ==
    /\ UpdateArmingStatus
    /\ armed' = (armed \/ (Reasons = {} /\ ~Momentary))

\* After three switch-off readings in a row, which may or may not have been made.
Disarm ==
    /\ \/ armed' = armed
       \/ (failsafeState.linkUp \/ modes.box) /\ armed' = FALSE
    /\ UNCHANGED <<armingDisabled, hadRx>>

\* processRcStickPositions works with the modes of before; then updateActivatedModes.
Modes ==
    /\ rxState = "MODES" /\ ~pass.on
    /\ rxState' = "UPDATE"
    /\ IF modes.arm THEN TryArm ELSE Disarm
    /\ modes' = [arm |-> rcData.arm, box |-> rcData.box]
    /\ disarmedBy' = IF rcData.arm THEN disarmedBy ELSE "none"
    /\ UNCHANGED <<failsafe, monitoring, rcData, rx, uptime, history>>

Update ==
    /\ rxState = "UPDATE" /\ ~pass.on
    /\ rxState' = "CHECK"
    /\ UpdateArmingStatus
    /\ UNCHANGED <<failsafe, monitoring, armed, disarmedBy, modes, rcData, rx, uptime, history>>

-----------------------------------------------------------------------------
(* The configuration is saved over MSP, which is refused while armed: writeEEPROM   *)
(* and readEEPROM, with failsafeReset on the way and the RX resumed at the end.     *)

SaveConfig ==
    /\ saves < MaxSaves /\ ~armed /\ ~pass.on
    /\ saves' = saves + 1 /\ savedActive' = (savedActive \/ failsafeState.active)
    /\ failsafeState' = AfterReset(failsafeState)
    /\ UNCHANGED <<failsafeConfig, monitoring, pass, checked, arming, modes, rcData, rx,
                   rxState, hadRx, uptime>>

-----------------------------------------------------------------------------
(* Time: in one unit TASK_RX finishes what it has begun and takes notice of a frame *)
(* that is late, and the scheduler runs the failsafe.                                *)

Tick ==
    /\ checked /\ ~pass.on /\ rxState = "CHECK" /\ needRxSignalBefore >= 0
    /\ checked' = FALSE
    /\ needRxSignalBefore' = needRxSignalBefore - 1
    /\ validRxSignalTimeout' = IF validRxSignalTimeout = 0 THEN 0 ELSE validRxSignalTimeout - 1
    /\ uptime' = IF uptime < POWER_ON_DELAY THEN uptime + 1 ELSE uptime
    /\ failsafeState' = Aged(failsafeState)
    /\ UNCHANGED <<failsafeConfig, monitoring, pass, arming, modes, rcData,
                   rxSignalReceived, rxState, hadRx, history>>

\* The scheduler's 10 ms check.
FailsafeTask ==
    /\ StartPass \/ UpdateState
    /\ UNCHANGED <<rx, rxState, hadRx, uptime, history>>

ReceiveFrame ==
    \E good, arm, box, low \in BOOLEAN : Frame(good, [arm |-> arm, box |-> box, low |-> low])

Next ==
    \/ ReceiveFrame \/ LossTimeout \/ Modes \/ Update
    \/ FailsafeTask \/ SaveConfig \/ Tick

Spec == Init /\ [][Next]_vars

\* The tasks run again and again, and frames do not keep time from passing.
FairSpec ==
    /\ Spec
    /\ WF_vars(FailsafeTask) /\ SF_vars(LossTimeout \/ Modes \/ Update) /\ SF_vars(Tick)

-----------------------------------------------------------------------------
(* Properties *)

\* Types, and the do-while loop of failsafeUpdateState ends only in a phase that waits
\* for something (FailsafeType).
TypeOK ==
    /\ FailsafeType
    /\ rxSignalReceived \in BOOLEAN /\ hadRx \in BOOLEAN
    /\ needRxSignalBefore \in -1..(LOSS_TRIGGER + RECHECK)
    /\ validRxSignalTimeout \in 0..MAX_INVALID_PULSE
    /\ rxState \in {"CHECK", "MODES", "UPDATE"} /\ uptime \in 0..POWER_ON_DELAY
    /\ saves \in 0..MaxSaves /\ savedActive \in BOOLEAN

\* No drone flies on without data: once the failure period is over and the scheduler
\* has looked, an armed drone is landing or on its way home.
LossIsActedOn ==
    armed /\ monitoring /\ checked /\ ~pass.on /\ failsafeState.sinceReceived > FAILURE_PERIOD
        => failsafeState.phase \in {"LANDING", "GPS_RESCUE"}

\* After the failsafe has disarmed a drone it is not armed again before its arm switch
\* has been seen off, however the link and the failsafe switch come and go.
NoSurpriseArming == [][~armed /\ armed' => disarmedBy = "none"]_vars

\* As above, for a failsafe that was not the switch's: its recovery period keeps the
\* reason not to arm in place until the arm switch has been looked at.
NoSurpriseArmingAfterLoss ==
    [][~armed /\ armed' => disarmedBy # "loss"]_vars

\* A drone is only armed on a link that has been good for the recovery period, unless
\* the last failsafe was the switch's (whose period 0 stays) or settings were saved.
ArmsOnSteadyLink ==
    [][~armed /\ armed' => \/ failsafeState.sinceFailed > RECOVERY_PERIOD
                           \/ failsafeState.preset = 0 \/ saves > 0]_vars

\* A link without a failure for longer than the recovery period puts no drone into
\* failsafe, but the pilot's switch may.
NoFalseFailsafe ==
    [][~failsafeState.active /\ failsafeState'.active
          => \/ failsafeState.sinceFailed <= RECOVERY_PERIOD
             \/ failsafeState.sinceReceived > FAILURE_PERIOD
             \/ modes.box]_vars

\* When the link stays good the failsafe ends and arming is allowed again (a GPS
\* rescue goes on until the sticks move), unless settings were saved during it.
FailsafeEnds ==
    <>[](failsafeState.sinceFailed > RECOVERY_PERIOD /\ ~savedActive)
        => <>[](\/ failsafeState.phase = "GPS_RESCUE"
                \/ ~failsafeState.active /\ "FAILSAFE" \notin armingDisabled)

\* A drone that hears nothing any more comes down and is disarmed, or flies home.
LostDroneLands ==
    <>[](~rxSignalReceived) => <>[](~armed \/ failsafeState.phase = "GPS_RESCUE")
=============================================================================
