--------------------------- MODULE RcInputProofs ----------------------------
(***************************************************************************)
(* Theorems about RcInput, for all periods and settings of the failsafe.   *)
(***************************************************************************)
EXTENDS RcInput, TLAPS

Phases == {"IDLE", "RX_LOSS_DETECTED", "LANDING", "GPS_RESCUE", "LANDED",
           "RX_LOSS_MONITORING", "RX_LOSS_RECOVERED"}

StateType ==
    [active : BOOLEAN, linkUp : BOOLEAN, boxWasOn : BOOLEAN, phase : Phases,
     preset : {0, RECOVERY_PERIOD}, sinceReceived : 0..(FAILURE_PERIOD + 1),
     sinceFailed : Never..(RECOVERY_PERIOD + 1), throttleLow : -1..THROTTLE_LOW_DELAY,
     deadline : -1..(LANDING_TIME + RECOVERY_PERIOD)]

RawType == [arm : BOOLEAN, box : BOOLEAN, low : BOOLEAN]

\* How a step that is not Tick, StartPass or a phase changes failsafeState.
LEMMA ReportStep ==
    ASSUME failsafeState \in StateType, ValidDataReceived \/ ValidDataFailed
    PROVE  /\ failsafeState' \in StateType
           /\ failsafeState'.phase = failsafeState.phase
           /\ failsafeState'.preset = failsafeState.preset
           /\ failsafeState'.deadline = failsafeState.deadline
           /\ \/ failsafeState'.sinceReceived = 0
              \/ /\ failsafeState'.sinceReceived = failsafeState.sinceReceived
                 /\ "RX_FAILSAFE" \in armingDisabled'
           /\ armingDisabled' \subseteq armingDisabled \cup {"RX_FAILSAFE"}
           /\ armingDisabled \ {"RX_FAILSAFE"} \subseteq armingDisabled'
<1>1. CASE ValidDataReceived
  <2> DEFINE since == IF failsafeState.sinceFailed = Never THEN 0 ELSE failsafeState.sinceFailed
             up == failsafeState.linkUp \/ Recovered(since)
  <2>1. failsafeState' = [failsafeState EXCEPT !.sinceReceived = 0, !.sinceFailed = since,
                                               !.linkUp = up]
    BY <1>1 DEF ValidDataReceived
  <2>2. up \in BOOLEAN
    OBVIOUS
  <2>3. since \in Never..(RECOVERY_PERIOD + 1) /\ 0 \in 0..(FAILURE_PERIOD + 1)
    BY PeriodAssumption DEF StateType, Never
  <2>4. /\ armingDisabled' \subseteq armingDisabled \cup {"RX_FAILSAFE"}
        /\ armingDisabled \ {"RX_FAILSAFE"} \subseteq armingDisabled'
    BY <1>1 DEF ValidDataReceived
  <2> HIDE DEF since, up
  <2> QED
    BY <2>1, <2>2, <2>3, <2>4 DEF StateType
<1>2. CASE ValidDataFailed
  <2> DEFINE up == failsafeState.linkUp /\ ~TooLong
  <2>1. failsafeState' = [failsafeState EXCEPT !.sinceFailed = 0, !.linkUp = up]
    BY <1>2 DEF ValidDataFailed
  <2>2. up \in BOOLEAN
    OBVIOUS
  <2>3. 0 \in Never..(RECOVERY_PERIOD + 1)
    BY PeriodAssumption DEF Never
  <2>4. armingDisabled' = armingDisabled \cup {"RX_FAILSAFE"}
    BY <1>2 DEF ValidDataFailed
  <2> HIDE DEF up
  <2> QED
    BY <2>1, <2>2, <2>3, <2>4 DEF StateType
<1> QED
  BY <1>1, <1>2

\* A phase of the loop leaves the state in its type.
LEMMA PhaseStep ==
    ASSUME failsafeState \in StateType, failsafeConfig \in Configs,
           modes.box \in BOOLEAN, UpdateState
    PROVE  failsafeState' \in StateType
<1> USE PeriodAssumption
<1>0. Tracked \in StateType
  <2> DEFINE left == IF ~pass.armed THEN -1
                     ELSE IF ~rcData.low THEN THROTTLE_LOW_DELAY ELSE failsafeState.throttleLow
  <2>1. Tracked = [failsafeState EXCEPT !.boxWasOn = modes.box, !.throttleLow = left]
    BY DEF Tracked
  <2>2. left \in -1..THROTTLE_LOW_DELAY
    BY DEF StateType
  <2> HIDE DEF left
  <2> QED
    BY <2>1, <2>2 DEF StateType
<1>1. CASE IdleCalm
  BY <1>0, <1>1 DEF IdleCalm
<1>2. CASE IdleDisarms
  BY <1>0, <1>2 DEF IdleDisarms, StateType, Phases
<1>3. CASE IdleDetects
  BY <1>0, <1>3 DEF IdleDetects, StateType, Phases
<1>4. CASE Detected
  <2>1. Stage2Phase \in Phases
    BY ConfigAssumption DEF Stage2Phase, Phases
  <2> DEFINE deadline == IF Stage2Phase = "LANDING" THEN LANDING_TIME ELSE failsafeState.deadline
             preset == IF failsafeState.boxWasOn THEN 0 ELSE RECOVERY_PERIOD
  <2>2. \/ failsafeState' = [failsafeState EXCEPT !.phase = "RX_LOSS_RECOVERED"]
        \/ failsafeState' = [failsafeState EXCEPT !.active = TRUE, !.phase = Stage2Phase,
                                                  !.deadline = deadline, !.preset = preset]
    BY <1>4 DEF Detected
  <2>3. /\ deadline \in -1..(LANDING_TIME + RECOVERY_PERIOD)
        /\ preset \in {0, RECOVERY_PERIOD} /\ "RX_LOSS_RECOVERED" \in Phases
    BY DEF StateType, Phases
  <2> HIDE DEF deadline, preset
  <2> QED
    BY <2>1, <2>2, <2>3 DEF StateType
<1>5. CASE Landing
  BY <1>5 DEF Landing, StateType, Phases
<1>6. CASE GpsRescue
  BY <1>6 DEF GpsRescue, StateType, Phases
<1>7. CASE Landed
  <2>1. Wait(failsafeState.preset) \in -1..(LANDING_TIME + RECOVERY_PERIOD)
    BY DEF Wait, StateType
  <2> QED
    BY <1>7, <2>1 DEF Landed, StateType, Phases
<1>8. CASE Monitoring
  <2>1. WaitLeft \in -1..(LANDING_TIME + RECOVERY_PERIOD)
    BY DEF WaitLeft, Wait, StateType
  <2> QED
    BY <1>8, <2>1 DEF Monitoring, StateType, Phases
<1>9. CASE RecoveredPhase
  <2>1. THROTTLE_LOW_DELAY \in -1..THROTTLE_LOW_DELAY /\ "IDLE" \in Phases
    BY DEF Phases
  <2>2. failsafeState' = [failsafeState EXCEPT !.throttleLow = THROTTLE_LOW_DELAY,
                                               !.phase = "IDLE", !.active = FALSE]
    BY <1>9 DEF RecoveredPhase
  <2> QED
    BY <2>1, <2>2 DEF StateType
<1> QED
  BY <1>1, <1>2, <1>3, <1>4, <1>5, <1>6, <1>7, <1>8, <1>9 DEF UpdateState

-----------------------------------------------------------------------------
(* What the steps of the tasks do *)

\* The switches and the throttle that are accepted keep their type.
LEMMA ProcessStep ==
    ASSUME rcData \in RawType, NEW signal \in BOOLEAN, NEW good \in BOOLEAN,
           NEW raw \in RawType, failsafeState \in StateType,
           validRxSignalTimeout \in 0..MAX_INVALID_PULSE, Process(signal, good, raw)
    PROVE  /\ rcData' \in RawType
           /\ validRxSignalTimeout' \in 0..MAX_INVALID_PULSE
           /\ ValidDataReceived \/ ValidDataFailed
<1>1. Switches(signal, good, raw) \in RawType
  BY DEF Switches
<1>2. Throttles(signal, good, raw) \subseteq BOOLEAN
  BY DEF Throttles, StateType, RawType
<1>3. rcData' \in RawType
  <2>1. PICK low \in BOOLEAN : rcData' = [Switches(signal, good, raw) EXCEPT !.low = low]
    BY <1>2 DEF Process
  <2> QED
    BY <1>1, <2>1 DEF RawType
<1>4. MAX_INVALID_PULSE \in 0..MAX_INVALID_PULSE
  BY RxAssumption
<1> QED
  BY <1>3, <1>4 DEF Process

\* CheckState begins with a frame or with the news that none came.
LEMMA CheckStep ==
    ASSUME TypeOK, ReceiveFrame \/ LossTimeout
    PROVE  /\ CheckState
           /\ rcData' \in RawType
           /\ validRxSignalTimeout' \in 0..MAX_INVALID_PULSE
           /\ rxSignalReceived' \in BOOLEAN
           /\ needRxSignalBefore' \in -1..(LOSS_TRIGGER + RECHECK)
           /\ ValidDataReceived \/ ValidDataFailed
<1>0. /\ rcData \in RawType /\ failsafeState \in StateType
      /\ validRxSignalTimeout \in 0..MAX_INVALID_PULSE
  BY DEF TypeOK, FailsafeType, RawType, StateType, Phases
<1>1. CASE ReceiveFrame
  <2>1. PICK good, arm, box, low \in BOOLEAN :
           Frame(good, [arm |-> arm, box |-> box, low |-> low])
    BY <1>1 DEF ReceiveFrame
  <2> DEFINE raw == [arm |-> arm, box |-> box, low |-> low]
  <2>2. raw \in RawType
    BY DEF RawType
  <2> HIDE DEF raw
  <2>3. CheckState /\ Process(TRUE, good, raw) /\ rxSignalReceived' = TRUE
        /\ needRxSignalBefore' = LOSS_TRIGGER
    BY <2>1 DEF Frame, raw
  <2>4. LOSS_TRIGGER \in -1..(LOSS_TRIGGER + RECHECK)
    BY RxAssumption
  <2>5. /\ rcData' \in RawType /\ validRxSignalTimeout' \in 0..MAX_INVALID_PULSE
        /\ ValidDataReceived \/ ValidDataFailed
    BY <1>0, <2>2, <2>3, ProcessStep
  <2> QED
    BY <2>3, <2>4, <2>5
<1>2. CASE LossTimeout
  <2>1. CheckState /\ Process(FALSE, TRUE, rcData) /\ rxSignalReceived' = FALSE
        /\ needRxSignalBefore' = RECHECK - 1
    BY <1>2 DEF LossTimeout
  <2>2. RECHECK - 1 \in -1..(LOSS_TRIGGER + RECHECK)
    BY RxAssumption
  <2>3. /\ rcData' \in RawType /\ validRxSignalTimeout' \in 0..MAX_INVALID_PULSE
        /\ ValidDataReceived \/ ValidDataFailed
    BY <1>0, <2>1, ProcessStep
  <2> QED
    BY <2>1, <2>2, <2>3
<1> QED
  BY <1>1, <1>2

\* A save and the clock keep failsafeState in its type; time passes.
LEMMA OtherStep ==
    ASSUME failsafeState \in StateType
    PROVE  AfterReset(failsafeState) \in StateType /\ Aged(failsafeState) \in StateType
<1> USE PeriodAssumption
<1>1. AfterReset(failsafeState) \in StateType
  <2>1. /\ 0 \in 0..(FAILURE_PERIOD + 1) /\ Never \in Never..(RECOVERY_PERIOD + 1)
        /\ -1 \in -1..THROTTLE_LOW_DELAY /\ -1 \in -1..(LANDING_TIME + RECOVERY_PERIOD)
        /\ "IDLE" \in Phases
    BY DEF Phases, Never
  <2> QED
    BY <2>1 DEF AfterReset, StateType
<1>2. Aged(failsafeState) \in StateType
  <2>1. Older(failsafeState.sinceReceived, FAILURE_PERIOD) \in 0..(FAILURE_PERIOD + 1)
    BY DEF Older, StateType, Never
  <2>2. Older(failsafeState.sinceFailed, RECOVERY_PERIOD) \in Never..(RECOVERY_PERIOD + 1)
    BY DEF Older, StateType, Never
  <2>3. Nearer(failsafeState.throttleLow) \in -1..THROTTLE_LOW_DELAY
    BY DEF Nearer, StateType
  <2>4. Nearer(failsafeState.deadline) \in -1..(LANDING_TIME + RECOVERY_PERIOD)
    BY DEF Nearer, StateType
  <2> QED
    BY <2>1, <2>2, <2>3, <2>4 DEF Aged, StateType
<1> QED
  BY <1>1, <1>2

-----------------------------------------------------------------------------
(* Types *)

AllReasons == {"RX_FAILSAFE", "FAILSAFE", "NOT_DISARMED", "ARM_SWITCH"}
SwitchReasons == {"NOT_DISARMED", "ARM_SWITCH"}
Waiting == {"IDLE", "LANDING", "GPS_RESCUE", "RX_LOSS_MONITORING"}

\* updateArmingStatus forgets no reason but those of the switch.
LEMMA ReasonsKept ==
    ASSUME armingDisabled \subseteq AllReasons
    PROVE  /\ Reasons \subseteq AllReasons
           /\ armingDisabled \ SwitchReasons \subseteq Reasons
BY DEF Reasons, SwitchReason, AllReasons, SwitchReasons

\* Arming takes a moment without any reason.
LEMMA ModesStep ==
    ASSUME armed \in BOOLEAN, hadRx \in BOOLEAN, rxSignalReceived \in BOOLEAN,
           armingDisabled \subseteq AllReasons, Modes \/ Update
    PROVE  /\ armed' \in BOOLEAN /\ hadRx' \in BOOLEAN
           /\ armingDisabled' \subseteq AllReasons
           /\ armingDisabled \ SwitchReasons \subseteq armingDisabled'
           /\ armed' => armed \/ armingDisabled \subseteq SwitchReasons
<1>1. /\ Reasons \subseteq AllReasons
      /\ armingDisabled \ SwitchReasons \subseteq Reasons
  BY ReasonsKept
<1>2. CASE Update
  BY <1>1, <1>2 DEF Update, UpdateArmingStatus
<1>3. CASE Modes /\ TryArm
  <2>1. armed' = (armed \/ (Reasons = {} /\ ~Momentary))
    BY <1>3 DEF TryArm
  <2>2. armed' \in BOOLEAN
    BY <2>1
  <2>3. armed' => armed \/ Reasons = {}
    BY <2>1
  <2> QED
    BY <1>1, <1>3, <2>2, <2>3 DEF TryArm, UpdateArmingStatus
<1>4. CASE Modes /\ Disarm
  <2>1. armed' = armed \/ armed' = FALSE
    BY <1>4 DEF Disarm
  <2>2. armed' \in BOOLEAN
    BY <2>1
  <2>3. armed' => armed
    BY <2>1
  <2>4. UNCHANGED <<armingDisabled, hadRx>>
    BY <1>4 DEF Disarm
  <2> QED
    BY <2>2, <2>3, <2>4
<1> QED
  BY <1>2, <1>3, <1>4 DEF Modes

\* One phase of the loop: the pass goes on as it is, or ends where it waits.
LEMMA LoopStep ==
    ASSUME failsafeState \in StateType, failsafeConfig \in Configs,
           modes.box \in BOOLEAN, UpdateState
    PROVE  /\ pass.on
           /\ \/ UNCHANGED <<pass, checked>>
              \/ pass' = NoPass /\ checked' = TRUE /\ failsafeState'.phase \in Waiting
           /\ UNCHANGED others
           /\ \/ UNCHANGED <<armed, armingDisabled, disarmedBy>>
              \/ Landed \/ RecoveredPhase
           /\ failsafeState'.sinceReceived = failsafeState.sinceReceived
           /\ failsafeState'.linkUp = failsafeState.linkUp
<1>0. /\ Tracked.phase = failsafeState.phase
      /\ Tracked.sinceReceived = failsafeState.sinceReceived
      /\ Tracked.linkUp = failsafeState.linkUp
  BY DEF Tracked, StateType
<1>1. CASE IdleCalm
  <2>1. failsafeState'.phase \in Waiting
    BY <1>0, <1>1 DEF IdleCalm, In, Waiting
  <2> QED
    BY <1>0, <1>1, <2>1 DEF IdleCalm, In, Done, Quietly
<1>2. CASE IdleDisarms
  <2>1. /\ failsafeState'.sinceReceived = failsafeState.sinceReceived
        /\ failsafeState'.linkUp = failsafeState.linkUp
    BY <1>2 DEF IdleDisarms, Tracked, StateType
  <2> QED
    BY <1>2, <2>1 DEF IdleDisarms, In, AfterLoss, Again, Quietly
<1>3. CASE IdleDetects
  <2>1. /\ failsafeState'.sinceReceived = failsafeState.sinceReceived
        /\ failsafeState'.linkUp = failsafeState.linkUp
    BY <1>3 DEF IdleDetects, Tracked, StateType
  <2> QED
    BY <1>3, <2>1 DEF IdleDetects, In, AfterLoss, Again, Quietly
<1>4. CASE Detected
  BY <1>4 DEF Detected, In, Again, Quietly, StateType
<1>5. CASE Landing
  BY <1>5 DEF Landing, In, Again, Done, Quietly, StateType, Waiting
<1>6. CASE GpsRescue
  BY <1>6 DEF GpsRescue, In, Again, Done, Quietly, StateType, Waiting
<1>7. CASE Landed
  BY <1>7 DEF Landed, In, Again, StateType
<1>8. CASE Monitoring
  BY <1>8 DEF Monitoring, In, Again, Done, Quietly, StateType, Waiting
<1>9. CASE RecoveredPhase
  BY <1>9 DEF RecoveredPhase, In, Again, StateType
<1> QED
  BY <1>1, <1>2, <1>3, <1>4, <1>5, <1>6, <1>7, <1>8, <1>9 DEF UpdateState

\* TypeOK in the terms of the lemmas.
TypeParts ==
    /\ ~pass.on => failsafeState.phase \in Waiting
    /\ failsafeConfig \in Configs /\ failsafeState \in StateType
    /\ monitoring \in BOOLEAN /\ checked \in BOOLEAN
    /\ pass \in [on : BOOLEAN, armed : BOOLEAN, receiving : BOOLEAN]
    /\ armed \in BOOLEAN /\ armingDisabled \subseteq AllReasons
    /\ modes \in [arm : BOOLEAN, box : BOOLEAN] /\ rcData \in RawType
    /\ disarmedBy \in {"none", "switch", "loss"}
    /\ rxSignalReceived \in BOOLEAN /\ hadRx \in BOOLEAN
    /\ needRxSignalBefore \in -1..(LOSS_TRIGGER + RECHECK)
    /\ validRxSignalTimeout \in 0..MAX_INVALID_PULSE
    /\ rxState \in {"CHECK", "MODES", "UPDATE"} /\ uptime \in 0..POWER_ON_DELAY
    /\ saves \in 0..MaxSaves /\ savedActive \in BOOLEAN

LEMMA TypesInParts == TypeOK <=> TypeParts
BY DEF TypeOK, TypeParts, FailsafeType, StateType, Phases, Waiting, AllReasons, RawType

LEMMA TypesInPartsNext == TypeOK' <=> TypeParts'
BY DEF TypeOK, TypeParts, FailsafeType, StateType, Phases, Waiting, AllReasons, RawType

LEMMA CheckTypes ==
    ASSUME TypeOK, ReceiveFrame \/ LossTimeout
    PROVE  TypeParts'
<1>0. TypeParts
  BY TypesInParts
<1>1. /\ CheckState /\ rcData' \in RawType
      /\ validRxSignalTimeout' \in 0..MAX_INVALID_PULSE
      /\ rxSignalReceived' \in BOOLEAN
      /\ needRxSignalBefore' \in -1..(LOSS_TRIGGER + RECHECK)
      /\ ValidDataReceived \/ ValidDataFailed
  BY CheckStep
<1>2. /\ failsafeState' \in StateType /\ failsafeState'.phase = failsafeState.phase
      /\ armingDisabled' \subseteq armingDisabled \cup {"RX_FAILSAFE"}
  BY <1>0, <1>1, ReportStep DEF TypeParts
<1>3. armingDisabled' \subseteq AllReasons
  BY <1>0, <1>2 DEF TypeParts, AllReasons
<1>4. monitoring' \in BOOLEAN
  BY <1>1 DEF CheckState
<1>5. checked' \in BOOLEAN
  BY <1>1 DEF CheckState
<1> QED
  BY <1>0, <1>1, <1>2, <1>3, <1>4, <1>5 DEF TypeParts, CheckState, history

LEMMA ModesTypes ==
    ASSUME TypeOK, Modes \/ Update
    PROVE  TypeParts'
<1>0. TypeParts
  BY TypesInParts
<1>1. /\ armed' \in BOOLEAN /\ hadRx' \in BOOLEAN /\ armingDisabled' \subseteq AllReasons
  BY <1>0, ModesStep DEF TypeParts
<1>2. CASE Modes
  <2>1. modes' \in [arm : BOOLEAN, box : BOOLEAN] /\ disarmedBy' \in {"none", "switch", "loss"}
    BY <1>0, <1>2 DEF Modes, TypeParts, RawType
  <2> QED
    BY <1>0, <1>1, <1>2, <2>1 DEF Modes, TypeParts, failsafe, rx, history
<1>3. CASE Update
  BY <1>0, <1>1, <1>3 DEF Update, TypeParts, failsafe, rx, history
<1> QED
  BY <1>2, <1>3

LEMMA StartTypes ==
    ASSUME TypeOK, StartPass, UNCHANGED <<rx, rxState, hadRx, uptime, history>>
    PROVE  TypeParts'
<1>0. TypeParts
  BY TypesInParts
<1> DEFINE up == failsafeState.linkUp /\ ~TooLong
           receiving == up /\ ~(modes.box /\ failsafeConfig.switchMode = "STAGE2")
<1>1. up \in BOOLEAN /\ receiving \in BOOLEAN
  OBVIOUS
<1>2. /\ failsafeState' = [failsafeState EXCEPT !.linkUp = up]
      /\ \/ pass' = [on |-> TRUE, armed |-> armed, receiving |-> receiving]
            /\ UNCHANGED checked
         \/ checked' = TRUE /\ UNCHANGED pass
      /\ ~pass.on
  BY DEF StartPass
<1>3. armingDisabled' \subseteq AllReasons
  BY <1>0 DEF StartPass, TypeParts, AllReasons
<1>4. UNCHANGED <<others, armed, disarmedBy>>
  BY DEF StartPass
<1> HIDE DEF up, receiving
<1>5. failsafeState' \in StateType /\ failsafeState'.phase = failsafeState.phase
  BY <1>0, <1>1, <1>2 DEF TypeParts, StateType
<1>6. /\ pass' \in [on : BOOLEAN, armed : BOOLEAN, receiving : BOOLEAN]
      /\ checked' \in BOOLEAN /\ (~pass'.on => ~pass.on)
  <2>1. armed \in BOOLEAN /\ checked \in BOOLEAN
        /\ pass \in [on : BOOLEAN, armed : BOOLEAN, receiving : BOOLEAN]
    BY <1>0 DEF TypeParts
  <2>2. CASE pass' = [on |-> TRUE, armed |-> armed, receiving |-> receiving] /\ UNCHANGED checked
    <3>1. pass' \in [on : BOOLEAN, armed : BOOLEAN, receiving : BOOLEAN]
      BY <1>1, <2>1, <2>2
    <3>2. pass'.on
      BY <2>2
    <3> QED
      BY <2>1, <2>2, <3>1, <3>2
  <2>3. CASE checked' = TRUE /\ UNCHANGED pass
    BY <2>1, <2>3
  <2> QED
    BY <1>2, <2>2, <2>3
<1> QED
  BY <1>0, <1>3, <1>4, <1>5, <1>6, <1>2 DEF TypeParts, others, rx, history

LEMMA LoopTypes ==
    ASSUME TypeOK, UpdateState, UNCHANGED <<rx, rxState, hadRx, uptime, history>>
    PROVE  TypeParts'
<1>0. TypeParts
  BY TypesInParts
<1>1. failsafeState' \in StateType
  BY <1>0, PhaseStep DEF TypeParts
<1>2. /\ pass.on
      /\ \/ UNCHANGED <<pass, checked>>
         \/ pass' = NoPass /\ checked' = TRUE /\ failsafeState'.phase \in Waiting
      /\ UNCHANGED others
      /\ \/ UNCHANGED <<armed, armingDisabled, disarmedBy>>
         \/ Landed \/ RecoveredPhase
  BY <1>0, LoopStep DEF TypeParts
<1>3. /\ armed' \in BOOLEAN /\ armingDisabled' \subseteq AllReasons
      /\ disarmedBy' \in {"none", "switch", "loss"}
  BY <1>0, <1>2 DEF TypeParts, Landed, RecoveredPhase, AllReasons
<1>4. /\ pass' \in [on : BOOLEAN, armed : BOOLEAN, receiving : BOOLEAN]
      /\ checked' \in BOOLEAN /\ (~pass'.on => failsafeState'.phase \in Waiting)
  <2>1. NoPass \in [on : BOOLEAN, armed : BOOLEAN, receiving : BOOLEAN]
    BY DEF NoPass
  <2>2. CASE UNCHANGED <<pass, checked>>
    BY <1>0, <1>2, <2>2 DEF TypeParts
  <2>3. CASE pass' = NoPass /\ checked' = TRUE /\ failsafeState'.phase \in Waiting
    BY <2>1, <2>3
  <2> QED
    BY <1>2, <2>2, <2>3
<1> QED
  BY <1>0, <1>1, <1>2, <1>3, <1>4 DEF TypeParts, others, rx, history

LEMMA TypeStep == TypeOK /\ [Next]_vars => TypeOK'
<1> SUFFICES ASSUME TypeOK, [Next]_vars PROVE TypeParts'
  BY TypesInPartsNext
<1>0. TypeParts
  BY TypesInParts
<1>1. AfterReset(failsafeState) \in StateType /\ Aged(failsafeState) \in StateType
  BY <1>0, OtherStep DEF TypeParts
<1>2. CASE ReceiveFrame \/ LossTimeout
  BY <1>2, CheckTypes
<1>3. CASE Modes \/ Update
  BY <1>3, ModesTypes
<1>4. CASE FailsafeTask
  BY <1>4, StartTypes, LoopTypes DEF FailsafeTask
<1>5. CASE SaveConfig
  <2>1. failsafeState'.phase \in Waiting
    BY <1>0, <1>5 DEF SaveConfig, AfterReset, TypeParts, StateType, Waiting
  <2>2. saves' \in 0..MaxSaves
    BY <1>0, <1>5, RxAssumption DEF SaveConfig, TypeParts
  <2>3. savedActive' \in BOOLEAN
    BY <1>5 DEF SaveConfig
  <2> QED
    BY <1>0, <1>1, <1>5, <2>1, <2>2, <2>3 DEF SaveConfig, TypeParts, arming, rx
<1>6. CASE Tick
  <2>1. failsafeState'.phase = failsafeState.phase
    BY <1>0, <1>6 DEF Tick, Aged, TypeParts, StateType
  <2>2. /\ needRxSignalBefore' \in -1..(LOSS_TRIGGER + RECHECK)
        /\ validRxSignalTimeout' \in 0..MAX_INVALID_PULSE
        /\ uptime' \in 0..POWER_ON_DELAY
    BY <1>0, <1>6, RxAssumption DEF Tick, TypeParts
  <2> QED
    BY <1>0, <1>1, <1>6, <2>1, <2>2 DEF Tick, TypeParts, arming, history
<1>7. CASE UNCHANGED vars
  BY <1>0, <1>7 DEF TypeParts, vars, failsafe, arming, rx, history
<1> QED
  BY <1>2, <1>3, <1>4, <1>5, <1>6, <1>7 DEF Next

-----------------------------------------------------------------------------
(* The invariant *)

\* What a pass of the failsafe knows is still so while it lasts, and a link that has
\* been silent for too long is a reason not to arm once the scheduler has looked.
PassKnows ==
    /\ pass.on => /\ monitoring
                  /\ pass.receiving => ~TooLong
                  /\ ~pass.receiving => ~failsafeState.linkUp \/ modes.box
                  /\ armed => pass.armed
    /\ failsafeState.phase # "IDLE" => monitoring
    /\ failsafeState.phase \in {"RX_LOSS_DETECTED", "LANDED"} => ~pass.receiving \/ modes.box
    /\ (checked \/ pass.on) /\ TooLong => "RX_FAILSAFE" \in armingDisabled
    /\ failsafeState.phase = "RX_LOSS_MONITORING" => ~armed /\ "FAILSAFE" \in armingDisabled

\* The drone waits for a good link.  Until the next frame the link is down and every
\* pass starts the wait again; after that frame the RX task comes first.
WaitingForLink ==
    /\ failsafeState.phase = "RX_LOSS_MONITORING"
    /\ failsafeState.preset > 0 /\ failsafeState.deadline >= 0
    /\ rxState = "CHECK" =>
          /\ ~failsafeState.linkUp /\ (pass.on => ~pass.receiving)
          /\ checked /\ ~pass.on => failsafeState.deadline > 0

\* Why a drone that was disarmed by a loss cannot be armed: its arm switch has been seen
\* on, or the failsafe switch is, or the failsafe has not let go of it yet.
Blocked ==
    disarmedBy = "loss" =>
        /\ ~armed /\ modes.arm
        /\ \/ "ARM_SWITCH" \in armingDisabled
           \/ modes.box
           \/ "FAILSAFE" \in armingDisabled /\ WaitingForLink
           \/ /\ "FAILSAFE" \in armingDisabled
              /\ failsafeState.phase = "IDLE" /\ (pass.on => ~pass.armed)

IInv == TypeOK /\ PassKnows /\ Blocked /\ LossIsActedOn

LEMMA CheckInv ==
    ASSUME IInv, ReceiveFrame \/ LossTimeout
    PROVE  PassKnows' /\ Blocked' /\ LossIsActedOn'
<1>0. TypeParts
  BY TypesInParts DEF IInv
<1>1. CheckState /\ (ValidDataReceived \/ ValidDataFailed)
  BY CheckStep DEF IInv
<1>2. /\ failsafeState'.phase = failsafeState.phase
      /\ failsafeState'.preset = failsafeState.preset
      /\ failsafeState'.deadline = failsafeState.deadline
      /\ \/ failsafeState'.sinceReceived = 0
         \/ /\ failsafeState'.sinceReceived = failsafeState.sinceReceived
            /\ "RX_FAILSAFE" \in armingDisabled'
      /\ armingDisabled \ {"RX_FAILSAFE"} \subseteq armingDisabled'
  BY <1>0, <1>1, ReportStep DEF TypeParts
<1>3. /\ ~pass.on /\ rxState' = "MODES" /\ UNCHANGED <<pass, armed, disarmedBy, modes>>
      /\ monitoring => monitoring'
      /\ checked' => checked /\ (monitoring' => monitoring)
  BY <1>1 DEF CheckState
<1>4. TooLong' => TooLong /\ "RX_FAILSAFE" \in armingDisabled'
  BY <1>2, PeriodAssumption DEF TooLong
<1>5. PassKnows'
  BY <1>2, <1>3, <1>4 DEF IInv, PassKnows
<1>6. Blocked'
  BY <1>2, <1>3 DEF IInv, Blocked, WaitingForLink
<1>7. LossIsActedOn'
  BY <1>2, <1>3, <1>4 DEF IInv, LossIsActedOn, TooLong
<1> QED
  BY <1>5, <1>6, <1>7

\* While a reason not to arm is there and the arm switch is on, the switch becomes one.
LEMMA SwitchRemembered ==
    ASSUME modes.arm, Momentary \/ "ARM_SWITCH" \in armingDisabled
                                \/ "FAILSAFE" \in armingDisabled
    PROVE  "ARM_SWITCH" \in Reasons
BY DEF Reasons, SwitchReason

LEMMA SwitchInv ==
    ASSUME IInv, Modes \/ Update
    PROVE  /\ PassKnows' /\ Blocked' /\ LossIsActedOn'
           /\ ~armed /\ armed' => disarmedBy # "loss"
<1>0. TypeParts
  BY TypesInParts DEF IInv
<1>1. /\ armingDisabled \ SwitchReasons \subseteq armingDisabled'
      /\ armed' => armed \/ armingDisabled \subseteq SwitchReasons
  BY <1>0, ModesStep DEF TypeParts
<1>2. ~pass.on /\ UNCHANGED <<failsafe, monitoring>>
  BY DEF Modes, Update
<1>3. UNCHANGED <<failsafeState, pass, checked, monitoring>>
  BY <1>2 DEF failsafe
<1>4. failsafeState.phase \in Waiting
  BY <1>0, <1>2 DEF TypeParts
<1>5. PassKnows'
  BY <1>1, <1>2, <1>3, <1>4 DEF IInv, PassKnows, TooLong, SwitchReasons, Waiting
<1>6. LossIsActedOn'
  <2>1. TooLong' = TooLong
    BY <1>3 DEF TooLong
  <2>2. checked /\ TooLong => "RX_FAILSAFE" \in armingDisabled
    BY DEF IInv, PassKnows
  <2> QED
    BY <1>1, <1>3, <2>2 DEF IInv, LossIsActedOn, TooLong, SwitchReasons
<1>7. ASSUME disarmedBy = "loss" PROVE ~armed' /\ "ARM_SWITCH" \in armingDisabled'
  <2>1. /\ ~armed /\ modes.arm
        /\ Momentary \/ "ARM_SWITCH" \in armingDisabled \/ "FAILSAFE" \in armingDisabled
    BY <1>7 DEF IInv, Blocked, Momentary
  <2>2. "ARM_SWITCH" \in Reasons
    BY <2>1, SwitchRemembered
  <2>3. UpdateArmingStatus /\ (Update \/ TryArm)
    BY <2>1 DEF Modes, Update, TryArm
  <2>4. armingDisabled' = Reasons
    BY <2>1, <2>3 DEF UpdateArmingStatus
  <2>5. ~armed'
    BY <2>1, <2>2, <2>3 DEF TryArm, Update
  <2> QED
    BY <2>2, <2>4, <2>5
<1>8. disarmedBy' = "loss" => disarmedBy = "loss" /\ modes'.arm
  <2>1. CASE Modes
    BY <2>1 DEF Modes
  <2>2. CASE Update
    BY <2>2 DEF Update, IInv, Blocked
  <2> QED
    BY <2>1, <2>2
<1>9. Blocked'
  BY <1>7, <1>8 DEF Blocked
<1> QED
  BY <1>5, <1>6, <1>7, <1>9

LEMMA StartInv ==
    ASSUME IInv, StartPass, UNCHANGED <<rx, rxState, hadRx, uptime, history>>
    PROVE  PassKnows' /\ Blocked' /\ LossIsActedOn'
<1>0. TypeParts
  BY TypesInParts DEF IInv
<1> DEFINE up == failsafeState.linkUp /\ ~TooLong
           receiving == up /\ ~(modes.box /\ failsafeConfig.switchMode = "STAGE2")
<1>1. /\ ~pass.on /\ failsafeState' = [failsafeState EXCEPT !.linkUp = up]
      /\ \/ /\ monitoring /\ UNCHANGED checked
            /\ pass' = [on |-> TRUE, armed |-> armed, receiving |-> receiving]
         \/ ~monitoring /\ checked' = TRUE /\ UNCHANGED pass
  BY DEF StartPass
<1>2. /\ armingDisabled \subseteq armingDisabled'
      /\ TooLong => "RX_FAILSAFE" \in armingDisabled'
      /\ UNCHANGED <<armed, modes, monitoring, disarmedBy>>
  BY DEF StartPass, others
<1>3. /\ up => failsafeState.linkUp /\ ~TooLong
      /\ receiving => up
      /\ ~receiving => ~up \/ modes.box
  OBVIOUS
<1> HIDE DEF up, receiving
<1>4. /\ failsafeState'.linkUp = up /\ failsafeState'.phase = failsafeState.phase
      /\ failsafeState'.preset = failsafeState.preset
      /\ failsafeState'.deadline = failsafeState.deadline
      /\ failsafeState'.sinceReceived = failsafeState.sinceReceived
  BY <1>0, <1>1 DEF TypeParts, StateType
<1>5. failsafeState.phase \in Waiting /\ (TooLong' <=> TooLong)
  BY <1>0, <1>1, <1>4 DEF TypeParts, TooLong
<1>6. CASE monitoring /\ pass' = [on |-> TRUE, armed |-> armed, receiving |-> receiving]
  <2>1. pass'.on /\ pass'.armed = armed /\ pass'.receiving = receiving
    BY <1>6
  <2>2. PassKnows'
    BY <1>2, <1>3, <1>4, <1>5, <1>6, <2>1 DEF IInv, PassKnows, Waiting
  <2>3. Blocked'
    BY <1>2, <1>3, <1>4, <2>1 DEF IInv, Blocked, WaitingForLink
  <2>4. LossIsActedOn'
    BY <2>1 DEF LossIsActedOn
  <2> QED
    BY <2>2, <2>3, <2>4
<1>7. CASE ~monitoring /\ UNCHANGED pass
  <2>1. failsafeState.phase = "IDLE"
    BY <1>7 DEF IInv, PassKnows
  <2>2. PassKnows'
    BY <1>1, <1>2, <1>4, <1>5, <1>7, <2>1 DEF PassKnows
  <2>3. Blocked'
    BY <1>1, <1>2, <1>4, <1>7, <2>1 DEF IInv, Blocked, WaitingForLink
  <2>4. LossIsActedOn'
    BY <1>2, <1>7 DEF LossIsActedOn
  <2> QED
    BY <2>2, <2>3, <2>4
<1> QED
  BY <1>1, <1>6, <1>7

LEMMA SaveInv ==
    ASSUME IInv, SaveConfig
    PROVE  PassKnows' /\ Blocked' /\ LossIsActedOn'
<1>0. TypeParts
  BY TypesInParts DEF IInv
<1>1. failsafeState'.phase = "IDLE" /\ failsafeState'.sinceReceived = 0
  BY <1>0 DEF SaveConfig, AfterReset, TypeParts, StateType
<1>2. ~TooLong'
  BY <1>1, PeriodAssumption DEF TooLong
<1>3. ~armed /\ ~pass.on
      /\ UNCHANGED <<pass, checked, monitoring, armed, armingDisabled, modes, disarmedBy>>
  BY DEF SaveConfig, arming
<1>4. PassKnows'
  BY <1>1, <1>2, <1>3 DEF PassKnows
<1>5. Blocked'
  BY <1>1, <1>3 DEF IInv, Blocked
<1>6. LossIsActedOn'
  BY <1>3 DEF LossIsActedOn
<1> QED
  BY <1>4, <1>5, <1>6

LEMMA TickInv ==
    ASSUME IInv, Tick
    PROVE  PassKnows' /\ Blocked' /\ LossIsActedOn'
<1>0. TypeParts
  BY TypesInParts DEF IInv
<1>1. /\ failsafeState'.phase = failsafeState.phase
      /\ failsafeState'.preset = failsafeState.preset
      /\ failsafeState'.linkUp = failsafeState.linkUp
      /\ failsafeState'.deadline = Nearer(failsafeState.deadline)
  BY <1>0 DEF Tick, Aged, TypeParts, StateType
<1>2. checked /\ ~pass.on /\ ~checked' /\ rxState = "CHECK"
      /\ UNCHANGED <<rxState, pass, monitoring, armed, armingDisabled, modes, disarmedBy>>
  BY DEF Tick, arming
<1>3. failsafeState.phase \in Waiting /\ failsafeState.deadline \in Int
  BY <1>0, <1>2 DEF TypeParts, StateType
<1>4. PassKnows'
  BY <1>1, <1>2, <1>3 DEF IInv, PassKnows, Waiting
<1>5. WaitingForLink => WaitingForLink'
  BY <1>1, <1>2, <1>3 DEF WaitingForLink, Nearer
<1>6. Blocked'
  BY <1>1, <1>2, <1>5 DEF IInv, Blocked
<1>7. LossIsActedOn'
  BY <1>2 DEF LossIsActedOn
<1> QED
  BY <1>4, <1>6, <1>7

LEMMA LoopInv ==
    ASSUME IInv, UpdateState, UNCHANGED <<rx, rxState, hadRx, uptime, history>>
    PROVE  PassKnows' /\ Blocked' /\ LossIsActedOn'
<1>0. TypeParts
  BY TypesInParts DEF IInv
<1>1. /\ pass.on
      /\ \/ UNCHANGED <<pass, checked>>
         \/ pass' = NoPass /\ checked' = TRUE /\ failsafeState'.phase \in Waiting
      /\ UNCHANGED <<monitoring, modes, rxState>>
      /\ \/ UNCHANGED <<armed, armingDisabled, disarmedBy>>
         \/ Landed \/ RecoveredPhase
      /\ failsafeState'.linkUp = failsafeState.linkUp
      /\ (TooLong' <=> TooLong)
  BY <1>0, LoopStep DEF TypeParts, others, TooLong
<1>2. /\ monitoring /\ (pass.receiving => ~TooLong)
      /\ ~pass.receiving => ~failsafeState.linkUp \/ modes.box
      /\ armed => pass.armed
      /\ TooLong => "RX_FAILSAFE" \in armingDisabled
  BY <1>1 DEF IInv, PassKnows
<1>3. armed' => armed
  BY <1>1 DEF Landed, RecoveredPhase
<1>4. armingDisabled \ {"FAILSAFE"} \subseteq armingDisabled'
  BY <1>1 DEF Landed, RecoveredPhase
<1>5. pass' = NoPass => ~pass'.on
  BY DEF NoPass
<1>6. /\ pass'.on => pass' = pass
      /\ (checked' \/ pass'.on) /\ TooLong' => "RX_FAILSAFE" \in armingDisabled'
  BY <1>1, <1>2, <1>4, <1>5
<1>7. failsafeState'.phase \in {"RX_LOSS_DETECTED", "LANDED"}
         => pass'.on /\ (~pass.receiving \/ modes.box)
  <2>1. CASE IdleCalm
    BY <1>0, <2>1 DEF IdleCalm, In, Tracked, TypeParts, StateType
  <2>2. CASE IdleDisarms
    BY <1>1, <2>2 DEF IdleDisarms, Killed, JustDisarm, AfterLoss, Again
  <2>3. CASE IdleDetects
    BY <1>1, <2>3 DEF IdleDetects, AfterLoss, Again
  <2>4. CASE Detected
    BY <1>1, <2>4 DEF Detected, Again, IInv, PassKnows, In
  <2>5. CASE Landing
    BY <1>0, <1>1, <2>5 DEF Landing, In, Again, TypeParts, StateType
  <2>6. CASE GpsRescue
    BY <1>0, <1>1, <2>6 DEF GpsRescue, In, Again, TypeParts, StateType
  <2>7. CASE Landed
    BY <1>0, <2>7 DEF Landed, TypeParts, StateType
  <2>8. CASE Monitoring
    BY <1>0, <2>8 DEF Monitoring, In, TypeParts, StateType
  <2>9. CASE RecoveredPhase
    BY <1>0, <2>9 DEF RecoveredPhase, TypeParts, StateType
  <2> QED
    BY <2>1, <2>2, <2>3, <2>4, <2>5, <2>6, <2>7, <2>8, <2>9 DEF UpdateState
<1>8. failsafeState'.phase = "RX_LOSS_MONITORING" =>
         \/ Landed
         \/ Monitoring /\ failsafeState.phase = "RX_LOSS_MONITORING"
  <2>1. CASE IdleCalm \/ IdleDisarms \/ IdleDetects
    BY <1>0, <2>1 DEF IdleCalm, IdleDisarms, IdleDetects, In, Tracked, TypeParts, StateType
  <2>2. CASE Detected
    <3>1. Stage2Phase # "RX_LOSS_MONITORING"
      BY <1>0, ConfigAssumption DEF Stage2Phase, TypeParts
    <3> QED
      BY <1>0, <2>2, <3>1 DEF Detected, TypeParts, StateType
  <2>3. CASE Landing
    BY <1>0, <2>3 DEF Landing, In, TypeParts, StateType
  <2>4. CASE GpsRescue
    BY <1>0, <2>4 DEF GpsRescue, In, TypeParts, StateType
  <2>5. CASE RecoveredPhase
    BY <1>0, <2>5 DEF RecoveredPhase, TypeParts, StateType
  <2>6. CASE Monitoring
    BY <2>6 DEF Monitoring, In
  <2> QED
    BY <2>1, <2>2, <2>3, <2>4, <2>5, <2>6 DEF UpdateState
<1>9. PassKnows'
  <2>1. failsafeState'.phase = "RX_LOSS_MONITORING" => ~armed' /\ "FAILSAFE" \in armingDisabled'
    <3>1. CASE Landed
      BY <3>1 DEF Landed
    <3>2. CASE Monitoring /\ failsafeState.phase = "RX_LOSS_MONITORING"
      BY <3>2 DEF Monitoring, Quietly, IInv, PassKnows
    <3> QED
      BY <1>8, <3>1, <3>2
  <2> QED
    BY <1>1, <1>2, <1>3, <1>6, <1>7, <2>1 DEF PassKnows
<1>10. LossIsActedOn'
  <2> SUFFICES ASSUME armed', monitoring', checked', ~pass'.on,
                      failsafeState'.sinceReceived > FAILURE_PERIOD
               PROVE  failsafeState'.phase \in {"LANDING", "GPS_RESCUE"}
    BY DEF LossIsActedOn
  <2>1. TooLong /\ armed /\ pass.armed /\ ~pass.receiving
    BY <1>1, <1>2, <1>3 DEF TooLong
  <2>2. failsafeState'.phase \in Waiting
    BY <1>1
  <2>3. failsafeState'.phase # "RX_LOSS_MONITORING"
    BY <1>9 DEF PassKnows
  <2>4. failsafeState'.phase # "IDLE"
    <3>1. ~IdleCalm
      BY <2>1 DEF IdleCalm
    <3>2. ~RecoveredPhase
      BY <1>1, <1>5 DEF RecoveredPhase, Again
    <3>3. ~UNCHANGED <<pass, checked>>
      BY <1>1
    <3>4. ~IdleDisarms /\ ~IdleDetects /\ ~Detected /\ ~Landed
      BY <3>3 DEF IdleDisarms, IdleDetects, Detected, Landed, AfterLoss, Again
    <3>5. CASE Landing \/ GpsRescue
      BY <1>0, <3>3, <3>5 DEF Landing, GpsRescue, In, Again, TypeParts, StateType
    <3>6. CASE Monitoring
      BY <1>0, <3>3, <3>6 DEF Monitoring, In, Again, TypeParts, StateType
    <3> QED
      BY <3>1, <3>2, <3>4, <3>5, <3>6 DEF UpdateState
  <2> QED
    BY <2>2, <2>3, <2>4 DEF Waiting
<1>11. Blocked'
  <2> SUFFICES ASSUME disarmedBy' = "loss"
               PROVE  /\ ~armed' /\ modes'.arm
                      /\ \/ "ARM_SWITCH" \in armingDisabled'
                         \/ modes'.box
                         \/ "FAILSAFE" \in armingDisabled' /\ WaitingForLink'
                         \/ /\ "FAILSAFE" \in armingDisabled'
                            /\ failsafeState'.phase = "IDLE" /\ (pass'.on => ~pass'.armed)
    BY DEF Blocked
  <2>1. CASE Landed /\ disarmedBy # "loss"
    <3>1. modes.arm /\ failsafeState.preset > 0 /\ failsafeState.preset = RECOVERY_PERIOD
      BY <1>0, <2>1, PeriodAssumption DEF Landed, TypeParts, StateType
    <3>2. /\ ~armed' /\ "FAILSAFE" \in armingDisabled'
          /\ failsafeState'.phase = "RX_LOSS_MONITORING"
          /\ failsafeState'.preset = failsafeState.preset
          /\ failsafeState'.deadline = failsafeState.preset
          /\ pass' = pass
      BY <1>0, <2>1, <3>1 DEF Landed, Wait, Again, TypeParts, StateType
    <3>3. ~modes.box => ~failsafeState.linkUp /\ ~pass.receiving
      BY <1>2, <2>1 DEF IInv, PassKnows, Landed, In
    <3>4. modes'.box \/ WaitingForLink'
      BY <1>1, <3>1, <3>2, <3>3, PeriodAssumption DEF WaitingForLink
    <3> QED
      BY <1>1, <3>1, <3>2, <3>4
  <2>2. CASE disarmedBy = "loss"
    <3>1. /\ ~armed /\ modes.arm
          /\ \/ "ARM_SWITCH" \in armingDisabled \/ modes.box
             \/ "FAILSAFE" \in armingDisabled /\ WaitingForLink
             \/ /\ "FAILSAFE" \in armingDisabled
                /\ failsafeState.phase = "IDLE" /\ ~pass.armed
      BY <1>1, <2>2 DEF IInv, Blocked
    <3>2. CASE "ARM_SWITCH" \in armingDisabled \/ modes.box
      BY <1>1, <1>3, <1>4, <3>1, <3>2
    <3>3. CASE "FAILSAFE" \in armingDisabled /\ WaitingForLink
      <4>1. Monitoring
        BY <3>3 DEF UpdateState, WaitingForLink, IdleCalm, IdleDisarms, IdleDetects, Detected,
                    Landing, GpsRescue, Landed, RecoveredPhase, In
      <4>2. failsafeState.deadline \in Int /\ failsafeState.preset \in Int
        BY <1>0, PeriodAssumption DEF TypeParts, StateType
      <4>3. /\ WaitLeft >= 0
            /\ ~pass.receiving => WaitLeft > 0
        BY <3>3, <4>2 DEF WaitLeft, Wait, WaitingForLink
      <4>4. /\ failsafeState' = [failsafeState EXCEPT !.deadline = WaitLeft]
            /\ pass' = NoPass /\ armingDisabled' = armingDisabled
        BY <3>3, <4>1, <4>2 DEF Monitoring, WaitingForLink, Done, Quietly
      <4>5. /\ failsafeState'.phase = "RX_LOSS_MONITORING"
            /\ failsafeState'.preset = failsafeState.preset
            /\ failsafeState'.deadline = WaitLeft
        BY <1>0, <3>3, <4>4 DEF WaitingForLink, TypeParts, StateType
      <4>6. WaitingForLink'
        BY <1>1, <1>5, <3>3, <4>3, <4>4, <4>5 DEF WaitingForLink
      <4> QED
        BY <1>1, <1>3, <3>1, <3>3, <4>4, <4>6
    <3>4. CASE "FAILSAFE" \in armingDisabled /\ failsafeState.phase = "IDLE" /\ ~pass.armed
      <4>1. IdleCalm
        BY <3>4 DEF UpdateState, IdleDisarms, IdleDetects, Detected, Landing, GpsRescue,
                    Landed, Monitoring, RecoveredPhase, In
      <4>2. failsafeState'.phase = "IDLE" /\ pass' = NoPass
            /\ armingDisabled' = armingDisabled
        BY <1>0, <3>4, <4>1 DEF IdleCalm, Tracked, Done, Quietly, TypeParts, StateType
      <4> QED
        BY <1>1, <1>3, <1>5, <3>1, <3>4, <4>2
    <3> QED
      BY <3>1, <3>2, <3>3, <3>4
  <2> QED
    BY <1>1, <2>1, <2>2 DEF RecoveredPhase
<1> QED
  BY <1>9, <1>10, <1>11

-----------------------------------------------------------------------------
(* The theorems *)

LEMMA InitInv == Init => IInv
<1> SUFFICES ASSUME Init PROVE IInv
  OBVIOUS
<1> USE DEF Init, FailsafeInit, InitialState, NoPass
<1>1. TypeOK
  <2>1. InitialState \in StateType
    <3>1. /\ 0 \in 0..(FAILURE_PERIOD + 1) /\ Never \in Never..(RECOVERY_PERIOD + 1)
          /\ -1 \in -1..THROTTLE_LOW_DELAY /\ -1 \in -1..(LANDING_TIME + RECOVERY_PERIOD)
          /\ "IDLE" \in Phases
      BY PeriodAssumption DEF Phases, Never
    <3> QED
      BY <3>1 DEF StateType
  <2>2. NoPass \in [on : BOOLEAN, armed : BOOLEAN, receiving : BOOLEAN]
    OBVIOUS
  <2>3. /\ 0 \in 0..MaxSaves /\ 0 \in 0..POWER_ON_DELAY
        /\ MAX_INVALID_PULSE \in 0..MAX_INVALID_PULSE
        /\ -1 \in -1..(LOSS_TRIGGER + RECHECK)
    BY RxAssumption
  <2>4. TypeParts
    BY <2>1, <2>2, <2>3 DEF TypeParts, Waiting, RawType, AllReasons
  <2> QED
    BY <2>4, TypesInParts
<1>2. PassKnows
  BY DEF PassKnows
<1>3. Blocked /\ LossIsActedOn
  BY DEF Blocked, LossIsActedOn
<1> QED
  BY <1>1, <1>2, <1>3 DEF IInv

LEMMA InvStep == IInv /\ [Next]_vars => IInv'
<1> SUFFICES ASSUME IInv, [Next]_vars PROVE IInv'
  OBVIOUS
<1>1. TypeOK'
  BY TypeStep DEF IInv
<1>2. CASE ReceiveFrame \/ LossTimeout
  BY <1>1, <1>2, CheckInv DEF IInv
<1>3. CASE Modes \/ Update
  BY <1>1, <1>3, SwitchInv DEF IInv
<1>4. CASE FailsafeTask
  BY <1>1, <1>4, StartInv, LoopInv DEF IInv, FailsafeTask
<1>5. CASE SaveConfig
  BY <1>1, <1>5, SaveInv DEF IInv
<1>6. CASE Tick
  BY <1>1, <1>6, TickInv DEF IInv
<1>7. CASE UNCHANGED vars
  BY <1>1, <1>7 DEF IInv, PassKnows, Blocked, WaitingForLink, LossIsActedOn, TooLong,
                    vars, failsafe, arming
<1> QED
  BY <1>2, <1>3, <1>4, <1>5, <1>6, <1>7 DEF Next

THEOREM Invariance == Spec => []IInv
BY InitInv, InvStep, PTL DEF Spec

\* The state of the failsafe and the RX keeps its types, and the loop of
\* failsafeUpdateState (failsafe.c:230-439) ends only in a phase that waits.
THEOREM TypeCorrect == Spec => []TypeOK
<1>1. IInv => TypeOK
  BY DEF IInv
<1> QED
  BY <1>1, Invariance, PTL

\* An armed drone without data for longer than the failure period is landing or on its
\* way home as soon as the scheduler has run the failsafe (failsafe.c:214-223, 264-323).
THEOREM LossActedOn == Spec => []LossIsActedOn
<1>1. IInv => LossIsActedOn
  BY DEF IInv
<1> QED
  BY <1>1, Invariance, PTL

\* A drone that lost its link and was disarmed is not armed again before its arm switch
\* was seen off (failsafe.c:390-425 with updateArmingStatus, core.c:283-490).
THEOREM NoRearmingAfterLoss == Spec => NoSurpriseArmingAfterLoss
<1>1. IInv /\ [Next]_vars => [~armed /\ armed' => disarmedBy # "loss"]_vars
  <2> SUFFICES ASSUME IInv, Next, ~armed, armed' PROVE disarmedBy # "loss"
    OBVIOUS
  <2>1. CASE Modes \/ Update
    BY <2>1, SwitchInv
  <2>2. CASE ReceiveFrame \/ LossTimeout
    BY <2>2, CheckStep DEF CheckState, IInv
  <2>3. CASE FailsafeTask
    <3>1. TypeParts
      BY TypesInParts DEF IInv
    <3>2. CASE StartPass
      BY <3>2 DEF StartPass
    <3>3. CASE UpdateState
      BY <3>1, <3>3, LoopStep DEF Landed, RecoveredPhase, TypeParts
    <3> QED
      BY <2>3, <3>2, <3>3 DEF FailsafeTask
  <2>4. CASE SaveConfig \/ Tick
    BY <2>4 DEF SaveConfig, Tick, arming
  <2> QED
    BY <2>1, <2>2, <2>3, <2>4 DEF Next
<1> QED
  BY <1>1, Invariance, PTL DEF Spec, NoSurpriseArmingAfterLoss

-----------------------------------------------------------------------------
(* The invariant of a steady link *)

\* Nothing but the failure of the link, or the failsafe switch, clears the way for an
\* arming on a link that has not been good for long.
Steady ==
    /\ ~failsafeState.linkUp => "RX_FAILSAFE" \in armingDisabled
    /\ rxState = "MODES" /\ modes.box => "RX_FAILSAFE" \in armingDisabled
    /\ saves = 0 /\ failsafeState.sinceFailed = Never => rxState = "CHECK"
    /\ saves = 0 /\ failsafeState.preset # 0 /\ "RX_FAILSAFE" \notin armingDisabled
          => \/ failsafeState.sinceFailed > RECOVERY_PERIOD \/ failsafeState.sinceFailed = Never
             \/ modes.box /\ rxState # "MODES"

\* What a pass has read agrees with the phase it is in.
PassAgrees ==
    /\ pass.on /\ pass.receiving => failsafeState.linkUp
    /\ failsafeState.phase \notin {"IDLE", "RX_LOSS_DETECTED"} => failsafeState.active
    /\ failsafeState.phase = "RX_LOSS_RECOVERED" => pass.receiving
    /\ failsafeState.phase = "RX_LOSS_DETECTED" => ~pass.receiving /\ pass.armed
    /\ pass.on /\ failsafeState.phase \in {"IDLE", "RX_LOSS_DETECTED"}
          /\ ~pass.receiving /\ pass.armed => armed

\* An armed drone flies on without a link only until the scheduler looks.
Unnoticed == monitoring /\ armed /\ ~failsafeState.active /\ ~failsafeState.linkUp

LossIsNew ==
    Unnoticed => /\ TooLong \/ failsafeState.sinceFailed <= RECOVERY_PERIOD
                 /\ checked /\ ~pass.on => failsafeState.sinceFailed <= 0

LinkInv == Steady /\ PassAgrees /\ LossIsNew

\* With the failsafe switch on every report is of a failure.
LEMMA ReportKind ==
    ASSUME TypeOK, ReceiveFrame \/ LossTimeout
    PROVE  CheckState /\ (ValidDataFailed \/ (ValidDataReceived /\ ~modes.box))
<1>1. CASE ReceiveFrame
  <2>1. PICK good, arm, box, low \in BOOLEAN : Frame(good, [arm |-> arm, box |-> box, low |-> low])
    BY <1>1 DEF ReceiveFrame
  <2> QED
    BY <2>1 DEF Frame, Process, FlightChannelsValid
<1>2. CASE LossTimeout
  BY <1>2 DEF LossTimeout, Process, FlightChannelsValid
<1> QED
  BY <1>1, <1>2

LEMMA FailedTimes ==
    ASSUME failsafeState \in StateType, ValidDataFailed
    PROVE  /\ failsafeState'.sinceFailed = 0 /\ "RX_FAILSAFE" \in armingDisabled'
           /\ failsafeState'.active = failsafeState.active
BY DEF ValidDataFailed, StateType

LEMMA ReceivedTimes ==
    ASSUME failsafeState \in StateType, ValidDataReceived
    PROVE  /\ failsafeState'.sinceFailed \in Nat
           /\ failsafeState'.sinceFailed
                 = IF failsafeState.sinceFailed = Never THEN 0 ELSE failsafeState.sinceFailed
           /\ failsafeState'.active = failsafeState.active
           /\ ~failsafeState'.linkUp =>
                 /\ ~failsafeState.linkUp
                 /\ "RX_FAILSAFE" \in armingDisabled => "RX_FAILSAFE" \in armingDisabled'
                 /\ failsafeState'.sinceFailed <= RECOVERY_PERIOD
           /\ "RX_FAILSAFE" \notin armingDisabled' =>
                 \/ failsafeState.preset = 0 \/ failsafeState'.sinceFailed > RECOVERY_PERIOD
                 \/ "RX_FAILSAFE" \notin armingDisabled /\ failsafeState.sinceFailed # Never
<1> DEFINE since == IF failsafeState.sinceFailed = Never THEN 0 ELSE failsafeState.sinceFailed
           up == Recovered(since)
           blocked == IF failsafeState.sinceFailed = Never
                      THEN armingDisabled \cup {"RX_FAILSAFE"} ELSE armingDisabled
<1>1. /\ failsafeState' = [failsafeState EXCEPT !.sinceReceived = 0, !.sinceFailed = since,
                                                !.linkUp = @ \/ up]
      /\ armingDisabled' = IF up THEN blocked \ {"RX_FAILSAFE"} ELSE blocked
  BY DEF ValidDataReceived
<1>2. since \in Nat /\ failsafeState.preset \in {0, RECOVERY_PERIOD}
  BY PeriodAssumption DEF StateType, Never
<1>3. up <=> failsafeState.preset = 0 \/ since > failsafeState.preset
  BY DEF Recovered
<1>4. /\ ~up => since <= RECOVERY_PERIOD /\ failsafeState.preset # 0
      /\ up => failsafeState.preset = 0 \/ since > RECOVERY_PERIOD
  BY <1>2, <1>3, PeriodAssumption
<1>5. "RX_FAILSAFE" \notin blocked =>
         "RX_FAILSAFE" \notin armingDisabled /\ failsafeState.sinceFailed # Never
  OBVIOUS
<1>6. "RX_FAILSAFE" \in armingDisabled => "RX_FAILSAFE" \in blocked
  OBVIOUS
<1>7. since = IF failsafeState.sinceFailed = Never THEN 0 ELSE failsafeState.sinceFailed
  OBVIOUS
<1> HIDE DEF since, up, blocked
<1>8. /\ failsafeState'.sinceFailed = since /\ failsafeState'.active = failsafeState.active
      /\ failsafeState'.linkUp = (failsafeState.linkUp \/ up)
  BY <1>1 DEF StateType
<1>9. ~failsafeState'.linkUp => ~failsafeState.linkUp /\ ~up
  BY <1>8
<1> QED
  BY <1>1, <1>2, <1>4, <1>5, <1>6, <1>7, <1>8, <1>9

LEMMA CheckLink ==
    ASSUME IInv, LinkInv, ReceiveFrame \/ LossTimeout
    PROVE  LinkInv'
<1>0. TypeParts /\ failsafeState \in StateType
  BY TypesInParts DEF IInv, TypeParts
<1>1. CheckState /\ (ValidDataFailed \/ (ValidDataReceived /\ ~modes.box))
  BY ReportKind DEF IInv
<1>2. /\ failsafeState'.phase = failsafeState.phase /\ failsafeState'.preset = failsafeState.preset
      /\ failsafeState' \in StateType
  BY <1>0, <1>1, ReportStep
<1>3. /\ ~pass.on /\ rxState = "CHECK" /\ rxState' = "MODES" /\ UNCHANGED <<pass, armed, modes, saves>>
      /\ monitoring' \in BOOLEAN /\ (checked' => checked /\ monitoring' = monitoring)
  BY <1>0, <1>1 DEF CheckState, history, TypeParts
<1>4. Steady'
  <2>1. CASE ValidDataFailed
    BY <1>0, <1>3, <2>1, FailedTimes DEF Steady, Never
  <2>2. CASE ValidDataReceived /\ ~modes.box
    BY <1>0, <1>2, <1>3, <2>2, ReceivedTimes DEF LinkInv, Steady, Never
  <2> QED
    BY <1>1, <2>1, <2>2
<1>5. failsafeState'.active = failsafeState.active
  BY <1>0, <1>1, FailedTimes, ReceivedTimes
<1>6. PassAgrees'
  BY <1>2, <1>3, <1>5 DEF LinkInv, PassAgrees
<1>7. LossIsNew'
  <2>1. CASE ValidDataFailed
    BY <1>0, <1>3, <2>1, FailedTimes, PeriodAssumption DEF LossIsNew
  <2>2. CASE ValidDataReceived
    <3> SUFFICES ASSUME Unnoticed'
                 PROVE  /\ failsafeState'.sinceFailed <= RECOVERY_PERIOD
                        /\ checked' => failsafeState'.sinceFailed <= 0
      BY DEF LossIsNew
    <3>1. ~failsafeState.linkUp /\ failsafeState'.sinceFailed <= RECOVERY_PERIOD
      BY <1>0, <2>2, ReceivedTimes DEF Unnoticed
    <3>2. ASSUME checked' PROVE failsafeState'.sinceFailed <= 0
      <4>1. Unnoticed /\ checked /\ ~pass.on
        BY <1>3, <1>5, <3>1, <3>2 DEF Unnoticed
      <4>2. failsafeState.sinceFailed <= 0
        BY <4>1 DEF LinkInv, LossIsNew
      <4> QED
        BY <1>0, <2>2, <4>2, ReceivedTimes
    <3> QED
      BY <3>1, <3>2
  <2> QED
    BY <1>1, <2>1, <2>2
<1> QED
  BY <1>4, <1>6, <1>7 DEF LinkInv

LEMMA SwitchLink ==
    ASSUME IInv, LinkInv, Modes \/ Update
    PROVE  /\ LinkInv'
           /\ ~armed /\ armed' =>
                 \/ failsafeState.sinceFailed > RECOVERY_PERIOD
                 \/ failsafeState.preset = 0 \/ saves > 0
<1>0. TypeParts
  BY TypesInParts DEF IInv
<1>1. /\ armingDisabled \ SwitchReasons \subseteq armingDisabled'
      /\ armed' => armed \/ armingDisabled \subseteq SwitchReasons
  BY <1>0, ModesStep DEF TypeParts
<1>2. UNCHANGED <<failsafeState, pass, checked, monitoring, saves>> /\ ~pass.on
  BY DEF Modes, Update, failsafe, history
<1>3. \/ rxState = "MODES" /\ rxState' = "UPDATE"
      \/ rxState = "UPDATE" /\ rxState' = "CHECK" /\ UNCHANGED <<modes, armed>>
  BY DEF Modes, Update
<1>4. "RX_FAILSAFE" \in armingDisabled => "RX_FAILSAFE" \in armingDisabled'
  BY <1>1 DEF SwitchReasons
<1>5. ~armed /\ armed' => "RX_FAILSAFE" \notin armingDisabled
  BY <1>1 DEF SwitchReasons
<1>6. Steady'
  BY <1>2, <1>3, <1>4 DEF LinkInv, Steady
<1>7. PassAgrees'
  BY <1>2 DEF LinkInv, PassAgrees
<1>8. LossIsNew'
  BY <1>2, <1>5 DEF LinkInv, Steady, LossIsNew, Unnoticed, TooLong
<1>9. ASSUME ~armed, armed'
      PROVE  \/ failsafeState.sinceFailed > RECOVERY_PERIOD
             \/ failsafeState.preset = 0 \/ saves > 0
  <2>1. rxState = "MODES" /\ "RX_FAILSAFE" \notin armingDisabled
    BY <1>3, <1>5, <1>9
  <2>2. saves = 0 \/ saves > 0
    BY <1>0, RxAssumption DEF TypeParts
  <2> QED
    BY <2>1, <2>2 DEF LinkInv, Steady
<1> QED
  BY <1>6, <1>7, <1>8, <1>9 DEF LinkInv

LEMMA StartLink ==
    ASSUME IInv, LinkInv, StartPass, UNCHANGED <<rx, rxState, hadRx, uptime, history>>
    PROVE  LinkInv'
<1>0. TypeParts
  BY TypesInParts DEF IInv
<1> DEFINE up == failsafeState.linkUp /\ ~TooLong
           receiving == up /\ ~(modes.box /\ failsafeConfig.switchMode = "STAGE2")
<1>1. /\ ~pass.on
      /\ failsafeState' = [failsafeState EXCEPT !.linkUp = up]
      /\ armingDisabled' = IF TooLong THEN armingDisabled \cup {"RX_FAILSAFE"}
                           ELSE armingDisabled
      /\ \/ pass' = [on |-> TRUE, armed |-> armed, receiving |-> receiving]
         \/ ~monitoring /\ UNCHANGED pass
      /\ UNCHANGED <<others, armed>> /\ UNCHANGED <<rxState, saves>>
  BY DEF StartPass, history
<1>2. receiving => up
  OBVIOUS
<1>3. up <=> failsafeState.linkUp /\ ~TooLong
  OBVIOUS
<1>4. failsafeState.phase \in Waiting
  BY <1>0, <1>1 DEF TypeParts
<1> HIDE DEF up, receiving
<1>5. /\ failsafeState'.linkUp = up
      /\ failsafeState'.active = failsafeState.active /\ failsafeState'.phase = failsafeState.phase
      /\ failsafeState'.preset = failsafeState.preset
      /\ failsafeState'.sinceFailed = failsafeState.sinceFailed
      /\ failsafeState'.sinceReceived = failsafeState.sinceReceived
  BY <1>0, <1>1 DEF TypeParts, StateType
<1>6. Steady'
  BY <1>1, <1>3, <1>5 DEF LinkInv, Steady, others
<1>7. PassAgrees'
  BY <1>1, <1>2, <1>4, <1>5 DEF LinkInv, PassAgrees, Waiting, others
<1>8. LossIsNew'
  <2> SUFFICES ASSUME Unnoticed'
               PROVE  /\ TooLong' \/ failsafeState'.sinceFailed <= RECOVERY_PERIOD
                      /\ checked' /\ ~pass'.on => failsafeState'.sinceFailed <= 0
    BY DEF LossIsNew
  <2>1. monitoring /\ pass'.on
    BY <1>1 DEF Unnoticed, others
  <2>2. TooLong' <=> TooLong
    BY <1>5 DEF TooLong
  <2>3. TooLong \/ Unnoticed
    BY <1>1, <1>3, <1>5 DEF Unnoticed, others
  <2> QED
    BY <2>1, <2>2, <2>3, <1>5 DEF LinkInv, LossIsNew
<1> QED
  BY <1>6, <1>7, <1>8 DEF LinkInv

LEMMA SaveLink ==
    ASSUME IInv, LinkInv, SaveConfig
    PROVE  LinkInv'
<1>0. TypeParts
  BY TypesInParts DEF IInv
<1>1. failsafeState'.linkUp /\ failsafeState'.phase = "IDLE"
  BY <1>0 DEF SaveConfig, AfterReset, TypeParts, StateType
<1>2. saves' > 0
  BY <1>0 DEF SaveConfig, TypeParts
<1>3. Steady'
  BY <1>1, <1>2 DEF SaveConfig, arming, LinkInv, Steady
<1>4. PassAgrees'
  BY <1>1 DEF SaveConfig, PassAgrees
<1>5. LossIsNew'
  BY <1>1 DEF LossIsNew, Unnoticed
<1> QED
  BY <1>3, <1>4, <1>5 DEF LinkInv

LEMMA TickLink ==
    ASSUME IInv, LinkInv, Tick
    PROVE  LinkInv'
<1>0. TypeParts
  BY TypesInParts DEF IInv
<1>1. /\ failsafeState'.linkUp = failsafeState.linkUp
      /\ failsafeState'.active = failsafeState.active /\ failsafeState'.phase = failsafeState.phase
      /\ failsafeState'.preset = failsafeState.preset
      /\ failsafeState'.sinceFailed = Older(failsafeState.sinceFailed, RECOVERY_PERIOD)
      /\ failsafeState.sinceFailed \in Never..(RECOVERY_PERIOD + 1)
  BY <1>0 DEF Tick, Aged, TypeParts, StateType
<1>2. /\ checked /\ ~pass.on /\ ~checked'
      /\ UNCHANGED <<monitoring, pass, armed, armingDisabled, modes, rxState, saves>>
  BY DEF Tick, arming, history
<1>3. /\ failsafeState.sinceFailed > RECOVERY_PERIOD => failsafeState'.sinceFailed > RECOVERY_PERIOD
      /\ failsafeState.sinceFailed = Never <=> failsafeState'.sinceFailed = Never
      /\ failsafeState.sinceFailed <= 0 => failsafeState'.sinceFailed <= RECOVERY_PERIOD
  BY <1>1, PeriodAssumption DEF Older, Never
<1>4. Steady'
  BY <1>1, <1>2, <1>3 DEF LinkInv, Steady
<1>5. PassAgrees'
  BY <1>1, <1>2 DEF LinkInv, PassAgrees
<1>6. LossIsNew'
  BY <1>1, <1>2, <1>3 DEF LinkInv, LossIsNew, Unnoticed
<1> QED
  BY <1>4, <1>5, <1>6 DEF LinkInv

\* What one phase of the loop does to the memory of the failsafe.
LEMMA LoopMemory ==
    ASSUME TypeParts, UpdateState
    PROVE  /\ failsafeState'.sinceFailed = failsafeState.sinceFailed
           /\ \/ failsafeState'.preset = failsafeState.preset
              \/ IdleDisarms \/ Detected
           /\ \/ failsafeState'.active = failsafeState.active
              \/ failsafeState'.active /\ (IdleDisarms \/ Detected)
              \/ RecoveredPhase
           /\ "RX_FAILSAFE" \in armingDisabled' <=> "RX_FAILSAFE" \in armingDisabled
           /\ armed' => armed
<1> USE DEF TypeParts
<1>0. Tracked = [failsafeState EXCEPT !.boxWasOn = Tracked.boxWasOn, !.throttleLow = Tracked.throttleLow]
  BY DEF Tracked, StateType
<1>1. CASE IdleCalm
  BY <1>0, <1>1 DEF IdleCalm, StateType, Quietly
<1>2. CASE IdleDisarms
  BY <1>0, <1>2 DEF IdleDisarms, StateType, Quietly
<1>3. CASE IdleDetects
  BY <1>0, <1>3 DEF IdleDetects, StateType, Quietly
<1>4. CASE Detected
  BY <1>4 DEF Detected, StateType, Quietly
<1>5. CASE Landing
  BY <1>5 DEF Landing, StateType, Quietly
<1>6. CASE GpsRescue
  BY <1>6 DEF GpsRescue, StateType, Quietly
<1>7. CASE Landed
  BY <1>7 DEF Landed, StateType
<1>8. CASE Monitoring
  BY <1>8 DEF Monitoring, StateType, Quietly
<1>9. CASE RecoveredPhase
  BY <1>9 DEF RecoveredPhase, StateType
<1> QED
  BY <1>1, <1>2, <1>3, <1>4, <1>5, <1>6, <1>7, <1>8, <1>9 DEF UpdateState

\* The phases agree with what the pass has read.
LEMMA LoopAgrees ==
    ASSUME TypeParts, PassKnows, PassAgrees, UpdateState
    PROVE  PassAgrees'
<1>1. /\ pass.on /\ failsafeState'.linkUp = failsafeState.linkUp
      /\ \/ UNCHANGED pass
         \/ pass' = NoPass /\ failsafeState'.phase \in Waiting
  BY LoopStep DEF TypeParts
<1> USE DEF TypeParts
<1>0. Tracked = [failsafeState EXCEPT !.boxWasOn = Tracked.boxWasOn, !.throttleLow = Tracked.throttleLow]
  BY DEF Tracked, StateType
<1>2. CASE IdleCalm
  <2>1. failsafeState'.phase = "IDLE" /\ pass' = NoPass
    BY <1>0, <1>2 DEF IdleCalm, In, StateType, Done
  <2> QED
    BY <2>1 DEF PassAgrees, NoPass
<1>3. CASE IdleDisarms
  <2>1. failsafeState'.phase = "LANDED" /\ failsafeState'.active /\ UNCHANGED pass
    BY <1>0, <1>3 DEF IdleDisarms, StateType, AfterLoss, Again
  <2> QED
    BY <1>1, <2>1 DEF PassAgrees
<1>4. CASE IdleDetects
  <2>1. /\ failsafeState'.phase = "RX_LOSS_DETECTED" /\ failsafeState.phase = "IDLE"
        /\ ~pass.receiving /\ pass.armed /\ UNCHANGED <<pass, armed>>
    BY <1>0, <1>4 DEF IdleDetects, In, StateType, AfterLoss, Again, Quietly
  <2> QED
    BY <1>1, <2>1 DEF PassAgrees
<1>5. CASE Detected
  <2>1. ~pass.receiving
    BY <1>5 DEF Detected, In, PassAgrees
  <2>2. failsafeState'.active /\ failsafeState'.phase \in {"LANDING", "LANDED", "GPS_RESCUE"}
    BY <1>5, <2>1, ConfigAssumption DEF Detected, StateType, Stage2Phase
  <2> QED
    BY <1>1, <1>5, <2>2 DEF PassAgrees, Detected, Again
<1>6. CASE Landing
  <2>1. /\ failsafeState.phase = "LANDING" /\ failsafeState'.active = failsafeState.active
        /\ \/ failsafeState'.phase = "RX_LOSS_RECOVERED" /\ pass.receiving /\ UNCHANGED pass
           \/ failsafeState'.phase \in {"LANDED", "LANDING"}
    BY <1>6 DEF Landing, In, StateType, Again
  <2> QED
    BY <1>1, <2>1 DEF PassAgrees, NoPass
<1>7. CASE GpsRescue
  <2>1. /\ failsafeState.phase = "GPS_RESCUE" /\ failsafeState'.active = failsafeState.active
        /\ \/ failsafeState'.phase = "RX_LOSS_RECOVERED" /\ pass.receiving /\ UNCHANGED pass
           \/ failsafeState'.phase \in {"LANDED", "GPS_RESCUE"}
    BY <1>7 DEF GpsRescue, In, StateType, Again
  <2> QED
    BY <1>1, <2>1 DEF PassAgrees, NoPass
<1>8. CASE Landed
  <2>1. /\ failsafeState.phase = "LANDED" /\ failsafeState'.phase = "RX_LOSS_MONITORING"
        /\ failsafeState'.active = failsafeState.active
    BY <1>8 DEF Landed, In, StateType
  <2> QED
    BY <1>1, <2>1 DEF PassAgrees, NoPass
<1>9. CASE Monitoring
  <2>1. /\ failsafeState.phase = "RX_LOSS_MONITORING" /\ failsafeState'.active = failsafeState.active
        /\ \/ failsafeState'.phase = "RX_LOSS_RECOVERED" /\ pass.receiving /\ UNCHANGED pass
           \/ failsafeState'.phase = "RX_LOSS_MONITORING"
    BY <1>9 DEF Monitoring, In, StateType, Again
  <2> QED
    BY <1>1, <2>1 DEF PassAgrees, NoPass
<1>10. CASE RecoveredPhase
  <2>1. failsafeState.phase = "RX_LOSS_RECOVERED" /\ failsafeState'.phase = "IDLE" /\ UNCHANGED pass
    BY <1>10 DEF RecoveredPhase, In, StateType, Again
  <2> QED
    BY <1>1, <2>1 DEF PassAgrees
<1> QED
  BY <1>2, <1>3, <1>4, <1>5, <1>6, <1>7, <1>8, <1>9, <1>10 DEF UpdateState

\* Only a pass that found no link, or the failsafe switch, starts a failsafe.
LEMMA ActsOnLoss ==
    ASSUME TypeParts, PassKnows, PassAgrees, IdleDisarms \/ Detected
    PROVE  (~failsafeState.linkUp /\ armed) \/ modes.box
<1>1. CASE IdleDisarms
  <2>1. pass.on /\ failsafeState.phase = "IDLE" /\ pass.armed /\ (~pass.receiving \/ modes.box)
    BY <1>1 DEF IdleDisarms, In, Killed, JustDisarm
  <2> QED
    BY <2>1 DEF PassKnows, PassAgrees
<1>2. CASE Detected
  <2>1. pass.on /\ failsafeState.phase = "RX_LOSS_DETECTED"
    BY <1>2 DEF Detected, In
  <2> QED
    BY <2>1 DEF PassKnows, PassAgrees
<1> QED
  BY <1>1, <1>2

LEMMA LoopLink ==
    ASSUME IInv, LinkInv, UpdateState, UNCHANGED <<rx, rxState, hadRx, uptime, history>>
    PROVE  /\ LinkInv'
           /\ ~failsafeState.active /\ failsafeState'.active =>
                 \/ failsafeState.sinceFailed <= RECOVERY_PERIOD
                 \/ failsafeState.sinceReceived > FAILURE_PERIOD
                 \/ modes.box
<1>0. TypeParts /\ PassKnows /\ Steady /\ PassAgrees /\ LossIsNew
  BY TypesInParts DEF IInv, LinkInv
<1>1. /\ pass.on /\ monitoring
      /\ \/ UNCHANGED <<pass, checked>>
         \/ pass' = NoPass /\ checked' = TRUE /\ failsafeState'.phase \in Waiting
      /\ UNCHANGED <<monitoring, modes>>
      /\ failsafeState'.sinceReceived = failsafeState.sinceReceived
      /\ failsafeState'.linkUp = failsafeState.linkUp
  BY <1>0, LoopStep DEF TypeParts, PassKnows, others
<1>2. /\ failsafeState'.sinceFailed = failsafeState.sinceFailed
      /\ \/ failsafeState'.preset = failsafeState.preset
         \/ IdleDisarms \/ Detected
      /\ \/ failsafeState'.active = failsafeState.active
         \/ failsafeState'.active /\ (IdleDisarms \/ Detected)
         \/ RecoveredPhase
      /\ "RX_FAILSAFE" \in armingDisabled' <=> "RX_FAILSAFE" \in armingDisabled
      /\ armed' => armed
  BY <1>0, LoopMemory
<1>3. UNCHANGED <<rxState, saves>>
  BY DEF history
<1>4. Steady'
  <2>1. ASSUME IdleDisarms \/ Detected
        PROVE  "RX_FAILSAFE" \in armingDisabled \/ (modes.box /\ rxState # "MODES")
    <3>1. (~failsafeState.linkUp /\ armed) \/ modes.box
      BY <1>0, <2>1, ActsOnLoss
    <3> QED
      BY <1>0, <3>1 DEF Steady
  <2> QED
    BY <1>0, <1>1, <1>2, <1>3, <2>1 DEF Steady
<1>5. PassAgrees'
  BY <1>0, LoopAgrees
<1>6. RecoveredPhase => failsafeState.linkUp
  BY <1>0, <1>1 DEF RecoveredPhase, In, PassAgrees
<1>7. TooLong' <=> TooLong
  BY <1>1 DEF TooLong
<1>8. LossIsNew'
  <2> SUFFICES ASSUME Unnoticed'
               PROVE  /\ TooLong' \/ failsafeState'.sinceFailed <= RECOVERY_PERIOD
                      /\ checked' /\ ~pass'.on => failsafeState'.sinceFailed <= 0
    BY DEF LossIsNew
  <2>1. Unnoticed
    BY <1>1, <1>2, <1>6 DEF Unnoticed
  <2>2. pass'.on
    <3>1. CASE IdleCalm
      BY <1>0, <1>1, <2>1, <3>1 DEF IdleCalm, PassKnows, PassAgrees, Unnoticed
    <3>2. CASE ~IdleCalm
      <4>1. failsafeState.phase \in {"LANDED", "RX_LOSS_MONITORING", "RX_LOSS_RECOVERED",
                                     "LANDING", "GPS_RESCUE"} => failsafeState.active
        BY <1>0 DEF PassAgrees
      <4>2. IdleDisarms \/ IdleDetects \/ Detected
        BY <2>1, <3>2, <4>1 DEF Unnoticed, UpdateState, Landing, GpsRescue, Landed,
                                Monitoring, RecoveredPhase, In
      <4> QED
        BY <1>1, <4>2 DEF IdleDisarms, IdleDetects, Detected, AfterLoss, Again
    <3> QED
      BY <3>1, <3>2
  <2> QED
    BY <1>0, <1>2, <1>7, <2>1, <2>2 DEF LossIsNew
<1>9. ASSUME ~failsafeState.active, failsafeState'.active
      PROVE  \/ failsafeState.sinceFailed <= RECOVERY_PERIOD
             \/ failsafeState.sinceReceived > FAILURE_PERIOD
             \/ modes.box
  <2>1. CASE RecoveredPhase
    BY <1>0, <1>9, <2>1 DEF RecoveredPhase, TypeParts, StateType
  <2>2. CASE IdleDisarms \/ Detected
    BY <1>0, <1>1, <1>9, <2>2, ActsOnLoss DEF LossIsNew, Unnoticed, TooLong
  <2> QED
    BY <1>2, <1>9, <2>1, <2>2
<1> QED
  BY <1>4, <1>5, <1>8, <1>9 DEF LinkInv

LEMMA LinkInit == Init => LinkInv
<1> SUFFICES ASSUME Init PROVE LinkInv
  OBVIOUS
<1> USE DEF Init, FailsafeInit, InitialState, NoPass
<1>1. Steady
  BY DEF Steady
<1>2. PassAgrees /\ LossIsNew
  BY DEF PassAgrees, LossIsNew, Unnoticed
<1> QED
  BY <1>1, <1>2 DEF LinkInv

LEMMA LinkStep == IInv /\ LinkInv /\ [Next]_vars => LinkInv'
<1> SUFFICES ASSUME IInv, LinkInv, [Next]_vars PROVE LinkInv'
  OBVIOUS
<1>1. CASE FailsafeTask
  BY <1>1, StartLink, LoopLink DEF FailsafeTask
<1>2. CASE UNCHANGED vars
  BY <1>2 DEF LinkInv, Steady, PassAgrees, LossIsNew, Unnoticed, TooLong, vars, failsafe,
              arming, history
<1> QED
  BY <1>1, <1>2, CheckLink, SwitchLink, SaveLink, TickLink DEF Next

LEMMA LinkAlways == Spec => []LinkInv
BY LinkInit, LinkStep, Invariance, PTL DEF Spec

\* A drone is only armed on a link that has been good for the recovery period, after any
\* history but that of a switch-induced failsafe or of saved settings
\* (failsafe.c:170-202 with core.c:283-490).
THEOREM ArmingWantsALink == Spec => ArmsOnSteadyLink
<1>1. IInv /\ LinkInv /\ [Next]_vars =>
         [~armed /\ armed' => \/ failsafeState.sinceFailed > RECOVERY_PERIOD
                              \/ failsafeState.preset = 0 \/ saves > 0]_vars
  <2> SUFFICES ASSUME IInv, LinkInv, Next, ~armed, armed'
               PROVE  \/ failsafeState.sinceFailed > RECOVERY_PERIOD
                      \/ failsafeState.preset = 0 \/ saves > 0
    OBVIOUS
  <2>1. CASE Modes \/ Update
    BY <2>1, SwitchLink
  <2>2. CASE ReceiveFrame \/ LossTimeout
    BY <2>2, ReportKind DEF CheckState, IInv
  <2>3. CASE FailsafeTask
    <3>1. CASE StartPass
      BY <3>1 DEF StartPass
    <3>2. CASE UpdateState
      BY <3>2, TypesInParts, LoopMemory DEF IInv
    <3> QED
      BY <2>3, <3>1, <3>2 DEF FailsafeTask
  <2>4. CASE SaveConfig \/ Tick
    BY <2>4 DEF SaveConfig, Tick, arming
  <2> QED
    BY <2>1, <2>2, <2>3, <2>4 DEF Next
<1> QED
  BY <1>1, Invariance, LinkAlways, PTL DEF Spec, ArmsOnSteadyLink

\* A link that has been good for the recovery period puts no drone into failsafe, however
\* frames and the failsafe's passes interleave (failsafe.c:204-323).
THEOREM GoodLinkIsLeftAlone == Spec => NoFalseFailsafe
<1>1. IInv /\ LinkInv /\ [Next]_vars =>
         [~failsafeState.active /\ failsafeState'.active =>
             \/ failsafeState.sinceFailed <= RECOVERY_PERIOD
             \/ failsafeState.sinceReceived > FAILURE_PERIOD
             \/ modes.box]_vars
  <2> SUFFICES ASSUME IInv, LinkInv, Next, ~failsafeState.active, failsafeState'.active
               PROVE  \/ failsafeState.sinceFailed <= RECOVERY_PERIOD
                      \/ failsafeState.sinceReceived > FAILURE_PERIOD
                      \/ modes.box
    OBVIOUS
  <2>0. failsafeState \in StateType
    BY TypesInParts DEF IInv, TypeParts
  <2>1. CASE ReceiveFrame \/ LossTimeout
    BY <2>0, <2>1, ReportKind, FailedTimes, ReceivedTimes DEF IInv
  <2>2. CASE Modes \/ Update
    BY <2>2 DEF Modes, Update, failsafe
  <2>3. CASE FailsafeTask
    <3>1. CASE StartPass
      BY <2>0, <3>1 DEF StartPass, StateType
    <3> QED
      BY <2>3, <3>1, LoopLink DEF FailsafeTask
  <2>4. CASE SaveConfig
    BY <2>0, <2>4 DEF SaveConfig, AfterReset, StateType
  <2>5. CASE Tick
    BY <2>0, <2>5 DEF Tick, Aged, StateType
  <2> QED
    BY <2>1, <2>2, <2>3, <2>4, <2>5 DEF Next
<1> QED
  BY <1>1, Invariance, LinkAlways, PTL DEF Spec, NoFalseFailsafe
=============================================================================
