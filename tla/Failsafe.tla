------------------------------ MODULE Failsafe ------------------------------
(***************************************************************************)
(* The failsafe of src/main/flight/failsafe.c: what it is told by the RX   *)
(* code (data valid or not), what the scheduler has it do every 10 ms, and *)
(* its do-while loop over the phases, one action per phase.                *)
(*                                                                         *)
(* Times are kept as ages, which stop where the code no longer tells them  *)
(* apart, and as countdowns to a deadline, -1 once it has passed.  Flight  *)
(* modes, beeper and statistics are left out.                              *)
(***************************************************************************)
EXTENDS Integers

CONSTANTS
    FAILURE_PERIOD,        \* rxDataFailurePeriod, in clock units like the next three
    RECOVERY_PERIOD,       \* rxDataRecoveryPeriod
    THROTTLE_LOW_DELAY,    \* failsafe_throttle_low_delay
    LANDING_TIME,          \* failsafe_landing_time
    Configs                \* the settings of procedure and switchMode to look at

ASSUME PeriodAssumption ==
    /\ FAILURE_PERIOD \in Nat \ {0} /\ RECOVERY_PERIOD \in Nat \ {0}
    /\ THROTTLE_LOW_DELAY \in Nat /\ LANDING_TIME \in Nat
ASSUME ConfigAssumption ==
    Configs \subseteq [procedure : {"AUTO_LANDING", "DROP_IT", "GPS_RESCUE"},
                       switchMode : {"STAGE1", "KILL", "STAGE2"}]

VARIABLES
    failsafeConfig,
    failsafeState,         \* the struct of that name, without
    monitoring,            \* failsafeState.monitoring
    pass,                  \* locals of failsafeUpdateState while it runs
    checked,               \* the scheduler has run it in this unit of time, with monitoring
                           \* as it is now
    armed, armingDisabled, \* ARMING_FLAG(ARMED), the reasons not to arm that are stored
    modes,                 \* IS_RC_MODE_ACTIVE for BOXARM and BOXFAILSAFE
    rcData,                \* the switches and the throttle (low or not) as accepted
    disarmedBy             \* history: what made the failsafe disarm the drone, if its arm
                           \* switch was on and has not been off since

Never == -1

NoPass == [on |-> FALSE, armed |-> FALSE, receiving |-> FALSE]

\* failsafeReset, then failsafeOnRxResume: link up, as if data had just been received.
AfterReset(state) ==
    [state EXCEPT !.sinceReceived = 0, !.sinceFailed = Never, !.throttleLow = -1,
                  !.deadline = -1, !.preset = RECOVERY_PERIOD, !.phase = "IDLE",
                  !.linkUp = TRUE, !.boxWasOn = FALSE]

InitialState ==
    [active |-> FALSE, phase |-> "IDLE", linkUp |-> TRUE, boxWasOn |-> FALSE,
     preset |-> RECOVERY_PERIOD, sinceReceived |-> 0, sinceFailed |-> Never,
     throttleLow |-> -1, deadline |-> -1]

FailsafeInit ==
    /\ failsafeConfig \in Configs
    /\ failsafeState = InitialState /\ monitoring = FALSE
    /\ pass = NoPass /\ checked = FALSE

-----------------------------------------------------------------------------
(* What the RX code reports *)

\* Mutant: the link is up with the first valid frame.
Recovered_AtOnce(since) == TRUE

\* The switch-induced failsafe sets the period to 0: any later millisecond will do.
Recovered(since) == failsafeState.preset = 0 \/ since > failsafeState.preset

ValidDataReceived ==
    LET since == IF failsafeState.sinceFailed = Never THEN 0 ELSE failsafeState.sinceFailed
        up == Recovered(since)
        blocked == IF failsafeState.sinceFailed = Never
                   THEN armingDisabled \cup {"RX_FAILSAFE"} ELSE armingDisabled
    IN  /\ failsafeState' = [failsafeState EXCEPT !.sinceReceived = 0, !.sinceFailed = since,
                                                  !.linkUp = @ \/ up]
        /\ armingDisabled' = IF up THEN blocked \ {"RX_FAILSAFE"} ELSE blocked

\* Mutant: the failure period is never over.
TooLong_Never == failsafeState.sinceReceived > FAILURE_PERIOD + 1

TooLong == failsafeState.sinceReceived > FAILURE_PERIOD

ValidDataFailed ==
    /\ failsafeState' = [failsafeState EXCEPT !.sinceFailed = 0, !.linkUp = @ /\ ~TooLong]
    /\ armingDisabled' = armingDisabled \cup {"RX_FAILSAFE"}

-----------------------------------------------------------------------------
(* failsafeCheckDataFailurePeriod and failsafeUpdateState, from the scheduler *)

others == <<failsafeConfig, monitoring, modes, rcData>>

StartPass ==
    LET up == failsafeState.linkUp /\ ~TooLong
        forced == modes.box /\ failsafeConfig.switchMode = "STAGE2"
    IN  /\ ~pass.on
        /\ failsafeState' = [failsafeState EXCEPT !.linkUp = up]
        /\ armingDisabled' = IF TooLong THEN armingDisabled \cup {"RX_FAILSAFE"}
                             ELSE armingDisabled
        /\ IF monitoring
           THEN /\ pass' = [on |-> TRUE, armed |-> armed, receiving |-> up /\ ~forced]
                /\ UNCHANGED checked
           ELSE checked' = TRUE /\ UNCHANGED pass
        /\ UNCHANGED <<others, armed, disarmedBy>>

In(phase) == pass.on /\ failsafeState.phase = phase

\* reprocessState = true, or the end of the loop.
Again == UNCHANGED <<pass, checked>>
Done == pass' = NoPass /\ checked' = TRUE

Quietly == UNCHANGED <<others, armed, armingDisabled, disarmedBy>>

\* A switch-induced failsafe may be left at once.
Wait(preset) == IF preset = 0 THEN -1 ELSE preset

\* failsafeState as the phase IDLE leaves it before it looks for a reason to act.
Tracked ==
    [failsafeState EXCEPT
        !.boxWasOn = modes.box,
        !.throttleLow = IF ~pass.armed THEN -1
                        ELSE IF ~rcData.low THEN THROTTLE_LOW_DELAY ELSE @]

Killed == modes.box /\ failsafeConfig.switchMode = "KILL"

\* Mutant: low throttle for long enough disarms, link or no link.
JustDisarm_LowThrottle == Tracked.throttleLow < 0 /\ failsafeConfig.procedure # "GPS_RESCUE"

JustDisarm ==
    ~pass.receiving /\ Tracked.throttleLow < 0 /\ failsafeConfig.procedure # "GPS_RESCUE"

IdleCalm ==
    /\ In("IDLE") /\ (pass.armed => ~Killed /\ pass.receiving)
    /\ failsafeState' = Tracked
    /\ Done /\ Quietly

\* Mutant: the loop ends here, and is entered again only in the next pass.
AfterLoss_Done == Done

AfterLoss == Again

IdleDisarms ==
    /\ In("IDLE") /\ pass.armed /\ (Killed \/ JustDisarm)
    /\ failsafeState' = [Tracked EXCEPT !.active = TRUE, !.phase = "LANDED",
                                        !.preset = RECOVERY_PERIOD]
    /\ AfterLoss /\ Quietly

IdleDetects ==
    /\ In("IDLE") /\ pass.armed /\ ~Killed /\ ~pass.receiving /\ ~JustDisarm
    /\ failsafeState' = [Tracked EXCEPT !.phase = "RX_LOSS_DETECTED"]
    /\ AfterLoss /\ Quietly

Stage2Phase ==
    CASE failsafeConfig.procedure = "AUTO_LANDING" -> "LANDING"
      [] failsafeConfig.procedure = "DROP_IT" -> "LANDED"
      [] failsafeConfig.procedure = "GPS_RESCUE" -> "GPS_RESCUE"

\* As receiving is read once per pass, the first branch is never taken.
Detected ==
    /\ In("RX_LOSS_DETECTED")
    /\ failsafeState' =
          IF pass.receiving THEN [failsafeState EXCEPT !.phase = "RX_LOSS_RECOVERED"]
          ELSE [failsafeState EXCEPT
                   !.active = TRUE, !.phase = Stage2Phase,
                   !.deadline = IF Stage2Phase = "LANDING" THEN LANDING_TIME ELSE @,
                   !.preset = IF failsafeState.boxWasOn THEN 0 ELSE RECOVERY_PERIOD]
    /\ Again /\ Quietly

\* Mutant: the landing time is not looked at.
LandingIsOver_Never == ~pass.armed

LandingIsOver == failsafeState.deadline < 0 \/ ~pass.armed

\* crash stands for crashRecoveryModeActive().
Landing ==
    /\ In("LANDING")
    /\ \E crash \in BOOLEAN :
          IF pass.receiving \/ LandingIsOver \/ crash
          THEN /\ failsafeState' = [failsafeState EXCEPT
                      !.phase = IF pass.receiving THEN "RX_LOSS_RECOVERED" ELSE "LANDED"]
               /\ Again
          ELSE UNCHANGED failsafeState /\ Done
    /\ Quietly

\* sticks stands for areSticksActive().
GpsRescue ==
    /\ In("GPS_RESCUE")
    /\ \E sticks \in BOOLEAN :
          LET out == IF pass.receiving THEN sticks \/ failsafeState.boxWasOn ELSE ~pass.armed
          IN  IF out
              THEN /\ failsafeState' = [failsafeState EXCEPT
                          !.phase = IF pass.receiving THEN "RX_LOSS_RECOVERED" ELSE "LANDED"]
                   /\ Again
              ELSE UNCHANGED failsafeState /\ Done
    /\ Quietly

Landed ==
    /\ In("LANDED")
    /\ armed' = FALSE /\ armingDisabled' = armingDisabled \cup {"FAILSAFE"}
    /\ disarmedBy' = IF ~modes.arm THEN disarmedBy
                     ELSE IF failsafeState.preset = 0 THEN "switch" ELSE "loss"
    /\ failsafeState' = [failsafeState EXCEPT !.deadline = Wait(failsafeState.preset),
                                              !.phase = "RX_LOSS_MONITORING"]
    /\ Again /\ UNCHANGED others

\* Mutant: the wait for a good link starts again in every pass.
WaitLeft_Restarted == Wait(failsafeState.preset)

WaitLeft == IF pass.receiving THEN failsafeState.deadline ELSE Wait(failsafeState.preset)

Monitoring ==
    /\ In("RX_LOSS_MONITORING")
    /\ IF pass.receiving /\ failsafeState.deadline < 0
       THEN /\ failsafeState' = [failsafeState EXCEPT !.phase = "RX_LOSS_RECOVERED"]
            /\ Again
       ELSE failsafeState' = [failsafeState EXCEPT !.deadline = WaitLeft] /\ Done
    /\ Quietly

RecoveredPhase ==
    /\ In("RX_LOSS_RECOVERED")
    /\ failsafeState' = [failsafeState EXCEPT !.throttleLow = THROTTLE_LOW_DELAY,
                                              !.phase = "IDLE", !.active = FALSE]
    /\ armingDisabled' = armingDisabled \ {"FAILSAFE"}
    /\ Again /\ UNCHANGED <<others, armed, disarmedBy>>

UpdateState ==
    \/ IdleCalm \/ IdleDisarms \/ IdleDetects \/ Detected \/ Landing \/ GpsRescue
    \/ Landed \/ Monitoring \/ RecoveredPhase

-----------------------------------------------------------------------------
(* Time *)

Older(age, limit) == IF age = Never \/ age > limit THEN age ELSE age + 1
Nearer(countdown) == IF countdown < 0 THEN countdown ELSE countdown - 1

Aged(state) ==
    [state EXCEPT !.sinceReceived = Older(@, FAILURE_PERIOD),
                  !.sinceFailed = Older(@, RECOVERY_PERIOD),
                  !.throttleLow = Nearer(@), !.deadline = Nearer(@)]

\* The phases at which the loop goes on are never seen outside it.
FailsafeType ==
    /\ ~pass.on => failsafeState.phase \in {"IDLE", "LANDING", "GPS_RESCUE", "RX_LOSS_MONITORING"}
    /\ failsafeConfig \in Configs
    /\ failsafeState \in
          [active : BOOLEAN, linkUp : BOOLEAN, boxWasOn : BOOLEAN,
           phase : {"IDLE", "RX_LOSS_DETECTED", "LANDING", "GPS_RESCUE", "LANDED",
                    "RX_LOSS_MONITORING", "RX_LOSS_RECOVERED"},
           preset : {0, RECOVERY_PERIOD}, sinceReceived : 0..(FAILURE_PERIOD + 1),
           sinceFailed : Never..(RECOVERY_PERIOD + 1),
           throttleLow : -1..THROTTLE_LOW_DELAY,
           deadline : -1..(LANDING_TIME + RECOVERY_PERIOD)]
    /\ monitoring \in BOOLEAN
    /\ pass \in [on : BOOLEAN, armed : BOOLEAN, receiving : BOOLEAN] /\ checked \in BOOLEAN
    /\ armed \in BOOLEAN /\ armingDisabled \subseteq {"RX_FAILSAFE", "FAILSAFE",
                                                      "NOT_DISARMED", "ARM_SWITCH"}
    /\ modes \in [arm : BOOLEAN, box : BOOLEAN]
    /\ rcData \in [arm : BOOLEAN, box : BOOLEAN, low : BOOLEAN]
    /\ disarmedBy \in {"none", "switch", "loss"}
=============================================================================
