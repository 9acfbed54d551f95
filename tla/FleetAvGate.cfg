SPECIFICATION FairSpec
CONSTANTS
    TRAMP_MAX_RETRIES = 3
    MIN_REQUEST_PERIOD = 1
    STATUS_REQUEST_PERIOD = 3
    PitSwitchUsed = TRUE
    ControlSwitchUsed = TRUE
    MaxChanges = 5
    MaxLost = 3
INVARIANT TypeOK
PROPERTIES SilentUntilLeader GateReachesDevice
