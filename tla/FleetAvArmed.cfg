SPECIFICATION FairSpec
CONSTANTS
    TRAMP_MAX_RETRIES = 3
    MIN_REQUEST_PERIOD = 1
    STATUS_REQUEST_PERIOD = 3
    PitSwitchUsed = FALSE
    ControlSwitchUsed = FALSE
    MaxChanges = 3
    MaxLost = 0
PROPERTY StepDownSilences
