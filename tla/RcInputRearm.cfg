SPECIFICATION Spec
CONSTANTS
    FAILURE_PERIOD = 4
    RECOVERY_PERIOD = 2
    THROTTLE_LOW_DELAY = 2
    LANDING_TIME = 2
    Configs <- LandOnSwitch
    LOSS_TRIGGER = 1
    RECHECK = 1
    MAX_INVALID_PULSE = 2
    POWER_ON_DELAY = 1
    MaxSaves = 0
PROPERTIES
    NoSurpriseArming
