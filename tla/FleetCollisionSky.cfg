SPECIFICATION Spec
CONSTANTS
    SafetyDistance = 2
    Horizon = 4
    BROADCAST_INTERVAL = 2
    ENTRY_TIMEOUT = 3
    RadioAtStart = {"timely", "lossy"}
    MaxDelay = 0
    MaxAir = 1
    Length = 5
    Width = 1
    Place <- Strip
    Velocity <- Courses
    MaxSpeed = 1
    Separate = FALSE
    MaxDen = 4
INVARIANTS WarningIsReal NoApproachMissed FastApproachIsSeen
