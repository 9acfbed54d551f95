SPECIFICATION Spec
CONSTANTS
    SafetyDistance = 1
    Horizon = 3
    BROADCAST_INTERVAL = 1
    ENTRY_TIMEOUT = 2
    RadioAtStart = {"timely"}
    MaxDelay = 0
    MaxAir = 1
    Length = 4
    Width = 1
    Place <- Strip
    Velocity <- Courses
    MaxSpeed = 1
    Separate = TRUE
    MaxDen = 4
INVARIANT WarningIsReal
