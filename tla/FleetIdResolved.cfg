SPECIFICATION Spec
CONSTANTS
    Drone = {1, 2, 3}
    Uid <- Uid3
    FLEET_ID_MAX = 3
    PROBE_INTERVAL = 2
    PROBE_COUNT = 3
    ANNOUNCE_INTERVAL = 3
    MEMBER_TIMEOUT = 5
    Echoing = {}
    RadioAtStart <- Timely
    BootDelay <- BootDelay1
    MaxCrashes = 1
INVARIANTS
    ResolvedMeansHoldsId
