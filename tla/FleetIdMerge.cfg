SPECIFICATION FairSpec
CONSTANTS
    Drone = {1, 2}
    Uid <- Uid2
    FLEET_ID_MAX = 3
    PROBE_INTERVAL = 1
    PROBE_COUNT = 3
    ANNOUNCE_INTERVAL = 2
    MEMBER_TIMEOUT = 3
    Echoing = {1}
    RadioAtStart <- Lossy
    BootDelay <- BootDelay1
    MaxCrashes = 0
PROPERTIES LowestUidKeepsId FleetSettles
