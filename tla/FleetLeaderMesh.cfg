SPECIFICATION FairSpec
CONSTANTS
    d1 = d1
    d2 = d2
    Drone <- Drones2
    FLEET_ID_MAX = 3
    HEARTBEAT_INTERVAL = 1
    LEADER_TIMEOUT = 2
    RadioAtStart <- AnyRadio
    NoWinner = NoWinner
    MaxTerm = 2
    MaxIdLosses = 1
INVARIANTS
    TypeOK
    OneLeaderPerTerm
    SameTermSameLeader
PROPERTIES
    NoFalseLeaderLoss
    NewestLeaderPrevails
    LeaderLossIsNoticed
