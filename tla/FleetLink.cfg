SPECIFICATION LinkFairSpec
CONSTANTS
    Byte <- Bytes
    SYNC = 3
    MAX_PAYLOAD = 2
    Update <- SumCrc
    Payloads <- Sent
    MaxNoise = 2
    AVOID_COMMAND = 1
    AVOID_SIZE = 2
    AVOID_TIMEOUT = 1
INVARIANTS
    TypeOK
    CleanFrameArrives
    CorruptionIsCaught
PROPERTIES
    Recovers
    CommandTakesEffect
    LeanEnds
    ForwardsUnderOwnId
