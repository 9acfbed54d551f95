SPECIFICATION Spec
CONSTANTS
    d1 = d1  d2 = d2  d3 = d3
    Drone = {d1, d2, d3}
    Self = d1
    FLEET_ID_MAX = 3
    SLOTS = 2
    BROADCAST_INTERVAL = 1
    ENTRY_TIMEOUT = 2
    MaxDelay = 1
    RadioAtStart <- AnyRadio
    MaxAir = 2
    MaxChanges = 1
SYMMETRY Peers
INVARIANTS TypeOK OneSlotPerNode  AlarmEnds
