\* One node's connections in eight surroundings.
SPECIFICATION FairSpec
CONSTANTS
    Self = "self"
    Peers = {"p", "q"}
    Watched = {"p"}
    Own = "own"
    Devices = {"d"}
    Ports = {"1", "2", "3", "4"}
    MAX_CONNECTIONS_PER_PEER = 2
    MAX_PENDING_TRUST = 1
    MAX_SIGHTINGS = 1
    ARBITRATION_DELAY = 1
    PONG_TIMEOUT = 1
    MAX_DELAY = 2
    MaxAttempts = 1
    Worlds <- MCWorlds
INVARIANTS
    SlotsAreKept
    DoublesAreWatched
PROPERTIES
    DoublesEnd
    RememberedAreDialed
CHECK_DEADLOCK FALSE
