\* The guard that is bound loses its connection and comes back.
SPECIFICATION PSpec
CONSTANTS
    Parts = {"binding"}
    HEARTBEAT_TIMEOUT = 3
    WRITE_WINDOW = 2
    SETTLE_TIMEOUT = 3
    FAILSAFE_DURATION_RANGE <- MCDurations
    FailsafeDuration = 4
    NotFinite = NotFinite
    SetpointPayloads <- MCSetpoints
    DurationWrites = {3, 5}
    MaxLag = 1
    MaxTime = 10
    MaxReleases = 0
    MaxLosses = 1
INVARIANTS
    BoundGuardIsFollowed
CHECK_DEADLOCK FALSE
