\* A write meets a silence the car has not noticed, and the guard is heard again.
SPECIFICATION PSpec
CONSTANTS
    Parts = {"ev"}
    HEARTBEAT_TIMEOUT = 3
    WRITE_WINDOW = 2
    SETTLE_TIMEOUT = 3
    FAILSAFE_DURATION_RANGE <- MCDurations
    FailsafeDuration = 4
    NotFinite = NotFinite
    SetpointPayloads <- MCSetpoints
    DurationWrites = {3, 5}
    MaxLag = 1
    MaxTime = 10
    MaxReleases = 0
    MaxLosses = 0
INVARIANTS
    InForceIsPublished
CHECK_DEADLOCK FALSE
