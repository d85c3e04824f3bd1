SPECIFICATION Spec
CONSTANTS
    HEARTBEAT_TIMEOUT = 3
    WRITE_WINDOW = 2
    SETTLE_TIMEOUT = 3
    FAILSAFE_DURATION_RANGE <- MCRange
    FailsafeDurationMax = 5
    FailsafeWatts = 1
    FailsafeDuration = 4
    OnCem = FALSE
    Writes <- MCWrites
    NotFinite = NotFinite
    FailsafeWrites <- MCFailsafeWrites
    DurationWrites <- MCDurationWrites
    MaxLag = 1
    MaxTime = 11
INVARIANTS
    TypeOK
    PollTimeoutExact
    SilenceReleases
PROPERTIES
    EvaluatedOnlyWhileHeard
    ActiveLimitHolds
