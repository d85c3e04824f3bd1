\* One part per behaviour.
SPECIFICATION PSpec
CONSTANTS
    Parts = {"battery", "trust", "ev", "compressor", "times", "binding",
             "actor", "function", "device", "hvac", "meter", "scenarios",
             "session", "words", "requester"}
    HEARTBEAT_TIMEOUT = 3
    WRITE_WINDOW = 2
    SETTLE_TIMEOUT = 3
    FAILSAFE_DURATION_RANGE <- MCDurations
    FailsafeDuration = 4
    NotFinite = NotFinite
    SetpointPayloads <- MCSetpoints
    DurationWrites = {3, 5}
    MaxLag = 1
    MaxTime = 10
    MaxReleases = 2
    MaxLosses = 1
INVARIANTS
    OneCommissioningTool
    RenewalIsFollowed
    BatteryIsTimed
    ChargingIsAgreed
    AppliancesSee
    TimesAreRight
    PeersAreFound
    ObeyedIsServed
    CopyIsTrue
    TreeIsMirrored
PROPERTIES
    WorkingUnitIsKept
    CommandsAreCarriedOut
CHECK_DEADLOCK FALSE
