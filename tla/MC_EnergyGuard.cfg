\* One Controllable System, through refusals, silences and reconnections.
SPECIFICATION FairSpec
CONSTANTS
    p1 = p1
    Peers = {p1}
    Limits <- GridLimits
    Notices <- PeerReports
    HeartbeatPeriod = 3
    HeartbeatFreshness = 2
    SubscriptionGrace = 1
    MinWriteInterval = 3
    RetryBackoffStep = 1
    MaxRequires = 2
    MaxTrouble = 2
INVARIANTS
    TypeOK
PROPERTIES
    LimitIsHeard
    DeadlinesAdvance
    OpeningWriteIsSent
    RequirementReaches
CHECK_DEADLOCK TRUE
