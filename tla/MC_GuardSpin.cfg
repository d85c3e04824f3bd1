\* A refused write that nothing requires any more.
SPECIFICATION Spec
CONSTANTS
    p1 = p1
    Peers = {p1}
    Limits <- GridLimits
    Notices <- PeerReports
    HeartbeatPeriod = 3
    HeartbeatFreshness = 2
    SubscriptionGrace = 1
    MinWriteInterval = 3
    RetryBackoffStep = 1
    MaxRequires = 1
    MaxTrouble = 1
PROPERTY
    EveryDeadlineAdvances
