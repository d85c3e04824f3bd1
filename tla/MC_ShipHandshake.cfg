\* Undecided users on a connection that may go silent, and negotiation, PINs,
\* key material, data and close between trusting nodes.
SPECIFICATION FairSpec
CONSTANTS
    Configs <- AllConfigs
    CmiTimeout = 3
    WaitTimer = 3
    CloseMaxTime = 2
    StateResponseTimeout = 3
    PinPenaltyShort = 2
    PinPenaltyLong = 3
    ProlongThrInc = 6
    ProlongWaitingGap = 3
    ProlongMin = 1
    Decisions <- HelloDecisions
    PinEntries = {"right", "wrong"}
    MaxPinAttempts = 7
    DataSenders = {"Client"}
    CanLose = TRUE
INVARIANTS
    TypeOK
    TrustIsMutual
    OneSlowUserIsWaitedFor
    NegotiationAgrees
    MessagesAreExpected
    RequiredPinIsProved
PROPERTIES
    SilenceIsNoticed
    ApprovalOpens
CHECK_DEADLOCK FALSE
