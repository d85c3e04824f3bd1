\* Two devices that compete for one record and one write slot.
SPECIFICATION FairSpec
CONSTANTS
    Devices <- MCDevices
    Clients <- MCClients
    Servers <- MCServers
    Group <- MCServers
    Bound <- MCServers
    Approved <- MCApproved
    RETRY_SCHEDULE <- MCSchedule
    MAX_PENDING_REQUESTS = 2
    MAX_PEERS = 1
    MAX_DEFERRED_WRITES = 1
    MAX_RELATIONS_PER_PEER = 2
    WINDOW = 2
    RESTART_THRESHOLD = 3
    ResponseDelay = 1
    DecisionWindow = 2
    Counters = {1, 2, 4}
    RequestKinds = {"read", "bind"}
    Budgets <- MCBudgets
INVARIANTS
    TypeOK
    OneController
    NothingOutlivesItsPeer
    DuplicatesAreRefused
PROPERTIES
    RefinesLedger
    NothingWaitsForever
CHECK_DEADLOCK FALSE
