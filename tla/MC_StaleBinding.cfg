\* Two energy managers, and a decision that comes late.
SPECIFICATION Spec
CONSTANTS
    Devices <- MCDevices
    Clients <- MCClients
    Servers <- MCServers
    Group <- MCServers
    Bound <- MCServers
    Approved <- MCApproved
    RETRY_SCHEDULE <- MCSchedule
    MAX_PENDING_REQUESTS = 2
    MAX_PEERS = 2
    MAX_DEFERRED_WRITES = 1
    MAX_RELATIONS_PER_PEER = 2
    WINDOW = 2
    RESTART_THRESHOLD = 3
    ResponseDelay = 1
    DecisionWindow = 2
    Counters = {1, 2, 4}
    RequestKinds = {"read", "bind"}
    Budgets <- MCBudgets
PROPERTY
    ControllerIsNotOverridden
CHECK_DEADLOCK FALSE
