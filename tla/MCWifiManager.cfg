SPECIFICATION FairSpec
CONSTANTS
    QueueLength = 3
    TimerQueueLength = 3
    MaxRetry = 3
    Addrs = {a1, a2}
    NoAddr = NoAddr
    Clients = {c1}
    UserOrders <- NoOrders
    MaxEvents = 3
INVARIANTS
    OneThingInProgress
    ManagerNeverSelfBlocks
    NeverAborts
    NotStranded
    AddressFollowsLease
    ServersFollowMode
PROPERTIES
    Reachable
    ImplementsConnectivity
