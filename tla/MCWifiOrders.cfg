SPECIFICATION Spec
CONSTANTS
    QueueLength = 2
    TimerQueueLength = 2
    MaxRetry = 0
    Addrs = {a1}
    NoAddr = NoAddr
    Clients = {}
    UserOrders <- UserInterfaceOrders
    MaxEvents = 1
INVARIANTS
    BitsFollowDriver
    AddressForetold
CHECK_DEADLOCK FALSE
