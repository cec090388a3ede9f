SPECIFICATION FairSpec
CONSTANTS
    MaxOpenSockets = 2
    Conns = {c1, c2, c3}
    None = None
    Mailbox = 2
    Requests = {"request"}
    Works = FALSE
INVARIANTS
    CloseHitsTarget
    ShutdownNotLost
PROPERTIES
    StopEnds
    PurgeMakesRoom
    RequestsRead
