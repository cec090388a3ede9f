SPECIFICATION FairSpec
CONSTANTS
    MaxOpenSockets = 2
    Conns = {c1, c2}
    None = None
    Mailbox = 2
    Requests = {"upload"}
    Works = FALSE
CHECK_DEADLOCK FALSE
PROPERTY StopEnds
