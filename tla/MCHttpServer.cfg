SPECIFICATION Spec
CONSTANTS
    MaxOpenSockets = 2
    Conns = {c1, c2, c3}
    None = None
    Mailbox = 1
    Requests = {"two", "upload"}
    Works = TRUE
SYMMETRY ConnSymmetry
CHECK_DEADLOCK FALSE
INVARIANTS
    SlotsMatchSockets
    OncePerPass
PROPERTY PurgeOrder
