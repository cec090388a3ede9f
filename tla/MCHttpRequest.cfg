SPECIFICATION Spec
CONSTANTS
    Streams <- MCStreams
    BlockSize = 4
    Scratch = 10
    MaxUri = 9
    PurgeBuf = 2
CHECK_DEADLOCK FALSE
INVARIANTS
    TypeOK
    ParserInStep
    RefusedWithReason
PROPERTY ImplementsFraming
