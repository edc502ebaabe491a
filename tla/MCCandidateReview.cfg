SPECIFICATION FairSpec
CONSTANTS
    h1 = h1
    h2 = h2
    w1 = w1
    w2 = w2
    p1 = p1
    None = None
    Hosts = {h1, h2}
    Plans = {p1}
    Workers = {w1, w2}
    MaxDocs = 2
    MaxPacks = 2
    Bounds <- MCBounds
    Kinds = 2
    EvalsRequired = TRUE
INVARIANTS
    TypeOK
    PublishedAsCommitted
    FindingsAreDeliveredOnce
    StageIsTakenUp
PROPERTIES
    ImplementsHistory
    PublicationIsFinished
CHECK_DEADLOCK FALSE
