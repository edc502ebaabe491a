SPECIFICATION FairSpec
CONSTANTS
    h1 = h1
    h2 = h2
    c1 = c1
    c2 = c2
    a1 = a1
    a2 = a2
    RunCreated = RunCreated
    None = None
    Hosts = {h1, h2}
    Creations = {c1, c2}
    Actions = {a1, a2}
    MaxVersion = 3
    MaxCrashes = 2
INVARIANTS
    TypeOK
    BarrierBlocksOnlyForACause
    BuiltOnWhatWasSeen
PROPERTIES
    ImplementsHistory
    TransactionIsFinished
