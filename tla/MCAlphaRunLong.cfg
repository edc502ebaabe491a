SPECIFICATION FairSpec
CONSTANTS
    Records = {r0}
    InitialRecord = r0
    Sections <- MCSections
    Conditions = {c1}
    Triggers = {}
    Deliveries = {markdown}
    MaxRevisionRounds = 1
    MaxInterruptions = 1
    None = None
    MaxReviews = 9
INVARIANTS
    OnlyNamedDeadEnds
PROPERTY ReadyIsHandedOff
CHECK_DEADLOCK FALSE
