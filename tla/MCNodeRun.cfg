SPECIFICATION FairSpec
CONSTANTS
    h1 = h1
    h2 = h2
    None = None
    Hosts = {h1, h2}
    Owners = {h1}
    Start = "product.decision"
    MaxCrashes = 1
    MaxChanges = 1
    MaxChoices = 2
    MaxAttempts = 5
    Outcomes = {"EXPERIMENT", "COMMIT_FUTURE", "WAIT"}
INVARIANTS
    TypeOK
    OwnerDecides
    ReceiptIsLostOnlyWhenOvertaken
PROPERTIES
    WorkFitsTheRun
    ImplementsPath
    RunMovesOn
CHECK_DEADLOCK FALSE
