SPECIFICATION FairSpec
CONSTANTS
    h1 = h1
    h2 = h2
    o1 = o1
    o2 = o2
    p1 = p1
    p2 = p2
    None = None
    Hosts = {h1, h2}
    Ids = {o1, o2}
    Payloads = {p1, p2}
    MaxVersion = 4
    MaxCrashes = 2
INVARIANTS
    TypeOK
    EffectsAreRecorded
    AnswersAreKept
    EffectIsNeverRefused
PROPERTIES
    ImplementsRegister
    CallIsAnswered
