SPECIFICATION Spec
CONSTANTS
    Records = {r0, r1}
    InitialRecord = r0
    Sections <- MCSections
    Conditions = {c1}
    Triggers = {t1}
    Deliveries = {markdown, html}
    MaxRevisionRounds = 2
    MaxInterruptions = 1
    None = None
    MaxReviews = 3
CONSTRAINT FewReviews
VIEW Seen
INVARIANTS
    TypeOK
    FrozenCandidateUndisturbed
    RevisionLineage
    OneReviewPerVersion
    PRDKeepsItsDecision
    AcceptedDecisionWasReviewed
    NewCandidateRequired
    ReadyIsExact
    PublishedHandoffRecoverable
PROPERTY OnlyHandoffFollowsReady
CHECK_DEADLOCK FALSE
