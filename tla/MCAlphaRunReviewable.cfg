SPECIFICATION Spec
CONSTANTS
    Records = {r0}
    InitialRecord = r0
    Sections <- MCSections
    Conditions = {c1}
    Triggers = {t1}
    Deliveries = {markdown}
    MaxRevisionRounds = 2
    MaxInterruptions = 0
    None = None
    MaxReviews = 3
CONSTRAINT FewReviews
VIEW Seen
INVARIANT FrozenCandidateReviewable
CHECK_DEADLOCK FALSE
