SPECIFICATION Spec
CONSTANTS
    Records = {r0, r1}
    InitialRecord = r0
    Sections <- MCSections
    Conditions = {c1}
    Triggers = {t1}
    Deliveries = {markdown}
    MaxRevisionRounds = 2
    MaxInterruptions = 0
    None = None
    MaxReviews = 5
CONSTRAINT FewReviews
VIEW Seen
INVARIANT ReadyDecisionIsCurrent
CHECK_DEADLOCK FALSE
