---------------------------- MODULE MCAlphaRun ----------------------------
EXTENDS AlphaRun

\* The first content has only the protected section; every other content has
\* one removable section.
MCSections == [r \in Records |-> IF r = InitialRecord THEN {} ELSE {"analysis"}]

CONSTANTS MaxReviews

\* Bounds the exploration: behaviours with at most MaxReviews formal Reviews.
FewReviews == Cardinality(reviews) <= MaxReviews

\* What the next operations can see: resume_position is read only while PAUSED
\* and waiting only while WAITING_TRIGGER, and both are written on the way there;
\* of an earlier Review only its Candidate and Verdict are read again, and by
\* the properties whether the accepted Candidate's Review was settled.
Seen == <<status, position, IF status = "PAUSED" THEN resumePosition ELSE None,
    IF status = "WAITING_TRIGGER" THEN waiting ELSE None, usedTriggers,
    candidate, candidateRequired, revisionExhausted,
    {<<r.candidate, r.verdict>> : r \in reviews},
    decision # None /\ \E r \in reviews : r.candidate = decision.candidate /\ r.settled,
    currentReview, decided,
    delivered, recordRef, files, interruptions>>
====
