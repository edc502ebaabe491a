------------------------- MODULE AlphaRunProofs -------------------------
(***************************************************************************)
(* Proofs about module AlphaRun, for every set of records, conditions,     *)
(* Triggers and deliveries and every bound.                                *)
(***************************************************************************)
EXTENDS AlphaRun, TLAPS

\* What TypeOK rests on: the version of a Candidate counts its rounds, and a
\* resume finds the target it takes.
TypeInv ==
    /\ TypeOK
    /\ candidate # None => candidate.ref.version = candidate.round + 1
    /\ status = "PAUSED" => resumePosition \in Positions
    /\ status = "WAITING_TRIGGER" => waiting \in Waits

----------------------------------------------------------------------------
(* Operators *)

LEMMA StagesArePositions ==
    /\ \A k \in Kinds : AuthoringPosition[k] \in Positions /\ ReviewPosition[k] \in Positions
    /\ \A k \in {"PROBLEM", "DECISION"} : PassPosition[k] \in Positions
    /\ ReviewStages \subseteq Positions
    /\ EarlyStages \subseteq Positions
BY DEF Kinds, Positions, AuthoringPosition, ReviewPosition, PassPosition,
       ReviewStages, EarlyStages

LEMMA VerdictsAreStatuses ==
    \A v \in Verdicts : ReviewedAs[v] \in CandidateStatuses
BY DEF Verdicts, ReviewedAs, CandidateStatuses

LEMMA CandidateFields ==
    ASSUME NEW c \in Candidates
    PROVE  /\ c.ref \in Refs /\ c.ref.kind \in Kinds /\ c.ref.version \in Versions
           /\ c.ref.record \in Records
           /\ c.ref.kind # "PRD" => c.ref \in RecordCandidateRefs
           /\ c.round \in 0 .. MaxRevisionRounds
           /\ c.supersedes \in Refs \cup {None}
           /\ c.status \in CandidateStatuses
BY DEF Candidates, Refs, RecordCandidateRefs, PRDRefs, Kinds

LEMMA CandidateRestated ==
    ASSUME NEW c \in Candidates, NEW s \in CandidateStatuses
    PROVE  /\ [c EXCEPT !.status = s] \in Candidates
           /\ [c EXCEPT !.status = s].ref = c.ref
           /\ [c EXCEPT !.status = s].round = c.round
           /\ [c EXCEPT !.status = s].supersedes = c.supersedes
           /\ [c EXCEPT !.status = s].status = s
BY DEF Candidates

LEMMA VersionsCountRounds ==
    ASSUME NEW n \in 0 .. MaxRevisionRounds
    PROVE  n + 1 \in Versions
BY BoundAssumption DEF Versions

LEMMA FrozenCandidateTyped ==
    ASSUME TypeInv, NEW kind \in Kinds, FreezeCandidate(kind)
    PROVE  /\ candidate' \in Candidates
           /\ candidate'.ref.version = candidate'.round + 1
           /\ candidate'.status = "FROZEN"
           /\ candidate'.ref.kind = kind
           /\ candidate'.ref.record = recordRef
<1> DEFINE ref == [kind |-> kind, version |-> NextVersion(kind),
                   record |-> recordRef, basis |-> BasisOf(kind)]
<1>1. candidate' = [ref |-> ref, round |-> NextRound(kind),
                    supersedes |-> Supersedes(kind), status |-> "FROZEN"]
  BY DEF FreezeCandidate
<1>2. NextRound(kind) \in 0 .. MaxRevisionRounds
  BY BoundAssumption, CandidateFields
     DEF FreezeCandidate, MayFreeze, RevisionAllowed, NextRound, IsCurrent, TypeInv, TypeOK
<1>3. NextVersion(kind) = NextRound(kind) + 1
  BY CandidateFields DEF NextVersion, NextRound, IsCurrent, TypeInv, TypeOK
<1>4. NextVersion(kind) \in Versions
  BY <1>2, <1>3, VersionsCountRounds
<1>5. recordRef \in Records
  BY DEF TypeInv, TypeOK
<1>6. ref \in Refs
  <2>1. CASE kind = "PRD"
    <3>1. BasisOf(kind) \in PRDBases
      BY <2>1 DEF BasisOf, PRDBases, PRDType, FreezeCandidate, MayFreeze, TypeInv, TypeOK
    <3> QED
      BY <2>1, <3>1, <1>4, <1>5 DEF Refs, PRDRefs
  <2>2. CASE kind # "PRD"
    BY <2>2, <1>4, <1>5 DEF Refs, RecordCandidateRefs, BasisOf, Kinds
  <2> QED
    BY <2>1, <2>2
<1>7. Supersedes(kind) \in Refs \cup {None}
  BY CandidateFields DEF Supersedes, IsCurrent, TypeInv, TypeOK
<1> HIDE DEF ref
<1>8. candidate' \in Candidates
  BY <1>1, <1>2, <1>6, <1>7 DEF Candidates, CandidateStatuses
<1> QED
  BY <1>1, <1>3, <1>8 DEF ref

----------------------------------------------------------------------------
(* Type correctness *)

LEMMA NotEvaluatedTyped == NotEvaluated \in ReadyStates
BY DEF NotEvaluated, ReadyStates

LEMMA TypeInit == Init => TypeInv
<1> SUFFICES ASSUME Init PROVE TypeInv
  OBVIOUS
<1>1. status \in Statuses /\ position \in Positions
  BY DEF Init, Statuses, Positions
<1>2. recordRef \in Records /\ recordFile \in Records
  BY RecordAssumption DEF Init
<1>3. interruptions \in 0 .. MaxInterruptions
  BY BoundAssumption DEF Init
<1>4. ready \in ReadyStates
  BY NotEvaluatedTyped DEF Init
<1> QED
  BY <1>1, <1>2, <1>3, <1>4 DEF Init, TypeInv, TypeOK

LEMMA TypeStart ==
    ASSUME TypeInv, Start
    PROVE  TypeInv'
<1> USE DEF TypeInv, TypeOK, progress, judged, decided, delivered, runJson
<1>1. CASE StartRun
  BY <1>1 DEF StartRun, Statuses
<1>2. CASE StartRunInterrupted
  BY <1>2, BoundAssumption DEF StartRunInterrupted, Interrupted
<1>3. CASE OperateOnAbsentRun
  BY <1>3 DEF OperateOnAbsentRun
<1> QED
  BY <1>1, <1>2, <1>3 DEF Start

LEMMA StaleTyped ==
    ASSUME TypeInv
    PROVE  /\ Stale(candidate) \in Candidates \cup {None}
           /\ Stale(candidate) # None =>
                Stale(candidate).ref.version = Stale(candidate).round + 1
BY CandidateRestated DEF Stale, TypeInv, TypeOK, CandidateStatuses

LEMMA TypeAuthor ==
    ASSUME TypeInv, Author
    PROVE  TypeInv'
<1> USE DEF TypeInv, TypeOK, progress, judged, decided, delivered, runJson
<1>1. ASSUME NEW r \in Records, NEW next \in Positions, NEW d \in BOOLEAN,
             ReplaceRecord(r, next, d)
      PROVE  TypeInv'
  BY <1>1 DEF ReplaceRecord, RecordReplaceable
<1>2. ASSUME NEW r \in Records, NEW target \in Positions, NEW d \in BOOLEAN,
             RemoveSections(r, target, d)
      PROVE  TypeInv'
  BY <1>2, StaleTyped, NotEvaluatedTyped
     DEF RemoveSections, RecordReplaceable
<1>3. ASSUME NEW r \in Records, ReplaceRecordInterrupted(r)
      PROVE  TypeInv'
  BY <1>3, BoundAssumption DEF ReplaceRecordInterrupted, Interrupted
<1>4. ASSUME NEW kind \in Kinds, FreezeCandidate(kind)
      PROVE  TypeInv'
  <2>1. candidate' \in Candidates /\ candidate'.ref.version = candidate'.round + 1
    BY <1>4, FrozenCandidateTyped
  <2>2. ready' \in ReadyStates
    BY <1>4, NotEvaluatedTyped DEF FreezeCandidate
  <2>3. position' \in Positions
    BY <1>4, StagesArePositions DEF FreezeCandidate
  <2>4. candidateRequired' \in BOOLEAN /\ revisionExhausted' \in BOOLEAN
    BY <1>4 DEF FreezeCandidate
  <2>5. UNCHANGED <<status, resumePosition, waiting, usedTriggers, reviews,
                    currentReview, decided, handoff, retrospective, recordRef,
                    files, interruptions>>
    BY <1>4 DEF FreezeCandidate
  <2> QED
    BY <2>1, <2>2, <2>3, <2>4, <2>5 DEF files
<1> QED
  BY <1>1, <1>2, <1>3, <1>4 DEF Author

LEMMA ReviewTyped ==
    ASSUME TypeInv, NEW verdict \in Verdicts, NEW settled \in BOOLEAN,
           ReviewCandidate(ReviewOf(verdict, settled))
    PROVE  /\ candidate \in Candidates
           /\ ReviewOf(verdict, settled) \in Reviews
           /\ reviews' \subseteq Reviews /\ currentReview' \in Reviews
           /\ reviewFiles' \subseteq Kinds \X Versions
<1>1. candidate \in Candidates
  BY DEF ReviewCandidate, Reviewable, TypeInv, TypeOK
<1>2. ReviewOf(verdict, settled) \in Reviews
  BY <1>1, CandidateFields DEF ReviewOf, Reviews
<1>3. ReviewId(candidate.ref) \in Kinds \X Versions
  BY <1>1, CandidateFields DEF ReviewId
<1> QED
  BY <1>1, <1>2, <1>3 DEF ReviewCandidate, RecordReview, TypeInv, TypeOK

\* What every submitted Review leaves well typed: all but what its verdict
\* decides.
LEMMA TypeReviewed ==
    ASSUME TypeInv, NEW verdict \in Verdicts, NEW settled \in BOOLEAN,
           ReviewCandidate(ReviewOf(verdict, settled)),
           NEW s \in CandidateStatuses,
           candidate' = [candidate EXCEPT !.status = s],
           status' \in Statuses, position' \in Positions,
           status' \in {status, "READY", "REVIEW_ROUTE_REQUIRED"},
           candidateRequired' \in BOOLEAN, ready' \in ReadyStates,
           decisionRef' \in RecordCandidateRefs \cup {None},
           decisionReview' \in RecordCandidateRefs \cup {None}
    PROVE  TypeInv'
<1>1. /\ candidate' \in Candidates
      /\ candidate'.ref.version = candidate'.round + 1
  BY ReviewTyped, CandidateRestated
     DEF TypeInv, ReviewCandidate, Reviewable
<1>2. /\ reviews' \subseteq Reviews /\ currentReview' \in Reviews
      /\ reviewFiles' \subseteq Kinds \X Versions
  BY ReviewTyped
<1>3. UNCHANGED <<resumePosition, waiting, usedTriggers, revisionExhausted,
                  decision, intent, stage4, handoff, retrospective,
                  recordRef, runDir, recordFile, handoffDir,
                  retrospectiveFile, interruptions>>
  BY DEF ReviewCandidate
<1> QED
  BY <1>1, <1>2, <1>3 DEF TypeInv, TypeOK

LEMMA ReadyUnmetTyped ==
    ASSUME NEW c, NEW r
    PROVE  ReadyUnmet(c, r) \subseteq UnmetReasons
BY DEF ReadyUnmet, UnmetReasons

LEMMA TypeJudge ==
    ASSUME TypeInv, Judge
    PROVE  TypeInv'
<1> USE DEF Verdicts, Statuses, Positions, CandidateStatuses
<1>1. ASSUME NEW settled \in BOOLEAN, PassRecordCandidate(settled)
      PROVE  TypeInv'
  <2>1. candidate \in Candidates /\ candidate.ref.kind # "PRD"
    BY <1>1, ReviewTyped DEF PassRecordCandidate
  <2>2. candidate.ref.kind \in {"PROBLEM", "DECISION"}
        /\ candidate.ref \in RecordCandidateRefs
    BY <2>1, CandidateFields DEF Kinds
  <2>3. position' \in Positions
    BY <1>1, <2>2, StagesArePositions DEF PassRecordCandidate
  <2>4. /\ decisionRef' \in RecordCandidateRefs \cup {None}
        /\ decisionReview' \in RecordCandidateRefs \cup {None}
    BY <1>1, <2>2 DEF PassRecordCandidate, TypeInv, TypeOK
  <2> QED
    BY <1>1, <2>3, <2>4, TypeReviewed DEF PassRecordCandidate, TypeInv, TypeOK
<1>2. ASSUME NEW settled \in BOOLEAN, PassPRD(settled)
      PROVE  TypeInv'
  <2> DEFINE unmet == ReadyUnmet(candidate, ReviewOf("PASS", settled))
             stale == "STAGE4_RECORD_REF_STALE" \in unmet
  <2>1. ready' \in ReadyStates
    <3>1. ready' = [status |-> IF unmet = {} THEN "READY" ELSE "NOT_READY",
                    unmet |-> unmet, candidate |-> candidate.ref]
      BY <1>2 DEF PassPRD
    <3>2. candidate.ref \in Refs
      BY <1>2, ReviewTyped, CandidateFields DEF PassPRD
    <3>3. unmet \in SUBSET UnmetReasons
      BY ReadyUnmetTyped
    <3> HIDE DEF unmet
    <3> QED
      BY <3>1, <3>2, <3>3 DEF ReadyStates
  <2>2. /\ candidate' = [candidate EXCEPT !.status =
                           IF stale THEN "STALE" ELSE "REVIEWED_PASS"]
        /\ candidateRequired' = (stale \/ candidateRequired)
        /\ status' = IF unmet = {} THEN "READY" ELSE status
        /\ position' = IF unmet = {} THEN "READY"
                       ELSE IF stale THEN "PRD_AUTHORING" ELSE position
        /\ UNCHANGED <<decisionRef, decisionReview>>
        /\ ReviewCandidate(ReviewOf("PASS", settled))
    BY <1>2 DEF PassPRD
  <2> HIDE DEF unmet, stale
  <2>3. candidateRequired' \in BOOLEAN
    BY <2>2 DEF TypeInv, TypeOK
  <2> QED
    BY <2>1, <2>2, <2>3, TypeReviewed DEF TypeInv, TypeOK
<1>3. ASSUME NEW verdict \in Verdicts, RejectCandidate(verdict)
      PROVE  TypeInv'
  <2>1. ReviewedAs[verdict] \in CandidateStatuses
    BY VerdictsAreStatuses
  <2> QED
    BY <1>3, <2>1, TypeReviewed DEF RejectCandidate, TypeInv, TypeOK
<1>4. CASE ReviewInterrupted
  <2>1. ReviewId(candidate.ref) \in Kinds \X Versions
    BY <1>4, CandidateFields
       DEF ReviewInterrupted, Reviewable, ReviewId, TypeInv, TypeOK
  <2> QED
    BY <1>4, <2>1, BoundAssumption
       DEF ReviewInterrupted, Interrupted, TypeInv, TypeOK, progress, judged,
           decided, delivered, runJson
<1>5. ASSUME NEW target \in ReviewStages, RouteToStage(target)
      PROVE  TypeInv'
  BY <1>5, StagesArePositions
     DEF RouteToStage, RouteReview, TypeInv, TypeOK, decided, delivered, files
<1>6. ASSUME NEW w \in Waits, RouteToWait(w)
      PROVE  TypeInv'
  BY <1>6 DEF RouteToWait, RouteReview, TypeInv, TypeOK, decided, delivered, files
<1>7. CASE RouteToOwner
  BY <1>7 DEF RouteToOwner, RouteReview, TypeInv, TypeOK, decided, delivered, files
<1> QED
  BY <1>1, <1>2, <1>3, <1>4, <1>5, <1>6, <1>7 DEF Judge

\* A decision is routed on a passed Decision Candidate only.
LEMMA RoutableCandidate ==
    ASSUME TypeInv, DecisionRoutable
    PROVE  /\ candidate \in Candidates /\ candidate.ref \in RecordCandidateRefs
           /\ candidate.status = "REVIEWED_PASS" /\ candidate.ref.kind = "DECISION"
           /\ candidate # None
BY CandidateFields DEF DecisionRoutable, IsCurrent, TypeInv, TypeOK

\* What every accepted decision leaves well typed.
LEMMA TypeAccepted ==
    ASSUME TypeInv, DecisionRoutable,
           NEW outcome \in Outcomes,
           NEW source \in {"OWNER_CHOICE", "AGENT_PREAUTHORIZED"},
           Accept(outcome, source),
           status' \in Statuses \ {"PAUSED"}, position' \in Positions,
           waiting' \in Waits \cup {None},
           status' = "WAITING_TRIGGER" => waiting' \in Waits,
           intent' \in {"EXPERIMENT", "COMMIT_NOW", None}
    PROVE  TypeInv'
<1>1. decision' \in Decisions /\ decisionRef' \in RecordCandidateRefs
  BY RoutableCandidate DEF Accept, Decisions
<1>2. candidateRequired' \in BOOLEAN
  BY DEF Accept
<1>3. UNCHANGED <<resumePosition, usedTriggers, candidate, revisionExhausted,
                  reviews, currentReview, decisionReview, stage4, delivered,
                  recordRef, files, interruptions>>
  BY DEF Accept
<1> QED
  BY <1>1, <1>2, <1>3 DEF TypeInv, TypeOK, delivered, files

LEMMA TypeDecide ==
    ASSUME TypeInv, Decide
    PROVE  TypeInv'
<1> USE StagesArePositions DEF TypeInv, TypeOK, Statuses, Positions, Outcomes
<1>1. ASSUME NEW target \in EarlyStages, ChangeCognition(target)
      PROVE  TypeInv'
  BY <1>1, StaleTyped DEF ChangeCognition, decided, delivered, files
<1>2. CASE OwnerStops
  BY <1>2, TypeAccepted DEF OwnerStops, OwnerEnds
<1>3. CASE OwnerDefers
  BY <1>3, TypeAccepted DEF OwnerDefers, OwnerEnds
<1>4. CASE OwnerExperiments
  BY <1>4, TypeAccepted DEF OwnerExperiments
<1>5. ASSUME NEW source \in {"OWNER_CHOICE", "AGENT_PREAUTHORIZED"},
             CommitNow(source)
      PROVE  TypeInv'
  BY <1>5, TypeAccepted DEF CommitNow
<1>6. ASSUME NEW w \in Waits, OwnerWaits(w)
      PROVE  TypeInv'
  BY <1>6, TypeAccepted DEF OwnerWaits
<1>7. ASSUME NEW target \in EarlyStages, OwnerResearches(target)
      PROVE  TypeInv'
  BY <1>7, TypeAccepted DEF OwnerResearches
<1>8. ASSUME NEW assessed \in BOOLEAN, AgentEscalates(assessed)
      PROVE  TypeInv'
  BY <1>8 DEF AgentEscalates, judged, decided, delivered, files
<1> QED
  BY <1>1, <1>2, <1>3, <1>4, <1>5, <1>6, <1>7, <1>8
     DEF Decide, OwnerCommits, AgentCommits

LEMMA TypePauseOrResume ==
    ASSUME TypeInv, PauseOrResume
    PROVE  TypeInv'
<1> USE DEF TypeInv, TypeOK, Statuses, judged, decided, delivered, files
<1>1. CASE PauseRun
  BY <1>1 DEF PauseRun
<1>2. CASE ResumePaused
  BY <1>2 DEF ResumePaused
<1>3. ASSUME NEW id \in Triggers, NEW condition \in Conditions,
             ResumeOnTrigger(id, condition)
      PROVE  TypeInv'
  <2>1. waiting.target \in Positions
    BY <1>3, StagesArePositions DEF ResumeOnTrigger, Waits
  <2> QED
    BY <1>3, <2>1 DEF ResumeOnTrigger
<1> QED
  BY <1>1, <1>2, <1>3 DEF PauseOrResume

LEMMA HandoffTyped ==
    ASSUME TypeInv, NEW options \in Deliveries, HandoffAllowed(options)
    PROVE  HandoffOf(options) \in Handoffs /\ candidate # None
<1>1. candidate # None
  BY DEF HandoffAllowed, ReadyUnmet
<1> QED
  BY <1>1, CandidateFields DEF HandoffOf, Handoffs, TypeInv, TypeOK

LEMMA TypeDeliver ==
    ASSUME TypeInv, Deliver
    PROVE  TypeInv'
<1> USE DEF TypeInv, TypeOK, Statuses, judged, decided, delivered, progress, runJson
<1>1. ASSUME NEW options \in Deliveries, PrepareLocalHandoff(options)
      PROVE  TypeInv'
  BY <1>1, HandoffTyped DEF PrepareLocalHandoff
<1>2. ASSUME NEW options \in Deliveries, HandoffInterrupted(options)
      PROVE  TypeInv'
  BY <1>2, HandoffTyped, BoundAssumption DEF HandoffInterrupted, Interrupted
<1>3. ASSUME NEW result \in {"COMPLETED", "COMPLETED_WITH_FINDINGS"},
             RecordRetrospective(result)
      PROVE  TypeInv'
  BY <1>3 DEF RecordRetrospective
<1>4. CASE RetrospectiveInterrupted
  BY <1>4, BoundAssumption DEF RetrospectiveInterrupted, Interrupted
<1> QED
  BY <1>1, <1>2, <1>3, <1>4 DEF Deliver

LEMMA TypeStep ==
    ASSUME TypeInv, [Next]_vars
    PROVE  TypeInv'
<1>1. CASE UNCHANGED vars
  BY <1>1 DEF vars, runJson, progress, judged, decided, delivered, files,
              TypeInv, TypeOK
<1> QED
  BY <1>1, TypeStart, TypeAuthor, TypeJudge, TypeDecide, TypePauseOrResume,
     TypeDeliver DEF Next

LEMMA TypeInvariance == Spec => []TypeInv
<1>1. Init => TypeInv
  BY TypeInit
<1>2. TypeInv /\ [Next]_vars => TypeInv'
  BY TypeStep
<1> QED
  BY <1>1, <1>2, PTL DEF Spec

\* Every reachable Run is well typed: in particular no Candidate ever has more
\* versions than MaxRevisionRounds allows, and no resume finds its target gone.
THEOREM TypeCorrect == Spec => []TypeOK
BY TypeInvariance, PTL DEF TypeInv

----------------------------------------------------------------------------
(* A frozen Candidate is undisturbed *)

\* A step that leaves no frozen Candidate, or nothing the invariant speaks of
\* changed, preserves it.
LEMMA NotFrozenAfter ==
    ASSUME NEW c \in Candidates, NEW s \in CandidateStatuses \ {"FROZEN"},
           candidate' = [c EXCEPT !.status = s]
    PROVE  ~IsFrozen'
BY CandidateRestated DEF IsFrozen

LEMMA StaleNotFrozen ==
    ASSUME TypeInv, candidate' = Stale(candidate)
    PROVE  ~IsFrozen'
BY CandidateRestated DEF Stale, IsFrozen, TypeInv, TypeOK, CandidateStatuses

LEMMA ReviewPositions ==
    \A k \in Kinds : ReviewPosition[k] \in {"PROBLEM_REVIEW", "DECISION_REVIEW", "PRD_REVIEW"}
BY DEF Kinds, ReviewPosition

\* Where a Candidate is frozen, only its Review, a pause or a resume can happen.
LEMMA FrozenPosition ==
    ASSUME TypeInv, FrozenCandidateUndisturbed, IsFrozen
    PROVE  /\ status \in {"ACTIVE", "PAUSED"}
           /\ position \notin RecordPositions
           /\ position # "DECISION_ROUTE"
           /\ position = ReviewPosition[candidate.ref.kind]
           /\ candidate.status = "FROZEN"
<1>1. candidate.ref.kind \in Kinds
  BY CandidateFields DEF IsFrozen, TypeInv, TypeOK
<1> QED
  BY <1>1, ReviewPositions
     DEF FrozenCandidateUndisturbed, RecordPositions, EarlyStages, IsFrozen

LEMMA FrozenAuthor ==
    ASSUME TypeInv, FrozenCandidateUndisturbed, Author
    PROVE  FrozenCandidateUndisturbed'
<1>1. ASSUME NEW r \in Records, NEW next \in Positions, NEW d \in BOOLEAN,
             ReplaceRecord(r, next, d)
      PROVE  ~IsFrozen'
  BY <1>1, FrozenPosition DEF ReplaceRecord, RecordReplaceable, judged, IsFrozen
<1>2. ASSUME NEW r \in Records, NEW target \in Positions, NEW d \in BOOLEAN,
             RemoveSections(r, target, d)
      PROVE  ~IsFrozen'
  BY <1>2, StaleNotFrozen DEF RemoveSections
<1>3. ASSUME NEW r \in Records, ReplaceRecordInterrupted(r)
      PROVE  ~IsFrozen'
  BY <1>3, FrozenPosition
     DEF ReplaceRecordInterrupted, RecordReplaceable, Interrupted, runJson, judged, IsFrozen
<1>4. ASSUME NEW kind \in Kinds, FreezeCandidate(kind)
      PROVE  FrozenCandidateUndisturbed'
  BY <1>4, FrozenCandidateTyped DEF FreezeCandidate, MayFreeze, files, FrozenCandidateUndisturbed
<1> QED
  BY <1>1, <1>2, <1>3, <1>4 DEF Author, FrozenCandidateUndisturbed

LEMMA ReviewUnfreezes ==
    ASSUME TypeInv,
           \/ \E settled \in BOOLEAN : PassRecordCandidate(settled)
           \/ \E settled \in BOOLEAN : PassPRD(settled)
           \/ \E verdict \in Verdicts : RejectCandidate(verdict)
    PROVE  ~IsFrozen'
<1> USE DEF Verdicts, CandidateStatuses
<1>1. ASSUME NEW settled \in BOOLEAN, PassRecordCandidate(settled)
      PROVE  ~IsFrozen'
  BY <1>1, ReviewTyped, NotFrozenAfter DEF PassRecordCandidate
<1>2. ASSUME NEW settled \in BOOLEAN, PassPRD(settled)
      PROVE  ~IsFrozen'
  <2>1. PICK s \in {"STALE", "REVIEWED_PASS"} :
          candidate' = [candidate EXCEPT !.status = s]
    BY <1>2 DEF PassPRD
  <2>2. candidate \in Candidates
    BY <1>2, ReviewTyped DEF PassPRD
  <2> QED
    BY <2>1, <2>2, NotFrozenAfter
<1>3. ASSUME NEW verdict \in Verdicts, RejectCandidate(verdict)
      PROVE  ~IsFrozen'
  <2>1. ReviewedAs[verdict] \in CandidateStatuses \ {"FROZEN"}
    BY DEF ReviewedAs
  <2>2. candidate \in Candidates
    BY <1>3, ReviewTyped DEF RejectCandidate
  <2> QED
    BY <1>3, <2>1, <2>2, NotFrozenAfter DEF RejectCandidate
<1> QED
  BY <1>1, <1>2, <1>3

LEMMA FrozenJudge ==
    ASSUME TypeInv, FrozenCandidateUndisturbed, Judge
    PROVE  FrozenCandidateUndisturbed'
<1>1. CASE \/ \E settled \in BOOLEAN : PassRecordCandidate(settled)
           \/ \E settled \in BOOLEAN : PassPRD(settled)
           \/ \E verdict \in Verdicts : RejectCandidate(verdict)
  BY <1>1, ReviewUnfreezes DEF FrozenCandidateUndisturbed
<1>2. CASE ReviewInterrupted
  BY <1>2 DEF ReviewInterrupted, Interrupted, runJson, progress, judged,
              FrozenCandidateUndisturbed, IsFrozen
<1>3. ASSUME NEW target, RouteReview(target)
      PROVE  ~IsFrozen'
  BY <1>3, FrozenPosition DEF RouteReview, MayRoute, IsFrozen
<1> QED
  BY <1>1, <1>2, <1>3
     DEF Judge, RouteToStage, RouteToWait, RouteToOwner, FrozenCandidateUndisturbed

LEMMA FrozenDecide ==
    ASSUME TypeInv, FrozenCandidateUndisturbed, Decide
    PROVE  FrozenCandidateUndisturbed'
<1>1. ASSUME NEW target \in EarlyStages, ChangeCognition(target)
      PROVE  ~IsFrozen'
  BY <1>1, StaleNotFrozen DEF ChangeCognition
<1>2. ASSUME DecisionRoutable, candidate' = candidate
      PROVE  ~IsFrozen'
  BY <1>2 DEF DecisionRoutable, IsFrozen
<1> QED
  BY <1>1, <1>2
     DEF Decide, OwnerStops, OwnerDefers, OwnerEnds, OwnerExperiments,
         OwnerCommits, OwnerWaits, OwnerResearches, AgentCommits, CommitNow,
         AgentEscalates, Accept, judged, FrozenCandidateUndisturbed

LEMMA FrozenStep ==
    ASSUME TypeInv, FrozenCandidateUndisturbed, [Next]_vars
    PROVE  FrozenCandidateUndisturbed'
<1>1. CASE Start
  BY <1>1, FrozenPosition
     DEF Start, StartRun, StartRunInterrupted, OperateOnAbsentRun, Interrupted,
         runJson, judged, IsFrozen, FrozenCandidateUndisturbed
<1>2. CASE PauseOrResume
  BY <1>2 DEF PauseOrResume, PauseRun, ResumePaused, ResumeOnTrigger, judged,
              files, IsFrozen, FrozenCandidateUndisturbed
<1>3. CASE Deliver
  BY <1>3, FrozenPosition
     DEF Deliver, PrepareLocalHandoff, HandoffInterrupted, HandoffAllowed,
         RecordRetrospective, RetrospectiveInterrupted, Interrupted, progress,
         judged, runJson, IsFrozen, FrozenCandidateUndisturbed
<1>4. CASE UNCHANGED vars
  BY <1>4 DEF vars, runJson, progress, judged, files, IsFrozen,
              FrozenCandidateUndisturbed
<1> QED
  BY <1>1, <1>2, <1>3, <1>4, FrozenAuthor, FrozenJudge, FrozenDecide DEF Next

LEMMA FrozenInit == Init => FrozenCandidateUndisturbed
BY DEF Init, FrozenCandidateUndisturbed, IsFrozen

\* While a Candidate waits for its Review nothing moves under it, in every Run.
THEOREM FrozenIsUndisturbed == Spec => []FrozenCandidateUndisturbed
<1>1. TypeInv /\ FrozenCandidateUndisturbed /\ [Next]_vars => FrozenCandidateUndisturbed'
  BY FrozenStep
<1> QED
  BY <1>1, FrozenInit, TypeInvariance, PTL DEF Spec

----------------------------------------------------------------------------
(* Reviews, decisions and the PRD written from them *)

\* What Ready rests on: a Candidate marked as passed, the Decision basis and the
\* accepted decision all have their passing Review, and the delivery intent is
\* the outcome of the accepted decision.
HistoryInv ==
    /\ currentReview # None => currentReview \in reviews
    /\ candidate # None /\ candidate.status = "REVIEWED_PASS" =>
         PassedBy(candidate.ref, reviews)
    /\ decisionRef # None => PassedBy(decisionRef, reviews)
    /\ AcceptedDecisionWasReviewed
    /\ decision # None /\ decision.outcome \in {"COMMIT_NOW", "EXPERIMENT"} =>
         intent = decision.outcome

\* The parts of the state HistoryInv reads.
history == <<candidate, reviews, currentReview, decision, decisionRef, intent>>

LEMMA HistoryUnchanged ==
    ASSUME HistoryInv, UNCHANGED history
    PROVE  HistoryInv'
BY DEF HistoryInv, history, PassedBy, AcceptedDecisionWasReviewed

LEMMA HistoryStale ==
    ASSUME TypeInv, HistoryInv, candidate' = Stale(candidate),
           UNCHANGED <<reviews, currentReview, decision, decisionRef, intent>>
    PROVE  HistoryInv'
<1>1. candidate' # None => candidate'.status # "REVIEWED_PASS"
  BY CandidateRestated DEF Stale, TypeInv, TypeOK, CandidateStatuses
<1> QED
  BY <1>1 DEF HistoryInv, PassedBy, AcceptedDecisionWasReviewed

LEMMA HistoryAuthor ==
    ASSUME TypeInv, HistoryInv, Author
    PROVE  HistoryInv'
<1>1. ASSUME NEW r \in Records, NEW next \in Positions, NEW d \in BOOLEAN,
             ReplaceRecord(r, next, d)
      PROVE  HistoryInv'
  BY <1>1, HistoryUnchanged DEF ReplaceRecord, judged, history
<1>2. ASSUME NEW r \in Records, NEW target \in Positions, NEW d \in BOOLEAN,
             RemoveSections(r, target, d)
      PROVE  HistoryInv'
  BY <1>2, HistoryStale DEF RemoveSections
<1>3. ASSUME NEW r \in Records, ReplaceRecordInterrupted(r)
      PROVE  HistoryInv'
  BY <1>3, HistoryUnchanged
     DEF ReplaceRecordInterrupted, Interrupted, runJson, judged, decided, history
<1>4. ASSUME NEW kind \in Kinds, FreezeCandidate(kind)
      PROVE  HistoryInv'
  <2>1. candidate'.status = "FROZEN"
    BY <1>4, FrozenCandidateTyped
  <2>2. UNCHANGED <<reviews, currentReview, decision, decisionRef, intent>>
    BY <1>4 DEF FreezeCandidate, decided
  <2> QED
    BY <2>1, <2>2 DEF HistoryInv, PassedBy, AcceptedDecisionWasReviewed
<1> QED
  BY <1>1, <1>2, <1>3, <1>4 DEF Author

\* A Review only adds to the Reviews, so whatever was passed stays passed.
LEMMA HistoryReviewed ==
    ASSUME TypeInv, HistoryInv, NEW verdict \in Verdicts, NEW settled \in BOOLEAN,
           ReviewCandidate(ReviewOf(verdict, settled)),
           candidate' # None /\ candidate'.status = "REVIEWED_PASS" =>
             verdict = "PASS" /\ candidate'.ref = candidate.ref,
           \/ decisionRef' = decisionRef
           \/ verdict = "PASS" /\ decisionRef' = candidate.ref
    PROVE  HistoryInv'
<1> DEFINE r == ReviewOf(verdict, settled)
<1>1. reviews' = reviews \cup {r} /\ currentReview' = r
  BY DEF ReviewCandidate, RecordReview
<1>2. r.candidate = candidate.ref /\ r.verdict = verdict
  BY DEF ReviewOf
<1>3. UNCHANGED <<decision, intent>>
  BY DEF ReviewCandidate
<1>4. \A ref : PassedBy(ref, reviews) => PassedBy(ref, reviews')
  BY <1>1 DEF PassedBy
<1>5. verdict = "PASS" => PassedBy(candidate.ref, reviews')
  BY <1>1, <1>2 DEF PassedBy
<1>6. AcceptedDecisionWasReviewed'
  BY <1>1, <1>3, <1>4 DEF HistoryInv, AcceptedDecisionWasReviewed
<1> HIDE DEF r
<1>7. decisionRef' # None => PassedBy(decisionRef', reviews')
  BY <1>4, <1>5 DEF HistoryInv
<1>8. (candidate # None /\ candidate.status = "REVIEWED_PASS" =>
         PassedBy(candidate.ref, reviews))'
  BY <1>5
<1> QED
  BY <1>1, <1>3, <1>6, <1>7, <1>8 DEF HistoryInv

LEMMA HistoryJudge ==
    ASSUME TypeInv, HistoryInv, Judge
    PROVE  HistoryInv'
<1> USE DEF Verdicts
<1>1. ASSUME NEW settled \in BOOLEAN, PassRecordCandidate(settled)
      PROVE  HistoryInv'
  <2>1. candidate'.ref = candidate.ref
    BY <1>1, ReviewTyped, CandidateRestated DEF PassRecordCandidate, CandidateStatuses
  <2>2. ReviewCandidate(ReviewOf("PASS", settled))
    BY <1>1 DEF PassRecordCandidate
  <2>3. decisionRef' = decisionRef \/ decisionRef' = candidate.ref
    BY <1>1 DEF PassRecordCandidate
  <2> QED
    BY <2>1, <2>2, <2>3, HistoryReviewed
<1>2. ASSUME NEW settled \in BOOLEAN, PassPRD(settled)
      PROVE  HistoryInv'
  <2>1. PICK s \in {"STALE", "REVIEWED_PASS"} :
          candidate' = [candidate EXCEPT !.status = s]
    BY <1>2 DEF PassPRD
  <2>2. candidate'.ref = candidate.ref
    BY <1>2, <2>1, ReviewTyped, CandidateRestated DEF PassPRD, CandidateStatuses
  <2>3. ReviewCandidate(ReviewOf("PASS", settled)) /\ decisionRef' = decisionRef
    BY <1>2 DEF PassPRD
  <2> QED
    BY <2>2, <2>3, HistoryReviewed
<1>3. ASSUME NEW verdict \in Verdicts, RejectCandidate(verdict)
      PROVE  HistoryInv'
  <2>1. ReviewedAs[verdict] \in CandidateStatuses \ {"REVIEWED_PASS"}
    BY <1>3 DEF ReviewedAs, RejectCandidate, CandidateStatuses
  <2>2. candidate'.status # "REVIEWED_PASS"
    BY <1>3, <2>1, ReviewTyped, CandidateRestated DEF RejectCandidate
  <2>3. ReviewCandidate(ReviewOf(verdict, FALSE)) /\ decisionRef' = decisionRef
    BY <1>3 DEF RejectCandidate
  <2> QED
    BY <2>2, <2>3, HistoryReviewed
<1>4. CASE ReviewInterrupted
  BY <1>4, HistoryUnchanged
     DEF ReviewInterrupted, Interrupted, runJson, judged, decided, history
<1>5. ASSUME NEW target, RouteReview(target)
      PROVE  HistoryInv'
  BY <1>5, HistoryUnchanged DEF RouteReview, decided, history
<1> QED
  BY <1>1, <1>2, <1>3, <1>4, <1>5 DEF Judge, RouteToStage, RouteToWait, RouteToOwner

LEMMA HistoryAccepted ==
    ASSUME TypeInv, HistoryInv, DecisionRoutable,
           NEW outcome \in Outcomes, NEW source, Accept(outcome, source),
           source = "AGENT_PREAUTHORIZED" =>
             outcome = "COMMIT_NOW" /\ AgentMayCommit(TRUE),
           IF outcome \in {"COMMIT_NOW", "EXPERIMENT"}
             THEN intent' = outcome ELSE intent' = intent
    PROVE  HistoryInv'
<1>1. /\ decision' = [outcome |-> outcome, source |-> source,
                      candidate |-> candidate.ref]
      /\ decisionRef' = candidate.ref
      /\ UNCHANGED <<candidate, reviews, currentReview>>
  BY DEF Accept
<1>2. PassedBy(candidate.ref, reviews)
  BY RoutableCandidate DEF HistoryInv
<1>3. AcceptedDecisionWasReviewed'
  BY <1>1, <1>2
     DEF AcceptedDecisionWasReviewed, AgentMayCommit, HistoryInv, PassedBy
<1> QED
  BY <1>1, <1>2, <1>3 DEF HistoryInv, PassedBy

LEMMA HistoryDecide ==
    ASSUME TypeInv, HistoryInv, Decide
    PROVE  HistoryInv'
<1> USE DEF Outcomes
<1>1. ASSUME NEW target \in EarlyStages, ChangeCognition(target)
      PROVE  HistoryInv'
  BY <1>1, HistoryStale DEF ChangeCognition, decided
<1>2. CASE OwnerStops
  BY <1>2, HistoryAccepted DEF OwnerStops, OwnerEnds
<1>3. CASE OwnerDefers
  BY <1>3, HistoryAccepted DEF OwnerDefers, OwnerEnds
<1>4. CASE OwnerExperiments
  BY <1>4, HistoryAccepted DEF OwnerExperiments
<1>5. CASE OwnerCommits
  BY <1>5, HistoryAccepted DEF OwnerCommits, CommitNow
<1>6. ASSUME NEW w \in Waits, OwnerWaits(w)
      PROVE  HistoryInv'
  BY <1>6, HistoryAccepted DEF OwnerWaits
<1>7. ASSUME NEW target \in EarlyStages, OwnerResearches(target)
      PROVE  HistoryInv'
  BY <1>7, HistoryAccepted DEF OwnerResearches
<1>8. ASSUME NEW assessed \in BOOLEAN, AgentCommits(assessed)
      PROVE  HistoryInv'
  <2>1. AgentMayCommit(TRUE)
    BY <1>8 DEF AgentCommits, AgentMayCommit
  <2> QED
    BY <1>8, <2>1, HistoryAccepted DEF AgentCommits, CommitNow
<1>9. ASSUME NEW assessed \in BOOLEAN, AgentEscalates(assessed)
      PROVE  HistoryInv'
  BY <1>9, HistoryUnchanged DEF AgentEscalates, judged, decided, history
<1> QED
  BY <1>1, <1>2, <1>3, <1>4, <1>5, <1>6, <1>7, <1>8, <1>9 DEF Decide

LEMMA HistoryStep ==
    ASSUME TypeInv, HistoryInv, [Next]_vars
    PROVE  HistoryInv'
<1> USE HistoryUnchanged DEF judged, decided, history
<1>1. CASE Start
  BY <1>1 DEF Start, StartRun, StartRunInterrupted, OperateOnAbsentRun,
              Interrupted, runJson
<1>2. CASE PauseOrResume
  BY <1>2 DEF PauseOrResume, PauseRun, ResumePaused, ResumeOnTrigger
<1>3. CASE Deliver
  BY <1>3 DEF Deliver, PrepareLocalHandoff, HandoffInterrupted,
              RecordRetrospective, RetrospectiveInterrupted, Interrupted, runJson
<1>4. CASE UNCHANGED vars
  BY <1>4 DEF vars, runJson
<1> QED
  BY <1>1, <1>2, <1>3, <1>4, HistoryAuthor, HistoryJudge, HistoryDecide DEF Next

LEMMA HistoryInvariance == Spec => []HistoryInv
<1>1. Init => HistoryInv
  BY DEF Init, HistoryInv, AcceptedDecisionWasReviewed
<1>2. TypeInv /\ HistoryInv /\ [Next]_vars => HistoryInv'
  BY HistoryStep
<1> QED
  BY <1>1, <1>2, TypeInvariance, PTL DEF Spec

\* No decision is ever accepted on a Candidate without a passing Review, and an
\* Agent's own commit rests on a Review that left nothing open.
THEOREM DecisionsAreReviewed == Spec => []AcceptedDecisionWasReviewed
BY HistoryInvariance, PTL DEF HistoryInv

\* The Decision a PRD was written from.
basis == <<decision, decisionRef, decisionReview, intent>>

LEMMA PRDKept ==
    ASSUME PRDKeepsItsDecision, UNCHANGED basis,
           candidate' # None /\ candidate'.ref.kind = "PRD" =>
             candidate # None /\ candidate'.ref = candidate.ref
    PROVE  PRDKeepsItsDecision'
BY DEF PRDKeepsItsDecision, IsCurrent, basis

LEMMA StaleKeepsRef ==
    ASSUME TypeInv, candidate' = Stale(candidate)
    PROVE  candidate' # None => candidate # None /\ candidate'.ref = candidate.ref
BY CandidateRestated DEF Stale, TypeInv, TypeOK, CandidateStatuses

LEMMA PRDAuthor ==
    ASSUME TypeInv, PRDKeepsItsDecision, Author
    PROVE  PRDKeepsItsDecision'
<1> USE DEF basis
<1>1. ASSUME NEW r \in Records, NEW next \in Positions, NEW d \in BOOLEAN,
             ReplaceRecord(r, next, d)
      PROVE  PRDKeepsItsDecision'
  BY <1>1, PRDKept DEF ReplaceRecord, judged
<1>2. ASSUME NEW r \in Records, NEW target \in Positions, NEW d \in BOOLEAN,
             RemoveSections(r, target, d)
      PROVE  PRDKeepsItsDecision'
  BY <1>2, PRDKept, StaleKeepsRef DEF RemoveSections
<1>3. ASSUME NEW r \in Records, ReplaceRecordInterrupted(r)
      PROVE  PRDKeepsItsDecision'
  BY <1>3, PRDKept DEF ReplaceRecordInterrupted, Interrupted, runJson, judged, decided
<1>4. ASSUME NEW kind \in Kinds, FreezeCandidate(kind)
      PROVE  PRDKeepsItsDecision'
  <2>1. candidate' # None => candidate'.ref.kind = kind
    BY <1>4, FrozenCandidateTyped
  <2>2. candidate'.ref.basis = BasisOf(kind) /\ UNCHANGED basis
    BY <1>4 DEF FreezeCandidate, decided
  <2> QED
    BY <2>1, <2>2 DEF PRDKeepsItsDecision, IsCurrent, BasisOf
<1> QED
  BY <1>1, <1>2, <1>3, <1>4 DEF Author

LEMMA PRDJudge ==
    ASSUME TypeInv, PRDKeepsItsDecision, Judge
    PROVE  PRDKeepsItsDecision'
<1> USE DEF basis, Verdicts
<1>1. ASSUME NEW settled \in BOOLEAN, PassRecordCandidate(settled)
      PROVE  PRDKeepsItsDecision'
  <2>1. candidate'.ref = candidate.ref /\ candidate.ref.kind # "PRD"
    BY <1>1, ReviewTyped, CandidateRestated DEF PassRecordCandidate, CandidateStatuses
  <2> QED
    BY <2>1 DEF PRDKeepsItsDecision, IsCurrent
<1>2. ASSUME NEW settled \in BOOLEAN, PassPRD(settled)
      PROVE  PRDKeepsItsDecision'
  <2>1. PICK s \in {"STALE", "REVIEWED_PASS"} :
          candidate' = [candidate EXCEPT !.status = s]
    BY <1>2 DEF PassPRD
  <2>2. candidate'.ref = candidate.ref /\ candidate # None
    BY <1>2, <2>1, ReviewTyped, CandidateRestated
       DEF PassPRD, CandidateStatuses, ReviewCandidate, Reviewable
  <2> QED
    BY <1>2, <2>2, PRDKept DEF PassPRD, ReviewCandidate
<1>3. ASSUME NEW verdict \in Verdicts, RejectCandidate(verdict)
      PROVE  PRDKeepsItsDecision'
  <2>1. ReviewedAs[verdict] \in CandidateStatuses
    BY VerdictsAreStatuses
  <2>2. candidate'.ref = candidate.ref /\ candidate # None
    BY <1>3, <2>1, ReviewTyped, CandidateRestated
       DEF RejectCandidate, ReviewCandidate, Reviewable
  <2> QED
    BY <1>3, <2>2, PRDKept DEF RejectCandidate, ReviewCandidate
<1>4. CASE ReviewInterrupted
  BY <1>4, PRDKept DEF ReviewInterrupted, Interrupted, runJson, judged, decided
<1>5. ASSUME NEW target, RouteReview(target)
      PROVE  PRDKeepsItsDecision'
  BY <1>5, PRDKept DEF RouteReview, decided
<1> QED
  BY <1>1, <1>2, <1>3, <1>4, <1>5 DEF Judge, RouteToStage, RouteToWait, RouteToOwner

LEMMA PRDDecide ==
    ASSUME TypeInv, PRDKeepsItsDecision, Decide
    PROVE  PRDKeepsItsDecision'
<1>1. ASSUME NEW target \in EarlyStages, ChangeCognition(target)
      PROVE  PRDKeepsItsDecision'
  BY <1>1, PRDKept, StaleKeepsRef DEF ChangeCognition, decided, basis
<1>2. ASSUME DecisionRoutable, candidate' = candidate
      PROVE  PRDKeepsItsDecision'
  BY <1>2, RoutableCandidate DEF PRDKeepsItsDecision, IsCurrent
<1> QED
  BY <1>1, <1>2
     DEF Decide, OwnerStops, OwnerDefers, OwnerEnds, OwnerExperiments,
         OwnerCommits, OwnerWaits, OwnerResearches, AgentCommits, CommitNow,
         AgentEscalates, Accept, judged

LEMMA PRDStep ==
    ASSUME TypeInv, PRDKeepsItsDecision, [Next]_vars
    PROVE  PRDKeepsItsDecision'
<1> USE PRDKept DEF judged, decided, basis
<1>1. CASE Start
  BY <1>1 DEF Start, StartRun, StartRunInterrupted, OperateOnAbsentRun,
              Interrupted, runJson
<1>2. CASE PauseOrResume
  BY <1>2 DEF PauseOrResume, PauseRun, ResumePaused, ResumeOnTrigger
<1>3. CASE Deliver
  BY <1>3 DEF Deliver, PrepareLocalHandoff, HandoffInterrupted,
              RecordRetrospective, RetrospectiveInterrupted, Interrupted, runJson
<1>4. CASE UNCHANGED vars
  BY <1>4 DEF vars, runJson
<1> QED
  BY <1>1, <1>2, <1>3, <1>4, PRDAuthor, PRDJudge, PRDDecide DEF Next

\* The Decision a PRD was written from never changes while it is the current one.
THEOREM PRDDecisionIsKept == Spec => []PRDKeepsItsDecision
<1>1. Init => PRDKeepsItsDecision
  BY DEF Init, PRDKeepsItsDecision, IsCurrent
<1>2. TypeInv /\ PRDKeepsItsDecision /\ [Next]_vars => PRDKeepsItsDecision'
  BY PRDStep
<1> QED
  BY <1>1, <1>2, TypeInvariance, PTL DEF Spec

----------------------------------------------------------------------------
(* Ready and its handoff *)

IsReady == status \in {"READY", "LOCAL_HANDOFF_COMPLETE"}

\* A Ready Run stands at READY, which keeps the Decision route away from it.
ReadyInv == ReadyIsExact /\ (IsReady => position = "READY")

LEMMA ReadyStage == "READY" \notin RecordPositions
BY DEF RecordPositions, EarlyStages

\* Only the delivery operations do anything in a Ready Run.
LEMMA DeliveryKept ==
    ASSUME TypeInv, ReadyInv, IsReady, [Next]_vars
    PROVE  KeepsDelivery
<1>1. candidate.status = "REVIEWED_PASS" /\ position = "READY"
  BY DEF ReadyInv, ReadyIsExact, IsReady
<1>2. ~Start
  BY DEF Start, StartRun, StartRunInterrupted, OperateOnAbsentRun, IsReady
<1>3. ~Author
  BY DEF Author, ReplaceRecord, RemoveSections, ReplaceRecordInterrupted,
         RecordReplaceable, FreezeCandidate, MayFreeze, IsReady
<1>4. ~Judge
  BY <1>1 DEF Judge, PassRecordCandidate, PassPRD, RejectCandidate,
              ReviewInterrupted, ReviewCandidate, Reviewable, RouteToStage,
              RouteToWait, RouteToOwner, RouteReview, MayRoute, IsReady
<1>5. ~Decide
  BY <1>1 DEF Decide, ChangeCognition, OwnerStops, OwnerDefers, OwnerEnds,
              OwnerExperiments, OwnerCommits, OwnerWaits, OwnerResearches,
              AgentCommits, CommitNow, AgentEscalates, DecisionRoutable
<1>6. ~PauseOrResume
  BY DEF PauseOrResume, PauseRun, ResumePaused, ResumeOnTrigger, IsReady
<1>7. CASE Deliver
  BY <1>7 DEF Deliver, PrepareLocalHandoff, HandoffInterrupted,
              RecordRetrospective, RetrospectiveInterrupted, Interrupted,
              runJson, progress, delivered, KeepsDelivery
<1>8. CASE UNCHANGED vars
  BY <1>8 DEF vars, runJson, progress, delivered, files, KeepsDelivery
<1> QED
  BY <1>2, <1>3, <1>4, <1>5, <1>6, <1>7, <1>8 DEF Next

\* Ready is entered by the PASS Review of a PRD whose Ready evidence is complete.
LEMMA ReadyEntered ==
    ASSUME TypeInv, ~IsReady, [Next]_vars, IsReady'
    PROVE  \E settled \in BOOLEAN :
             /\ PassPRD(settled)
             /\ ReadyUnmet(candidate, ReviewOf("PASS", settled)) = {}
<1>1. ~Start
  BY DEF Start, StartRun, StartRunInterrupted, OperateOnAbsentRun, Interrupted,
         runJson, progress, IsReady
<1>2. ~Author
  BY DEF Author, ReplaceRecord, RemoveSections, ReplaceRecordInterrupted,
         Interrupted, runJson, progress, FreezeCandidate, IsReady
<1>3. ~Decide
  BY DEF Decide, ChangeCognition, OwnerStops, OwnerDefers, OwnerEnds,
         OwnerExperiments, OwnerCommits, OwnerWaits, OwnerResearches,
         AgentCommits, CommitNow, AgentEscalates, IsReady
<1>4. ~PauseOrResume
  BY DEF PauseOrResume, PauseRun, ResumePaused, ResumeOnTrigger, IsReady
<1>5. ~Deliver
  BY DEF Deliver, PrepareLocalHandoff, HandoffInterrupted, HandoffAllowed,
         RecordRetrospective, RetrospectiveInterrupted, Interrupted, runJson,
         progress, IsReady
<1>6. ASSUME NEW settled \in BOOLEAN, PassPRD(settled)
      PROVE  ReadyUnmet(candidate, ReviewOf("PASS", settled)) = {}
  BY <1>6 DEF PassPRD, IsReady
<1>7. CASE UNCHANGED vars
  BY <1>7 DEF vars, runJson, progress, IsReady
<1>8. CASE Judge
  BY <1>6, <1>8 DEF Judge, PassRecordCandidate, RejectCandidate,
                    ReviewInterrupted, Interrupted, runJson, progress,
                    RouteToStage, RouteToWait, RouteToOwner, IsReady
<1> QED
  BY <1>1, <1>2, <1>3, <1>4, <1>5, <1>7, <1>8 DEF Next

\* What complete Ready evidence means.
LEMMA ReadyEvidence ==
    ASSUME NEW c, NEW r, ReadyUnmet(c, r) = {}
    PROVE  /\ c # None /\ c.ref.kind = "PRD" /\ Verified(c.ref)
           /\ r # None /\ r.settled
           /\ c.ref.record = recordFile
           /\ decisionRef # None /\ decision # None
           /\ c.ref.basis.decision = decision
           /\ intent = "COMMIT_NOW" => stage4 = c.ref.record
           /\ "STAGE4_RECORD_REF_STALE" \notin ReadyUnmet(c, r)
<1>1. c # None /\ c.ref.kind = "PRD"
  BY DEF ReadyUnmet
<1>2. Verified(c.ref)
  BY <1>1 DEF ReadyUnmet, UnmetReasons
<1>3. r # None /\ r.settled
  BY <1>1 DEF ReadyUnmet, UnmetReasons
<1>4. c.ref.record = recordFile
  BY <1>1 DEF ReadyUnmet, UnmetReasons
<1>5. decisionRef # None
  BY <1>1 DEF ReadyUnmet, UnmetReasons
<1>6. decision # None /\ c.ref.basis.decision = decision
  BY <1>1 DEF ReadyUnmet, UnmetReasons
<1>7. ASSUME intent = "COMMIT_NOW" PROVE stage4 = c.ref.record
  <2>1. stage4 # None
    BY <1>1, <1>2, <1>6, <1>7 DEF ReadyUnmet, UnmetReasons
  <2> QED
    BY <2>1, <1>1, <1>2, <1>6, <1>7 DEF ReadyUnmet, UnmetReasons
<1> QED
  BY <1>1, <1>2, <1>3, <1>4, <1>5, <1>6, <1>7

\* The Review that makes a Run Ready makes it exact.
LEMMA ReadyIsEnteredExact ==
    ASSUME TypeInv, FrozenCandidateUndisturbed, HistoryInv, HistoryInv',
           NEW settled \in BOOLEAN, PassPRD(settled),
           ReadyUnmet(candidate, ReviewOf("PASS", settled)) = {}
    PROVE  ReadyInv'
<1> DEFINE r == ReviewOf("PASS", settled)
<1>1. /\ ReviewCandidate(r) /\ candidate.ref.kind = "PRD"
      /\ UNCHANGED <<decisionRef, decisionReview>>
  BY DEF PassPRD
<1>2. candidate \in Candidates /\ candidate # None /\ r \in Reviews
  BY <1>1, ReviewTyped DEF Verdicts, ReviewCandidate, Reviewable
<1>3. /\ r.candidate = candidate.ref /\ r.verdict = "PASS" /\ r.settled = settled
  BY DEF ReviewOf
<1>4. /\ Verified(candidate.ref) /\ settled
      /\ candidate.ref.record = recordFile
      /\ decisionRef # None /\ decision # None
      /\ candidate.ref.basis.decision = decision
      /\ intent = "COMMIT_NOW" => stage4 = candidate.ref.record
      /\ "STAGE4_RECORD_REF_STALE" \notin ReadyUnmet(candidate, r)
  BY <1>3, ReadyEvidence
<1>5. /\ candidate' = [candidate EXCEPT !.status = "REVIEWED_PASS"]
      /\ ready' = [status |-> "READY", unmet |-> {}, candidate |-> candidate.ref]
      /\ position' = "READY"
  BY <1>4 DEF PassPRD
<1>6. /\ candidate'.ref = candidate.ref /\ candidate'.status = "REVIEWED_PASS"
      /\ candidate' \in Candidates
  BY <1>2, <1>5, CandidateRestated DEF CandidateStatuses
<1>7. candidate' # None
  BY <1>6, NoneAssumption
<1>8. recordRef = recordFile
  BY <1>1 DEF ReviewCandidate, Reviewable, FrozenCandidateUndisturbed, IsFrozen
<1>9. decision.outcome = intent
  BY <1>1, <1>4 DEF Verified, HistoryInv
<1>10. UNCHANGED <<decision, intent, stage4, recordRef, recordFile>>
  BY <1>1 DEF ReviewCandidate
<1>11. r \in reviews'
  BY <1>1 DEF ReviewCandidate, RecordReview
<1>12. PassedBy(decisionRef, reviews)'
  BY <1>1, <1>4 DEF HistoryInv
<1> HIDE DEF r
<1> QED
  BY <1>1, <1>3, <1>4, <1>5, <1>6, <1>7, <1>8, <1>9, <1>10, <1>11, <1>12
     DEF ReadyInv, ReadyIsExact, IsCurrent

LEMMA ReadyKept ==
    ASSUME ReadyInv, IsReady, KeepsDelivery
    PROVE  ReadyInv'
BY DEF ReadyInv, ReadyIsExact, IsReady, KeepsDelivery, judged, decided, IsCurrent,
       PassedBy

LEMMA ReadyStep ==
    ASSUME TypeInv, FrozenCandidateUndisturbed, HistoryInv, HistoryInv', ReadyInv,
           [Next]_vars
    PROVE  ReadyInv'
<1>1. CASE IsReady
  BY <1>1, DeliveryKept, ReadyKept
<1>2. CASE ~IsReady /\ IsReady'
  BY <1>2, ReadyEntered, ReadyIsEnteredExact
<1>3. CASE ~IsReady'
  BY <1>3 DEF ReadyInv, ReadyIsExact, IsReady
<1> QED
  BY <1>1, <1>2, <1>3

LEMMA ReadyInvariance == Spec => []ReadyInv
<1>1. Init => ReadyInv
  BY DEF Init, ReadyInv, ReadyIsExact, IsReady
<1>2. TypeInv /\ FrozenCandidateUndisturbed /\ HistoryInv /\ HistoryInv' /\ ReadyInv
        /\ [Next]_vars => ReadyInv'
  BY ReadyStep
<1> QED
  BY <1>1, <1>2, TypeInvariance, FrozenIsUndisturbed, HistoryInvariance, PTL DEF Spec

\* A Ready or delivered Run is exact, in every Run.
THEOREM ReadyIsAlwaysExact == Spec => []ReadyIsExact
BY ReadyInvariance, PTL DEF ReadyInv

\* Nothing but the handoff and the retrospective ever follows Ready.
THEOREM HandoffFollowsReady == Spec => OnlyHandoffFollowsReady
<1>1. TypeInv /\ ReadyInv /\ [Next]_vars =>
        [(status \in {"READY", "LOCAL_HANDOFF_COMPLETE"}) => KeepsDelivery]_vars
  BY DeliveryKept DEF IsReady
<1> QED
  BY <1>1, TypeInvariance, ReadyInvariance, PTL DEF Spec, OnlyHandoffFollowsReady

\* Outside the delivery operations the handoff is not touched.
LEMMA HandoffUntouched ==
    ASSUME [Next]_vars, ~Deliver
    PROVE  /\ UNCHANGED <<handoffDir, handoff>>
           /\ status' = "LOCAL_HANDOFF_COMPLETE" => status = "LOCAL_HANDOFF_COMPLETE"
<1> USE DEF runJson, progress, delivered, files
<1>1. CASE Start
  BY <1>1 DEF Start, StartRun, StartRunInterrupted, OperateOnAbsentRun, Interrupted
<1>2. CASE Author
  BY <1>2 DEF Author, ReplaceRecord, RemoveSections, ReplaceRecordInterrupted,
              Interrupted, FreezeCandidate
<1>3. CASE Judge
  BY <1>3 DEF Judge, PassRecordCandidate, PassPRD, RejectCandidate, ReviewCandidate,
              ReviewInterrupted, Interrupted, RouteToStage, RouteToWait,
              RouteToOwner, RouteReview
<1>4. CASE Decide
  BY <1>4 DEF Decide, ChangeCognition, OwnerStops, OwnerDefers, OwnerEnds,
              OwnerExperiments, OwnerCommits, OwnerWaits, OwnerResearches,
              AgentCommits, CommitNow, AgentEscalates, Accept
<1>5. CASE PauseOrResume
  BY <1>5 DEF PauseOrResume, PauseRun, ResumePaused, ResumeOnTrigger
<1>6. CASE UNCHANGED vars
  BY <1>6 DEF vars
<1> QED
  BY <1>1, <1>2, <1>3, <1>4, <1>5, <1>6 DEF Next

LEMMA HandoffStep ==
    ASSUME TypeInv, ReadyInv, PublishedHandoffRecoverable, [Next]_vars
    PROVE  PublishedHandoffRecoverable'
<1> USE DEF PublishedHandoffRecoverable
<1>1. CASE Deliver
  <2> USE DEF HandoffOf, HandoffAllowed, judged, delivered, progress, runJson
  <2>1. ASSUME NEW options \in Deliveries, PrepareLocalHandoff(options)
        PROVE  PublishedHandoffRecoverable'
    BY <2>1 DEF PrepareLocalHandoff
  <2>2. ASSUME NEW options \in Deliveries, HandoffInterrupted(options)
        PROVE  PublishedHandoffRecoverable'
    BY <2>2 DEF HandoffInterrupted, Interrupted
  <2>3. ASSUME NEW result, RecordRetrospective(result)
        PROVE  PublishedHandoffRecoverable'
    BY <2>3 DEF RecordRetrospective
  <2>4. CASE RetrospectiveInterrupted
    BY <2>4 DEF RetrospectiveInterrupted, Interrupted
  <2> QED
    BY <1>1, <2>1, <2>2, <2>3, <2>4 DEF Deliver
<1>2. CASE ~Deliver /\ handoffDir # None
  <2>1. IsReady
    BY <1>2 DEF IsReady
  <2>2. KeepsDelivery
    BY <2>1, DeliveryKept
  <2> QED
    BY <1>2, <2>1, <2>2, HandoffUntouched DEF KeepsDelivery, judged
<1>3. CASE ~Deliver /\ handoffDir = None
  BY <1>3, HandoffUntouched
<1> QED
  BY <1>1, <1>2, <1>3

\* A published handoff directory is never orphaned, whenever a crash falls.
THEOREM HandoffIsRecoverable == Spec => []PublishedHandoffRecoverable
<1>1. Init => PublishedHandoffRecoverable
  BY DEF Init, PublishedHandoffRecoverable
<1>2. TypeInv /\ ReadyInv /\ PublishedHandoffRecoverable /\ [Next]_vars =>
        PublishedHandoffRecoverable'
  BY HandoffStep
<1> QED
  BY <1>1, <1>2, TypeInvariance, ReadyInvariance, PTL DEF Spec


----------------------------------------------------------------------------
(* Candidates and their Reviews: lineage, one Review per version, and      *)
(* candidate_required                                                      *)

ReviewInv == RevisionLineage /\ OneReviewPerVersion /\ NewCandidateRequired

reviewed == <<candidate, candidateRequired, reviews, currentReview, reviewFiles>>

LEMMA ReviewUnchanged == ASSUME ReviewInv, UNCHANGED reviewed PROVE ReviewInv'
BY DEF ReviewInv, reviewed, RevisionLineage, OneReviewPerVersion, NewCandidateRequired

\* The Candidate is given another status, or is none; the Reviews only grow.
LEMMA LineageKept ==
    ASSUME TypeInv, RevisionLineage, candidate # None, NEW s \in CandidateStatuses,
           candidate' = [candidate EXCEPT !.status = s], reviews \subseteq reviews'
    PROVE  RevisionLineage' /\ candidate' # None /\ candidate'.status = s
<1>1. candidate \in Candidates
  BY DEF TypeInv, TypeOK
<1>2. candidate' \in Candidates
  BY <1>1, CandidateRestated
<1> QED
  BY <1>1, <1>2, CandidateRestated, NoneAssumption DEF RevisionLineage

\* A Candidate becomes stale with candidate_required.
LEMMA ReviewStale ==
    ASSUME TypeInv, ReviewInv, candidate' = Stale(candidate), candidateRequired' = TRUE,
           UNCHANGED <<reviews, currentReview, reviewFiles>>
    PROVE  ReviewInv'
<1>1. OneReviewPerVersion'
  BY DEF ReviewInv, OneReviewPerVersion
<1>2. CASE candidate = None
  BY <1>1, <1>2 DEF Stale, ReviewInv, RevisionLineage, NewCandidateRequired
<1>3. CASE candidate # None
  <2>1. RevisionLineage' /\ candidate'.status = "STALE"
    BY <1>3, LineageKept DEF Stale, ReviewInv, CandidateStatuses
  <2> QED
    BY <1>1, <2>1 DEF ReviewInv, NewCandidateRequired
<1> QED
  BY <1>2, <1>3

LEMMA NoneRef ==
    ASSUME NEW c \in Candidates PROVE c.ref # None
BY CandidateFields, NoneAssumption

LEMMA ReviewFrozen ==
    ASSUME TypeInv, ReviewInv, NEW kind \in Kinds, FreezeCandidate(kind)
    PROVE  ReviewInv'
<1>1. /\ candidate'.ref.version = candidate'.round + 1 /\ candidate'.status = "FROZEN"
      /\ candidate'.ref.kind = kind
  BY FrozenCandidateTyped
<1>2. /\ candidate'.round = NextRound(kind) /\ candidate'.supersedes = Supersedes(kind)
      /\ candidate'.ref.version = NextVersion(kind)
      /\ ReviewedBefore(Supersedes(kind)) /\ candidateRequired' = FALSE
      /\ UNCHANGED <<reviews, currentReview, reviewFiles>>
  BY DEF FreezeCandidate, MayFreeze, files
<1>3. CASE IsCurrent(kind)
  <2>1. candidate.ref.kind = kind /\ candidate.ref # None
    BY <1>3, NoneRef DEF IsCurrent, TypeInv, TypeOK
  <2>2. /\ candidate'.supersedes = candidate.ref
        /\ candidate'.ref.version = candidate.ref.version + 1
        /\ candidate'.round = candidate.round + 1
        /\ \E r \in reviews : r.candidate = candidate.ref
    BY <1>2, <1>3, <2>1 DEF Supersedes, NextRound, NextVersion, ReviewedBefore
  <2>3. candidate'.round # 0
    BY <1>3, <2>2, CandidateFields DEF IsCurrent, TypeInv, TypeOK
  <2> QED
    BY <1>1, <1>2, <2>1, <2>2, <2>3
       DEF ReviewInv, RevisionLineage, OneReviewPerVersion, NewCandidateRequired
<1>4. CASE ~IsCurrent(kind)
  BY <1>1, <1>2, <1>4 DEF Supersedes, NextRound, ReviewInv, RevisionLineage,
                          OneReviewPerVersion, NewCandidateRequired
<1> QED
  BY <1>3, <1>4

\* A submitted Review is the first of its version and says of the Candidate
\* what candidate_required says.
LEMMA ReviewSubmitted ==
    ASSUME TypeInv, ReviewInv, NEW verdict \in Verdicts, NEW settled \in BOOLEAN,
           ReviewCandidate(ReviewOf(verdict, settled)),
           NEW s \in CandidateStatuses,
           candidate' = [candidate EXCEPT !.status = s],
           candidateRequired' = (s \notin {"FROZEN", "REVIEWED_PASS"})
    PROVE  ReviewInv'
<1> DEFINE r == ReviewOf(verdict, settled)
<1>1. /\ candidate # None /\ ReviewId(candidate.ref) \notin reviewFiles
      /\ reviews' = reviews \cup {r} /\ currentReview' = r
      /\ reviewFiles' = reviewFiles \cup {ReviewId(candidate.ref)}
      /\ r.candidate = candidate.ref
  BY DEF ReviewCandidate, Reviewable, RecordReview, ReviewOf
<1>2. RevisionLineage' /\ candidate'.status = s
  BY <1>1, LineageKept DEF ReviewInv
<1> HIDE DEF r
<1>3. OneReviewPerVersion'
  BY <1>1 DEF ReviewInv, OneReviewPerVersion
<1> QED
  BY <1>2, <1>3 DEF ReviewInv, NewCandidateRequired

LEMMA ReviewAuthor == ASSUME TypeInv, ReviewInv, Author PROVE ReviewInv'
<1>1. ASSUME NEW r \in Records, NEW next \in Positions, NEW d \in BOOLEAN,
             ReplaceRecord(r, next, d)
      PROVE  ReviewInv'
  BY <1>1, ReviewUnchanged DEF ReplaceRecord, judged, reviewed
<1>2. ASSUME NEW r \in Records, NEW target \in Positions, NEW d \in BOOLEAN,
             RemoveSections(r, target, d)
      PROVE  ReviewInv'
  BY <1>2, ReviewStale DEF RemoveSections
<1>3. ASSUME NEW r \in Records, ReplaceRecordInterrupted(r)
      PROVE  ReviewInv'
  BY <1>3, ReviewUnchanged DEF ReplaceRecordInterrupted, Interrupted, runJson, judged, reviewed
<1>4. ASSUME NEW kind \in Kinds, FreezeCandidate(kind)
      PROVE  ReviewInv'
  BY <1>4, ReviewFrozen
<1> QED
  BY <1>1, <1>2, <1>3, <1>4 DEF Author

LEMMA ReviewJudge == ASSUME TypeInv, ReviewInv, Judge PROVE ReviewInv'
<1>1. ReviewCandidate(ReviewOf("PASS", TRUE)) \/ ReviewCandidate(ReviewOf("PASS", FALSE)) =>
        ~candidateRequired
  BY DEF ReviewCandidate, Reviewable, ReviewInv, NewCandidateRequired, TypeInv, TypeOK
<1>2. "PASS" \in Verdicts /\ {"REVIEWED_PASS", "STALE"} \subseteq CandidateStatuses
  BY DEF Verdicts, CandidateStatuses
<1>3. ASSUME NEW settled \in BOOLEAN, PassRecordCandidate(settled)
      PROVE  ReviewInv'
  <2>1. /\ ReviewCandidate(ReviewOf("PASS", settled))
        /\ candidate' = [candidate EXCEPT !.status = "REVIEWED_PASS"]
        /\ candidateRequired' = candidateRequired
    BY <1>3 DEF PassRecordCandidate
  <2>2. candidateRequired' = ("REVIEWED_PASS" \notin {"FROZEN", "REVIEWED_PASS"})
    <3>1. candidateRequired = FALSE
      BY <1>1, <2>1 DEF TypeInv, TypeOK
    <3> QED
      BY <2>1, <3>1
  <2> QED
    BY <1>2, <2>1, <2>2, ReviewSubmitted
<1>4. ASSUME NEW settled \in BOOLEAN, PassPRD(settled)
      PROVE  ReviewInv'
  <2> DEFINE stale == "STAGE4_RECORD_REF_STALE" \in ReadyUnmet(candidate, ReviewOf("PASS", settled))
  <2> DEFINE s == IF stale THEN "STALE" ELSE "REVIEWED_PASS"
  <2>1. /\ ReviewCandidate(ReviewOf("PASS", settled))
        /\ candidate' = [candidate EXCEPT !.status = s]
        /\ candidateRequired' = (stale \/ candidateRequired)
    BY <1>4 DEF PassPRD
  <2>2. ~candidateRequired
    BY <1>1, <2>1
  <2>3. s \in CandidateStatuses
    BY <1>2
  <2>4. candidateRequired' = (s \notin {"FROZEN", "REVIEWED_PASS"})
    BY <2>1, <2>2
  <2> HIDE DEF s
  <2> QED
    BY <1>2, <2>1, <2>3, <2>4, ReviewSubmitted
<1>5. ASSUME NEW verdict \in Verdicts, RejectCandidate(verdict)
      PROVE  ReviewInv'
  <2>1. ReviewedAs[verdict] \in CandidateStatuses \ {"FROZEN", "REVIEWED_PASS"}
    BY <1>5 DEF RejectCandidate, ReviewedAs, Verdicts, CandidateStatuses
  <2> QED
    BY <1>5, <2>1, ReviewSubmitted DEF RejectCandidate
<1>6. CASE ReviewInterrupted
  <2>1. UNCHANGED <<candidate, candidateRequired, reviews, currentReview>>
        /\ reviewFiles \subseteq reviewFiles'
    BY <1>6 DEF ReviewInterrupted, Interrupted, runJson, judged
  <2> QED
    BY <2>1 DEF ReviewInv, RevisionLineage, OneReviewPerVersion, NewCandidateRequired
<1>7. ASSUME NEW target, RouteReview(target)
      PROVE  ReviewInv'
  BY <1>7, ReviewUnchanged DEF RouteReview, files, reviewed
<1> QED
  BY <1>3, <1>4, <1>5, <1>6, <1>7 DEF Judge, RouteToStage, RouteToWait, RouteToOwner

LEMMA ReviewDecide == ASSUME TypeInv, ReviewInv, Decide PROVE ReviewInv'
<1>1. ASSUME NEW target \in EarlyStages, ChangeCognition(target)
      PROVE  ReviewInv'
  BY <1>1, ReviewStale DEF ChangeCognition, files
<1>2. ASSUME NEW outcome, NEW source, DecisionRoutable, Accept(outcome, source)
      PROVE  ReviewInv'
  <2>1. candidate.status = "REVIEWED_PASS" /\ candidate # None
    BY <1>2, RoutableCandidate
  <2>2. candidateRequired' = FALSE
        /\ UNCHANGED <<candidate, reviews, currentReview, reviewFiles>>
    BY <1>2 DEF Accept, files
  <2> QED
    BY <2>1, <2>2 DEF ReviewInv, RevisionLineage, OneReviewPerVersion, NewCandidateRequired
<1>3. CASE OwnerStops \/ OwnerDefers \/ OwnerExperiments \/ OwnerCommits
  BY <1>2, <1>3 DEF OwnerStops, OwnerDefers, OwnerEnds, OwnerExperiments, OwnerCommits, CommitNow
<1>4. ASSUME NEW w, OwnerWaits(w) \/ OwnerResearches(w) PROVE ReviewInv'
  BY <1>2, <1>4 DEF OwnerWaits, OwnerResearches
<1>5. ASSUME NEW assessed, AgentCommits(assessed) PROVE ReviewInv'
  BY <1>2, <1>5 DEF AgentCommits, CommitNow
<1>6. ASSUME NEW assessed, AgentEscalates(assessed) PROVE ReviewInv'
  BY <1>6, ReviewUnchanged DEF AgentEscalates, judged, files, reviewed
<1> QED
  BY <1>1, <1>3, <1>4, <1>5, <1>6 DEF Decide

LEMMA ReviewInvariance == Spec => []ReviewInv
<1>1. Init => ReviewInv
  BY DEF Init, ReviewInv, RevisionLineage, OneReviewPerVersion, NewCandidateRequired
<1>2. ASSUME TypeInv, ReviewInv, [Next]_vars PROVE ReviewInv'
  <2>1. CASE Start
    BY <1>2, <2>1, ReviewUnchanged DEF Start, StartRun, StartRunInterrupted, OperateOnAbsentRun,
                                 Interrupted, runJson, judged, reviewed
  <2>2. CASE PauseOrResume
    BY <1>2, <2>2, ReviewUnchanged DEF PauseOrResume, PauseRun, ResumePaused, ResumeOnTrigger,
                                 judged, files, reviewed
  <2>3. CASE Deliver
    BY <1>2, <2>3, ReviewUnchanged DEF Deliver, PrepareLocalHandoff, HandoffInterrupted,
         RecordRetrospective, RetrospectiveInterrupted, Interrupted, runJson, judged, reviewed
  <2>4. CASE UNCHANGED vars
    BY <1>2, <2>4, ReviewUnchanged DEF vars, runJson, judged, files, reviewed
  <2> QED
    BY <1>2, <2>1, <2>2, <2>3, <2>4, ReviewAuthor, ReviewJudge, ReviewDecide DEF Next
<1> QED
  BY <1>1, <1>2, TypeInvariance, PTL DEF Spec

\* A revised Candidate follows the reviewed Candidate before it, for any
\* number of rounds.
THEOREM LineageIsKept == Spec => []RevisionLineage
BY ReviewInvariance, PTL DEF ReviewInv

\* A Candidate version never has two Reviews, also when one was interrupted.
THEOREM ReviewsAreUnique == Spec => []OneReviewPerVersion
BY ReviewInvariance, PTL DEF ReviewInv

\* candidate_required is exact whatever rejected or staled the Candidate.
THEOREM RequiredIsExact == Spec => []NewCandidateRequired
BY ReviewInvariance, PTL DEF ReviewInv

----------------------------------------------------------------------------
(* Dead ends: what every Candidate and decision rests on *)

\* A Candidate that is no longer frozen has its Review, so has the one it
\* supersedes, and an accepted decision still names its Candidate and Review: the
\* basis freeze_candidate and submit_review check is never the reason a Run stops.
BasisInv ==
    /\ candidate # None /\ ~IsFrozen => ReviewedBefore(candidate.ref)
    /\ candidate # None => ReviewedBefore(candidate.supersedes)
    /\ IsCurrent("DECISION") /\ candidate.status = "REVIEWED_PASS" =>
         decisionReview # None
    /\ decision # None => decisionRef # None /\ decisionReview # None

\* The parts of the state BasisInv reads.
based == <<candidate, reviews, decision, decisionRef, decisionReview>>

LEMMA BasisUnchanged ==
    ASSUME BasisInv, UNCHANGED based
    PROVE  BasisInv'
BY DEF BasisInv, based, IsFrozen, IsCurrent, ReviewedBefore

LEMMA ReviewedStays ==
    ASSUME NEW ref, ReviewedBefore(ref), reviews \subseteq reviews'
    PROVE  ReviewedBefore(ref)'
BY DEF ReviewedBefore

\* A stale Candidate was not frozen: sections are removed, and cognition is
\* changed, only where no Candidate waits for its Review.
LEMMA BasisStale ==
    ASSUME TypeInv, BasisInv, ~IsFrozen, candidate' = Stale(candidate),
           UNCHANGED <<reviews, decision, decisionRef, decisionReview>>
    PROVE  BasisInv'
<1>1. CASE candidate = None
  BY <1>1 DEF Stale, BasisInv, IsCurrent
<1>2. CASE candidate # None
  <2>1. candidate'.ref = candidate.ref /\ candidate'.supersedes = candidate.supersedes
        /\ candidate'.status = "STALE"
    BY <1>2, CandidateRestated DEF Stale, TypeInv, TypeOK, CandidateStatuses
  <2>2. ReviewedBefore(candidate.ref)' /\ ReviewedBefore(candidate.supersedes)'
    BY <1>2, <2>1 DEF BasisInv, ReviewedBefore
  <2> QED
    BY <2>1, <2>2 DEF BasisInv
<1> QED
  BY <1>1, <1>2

LEMMA BasisAuthor ==
    ASSUME TypeInv, FrozenCandidateUndisturbed, BasisInv, Author
    PROVE  BasisInv'
<1>1. ASSUME NEW r \in Records, NEW next \in Positions, NEW d \in BOOLEAN,
             ReplaceRecord(r, next, d)
      PROVE  BasisInv'
  BY <1>1, BasisUnchanged DEF ReplaceRecord, judged, based
<1>2. ASSUME NEW r \in Records, NEW target \in Positions, NEW d \in BOOLEAN,
             RemoveSections(r, target, d)
      PROVE  BasisInv'
  <2>1. ~IsFrozen
    BY <1>2, FrozenPosition DEF RemoveSections, RecordReplaceable
  <2> QED
    BY <1>2, <2>1, BasisStale DEF RemoveSections
<1>3. ASSUME NEW r \in Records, ReplaceRecordInterrupted(r)
      PROVE  BasisInv'
  BY <1>3, BasisUnchanged
     DEF ReplaceRecordInterrupted, Interrupted, runJson, judged, decided, based
<1>4. ASSUME NEW kind \in Kinds, FreezeCandidate(kind)
      PROVE  BasisInv'
  <2>1. candidate'.status = "FROZEN"
    BY <1>4, FrozenCandidateTyped
  <2>2. candidate'.supersedes = Supersedes(kind) /\ ReviewedBefore(Supersedes(kind))
    BY <1>4 DEF FreezeCandidate, MayFreeze
  <2>3. UNCHANGED <<reviews, decision, decisionRef, decisionReview>>
    BY <1>4 DEF FreezeCandidate, decided
  <2>4. ReviewedBefore(candidate.supersedes)'
    BY <2>2, <2>3 DEF ReviewedBefore
  <2> QED
    BY <2>1, <2>3, <2>4 DEF BasisInv, IsFrozen
<1> QED
  BY <1>1, <1>2, <1>3, <1>4 DEF Author

\* A Review gives the Candidate another status and adds to the Reviews.
LEMMA BasisReviewed ==
    ASSUME TypeInv, BasisInv, NEW verdict \in Verdicts, NEW settled \in BOOLEAN,
           ReviewCandidate(ReviewOf(verdict, settled)),
           NEW s \in CandidateStatuses \ {"FROZEN"},
           candidate' = [candidate EXCEPT !.status = s],
           \/ UNCHANGED <<decisionRef, decisionReview>>
           \/ decisionRef' = candidate.ref /\ decisionReview' = candidate.ref,
           candidate.ref.kind = "DECISION" /\ s = "REVIEWED_PASS" =>
             decisionReview' = candidate.ref
    PROVE  BasisInv'
<1>1. candidate \in Candidates /\ candidate # None /\ Verified(candidate.ref)
  BY ReviewTyped DEF ReviewCandidate, Reviewable
<1>2. /\ candidate'.ref = candidate.ref /\ candidate'.supersedes = candidate.supersedes
      /\ candidate'.status = s
  BY <1>1, CandidateRestated
<1>3. reviews' = reviews \cup {ReviewOf(verdict, settled)} /\ decision' = decision
  BY DEF ReviewCandidate, RecordReview
<1>4. ReviewedBefore(candidate.ref)'
  BY <1>1, <1>2, <1>3 DEF ReviewedBefore, ReviewOf, Verified
<1>5. ReviewedBefore(candidate.supersedes)'
  BY <1>1, <1>2, <1>3 DEF BasisInv, ReviewedBefore
<1>6. candidate.ref # None
  BY <1>1, NoneRef
<1>7. (IsCurrent("DECISION") /\ candidate.status = "REVIEWED_PASS" => decisionReview # None)'
  BY <1>2, <1>6 DEF IsCurrent
<1>8. (decision # None => decisionRef # None /\ decisionReview # None)'
  BY <1>3, <1>6 DEF BasisInv
<1> QED
  BY <1>4, <1>5, <1>7, <1>8 DEF BasisInv

LEMMA BasisJudge ==
    ASSUME TypeInv, BasisInv, Judge
    PROVE  BasisInv'
<1> USE DEF Verdicts, CandidateStatuses
<1>1. ASSUME NEW settled \in BOOLEAN, PassRecordCandidate(settled)
      PROVE  BasisInv'
  <2>1. /\ ReviewCandidate(ReviewOf("PASS", settled))
        /\ candidate' = [candidate EXCEPT !.status = "REVIEWED_PASS"]
    BY <1>1 DEF PassRecordCandidate
  <2>2. \/ candidate.ref.kind # "DECISION" /\ UNCHANGED <<decisionRef, decisionReview>>
        \/ decisionRef' = candidate.ref /\ decisionReview' = candidate.ref
    BY <1>1 DEF PassRecordCandidate
  <2> QED
    BY <2>1, <2>2, BasisReviewed
<1>2. ASSUME NEW settled \in BOOLEAN, PassPRD(settled)
      PROVE  BasisInv'
  <2>1. PICK s \in {"STALE", "REVIEWED_PASS"} :
          candidate' = [candidate EXCEPT !.status = s]
    BY <1>2 DEF PassPRD
  <2>2. /\ ReviewCandidate(ReviewOf("PASS", settled)) /\ candidate.ref.kind = "PRD"
        /\ UNCHANGED <<decisionRef, decisionReview>>
    BY <1>2 DEF PassPRD
  <2> QED
    BY <2>1, <2>2, BasisReviewed
<1>3. ASSUME NEW verdict \in Verdicts, RejectCandidate(verdict)
      PROVE  BasisInv'
  <2>1. ReviewedAs[verdict] \in CandidateStatuses \ {"FROZEN", "REVIEWED_PASS"}
    BY <1>3 DEF RejectCandidate, ReviewedAs
  <2>2. /\ ReviewCandidate(ReviewOf(verdict, FALSE))
        /\ candidate' = [candidate EXCEPT !.status = ReviewedAs[verdict]]
        /\ UNCHANGED <<decisionRef, decisionReview>>
    BY <1>3 DEF RejectCandidate
  <2> QED
    BY <2>1, <2>2, BasisReviewed
<1>4. CASE ReviewInterrupted
  BY <1>4, BasisUnchanged
     DEF ReviewInterrupted, Interrupted, runJson, judged, decided, based
<1>5. ASSUME NEW target, RouteReview(target)
      PROVE  BasisInv'
  BY <1>5, BasisUnchanged DEF RouteReview, decided, based
<1> QED
  BY <1>1, <1>2, <1>3, <1>4, <1>5 DEF Judge, RouteToStage, RouteToWait, RouteToOwner

LEMMA BasisDecide ==
    ASSUME TypeInv, BasisInv, Decide
    PROVE  BasisInv'
<1>1. ASSUME NEW target \in EarlyStages, ChangeCognition(target)
      PROVE  BasisInv'
  <2>1. ~IsFrozen
    BY <1>1 DEF ChangeCognition, DecisionRoutable, IsFrozen
  <2> QED
    BY <1>1, <2>1, BasisStale DEF ChangeCognition, decided
<1>2. ASSUME NEW outcome, NEW source, DecisionRoutable, Accept(outcome, source)
      PROVE  BasisInv'
  <2>1. candidate.ref # None /\ decisionReview # None
    BY <1>2, RoutableCandidate, NoneRef DEF BasisInv, DecisionRoutable
  <2>2. decisionRef' = candidate.ref /\ UNCHANGED <<candidate, reviews, decisionReview>>
    BY <1>2 DEF Accept
  <2> QED
    BY <2>1, <2>2 DEF BasisInv, IsFrozen, IsCurrent, ReviewedBefore
<1>3. CASE OwnerStops \/ OwnerDefers \/ OwnerExperiments \/ OwnerCommits
  BY <1>2, <1>3 DEF OwnerStops, OwnerDefers, OwnerEnds, OwnerExperiments, OwnerCommits, CommitNow
<1>4. ASSUME NEW w, OwnerWaits(w) \/ OwnerResearches(w) PROVE BasisInv'
  BY <1>2, <1>4 DEF OwnerWaits, OwnerResearches
<1>5. ASSUME NEW assessed, AgentCommits(assessed) PROVE BasisInv'
  BY <1>2, <1>5 DEF AgentCommits, CommitNow
<1>6. ASSUME NEW assessed, AgentEscalates(assessed) PROVE BasisInv'
  BY <1>6, BasisUnchanged DEF AgentEscalates, judged, decided, based
<1> QED
  BY <1>1, <1>3, <1>4, <1>5, <1>6 DEF Decide

LEMMA BasisInvariance == Spec => []BasisInv
<1>1. Init => BasisInv
  BY DEF Init, BasisInv, IsCurrent
<1>2. ASSUME TypeInv, FrozenCandidateUndisturbed, BasisInv, [Next]_vars
      PROVE  BasisInv'
  <2> USE BasisUnchanged DEF judged, decided, based
  <2>1. CASE Start
    BY <1>2, <2>1 DEF Start, StartRun, StartRunInterrupted, OperateOnAbsentRun,
                      Interrupted, runJson
  <2>2. CASE PauseOrResume
    BY <1>2, <2>2 DEF PauseOrResume, PauseRun, ResumePaused, ResumeOnTrigger
  <2>3. CASE Deliver
    BY <1>2, <2>3 DEF Deliver, PrepareLocalHandoff, HandoffInterrupted,
                      RecordRetrospective, RetrospectiveInterrupted, Interrupted, runJson
  <2>4. CASE UNCHANGED vars
    BY <1>2, <2>4 DEF vars, runJson
  <2> QED
    BY <1>2, <2>1, <2>2, <2>3, <2>4, BasisAuthor, BasisJudge, BasisDecide DEF Next
<1> QED
  BY <1>1, <1>2, TypeInvariance, FrozenIsUndisturbed, PTL DEF Spec

----------------------------------------------------------------------------
(* Dead ends: where a Run stands *)

\* What the routing positions mean: at REVIEW_ROUTE there is a non-PASS Review of
\* the current Candidate to route, at DECISION_ROUTE a passed Decision to route or
\* a condition waited for, and OWNER is left by nothing.
RoutingInv ==
    /\ status = "REVIEW_ROUTE_REQUIRED" <=> position = "REVIEW_ROUTE"
    /\ position = "REVIEW_ROUTE" =>
         /\ candidate # None /\ currentReview # None
         /\ currentReview.verdict # "PASS"
         /\ currentReview.candidate = candidate.ref
    /\ position = "DECISION_ROUTE" => DecisionRoutable \/ status = "WAITING_TRIGGER"
    /\ status \in {"COMPLETED_STOP", "COMPLETED_FUTURE_ROADMAP", "OWNER_CHOICE_REQUIRED"} =>
         position = "DECISION_ROUTE"
    /\ position = "OWNER" => status = "OWNER_ACTION_REQUIRED"

\* A Review stage whose Candidate has been reviewed.
ReviewedHere(where) ==
    /\ ~IsFrozen
    /\ \/ where \in {"PROBLEM_REVIEW", "DECISION_REVIEW"}
       \/ where = "PRD_REVIEW" /\ ready.status = "NOT_READY"

\* A resume leads back to where the Run stands, or to the stage of a Review that
\* was submitted while it was paused.
PlaceInv ==
    /\ position = "PRD_REVIEW" => IsFrozen \/ ready.status = "NOT_READY"
    /\ status = "PAUSED" => resumePosition = position \/ ReviewedHere(resumePosition)
    /\ position = "READY" => IsReady

RouteInv == RoutingInv /\ PlaceInv

\* The parts of the state RouteInv reads.
places == <<status, position, resumePosition, candidate, currentReview, ready>>

LEMMA RouteUnchanged ==
    ASSUME RouteInv, UNCHANGED places
    PROVE  RouteInv'
BY DEF RouteInv, RoutingInv, PlaceInv, ReviewedHere, IsFrozen, IsReady, places,
       DecisionRoutable, IsCurrent

LEMMA RecordStages ==
    /\ ReviewStages = RecordPositions /\ EarlyStages \subseteq RecordPositions
    /\ RecordPositions \cap {"REVIEW_ROUTE", "DECISION_ROUTE", "OWNER", "READY",
         "PROBLEM_REVIEW", "DECISION_REVIEW", "PRD_REVIEW"} = {}
    /\ \A advance \in RecordAdvances : advance[2] \in RecordPositions
    /\ \A return \in RemovalReturns : return[2] \in RecordPositions
BY DEF ReviewStages, RecordPositions, EarlyStages, RecordAdvances, RemovalReturns

\* A Run that is active at a stage of its record.
LEMMA AtRecordStage ==
    ASSUME status' = "ACTIVE", position' \in RecordPositions
    PROVE  RouteInv'
BY RecordStages DEF RouteInv, RoutingInv, PlaceInv

LEMMA AtDecisionRoute ==
    ASSUME position' = "DECISION_ROUTE", DecisionRoutable',
           status' \notin {"PAUSED", "REVIEW_ROUTE_REQUIRED"}
    PROVE  RouteInv'
BY DEF RouteInv, RoutingInv, PlaceInv

LEMMA AtReady ==
    ASSUME position' = "READY", IsReady'
    PROVE  RouteInv'
BY DEF RouteInv, RoutingInv, PlaceInv, IsReady

LEMMA RouteAuthor ==
    ASSUME TypeInv, RouteInv, Author
    PROVE  RouteInv'
<1>1. ASSUME NEW r \in Records, NEW next \in Positions, NEW d \in BOOLEAN,
             ReplaceRecord(r, next, d)
      PROVE  RouteInv'
  <2>1. status' = "ACTIVE" /\ position' = next /\ position \in RecordPositions
        /\ (next = position \/ <<position, next>> \in RecordAdvances)
    BY <1>1 DEF ReplaceRecord, RecordReplaceable
  <2>2. next \in RecordPositions
    BY <2>1, RecordStages
  <2> QED
    BY <2>1, <2>2, AtRecordStage
<1>2. ASSUME NEW r \in Records, NEW target \in Positions, NEW d \in BOOLEAN,
             RemoveSections(r, target, d)
      PROVE  RouteInv'
  <2>1. status' = "ACTIVE" /\ position' = target /\ <<position, target>> \in RemovalReturns
    BY <1>2 DEF RemoveSections, RecordReplaceable
  <2>2. target \in RecordPositions
    BY <2>1, RecordStages
  <2> QED
    BY <2>1, <2>2, AtRecordStage
<1>3. ASSUME NEW r \in Records, ReplaceRecordInterrupted(r)
      PROVE  RouteInv'
  BY <1>3, RouteUnchanged
     DEF ReplaceRecordInterrupted, Interrupted, runJson, progress, judged, delivered, places
<1>4. ASSUME NEW kind \in Kinds, FreezeCandidate(kind)
      PROVE  RouteInv'
  <2>1. status' = "ACTIVE" /\ position' = ReviewPosition[kind]
    BY <1>4 DEF FreezeCandidate, MayFreeze
  <2>2. IsFrozen'
    BY <1>4, FrozenCandidateTyped, NoneAssumption DEF IsFrozen
  <2> QED
    BY <2>1, <2>2, ReviewPositions DEF RouteInv, RoutingInv, PlaceInv
<1> QED
  BY <1>1, <1>2, <1>3, <1>4 DEF Author

\* A PASS of a PROBLEM or a DECISION: a resume may now lead to its Review stage.
LEMMA RoutePassed ==
    ASSUME TypeInv, FrozenCandidateUndisturbed, NEW settled \in BOOLEAN,
           PassRecordCandidate(settled)
    PROVE  RouteInv'
<1>1. /\ candidate' = [candidate EXCEPT !.status = "REVIEWED_PASS"]
      /\ position' = PassPosition[candidate.ref.kind] /\ candidate.ref.kind # "PRD"
      /\ UNCHANGED <<status, resumePosition>> /\ IsFrozen
  BY DEF PassRecordCandidate, ReviewCandidate, Reviewable, IsFrozen
<1>2. candidate \in Candidates /\ candidate.ref.kind \in {"PROBLEM", "DECISION"}
  BY <1>1, CandidateFields DEF IsFrozen, Kinds, TypeInv, TypeOK
<1>3. /\ candidate' # None /\ candidate'.ref = candidate.ref
      /\ candidate'.status = "REVIEWED_PASS"
  BY <1>1, <1>2, CandidateRestated, NoneAssumption DEF CandidateStatuses
<1>4. /\ status \in {"ACTIVE", "PAUSED"}
      /\ status = "PAUSED" => resumePosition = ReviewPosition[candidate.ref.kind]
  BY <1>1, FrozenPosition DEF FrozenCandidateUndisturbed
<1>5. ~IsFrozen'
  BY ReviewUnfreezes
<1>6. CASE candidate.ref.kind = "PROBLEM"
  BY <1>1, <1>4, <1>5, <1>6
     DEF PassPosition, ReviewPosition, RouteInv, RoutingInv, PlaceInv, ReviewedHere
<1>7. CASE candidate.ref.kind = "DECISION"
  <2>1. position' = "DECISION_ROUTE" /\ DecisionRoutable'
    BY <1>1, <1>3, <1>7 DEF PassPosition, DecisionRoutable, IsCurrent
  <2> QED
    BY <1>1, <1>4, <1>5, <1>7, <2>1
       DEF ReviewPosition, RouteInv, RoutingInv, PlaceInv, ReviewedHere
<1> QED
  BY <1>2, <1>6, <1>7

LEMMA RoutePassedPRD ==
    ASSUME TypeInv, FrozenCandidateUndisturbed, NEW settled \in BOOLEAN,
           PassPRD(settled)
    PROVE  RouteInv'
<1> DEFINE unmet == ReadyUnmet(candidate, ReviewOf("PASS", settled))
           stale == "STAGE4_RECORD_REF_STALE" \in unmet
<1>1. /\ candidate.ref.kind = "PRD" /\ IsFrozen /\ resumePosition' = resumePosition
      /\ ready' = [status |-> IF unmet = {} THEN "READY" ELSE "NOT_READY",
                   unmet |-> unmet, candidate |-> candidate.ref]
      /\ status' = IF unmet = {} THEN "READY" ELSE status
      /\ position' = IF unmet = {} THEN "READY"
                     ELSE IF stale THEN "PRD_AUTHORING" ELSE position
  BY DEF PassPRD, ReviewCandidate, Reviewable, IsFrozen
<1>2. /\ status \in {"ACTIVE", "PAUSED"} /\ position = "PRD_REVIEW"
      /\ status = "PAUSED" => resumePosition = "PRD_REVIEW"
  BY <1>1, FrozenPosition DEF FrozenCandidateUndisturbed, ReviewPosition
<1>3. ~IsFrozen'
  BY ReviewUnfreezes
<1> HIDE DEF unmet, stale
<1>4. CASE unmet = {}
  BY <1>1, <1>4, AtReady DEF IsReady
<1>5. CASE unmet # {}
  <2>1. ready'.status = "NOT_READY"
    BY <1>1, <1>5
  <2> QED
    BY <1>1, <1>2, <1>3, <1>5, <2>1 DEF RouteInv, RoutingInv, PlaceInv, ReviewedHere
<1> QED
  BY <1>4, <1>5

LEMMA RouteRejected ==
    ASSUME TypeInv, NEW verdict \in Verdicts, RejectCandidate(verdict)
    PROVE  RouteInv'
<1>1. /\ status' = "REVIEW_ROUTE_REQUIRED" /\ position' = "REVIEW_ROUTE"
      /\ currentReview' = ReviewOf(verdict, FALSE) /\ verdict # "PASS"
      /\ candidate' = [candidate EXCEPT !.status = ReviewedAs[verdict]]
  BY DEF RejectCandidate, ReviewCandidate, RecordReview
<1>2. candidate \in Candidates /\ ReviewOf(verdict, FALSE) \in Reviews
  BY ReviewTyped DEF RejectCandidate
<1>3. candidate' # None /\ candidate'.ref = candidate.ref
  BY <1>1, <1>2, VerdictsAreStatuses, CandidateRestated, NoneAssumption
<1>4. currentReview'.verdict = verdict /\ currentReview'.candidate = candidate.ref
  BY <1>1 DEF ReviewOf
<1>5. currentReview' # None
  BY <1>1, <1>2, NoneAssumption
<1> QED
  BY <1>1, <1>3, <1>4, <1>5 DEF RouteInv, RoutingInv, PlaceInv

LEMMA RouteJudge ==
    ASSUME TypeInv, FrozenCandidateUndisturbed, RouteInv, Judge
    PROVE  RouteInv'
<1>1. CASE ReviewInterrupted
  BY <1>1, RouteUnchanged
     DEF ReviewInterrupted, Interrupted, runJson, progress, judged, delivered, places
<1>2. ASSUME NEW target \in ReviewStages, RouteToStage(target)
      PROVE  RouteInv'
  BY <1>2, AtRecordStage, RecordStages DEF RouteToStage
<1>3. ASSUME NEW w \in Waits, RouteToWait(w)
      PROVE  RouteInv'
  BY <1>3 DEF RouteToWait, RouteInv, RoutingInv, PlaceInv
<1>4. CASE RouteToOwner
  BY <1>4 DEF RouteToOwner, RouteInv, RoutingInv, PlaceInv
<1> QED
  BY <1>1, <1>2, <1>3, <1>4, RoutePassed, RoutePassedPRD, RouteRejected DEF Judge

LEMMA RouteDecide ==
    ASSUME TypeInv, RouteInv, Decide
    PROVE  RouteInv'
<1>1. ASSUME NEW target \in EarlyStages, ChangeCognition(target) \/ OwnerResearches(target)
      PROVE  RouteInv'
  BY <1>1, AtRecordStage, RecordStages DEF ChangeCognition, OwnerResearches
<1>2. CASE OwnerExperiments
  BY <1>2, AtRecordStage DEF OwnerExperiments, RecordPositions
<1>3. ASSUME NEW source, CommitNow(source)
      PROVE  RouteInv'
  BY <1>3, AtRecordStage DEF CommitNow, RecordPositions
<1>4. ASSUME DecisionRoutable, UNCHANGED <<position, candidate>>,
             status' \notin {"PAUSED", "REVIEW_ROUTE_REQUIRED"}
      PROVE  RouteInv'
  BY <1>4, AtDecisionRoute DEF DecisionRoutable, IsCurrent
<1>5. CASE OwnerStops \/ OwnerDefers
  BY <1>4, <1>5 DEF OwnerStops, OwnerDefers, OwnerEnds, Accept
<1>6. ASSUME NEW w \in Waits, OwnerWaits(w)
      PROVE  RouteInv'
  BY <1>4, <1>6 DEF OwnerWaits, Accept
<1>7. ASSUME NEW assessed, AgentEscalates(assessed)
      PROVE  RouteInv'
  BY <1>4, <1>7 DEF AgentEscalates, judged
<1> QED
  BY <1>1, <1>2, <1>3, <1>5, <1>6, <1>7 DEF Decide, OwnerCommits, AgentCommits

LEMMA RoutePauseOrResume ==
    ASSUME TypeInv, RouteInv, PauseOrResume
    PROVE  RouteInv'
<1>1. CASE PauseRun
  BY <1>1 DEF PauseRun, judged, delivered, RouteInv, RoutingInv, PlaceInv,
              IsFrozen, IsReady, DecisionRoutable, IsCurrent
<1>2. CASE ResumePaused
  <2>1. /\ status = "PAUSED" /\ status' = "ACTIVE" /\ position' = resumePosition
        /\ UNCHANGED <<candidate, ready>>
    BY <1>2 DEF ResumePaused, judged, delivered
  <2>2. CASE resumePosition = position
    BY <2>1, <2>2 DEF RouteInv, RoutingInv, PlaceInv, IsFrozen, IsReady,
                      DecisionRoutable, IsCurrent
  <2>3. CASE ReviewedHere(resumePosition)
    BY <2>1, <2>3 DEF RouteInv, RoutingInv, PlaceInv, ReviewedHere
  <2> QED
    BY <2>1, <2>2, <2>3 DEF RouteInv, PlaceInv
<1>3. ASSUME NEW id \in Triggers, NEW condition \in Conditions,
             ResumeOnTrigger(id, condition)
      PROVE  RouteInv'
  <2>1. waiting.target \in RecordPositions
    BY <1>3, RecordStages DEF ResumeOnTrigger, Waits, TypeInv
  <2> QED
    BY <1>3, <2>1, AtRecordStage DEF ResumeOnTrigger
<1> QED
  BY <1>1, <1>2, <1>3 DEF PauseOrResume

LEMMA RouteInvariance == Spec => []RouteInv
<1>1. Init => RouteInv
  BY DEF Init, RouteInv, RoutingInv, PlaceInv
<1>2. ASSUME TypeInv, FrozenCandidateUndisturbed, ReadyInv, RouteInv, [Next]_vars
      PROVE  RouteInv'
  <2>1. CASE Start
    <3>1. position' = position /\ status' \in {"ABSENT", "ACTIVE"} /\ status = "ABSENT"
          /\ UNCHANGED <<candidate, ready>>
      BY <2>1 DEF Start, StartRun, StartRunInterrupted, OperateOnAbsentRun,
                  Interrupted, runJson, progress, judged, delivered
    <3> QED
      BY <1>2, <3>1 DEF RouteInv, RoutingInv, PlaceInv, IsFrozen, IsReady,
                        DecisionRoutable, IsCurrent
  <2>2. CASE Deliver
    <3>1. IsReady
      BY <2>2 DEF Deliver, PrepareLocalHandoff, HandoffInterrupted, HandoffAllowed,
                  RecordRetrospective, RetrospectiveInterrupted, IsReady
    <3>2. KeepsDelivery /\ position = "READY"
      BY <1>2, <3>1, DeliveryKept DEF ReadyInv
    <3> QED
      BY <3>1, <3>2, AtReady DEF KeepsDelivery, IsReady
  <2>3. CASE UNCHANGED vars
    BY <1>2, <2>3, RouteUnchanged DEF vars, runJson, progress, judged, delivered, places
  <2> QED
    BY <1>2, <2>1, <2>2, <2>3, RouteAuthor, RouteJudge, RouteDecide, RoutePauseOrResume DEF Next
<1> QED
  BY <1>1, <1>2, TypeInvariance, FrozenIsUndisturbed, ReadyInvariance, PTL DEF Spec

\* The Ready evidence of a Ready Run is still complete whenever it is evaluated
\* again, as prepare_local_handoff does.
EvidenceInv == IsReady => ReadyUnmet(candidate, currentReview) = {}

LEMMA EvidenceIsOfTheRef ==
    ASSUME NEW c, NEW d, NEW r, c # None, d # None, c.ref = d.ref
    PROVE  ReadyUnmet(c, r) = ReadyUnmet(d, r)
BY DEF ReadyUnmet

LEMMA EvidenceInvariance == Spec => []EvidenceInv
<1>1. Init => EvidenceInv
  BY DEF Init, EvidenceInv, IsReady
<1>2. ASSUME TypeInv, ReadyInv, EvidenceInv, [Next]_vars
      PROVE  EvidenceInv'
  <2>1. CASE IsReady
    <3>1. UNCHANGED <<candidate, currentReview, intent, recordFile, decisionRef, decision, stage4>>
      BY <1>2, <2>1, DeliveryKept DEF KeepsDelivery, judged, decided
    <3> QED
      BY <1>2, <2>1, <3>1 DEF EvidenceInv, ReadyUnmet, Verified
  <2>2. CASE ~IsReady /\ IsReady'
    <3>1. PICK settled \in BOOLEAN :
            PassPRD(settled) /\ ReadyUnmet(candidate, ReviewOf("PASS", settled)) = {}
      BY <1>2, <2>2, ReadyEntered
    <3> DEFINE r == ReviewOf("PASS", settled)
    <3>2. ReviewCandidate(r) /\ UNCHANGED decisionRef
      BY <3>1 DEF PassPRD
    <3>3. /\ currentReview' = r /\ candidate # None
          /\ UNCHANGED <<intent, recordFile, decisionRef, decision, stage4>>
      BY <3>2 DEF ReviewCandidate, RecordReview, Reviewable
    <3>4. PICK s \in {"STALE", "REVIEWED_PASS"} :
            candidate' = [candidate EXCEPT !.status = s]
      BY <3>1 DEF PassPRD
    <3>5. candidate' # None /\ candidate'.ref = candidate.ref
      <4>1. candidate \in Candidates
        BY <1>2, <3>3 DEF TypeInv, TypeOK
      <4>2. s \in CandidateStatuses
        BY DEF CandidateStatuses
      <4>3. candidate' \in Candidates /\ candidate'.ref = candidate.ref
        BY <4>1, <4>2, <3>4, CandidateRestated
      <4> QED
        BY <4>3, NoneAssumption
    <3> HIDE DEF r
    <3>6. ReadyUnmet(candidate', r) = {}
      BY <3>1, <3>3, <3>5, EvidenceIsOfTheRef DEF r
    <3>7. ReadyUnmet(candidate, currentReview)' = {}
      BY <3>3, <3>6 DEF ReadyUnmet, Verified
    <3> QED
      BY <3>7 DEF EvidenceInv
  <2>3. CASE ~IsReady'
    BY <2>3 DEF EvidenceInv
  <2> QED
    BY <2>1, <2>2, <2>3
<1> QED
  BY <1>1, <1>2, TypeInvariance, ReadyInvariance, PTL DEF Spec

----------------------------------------------------------------------------
(* Dead ends: an operation is always left *)

\* What every reachable Run is known to be, for the theorem below.
PlacedInv ==
    /\ TypeInv
    /\ FrozenCandidateUndisturbed
    /\ ReviewInv
    /\ ReadyInv
    /\ EvidenceInv
    /\ PublishedHandoffRecoverable
    /\ BasisInv
    /\ RouteInv

LEMMA PlacedInvariance == Spec => []PlacedInv
BY TypeInvariance, FrozenIsUndisturbed, ReviewInvariance, ReadyInvariance,
   EvidenceInvariance, HandoffIsRecoverable, BasisInvariance, RouteInvariance, PTL
   DEF PlacedInv

\* A frozen Candidate can be reviewed unless its Review has a file or its basis
\* is not that of a PRD.
LEMMA FrozenIsReviewable ==
    ASSUME PlacedInv, IsFrozen, ~StopsHere
    PROVE  Reviewable
BY DEF PlacedInv, FrozenCandidateUndisturbed, BasisInv, StopsHere, Reviewable, IsFrozen

\* At the stage of a kind its Candidate can be frozen.
LEMMA StageCanFreeze ==
    ASSUME PlacedInv, ~StopsHere, ~IsFrozen, status = "ACTIVE",
           NEW kind \in Kinds, position = AuthoringPosition[kind]
    PROVE  MayFreeze(kind)
<1>1. RevisionAllowed(kind) /\ recordRef = recordFile
  BY DEF StopsHere, LastRound
<1>2. ReviewedBefore(Supersedes(kind))
  BY DEF PlacedInv, BasisInv, Supersedes, IsCurrent, ReviewedBefore
<1>3. kind = "PRD" => decision # None
  BY DEF StopsHere, AuthoringPosition
<1>4. decision # None => decisionRef # None /\ decisionReview # None
  BY DEF PlacedInv, BasisInv
<1> QED
  BY <1>1, <1>2, <1>3, <1>4 DEF MayFreeze

LEMMA OwnerCanBeAsked ==
    ASSUME PlacedInv, status = "REVIEW_ROUTE_REQUIRED"
    PROVE  MayRoute("OWNER")
<1>1. /\ position = "REVIEW_ROUTE" /\ candidate # None /\ currentReview # None
      /\ currentReview.verdict # "PASS" /\ currentReview.candidate = candidate.ref
  BY DEF PlacedInv, RouteInv, RoutingInv
<1>2. AuthoringPosition[candidate.ref.kind] # "OWNER"
  BY <1>1, CandidateFields DEF AuthoringPosition, Kinds, PlacedInv, TypeInv, TypeOK
<1> QED
  BY <1>1, <1>2 DEF MayRoute, LocalRevision

\* A Ready Run can be handed off: for any delivery options, or for those of the
\* directory an interrupted handoff left.
LEMMA ReadyCanBeHandedOff ==
    ASSUME PlacedInv, status = "READY"
    PROVE  \E options \in Deliveries : HandoffAllowed(options)
<1>1. ready.status = "READY" /\ ReadyUnmet(candidate, currentReview) = {}
  BY DEF PlacedInv, ReadyInv, ReadyIsExact, EvidenceInv, IsReady
<1>2. CASE handoffDir = None
  BY <1>1, <1>2, DeliveryAssumption DEF HandoffAllowed
<1>3. CASE handoffDir # None
  <2>1. handoffDir \in Handoffs
    BY <1>3 DEF PlacedInv, TypeInv, TypeOK
  <2>2. handoffDir.candidate = candidate.ref /\ handoffDir.ready = ready
    BY <1>3 DEF PlacedInv, PublishedHandoffRecoverable
  <2>3. handoffDir.options \in Deliveries /\ handoffDir = HandoffOf(handoffDir.options)
    BY <2>1, <2>2 DEF Handoffs, HandoffOf
  <2> QED
    BY <1>1, <2>3 DEF HandoffAllowed
<1> QED
  BY <1>2, <1>3

LEMMA ActiveCanProceed ==
    ASSUME PlacedInv, ~StopsHere, status = "ACTIVE"
    PROVE  CanProceed
<1>1. CASE IsFrozen
  BY <1>1, FrozenIsReviewable DEF CanProceed
<1>2. CASE ~IsFrozen
  <2>1. position \in Positions \ {"PROBLEM_REVIEW", "DECISION_REVIEW"}
    BY <1>2 DEF StopsHere, PlacedInv, TypeInv, TypeOK
  <2>2. position \notin {"PRD_REVIEW", "READY", "OWNER", "REVIEW_ROUTE"}
    BY <1>2 DEF StopsHere, PlacedInv, RouteInv, RoutingInv, PlaceInv, IsReady
  <2>3. CASE position = "DECISION_ROUTE"
    BY <2>3 DEF PlacedInv, RouteInv, RoutingInv, CanProceed
  <2>4. CASE position \in {"UNDERSTAND", "PLAN_PRODUCT_SYSTEM", "RESEARCH"}
    <3>1. MayAdvance
      <4>1. RecordReplaceable
        BY <2>4 DEF StopsHere, RecordReplaceable, RecordPositions, EarlyStages
      <4>2. \E next \in Positions : <<position, next>> \in RecordAdvances
        BY <2>4 DEF Positions, RecordAdvances, EarlyStages
      <4> QED
        BY <4>1, <4>2 DEF MayAdvance
    <3> QED
      BY <3>1 DEF CanProceed
  <2>5. CASE position \in {"DIAGNOSE_VALUE", "DISCOVER_SOLUTIONS_DECIDE", "PRD_AUTHORING"}
    <3>1. PICK kind \in Kinds : position = AuthoringPosition[kind]
      BY <2>5 DEF Kinds, AuthoringPosition
    <3> QED
      BY <1>2, <3>1, StageCanFreeze DEF CanProceed
  <2> QED
    BY <2>1, <2>2, <2>3, <2>4, <2>5 DEF Positions
<1> QED
  BY <1>1, <1>2

\* Whatever legal operations led to a Run, it either stops at one of the named
\* places or its Host can advance, freeze, judge, decide or deliver.
THEOREM DeadEndsAreNamed == Spec => []OnlyNamedDeadEnds
<1>1. ASSUME PlacedInv, ~StopsHere PROVE CanProceed
  <2>1. status \in Statuses
    BY <1>1 DEF PlacedInv, TypeInv, TypeOK
  <2>2. status \in {"ACTIVE", "REVIEW_ROUTE_REQUIRED", "OWNER_CHOICE_REQUIRED", "READY",
                    "COMPLETED_STOP", "COMPLETED_FUTURE_ROADMAP"}
    BY <1>1, <2>1 DEF StopsHere, Statuses
  <2>3. CASE status \in {"COMPLETED_STOP", "COMPLETED_FUTURE_ROADMAP", "OWNER_CHOICE_REQUIRED"}
    BY <1>1, <2>3 DEF PlacedInv, RouteInv, RoutingInv, CanProceed
  <2> QED
    BY <1>1, <2>2, <2>3, ActiveCanProceed, OwnerCanBeAsked, ReadyCanBeHandedOff DEF CanProceed
<1>2. PlacedInv => OnlyNamedDeadEnds
  BY <1>1 DEF OnlyNamedDeadEnds
<1> QED
  BY <1>2, PlacedInvariance, PTL

=========================================================================
