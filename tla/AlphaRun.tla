---------------------------- MODULE AlphaRun ----------------------------
(***************************************************************************)
(* The life of one BPG 2.0 Run: the operations of BPG2AlphaController      *)
(* (src/src/bpg/alpha_runtime.py) on run.json and on the files beside it.  *)
(*                                                                         *)
(* Every operation runs under the Run's file lock and replaces run.json    *)
(* in one rename, so a successful operation is one action here.  The       *)
(* operations that write another file before run.json also have an         *)
(* Interrupted action: the file is there and run.json is not.  Stale       *)
(* versions, retries and operation identities are module AlphaLedger.      *)
(*                                                                         *)
(* Abstractions.  A Planning Record is one of finitely many contents with  *)
(* the set of its removable H2 sections; two records with equal contents   *)
(* have equal hashes.  A Candidate ref is what its hash is computed from.  *)
(* Findings, professional reviews and disagreements of a Review are one    *)
(* Boolean: settled, when none is left open that a later operation looks   *)
(* for (an Agent's commit in a DECISION Review, Ready in a PRD Review).    *)
(* Objects addressed by their hash are immutable and are not modelled.     *)
(***************************************************************************)
EXTENDS Naturals, FiniteSets

CONSTANTS
    Records,            \* contents of planning-record.md
    InitialRecord,      \* the content start_run writes
    Sections,           \* Sections[r]: the removable H2 sections of content r
    Conditions,         \* WAIT condition ids
    Triggers,           \* Trigger ids
    Deliveries,         \* delivery_options with their html_generation
    MaxRevisionRounds,  \* automatic revisions of one Candidate: 2 in the code
    MaxInterruptions,   \* bound: interrupted operations in one behaviour
    None                \* an absent value

ASSUME RecordAssumption == InitialRecord \in Records

ASSUME DeliveryAssumption == Deliveries # {}

ASSUME BoundAssumption == MaxRevisionRounds \in Nat /\ MaxInterruptions \in Nat

VARIABLES
    status, position,   \* where the Run stands
    resumePosition,     \* written by pause, taken by resume
    waiting,            \* the WAIT condition and its return target
    usedTriggers,       \* used_trigger_ids
    candidate,          \* current_candidate
    candidateRequired, revisionExhausted,
    reviews,            \* every formal Review recorded
    currentReview,      \* the last of them
    decision,           \* the accepted decision
    decisionRef,        \* decision_candidate_ref
    decisionReview,     \* the Candidate of decision_review_ref
    intent,             \* delivery_intent
    stage4,             \* the record stage4_dispositions are bound to
    ready, recordRef, handoff, retrospective,
    runDir,             \* the Run's directory exists
    recordFile,         \* content of planning-record.md
    reviewFiles,        \* names under reviews/: <<kind, version>>
    handoffDir,         \* HANDOFF_MANIFEST.json of handoff/local
    retrospectiveFile,  \* planning-retrospective.md exists
    interruptions       \* interrupted operations so far

progress == <<status, position, resumePosition, waiting, usedTriggers>>
judged == <<candidate, candidateRequired, revisionExhausted, reviews, currentReview>>
decided == <<decision, decisionRef, decisionReview, intent, stage4>>
delivered == <<ready, handoff, retrospective>>
files == <<runDir, recordFile, reviewFiles, handoffDir, retrospectiveFile>>
runJson == <<progress, judged, decided, delivered, recordRef>>
vars == <<runJson, files, interruptions>>

----------------------------------------------------------------------------
(* Vocabulary of the source *)

Positions == {"UNDERSTAND", "DIAGNOSE_VALUE", "PROBLEM_REVIEW",
    "DISCOVER_SOLUTIONS_DECIDE", "DECISION_REVIEW", "DECISION_ROUTE",
    "PLAN_PRODUCT_SYSTEM", "PRD_AUTHORING", "PRD_REVIEW", "REVIEW_ROUTE",
    "READY", "RESEARCH", "OWNER"}

Statuses == {"ABSENT", "ACTIVE", "PAUSED", "WAITING_TRIGGER",
    "REVIEW_ROUTE_REQUIRED", "OWNER_CHOICE_REQUIRED", "OWNER_ACTION_REQUIRED",
    "READY", "LOCAL_HANDOFF_COMPLETE", "COMPLETED_STOP",
    "COMPLETED_FUTURE_ROADMAP"}

Kinds == {"PROBLEM", "DECISION", "PRD"}
Verdicts == {"PASS", "REVISE", "NEEDS_OWNER"}
Outcomes == {"STOP", "WAIT", "RESEARCH", "EXPERIMENT", "COMMIT_NOW",
    "FUTURE_ROADMAP"}

EarlyStages == {"UNDERSTAND", "DIAGNOSE_VALUE", "DISCOVER_SOLUTIONS_DECIDE"}

AuthoringPosition == [PROBLEM |-> "DIAGNOSE_VALUE",
    DECISION |-> "DISCOVER_SOLUTIONS_DECIDE", PRD |-> "PRD_AUTHORING"]

ReviewPosition == [PROBLEM |-> "PROBLEM_REVIEW",
    DECISION |-> "DECISION_REVIEW", PRD |-> "PRD_REVIEW"]

PassPosition == [PROBLEM |-> "DISCOVER_SOLUTIONS_DECIDE",
    DECISION |-> "DECISION_ROUTE"]

\* REVIEW_TARGETS besides WAIT and OWNER.
ReviewStages == EarlyStages \cup
    {"PLAN_PRODUCT_SYSTEM", "PRD_AUTHORING", "RESEARCH"}

\* legal_next: where replace_planning_record may be called, and where it may
\* also advance to.
RecordPositions == EarlyStages \cup
    {"PLAN_PRODUCT_SYSTEM", "PRD_AUTHORING", "RESEARCH"}

RecordAdvances ==
    {<<"UNDERSTAND", "DIAGNOSE_VALUE">>, <<"PLAN_PRODUCT_SYSTEM", "PRD_AUTHORING">>}
      \cup {"RESEARCH"} \X EarlyStages

\* SECTION_REMOVAL_TARGETS: the earlier stages a section removal returns to.
RemovalReturns ==
    {<<"DIAGNOSE_VALUE", "UNDERSTAND">>,
     <<"DISCOVER_SOLUTIONS_DECIDE", "UNDERSTAND">>,
     <<"DISCOVER_SOLUTIONS_DECIDE", "DIAGNOSE_VALUE">>,
     <<"PRD_AUTHORING", "PLAN_PRODUCT_SYSTEM">>}
      \cup {"PLAN_PRODUCT_SYSTEM", "PRD_AUTHORING", "RESEARCH"} \X EarlyStages

----------------------------------------------------------------------------
(* Refs and Candidates *)

Versions == 1 .. MaxRevisionRounds + 1

\* A PROBLEM or DECISION Candidate is the record it froze.
RecordCandidateRefs == [kind : {"PROBLEM", "DECISION"}, version : Versions,
    record : Records, basis : {None}]

Decisions == [outcome : Outcomes, source : {"OWNER_CHOICE", "AGENT_PREAUTHORIZED"},
    candidate : RecordCandidateRefs]

\* What the Release Set manifest of a PRD binds besides the record.
PRDBases == [candidate : RecordCandidateRefs, review : RecordCandidateRefs,
    decision : Decisions, type : {"FORMAL_PRD", "EXPERIMENT_PRD"}]

PRDRefs == [kind : {"PRD"}, version : Versions, record : Records, basis : PRDBases]
Refs == RecordCandidateRefs \cup PRDRefs

CandidateStatuses == {"FROZEN", "STALE", "REVIEWED_PASS", "REVIEWED_REVISE",
    "REVIEWED_NEEDS_OWNER"}

Candidates == [ref : Refs, round : 0 .. MaxRevisionRounds,
    supersedes : Refs \cup {None}, status : CandidateStatuses]

Reviews == [candidate : Refs, verdict : Verdicts, settled : BOOLEAN]

ASSUME NoneAssumption == None \notin Candidates \cup Refs \cup Reviews

ReviewId(ref) == <<ref.kind, ref.version>>
ReviewedAs == [PASS |-> "REVIEWED_PASS", REVISE |-> "REVIEWED_REVISE",
    NEEDS_OWNER |-> "REVIEWED_NEEDS_OWNER"]

PRDType(outcome) == IF outcome = "COMMIT_NOW" THEN "FORMAL_PRD" ELSE "EXPERIMENT_PRD"

\* _verify_candidate: the manifest's accepted Decision is one that leads to a
\* PRD of this type and its PASS Review is of the same Candidate.
Verified(ref) ==
    ref.kind = "PRD" =>
        /\ ref.basis.decision.outcome \in {"COMMIT_NOW", "EXPERIMENT"}
        /\ ref.basis.type = PRDType(ref.basis.decision.outcome)
        /\ ref.basis.review = ref.basis.candidate

LeftAsItWas(c) == c

Stale(c) == IF c = None THEN None ELSE [c EXCEPT !.status = "STALE"]

IsCurrent(kind) == candidate # None /\ candidate.ref.kind = kind

----------------------------------------------------------------------------
(* The Ready contract *)

NotEvaluated == [status |-> "NOT_EVALUATED", unmet |-> {}, candidate |-> None]

UnmetWithoutStage4Ref == {"CURRENT_PRD_RELEASE_SET", "PRD_REVIEW_PASS",
    "OPEN_REVIEW_ITEM", "PLANNING_RECORD_STALE", "DECISION_CANDIDATE_STALE",
    "STAGE4_DISPOSITIONS", "ACCEPTED_DECISION"}

UnmetReasons == {"CURRENT_PRD_RELEASE_SET", "PRD_REVIEW_PASS",
    "OPEN_REVIEW_ITEM", "PLANNING_RECORD_STALE", "DECISION_CANDIDATE_STALE",
    "STAGE4_DISPOSITIONS", "STAGE4_RECORD_REF_STALE", "ACCEPTED_DECISION"}

ReadyStates == [status : {"NOT_EVALUATED", "NOT_READY", "READY"},
    unmet : SUBSET UnmetReasons, candidate : Refs \cup {None}]

\* _ready_unmet for Candidate c and the last Review r.
ReadyUnmet(c, r) ==
    IF c = None \/ c.ref.kind # "PRD" THEN {"CURRENT_PRD_RELEASE_SET"}
    ELSE LET exact == Verified(c.ref)
             commit == intent = "COMMIT_NOW"
         IN {u \in UnmetReasons :
              \/ u = "CURRENT_PRD_RELEASE_SET" /\ ~exact
              \/ u = "PRD_REVIEW_PASS"
                   /\ (r = None \/ r.verdict # "PASS" \/ r.candidate # c.ref)
              \/ u = "OPEN_REVIEW_ITEM" /\ r # None /\ ~r.settled
              \/ u = "PLANNING_RECORD_STALE" /\ c.ref.record # recordFile
              \/ u = "DECISION_CANDIDATE_STALE" /\ decisionRef = None
              \/ u = "STAGE4_DISPOSITIONS"
                   /\ exact /\ decision # None /\ commit /\ stage4 = None
              \/ u = "STAGE4_RECORD_REF_STALE"
                   /\ exact /\ decision # None /\ commit
                   /\ stage4 # None /\ stage4 # c.ref.record
              \/ u = "ACCEPTED_DECISION"
                   /\ \/ decision = None
                      \/ ~exact
                      \/ c.ref.basis.decision # decision
                      \/ c.ref.basis.candidate # decisionRef}

----------------------------------------------------------------------------
(* start_run *)

Init ==
    /\ status = "ABSENT" /\ position = "UNDERSTAND"
    /\ resumePosition = None /\ waiting = None /\ usedTriggers = {}
    /\ candidate = None /\ candidateRequired = FALSE /\ revisionExhausted = FALSE
    /\ reviews = {} /\ currentReview = None
    /\ decision = None /\ decisionRef = None /\ decisionReview = None
    /\ intent = None /\ stage4 = None
    /\ ready = NotEvaluated /\ handoff = None /\ retrospective = "NOT_RUN"
    /\ recordRef = InitialRecord /\ recordFile = InitialRecord
    /\ runDir = FALSE /\ reviewFiles = {} /\ handoffDir = None
    /\ retrospectiveFile = FALSE
    /\ interruptions = 0

\* A crash: what was written stays, run.json is not replaced.
Interrupted ==
    /\ interruptions < MaxInterruptions
    /\ interruptions' = interruptions + 1
    /\ UNCHANGED runJson

\* mkdir(exist_ok=False) refuses a directory that is already there.
StartRun ==
    /\ status = "ABSENT" /\ ~runDir
    /\ runDir' = TRUE
    /\ status' = "ACTIVE"
    /\ UNCHANGED <<position, resumePosition, waiting, usedTriggers, judged,
                   decided, delivered, recordRef, recordFile, reviewFiles,
                   handoffDir, retrospectiveFile, interruptions>>

StartRunInterrupted ==
    /\ status = "ABSENT" /\ ~runDir
    /\ runDir' = TRUE
    /\ Interrupted
    /\ UNCHANGED <<recordFile, reviewFiles, handoffDir, retrospectiveFile>>

\* Any other operation that names an absent Run takes its lock first, and
\* taking the lock creates the directory; load_run then rejects it.
OperateOnAbsentRun ==
    /\ status = "ABSENT" /\ ~runDir
    /\ runDir' = TRUE
    /\ UNCHANGED <<runJson, recordFile, reviewFiles, handoffDir,
                   retrospectiveFile, interruptions>>

----------------------------------------------------------------------------
(* replace_planning_record *)

Removes(r) == Sections[recordRef] \ Sections[r] # {}

ReplaceableAnywhere == status = "ACTIVE" /\ recordRef = recordFile

\* base_hash, run.json's ref and the file must be the same content.
RecordReplaceable ==
    /\ status = "ACTIVE"
    /\ position \in RecordPositions
    /\ recordRef = recordFile

\* The nine dispositions are taken on entering PRD_AUTHORING, where they are
\* required, and in PRD_AUTHORING, where they are optional.
DispositionsTaken(next) ==
    IF position = "PRD_AUTHORING" THEN BOOLEAN
    ELSE {next = "PRD_AUTHORING"}

ReplaceRecord(r, next, dispositions) ==
    /\ RecordReplaceable
    /\ ~Removes(r)
    /\ next = position \/ <<position, next>> \in RecordAdvances
    /\ dispositions \in DispositionsTaken(next)
    /\ recordFile' = r
    /\ recordRef' = r
    /\ position' = next
    /\ stage4' = IF dispositions THEN r ELSE stage4
    /\ UNCHANGED <<status, resumePosition, waiting, usedTriggers, judged,
                   decision, decisionRef, decisionReview, intent, delivered,
                   runDir, reviewFiles, handoffDir, retrospectiveFile,
                   interruptions>>

\* The stage is done: the record may go on to a later one.
MayAdvance ==
    /\ RecordReplaceable
    /\ \E next \in Positions : <<position, next>> \in RecordAdvances

\* Removing sections returns the Run to an earlier stage.
RemoveSections(r, target, dispositions) ==
    /\ RecordReplaceable
    /\ Removes(r)
    /\ <<position, target>> \in RemovalReturns
    /\ dispositions \in DispositionsTaken(position)
    /\ recordFile' = r
    /\ recordRef' = r
    /\ position' = target
    /\ stage4' = IF dispositions THEN r ELSE stage4
    /\ candidate' = Stale(candidate)
    /\ candidateRequired' = TRUE
    /\ ready' = NotEvaluated
    /\ UNCHANGED <<status, resumePosition, waiting, usedTriggers,
                   revisionExhausted, reviews, currentReview, decision,
                   decisionRef, decisionReview, intent, handoff, retrospective,
                   runDir, reviewFiles, handoffDir, retrospectiveFile,
                   interruptions>>

\* planning-record.md is replaced before run.json.
ReplaceRecordInterrupted(r) ==
    /\ RecordReplaceable
    /\ Removes(r) => \E target \in EarlyStages : <<position, target>> \in RemovalReturns
    /\ recordFile' = r
    /\ Interrupted
    /\ UNCHANGED <<runDir, reviewFiles, handoffDir, retrospectiveFile>>

----------------------------------------------------------------------------
(* freeze_candidate *)

SupersedesAnyKind(kind) == IF candidate = None THEN None ELSE candidate.ref

\* A Candidate of the kind of the current one supersedes it.
Supersedes(kind) == IF IsCurrent(kind) THEN candidate.ref ELSE None
NextRound(kind) == IF IsCurrent(kind) THEN candidate.round + 1 ELSE 0
SameVersion(kind) == IF IsCurrent(kind) THEN candidate.ref.version ELSE 1
NextVersion(kind) == IF IsCurrent(kind) THEN candidate.ref.version + 1 ELSE 1

\* _verify_rereview_exact_basis: the superseded Candidate has a formal Review.
ReviewedBefore(ref) ==
    ref # None => Verified(ref) /\ \E r \in reviews : r.candidate = ref

BasisOf(kind) ==
    IF kind = "PRD"
    THEN [candidate |-> decisionRef, review |-> decisionReview,
          decision |-> decision, type |-> PRDType(intent)]
    ELSE None

OneRoundTooMany(kind) == NextRound(kind) <= MaxRevisionRounds + 1
RevisionAllowed(kind) == NextRound(kind) <= MaxRevisionRounds

MayFreeze(kind) ==
    /\ RevisionAllowed(kind)
    /\ status = "ACTIVE" /\ position = AuthoringPosition[kind]
    /\ ReviewedBefore(Supersedes(kind))
    /\ recordRef = recordFile
    /\ kind = "PRD" =>
         decisionRef # None /\ decision # None /\ decisionReview # None

FreezeCandidate(kind) ==
    /\ MayFreeze(kind)
    /\ candidate' = [ref |-> [kind |-> kind, version |-> NextVersion(kind),
                              record |-> recordRef, basis |-> BasisOf(kind)],
                     round |-> NextRound(kind),
                     supersedes |-> Supersedes(kind),
                     status |-> "FROZEN"]
    /\ position' = ReviewPosition[kind]
    /\ candidateRequired' = FALSE
    /\ revisionExhausted' = FALSE
    /\ ready' = IF kind = "PRD" THEN NotEvaluated ELSE ready
    /\ UNCHANGED <<status, resumePosition, waiting, usedTriggers, reviews,
                   currentReview, decided, handoff, retrospective, recordRef,
                   files, interruptions>>

----------------------------------------------------------------------------
(* submit_review and submit_review_route *)

ReviewableAgain ==
    /\ candidate # None
    /\ candidate.status = "FROZEN"
    /\ Verified(candidate.ref)

\* The current Candidate is FROZEN, its basis is still exact and no file has
\* the name of its Review.  Neither status nor position is looked at.
Reviewable ==
    /\ candidate # None
    /\ candidate.status = "FROZEN"
    /\ Verified(candidate.ref)
    /\ candidate.round > 0 =>
         /\ ReviewedBefore(candidate.supersedes)
         /\ candidate.ref.record = recordRef
         /\ recordRef = recordFile
    /\ ReviewId(candidate.ref) \notin reviewFiles

RecordReview(r) ==
    /\ reviewFiles' = reviewFiles \cup {ReviewId(candidate.ref)}
    /\ reviews' = reviews \cup {r}
    /\ currentReview' = r

ReviewOf(verdict, settled) ==
    [candidate |-> candidate.ref, verdict |-> verdict, settled |-> settled]

ReviewCandidate(r) ==
    /\ Reviewable
    /\ RecordReview(r)
    /\ UNCHANGED <<resumePosition, waiting, usedTriggers, revisionExhausted,
                   decision, intent, stage4, handoff, retrospective,
                   recordRef, runDir, recordFile, handoffDir,
                   retrospectiveFile, interruptions>>

\* A PASS of a PROBLEM or a DECISION moves on; that of a DECISION is the
\* Decision basis from now on.
PassRecordCandidate(settled) ==
    /\ ReviewCandidate(ReviewOf("PASS", settled))
    /\ candidate.ref.kind # "PRD"
    /\ candidate' = [candidate EXCEPT !.status = "REVIEWED_PASS"]
    /\ position' = PassPosition[candidate.ref.kind]
    /\ IF candidate.ref.kind = "DECISION"
       THEN decisionRef' = candidate.ref /\ decisionReview' = candidate.ref
       ELSE UNCHANGED <<decisionRef, decisionReview>>
    /\ UNCHANGED <<status, candidateRequired, ready>>

\* A PASS of the PRD evaluates the Ready contract.
PassPRD(settled) ==
    /\ ReviewCandidate(ReviewOf("PASS", settled))
    /\ candidate.ref.kind = "PRD"
    /\ LET unmet == ReadyUnmet(candidate, ReviewOf("PASS", settled))
           stale == "STAGE4_RECORD_REF_STALE" \in unmet
       IN /\ candidate' = [candidate EXCEPT !.status =
                             IF stale THEN "STALE" ELSE "REVIEWED_PASS"]
          /\ candidateRequired' = (stale \/ candidateRequired)
          /\ ready' = [status |-> IF unmet = {} THEN "READY" ELSE "NOT_READY",
                       unmet |-> unmet, candidate |-> candidate.ref]
          /\ status' = IF unmet = {} THEN "READY" ELSE status
          /\ position' = IF unmet = {} THEN "READY"
                         ELSE IF stale THEN "PRD_AUTHORING" ELSE position
    /\ UNCHANGED <<decisionRef, decisionReview>>

RejectCandidate(verdict) ==
    /\ verdict # "PASS"
    /\ ReviewCandidate(ReviewOf(verdict, FALSE))
    /\ candidate' = [candidate EXCEPT !.status = ReviewedAs[verdict]]
    /\ status' = "REVIEW_ROUTE_REQUIRED"
    /\ position' = "REVIEW_ROUTE"
    /\ candidateRequired' = TRUE
    /\ UNCHANGED <<decisionRef, decisionReview, ready>>

\* The Review file is written before run.json.
ReviewInterrupted ==
    /\ Reviewable
    /\ reviewFiles' = reviewFiles \cup {ReviewId(candidate.ref)}
    /\ Interrupted
    /\ UNCHANGED <<runDir, recordFile, handoffDir, retrospectiveFile>>

Waits == [condition : Conditions, target : EarlyStages]

LocalRevision(target) == target = AuthoringPosition[candidate.ref.kind]
RoundsUsedUp == candidate.round >= MaxRevisionRounds

\* The Lead Agent routes the current non-PASS Review.  After the last automatic
\* round the stage that would revise the Candidate once more is refused.
MayRoute(target) ==
    /\ status = "REVIEW_ROUTE_REQUIRED" /\ position = "REVIEW_ROUTE"
    /\ currentReview # None /\ currentReview.verdict # "PASS"
    /\ candidate # None /\ currentReview.candidate = candidate.ref
    /\ currentReview.verdict = "NEEDS_OWNER" => target = "OWNER"
    /\ RoundsUsedUp => ~LocalRevision(target)

RouteReview(target) ==
    /\ MayRoute(target)
    /\ revisionExhausted' = (RoundsUsedUp \/ revisionExhausted)
    /\ UNCHANGED <<resumePosition, usedTriggers, candidate, candidateRequired,
                   reviews, currentReview, decided, delivered, recordRef,
                   files, interruptions>>

RouteToStage(target) ==
    /\ RouteReview(target)
    /\ status' = "ACTIVE"
    /\ position' = target
    /\ UNCHANGED waiting

RouteToWait(w) ==
    /\ RouteReview("WAIT")
    /\ status' = "WAITING_TRIGGER"
    /\ position' = "DECISION_ROUTE"
    /\ waiting' = w

RouteToOwner ==
    /\ RouteReview("OWNER")
    /\ status' = "OWNER_ACTION_REQUIRED"
    /\ position' = "OWNER"
    /\ UNCHANGED waiting

----------------------------------------------------------------------------
(* submit_decision_route *)

RoutableWhileActive ==
    /\ status = "ACTIVE" /\ position = "DECISION_ROUTE"
    /\ IsCurrent("DECISION") /\ candidate.status = "REVIEWED_PASS"

RoutableWithAnyCandidate == position = "DECISION_ROUTE" /\ candidate # None

\* The position and the Candidate are looked at, the status is not.
DecisionRoutable ==
    /\ position = "DECISION_ROUTE"
    /\ IsCurrent("DECISION")
    /\ candidate.status = "REVIEWED_PASS"

ChangeCognition(target) ==
    /\ DecisionRoutable
    /\ candidate' = Stale(candidate)
    /\ status' = "ACTIVE"
    /\ position' = target
    /\ candidateRequired' = TRUE
    /\ UNCHANGED <<resumePosition, waiting, usedTriggers, revisionExhausted,
                   reviews, currentReview, decided, delivered, recordRef,
                   files, interruptions>>

Accept(outcome, source) ==
    /\ decision' = [outcome |-> outcome, source |-> source,
                    candidate |-> candidate.ref]
    /\ decisionRef' = candidate.ref
    /\ candidateRequired' = FALSE
    /\ UNCHANGED <<resumePosition, usedTriggers, candidate, revisionExhausted,
                   reviews, currentReview, decisionReview, stage4, delivered,
                   recordRef, files, interruptions>>

OwnerEnds(outcome, ending) ==
    /\ DecisionRoutable
    /\ Accept(outcome, "OWNER_CHOICE")
    /\ status' = ending
    /\ UNCHANGED <<position, waiting, intent>>

OwnerStops == OwnerEnds("STOP", "COMPLETED_STOP")
OwnerDefers == OwnerEnds("FUTURE_ROADMAP", "COMPLETED_FUTURE_ROADMAP")

OwnerWaits(w) ==
    /\ DecisionRoutable
    /\ Accept("WAIT", "OWNER_CHOICE")
    /\ status' = "WAITING_TRIGGER"
    /\ waiting' = w
    /\ UNCHANGED <<position, intent>>

OwnerResearches(target) ==
    /\ DecisionRoutable
    /\ Accept("RESEARCH", "OWNER_CHOICE")
    /\ status' = "ACTIVE"
    /\ position' = target
    /\ UNCHANGED <<waiting, intent>>

OwnerExperiments ==
    /\ DecisionRoutable
    /\ Accept("EXPERIMENT", "OWNER_CHOICE")
    /\ status' = "ACTIVE"
    /\ position' = "PRD_AUTHORING"
    /\ intent' = "EXPERIMENT"
    /\ UNCHANGED waiting

CommitNow(source) ==
    /\ DecisionRoutable
    /\ Accept("COMMIT_NOW", source)
    /\ status' = "ACTIVE"
    /\ position' = "PLAN_PRODUCT_SYSTEM"
    /\ intent' = "COMMIT_NOW"
    /\ UNCHANGED waiting

OwnerCommits == CommitNow("OWNER_CHOICE")

CommitUnsettled(assessed) ==
    /\ assessed
    /\ currentReview # None /\ currentReview.verdict = "PASS"
    /\ currentReview.candidate = candidate.ref

\* An Agent may only commit, and only on a settled PASS Review of this
\* Candidate and an assessment of the current record.
AgentMayCommit(assessed) ==
    /\ assessed
    /\ currentReview # None
    /\ currentReview.verdict = "PASS"
    /\ currentReview.candidate = candidate.ref
    /\ currentReview.settled

AgentCommits(assessed) ==
    /\ AgentMayCommit(assessed)
    /\ CommitNow("AGENT_PREAUTHORIZED")

AgentEscalates(assessed) ==
    /\ DecisionRoutable
    /\ ~AgentMayCommit(assessed)
    /\ status' = "OWNER_CHOICE_REQUIRED"
    /\ UNCHANGED <<position, resumePosition, waiting, usedTriggers, judged,
                   decided, delivered, recordRef, files, interruptions>>

----------------------------------------------------------------------------
(* pause_run and resume_run *)

PauseAnyStatus ==
    /\ resumePosition' = position
    /\ status' = "PAUSED"
    /\ UNCHANGED <<position, waiting, usedTriggers, judged, decided, delivered,
                   recordRef, files, interruptions>>

PauseRun ==
    /\ status = "ACTIVE" /\ position \in Positions
    /\ resumePosition' = position
    /\ status' = "PAUSED"
    /\ UNCHANGED <<position, waiting, usedTriggers, judged, decided, delivered,
                   recordRef, files, interruptions>>

ResumePaused ==
    /\ status = "PAUSED"
    /\ status' = "ACTIVE"
    /\ position' = resumePosition
    /\ resumePosition' = None
    /\ UNCHANGED <<waiting, usedTriggers, judged, decided, delivered,
                   recordRef, files, interruptions>>

ResumeOnTrigger(id, condition) ==
    /\ status = "WAITING_TRIGGER"
    /\ condition = waiting.condition
    /\ id \notin usedTriggers
    /\ usedTriggers' = usedTriggers \cup {id}
    /\ status' = "ACTIVE"
    /\ position' = waiting.target
    /\ waiting' = None
    /\ UNCHANGED <<resumePosition, judged, decided, delivered, recordRef,
                   files, interruptions>>

----------------------------------------------------------------------------
(* prepare_local_handoff and record_retrospective *)

Handoffs == [candidate : Refs, ready : ReadyStates, options : Deliveries]

HandoffOf(options) ==
    [candidate |-> candidate.ref, ready |-> ready, options |-> options]

HandoffOnEvidenceAlone(options) ==
    ready.status = "READY" /\ ReadyUnmet(candidate, currentReview) = {}

HandoffIntoFreeDirectory(options) ==
    /\ status = "READY" /\ ready.status = "READY"
    /\ ReadyUnmet(candidate, currentReview) = {}
    /\ handoffDir = None

\* The Ready evidence is evaluated again, not trusted.  A handoff directory
\* that is already there must be the one this operation would publish.
HandoffAllowed(options) ==
    /\ status = "READY" /\ ready.status = "READY"
    /\ ReadyUnmet(candidate, currentReview) = {}
    /\ handoffDir \in {None, HandoffOf(options)}

PrepareLocalHandoff(options) ==
    /\ HandoffAllowed(options)
    /\ handoffDir' = HandoffOf(options)
    /\ handoff' = HandoffOf(options)
    /\ status' = "LOCAL_HANDOFF_COMPLETE"
    /\ retrospective' = "NOT_RUN"
    /\ UNCHANGED <<position, resumePosition, waiting, usedTriggers, judged,
                   decided, ready, recordRef, runDir, recordFile, reviewFiles,
                   retrospectiveFile, interruptions>>

\* The directory is renamed into place before run.json.
HandoffInterrupted(options) ==
    /\ HandoffAllowed(options)
    /\ handoffDir' = HandoffOf(options)
    /\ Interrupted
    /\ UNCHANGED <<runDir, recordFile, reviewFiles, retrospectiveFile>>

RecordRetrospective(result) ==
    /\ status = "LOCAL_HANDOFF_COMPLETE"
    /\ ~retrospectiveFile
    /\ retrospectiveFile' = TRUE
    /\ retrospective' = result
    /\ UNCHANGED <<progress, judged, decided, ready, handoff, recordRef, runDir,
                   recordFile, reviewFiles, handoffDir, interruptions>>

RetrospectiveInterrupted ==
    /\ status = "LOCAL_HANDOFF_COMPLETE"
    /\ ~retrospectiveFile
    /\ retrospectiveFile' = TRUE
    /\ Interrupted
    /\ UNCHANGED <<runDir, recordFile, reviewFiles, handoffDir>>

----------------------------------------------------------------------------
Start == StartRun \/ StartRunInterrupted \/ OperateOnAbsentRun

Author ==
    \/ \E r \in Records, next \in Positions, dispositions \in BOOLEAN :
         ReplaceRecord(r, next, dispositions)
    \/ \E r \in Records, target \in Positions, dispositions \in BOOLEAN :
         RemoveSections(r, target, dispositions)
    \/ \E r \in Records : ReplaceRecordInterrupted(r)
    \/ \E kind \in Kinds : FreezeCandidate(kind)

Judge ==
    \/ \E settled \in BOOLEAN : PassRecordCandidate(settled)
    \/ \E settled \in BOOLEAN : PassPRD(settled)
    \/ \E verdict \in Verdicts : RejectCandidate(verdict)
    \/ ReviewInterrupted
    \/ \E target \in ReviewStages : RouteToStage(target)
    \/ \E w \in Waits : RouteToWait(w)
    \/ RouteToOwner

Decide ==
    \/ \E target \in EarlyStages : ChangeCognition(target)
    \/ OwnerStops \/ OwnerDefers \/ OwnerExperiments \/ OwnerCommits
    \/ \E w \in Waits : OwnerWaits(w)
    \/ \E target \in EarlyStages : OwnerResearches(target)
    \/ \E assessed \in BOOLEAN : AgentCommits(assessed) \/ AgentEscalates(assessed)

PauseOrResume ==
    \/ PauseRun
    \/ ResumePaused
    \/ \E id \in Triggers, condition \in Conditions : ResumeOnTrigger(id, condition)

Deliver ==
    \/ \E options \in Deliveries : PrepareLocalHandoff(options)
    \/ \E options \in Deliveries : HandoffInterrupted(options)
    \/ \E result \in {"COMPLETED", "COMPLETED_WITH_FINDINGS"} :
         RecordRetrospective(result)
    \/ RetrospectiveInterrupted

Next == Start \/ Author \/ Judge \/ Decide \/ PauseOrResume \/ Deliver

Spec == Init /\ [][Next]_vars

----------------------------------------------------------------------------
(* Properties *)

TypeOK ==
    /\ status \in Statuses /\ position \in Positions
    /\ resumePosition \in Positions \cup {None}
    /\ waiting \in Waits \cup {None}
    /\ usedTriggers \subseteq Triggers
    /\ candidate \in Candidates \cup {None}
    /\ candidateRequired \in BOOLEAN /\ revisionExhausted \in BOOLEAN
    /\ reviews \subseteq Reviews /\ currentReview \in Reviews \cup {None}
    /\ decision \in Decisions \cup {None}
    /\ decisionRef \in RecordCandidateRefs \cup {None}
    /\ decisionReview \in RecordCandidateRefs \cup {None}
    /\ intent \in {"EXPERIMENT", "COMMIT_NOW", None}
    /\ stage4 \in Records \cup {None}
    /\ ready \in ReadyStates
    /\ handoff \in Handoffs \cup {None} /\ handoffDir \in Handoffs \cup {None}
    /\ recordRef \in Records /\ recordFile \in Records
    /\ runDir \in BOOLEAN
    /\ reviewFiles \subseteq Kinds \X Versions
    /\ retrospective \in {"NOT_RUN", "COMPLETED", "COMPLETED_WITH_FINDINGS"}
    /\ retrospectiveFile \in BOOLEAN
    /\ interruptions \in 0 .. MaxInterruptions

PassedBy(ref, rs) == \E r \in rs : r.candidate = ref /\ r.verdict = "PASS"
IsFrozen == candidate # None /\ candidate.status = "FROZEN"

\* While a Candidate waits for its Review nothing moves under it: the Run stands
\* at the Review of that kind, a resume leads back there, and run.json and
\* planning-record.md still hold the record that was frozen.  (freeze_candidate,
\* replace_planning_record, pause_run and resume_run must agree on this.)
FrozenCandidateUndisturbed ==
    IsFrozen =>
        /\ status \in {"ACTIVE", "PAUSED"}
        /\ position = ReviewPosition[candidate.ref.kind]
        /\ status = "PAUSED" => resumePosition = position
        /\ candidate.ref.record = recordRef
        /\ recordRef = recordFile

\* A revised Candidate follows, by one version and one round, a Candidate of its
\* kind that has had its formal Review; a first version follows nothing.
RevisionLineage ==
    candidate # None =>
        /\ candidate.ref.version = candidate.round + 1
        /\ candidate.round = 0 => candidate.supersedes = None
        /\ candidate.round > 0 =>
             /\ candidate.supersedes.kind = candidate.ref.kind
             /\ candidate.supersedes.version + 1 = candidate.ref.version
             /\ \E r \in reviews : r.candidate = candidate.supersedes

\* A formal Review is immutable: a Candidate version has at most one, its file
\* exists, and the current Review is one of those recorded.
OneReviewPerVersion ==
    /\ \A r1, r2 \in reviews :
         ReviewId(r1.candidate) = ReviewId(r2.candidate) => r1 = r2
    /\ \A r \in reviews : ReviewId(r.candidate) \in reviewFiles
    /\ currentReview # None => currentReview \in reviews

\* The Decision a PRD was written from does not change while that PRD is the
\* current Candidate: neither the accepted decision, nor the Decision Candidate
\* and its Review, nor the delivery intent that fixes the type of the PRD.
PRDKeepsItsDecision ==
    IsCurrent("PRD") =>
        /\ candidate.ref.basis.decision = decision
        /\ candidate.ref.basis.candidate = decisionRef
        /\ candidate.ref.basis.review = decisionReview
        /\ candidate.ref.basis.type = PRDType(intent)

\* No decision is accepted on a Candidate without a passing Review, and an Agent
\* only ever committed, on a Review that left nothing open.
AcceptedDecisionWasReviewed ==
    decision # None =>
        /\ PassedBy(decision.candidate, reviews)
        /\ decision.source = "AGENT_PREAUTHORIZED" =>
             /\ decision.outcome = "COMMIT_NOW"
             /\ \E r \in reviews : r.candidate = decision.candidate /\ r.settled

\* candidate_required tells the Host exactly when the current Candidate can no
\* longer carry the Run: it was rejected or has become stale.
NewCandidateRequired ==
    candidate # None =>
        (candidateRequired <=> candidate.status \notin {"FROZEN", "REVIEWED_PASS"})

\* A Ready or delivered Run is exact: its PRD passed a settled Review, holds the
\* record of the Run, follows a passed Decision whose outcome is the delivery
\* intent, and a committed Run confirmed the Stage 4 dispositions of that record.
ReadyIsExact ==
    status \in {"READY", "LOCAL_HANDOFF_COMPLETE"} =>
        /\ IsCurrent("PRD") /\ candidate.status = "REVIEWED_PASS"
        /\ \E r \in reviews :
             r.candidate = candidate.ref /\ r.verdict = "PASS" /\ r.settled
        /\ candidate.ref.record = recordRef /\ recordRef = recordFile
        /\ decision # None /\ decision.outcome = intent
        /\ PassedBy(decisionRef, reviews)
        /\ intent = "COMMIT_NOW" => stage4 = recordRef
        /\ ready = [status |-> "READY", unmet |-> {}, candidate |-> candidate.ref]

\* A handoff directory that was published before a crash is never orphaned: the
\* Run is still Ready with the Candidate and Ready state the directory names, and
\* a delivered Run records the directory that is there.
PublishedHandoffRecoverable ==
    /\ handoffDir # None =>
         /\ status \in {"READY", "LOCAL_HANDOFF_COMPLETE"}
         /\ handoffDir.candidate = candidate.ref
         /\ handoffDir.ready = ready
    /\ status = "LOCAL_HANDOFF_COMPLETE" => handoff = handoffDir

KeepsDelivery ==
    /\ status' \in {status, "LOCAL_HANDOFF_COMPLETE"}
    /\ UNCHANGED <<position, judged, decided, ready, recordRef, recordFile>>

\* Only the handoff can follow Ready, and only the retrospective the handoff:
\* Candidate, Reviews, Decision, Ready state and record stay as delivered.
OnlyHandoffFollowsReady ==
    [][(status \in {"READY", "LOCAL_HANDOFF_COMPLETE"}) => KeepsDelivery]_vars

\* Some operation that takes the Run on is not refused: each of these is the
\* guard of actions that then happen for some input.
CanProceed ==
    \/ MayAdvance
    \/ \E kind \in Kinds : MayFreeze(kind)
    \/ Reviewable
    \/ \E target \in ReviewStages \cup {"WAIT", "OWNER"} : MayRoute(target)
    \/ DecisionRoutable
    \/ \E options \in Deliveries : HandoffAllowed(options)

\* The stages whose record becomes a Candidate, and the last round of one.
LastRound(kind) == position = AuthoringPosition[kind] /\ ~RevisionAllowed(kind)

\* Where the Host has no operation that takes the Run on: a stopped or delivered
\* Run, and the dead ends.  They are a Candidate whose Review has a file already
\* or whose basis is no accepted delivery decision; a Run rewound by a resume to
\* a Review that was submitted while it was paused; a PRD that passed with open
\* items; a Run handed to the OWNER; a record file an interruption left ahead of
\* run.json; a stage whose Candidate has had its last round; and a PRD to be
\* authored without any accepted decision.
StopsHere ==
    \/ status \in {"ABSENT", "PAUSED", "WAITING_TRIGGER", "LOCAL_HANDOFF_COMPLETE"}
    \/ status = "OWNER_ACTION_REQUIRED"
    \/ recordRef # recordFile
    \/ IsFrozen /\ ReviewId(candidate.ref) \in reviewFiles
    \/ IsFrozen /\ ~Verified(candidate.ref)
    \/ position \in {"PROBLEM_REVIEW", "DECISION_REVIEW"} /\ ~IsFrozen
    \/ position = "PRD_REVIEW" /\ ready.status = "NOT_READY"
    \/ \E kind \in Kinds : LastRound(kind)
    \/ position = "PRD_AUTHORING" /\ decision = None

\* These are all: whatever legal operations led to a Run, it either stops at one
\* of the named places or its Host can advance, freeze, judge, decide or deliver.
OnlyNamedDeadEnds == CanProceed \/ StopsHere

\* A Host that retries an interrupted handoff succeeds: a Ready Run is
\* eventually handed off, although an attempt may have published its directory
\* and crashed.
ReadyIsHandedOff ==
    (status = "READY") ~> (status = "LOCAL_HANDOFF_COMPLETE")

HandOff == \E options \in Deliveries : PrepareLocalHandoff(options)
FairSpec == Spec /\ WF_vars(HandOff)

----------------------------------------------------------------------------
(* What the documents say and the code does not do *)

\* A returned Run forms a new Candidate and that Candidate can be reviewed: the
\* name of its Review is free.
FrozenCandidateReviewable ==
    IsFrozen => ReviewId(candidate.ref) \notin reviewFiles

\* STOP and FUTURE_ROADMAP end the Run.
EndedRunStaysEnded ==
    [][(status \in {"COMPLETED_STOP", "COMPLETED_FUTURE_ROADMAP"}) =>
         status' = status]_vars

\* The formal route is bound to the current Decision Candidate.
ReadyDecisionIsCurrent ==
    status = "READY" => decision.candidate = decisionRef

\* A Run planned again after its last automatic revision starts a new Review
\* cycle: back at PRD authoring, a PRD Candidate can be frozen.
ReplannedPRDCanBeFrozen ==
    status = "ACTIVE" /\ position = "PRD_AUTHORING" /\ revisionExhausted =>
        RevisionAllowed("PRD")
====
