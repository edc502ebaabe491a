---------------------- MODULE CandidateReviewProgress -----------------------
(***************************************************************************)
(* What the calls of CandidateReview, and a Candidate that no call is busy *)
(* with, can always do, for every set of Hosts, plans and workers, every   *)
(* number of receipts and every bound.                                     *)
(*                                                                         *)
(* WorkInv stands beside IInv: it says what a dead process can have left   *)
(* in the archive, in the two stages and at the Ready gate, and what an    *)
(* attempt there and its receipts are.                                     *)
(***************************************************************************)
EXTENDS CandidateReviewProofs

Gate == "prd.ready.gate"

\* Receipts are issued at the Ready gate, for evidence that is bound, and never
\* taken back; a review is finished by the step that leads there; an attempt that
\* is exact finds the Run at the gate with its Pack.
Settled(r) ==
    /\ r.version > 0
    /\ r.receipts # 0 =>
         /\ r.node \in {Gate, "handoff.prepare", "handoff.dispatch"}
         /\ EvalsRequired => r.tree.evals # 0
         /\ r.dispatch.evidence
    /\ r.node \in {"review.parallel", "review.aggregate", "prd.optimize", "review.finalize"} =>
         r.tree.review = "NOT_RUN"
    /\ r.status \in {"ACTIVE", "PAUSED"} => r.node \notin {"handoff.prepare", "handoff.dispatch"}
    /\ r.dispatch.authorised <= r.version
    /\ r.dispatch.authorised = r.version =>
         /\ r.status = "ACTIVE" /\ r.node = Gate
         /\ EvalsRequired => r.tree.evals # 0

\* A new generation is prepared only before the receipts.
Settles(j) ==
    /\ Settled(j.after)
    /\ j.after.receipts = j.before.receipts /\ j.after.dispatch = j.before.dispatch
    /\ ~IsRelease(j) => j.before.receipts = 0

SettledInv ==
    /\ Settled(run)
    /\ \A j \in prepared : Settles(j)
    /\ \A h \in Hosts : call[h].journal # None => Settles(call[h].journal)

\* The call that archives a version still finds the Run where it was.
WaitingInv ==
    \A h \in Hosts :
        call[h].at \in {"changelog", "structured", "bind"} /\ call[h].journal = None =>
            run.node \in {"prd.generate", "prd.optimize"}

GateSteps == {"evidence", "snapshots", "authorise", "receipts", "receipt", "release"}

\* What a call at the Ready gate knows of its attempt, while it has the lock and
\* when it comes back for the receipts
AttemptInv ==
    \A h \in Hosts : LET at == call[h].at IN
        /\ at \in GateSteps => call[h].saw <= run.dispatch.attempt
        /\ at \in {"snapshots", "authorise"} => IsExact /\ call[h].saw = run.dispatch.attempt
        /\ at = "authorise" => ready.audited
        /\ at \in {"receipts", "receipt", "release"} /\ call[h].saw = run.dispatch.attempt =>
             run.dispatch.evidence
        /\ at = "receipt" => ready.result # "none"

\* Evidence that is bound has its snapshots, a result all its receipts, and a
\* release its result.
ResultInv ==
    /\ ready.result # "none" => run.receipts = Kinds
    /\ run.dispatch.evidence => ready.audited
    /\ run.release # None => ready.result = "receipted"
    /\ \A j \in prepared : IsRelease(j) => ready.result = "receipted"
    /\ \A h \in Hosts : call[h].journal # None /\ IsRelease(call[h].journal) =>
         ready.result = "receipted"

\* A version to come is in the archive as it was first written, or not at all.
AheadInv ==
    \A d \in Docs : run.tree = None \/ run.tree.doc < d =>
        archive[d] \in {None, [doc |-> d, evals |-> 0, review |-> "NOT_RUN"]}

StagedInv == \A d \in Docs : stage[d] # None => stage[d].doc = d

\* A stage with a Pack that nobody staged is the Ready gate's.
RepairInv ==
    /\ run.tree # None /\ stage[run.tree.doc] # None
    /\ run.receipts = 0 /\ run.release = None /\ archive[run.tree.doc] = run.tree
    /\ stage[run.tree.doc].review = "NOT_RUN" /\ ~PackIsStaged
    /\ stage[run.tree.doc].evals = run.packs + 1
    => PackIsMissing

\* Before the release, what is asserted is the current Candidate, by the attempt
\* that has all its receipts.
ReleasingInv ==
    run.release = None => \A d \in Docs : releasing[d] # None =>
        /\ run.tree # None /\ d = run.tree.doc
        /\ releasing[d] = [tree |-> run.tree, version |-> run.dispatch.authorised]
        /\ run.receipts = Kinds

WorkInv ==
    /\ ReadyTyped /\ SettledInv /\ WaitingInv /\ AttemptInv /\ ResultInv
    /\ AheadInv /\ StagedInv /\ RepairInv /\ ReleasingInv

----------------------------------------------------------------------------
(* What a step may change *)

LEMMA OtherCalls ==
    ASSUME IInv, NEW h \in Hosts, Step(h), NEW k \in Hosts, k # h
    PROVE  call'[k] = call[k]
<1>1. call \in [Hosts -> Steps]
  BY RunFacts
<1> USE DEF Do, Goto, Return
<1>2. CASE Die(h)
  BY <1>1, <1>2 DEF Die
<1>3. CASE FanoutNext(h)
  <2>1. Work(h) => call'[k] = call[k]
    BY <1>1 DEF Work, PersistStatus, Register, Executed, Joined, PersistResult
  <2>2. \A p \in Plans : PersistPlan(h, p) \/ Execute(h, p) => call'[k] = call[k]
    BY <1>1 DEF PersistPlan, Execute, Begin
  <2>3. \A p \in Plans, w \in Workers : Cancel(h, p, w) => call'[k] = call[k]
    BY <1>1 DEF Cancel
  <2>4. \A p \in Plans, s \in SUBSET Workers : Join(h, p, s) => call'[k] = call[k]
    BY <1>1 DEF Join, Begin
  <2> QED
    BY <1>3, <2>1, <2>2, <2>3, <2>4 DEF FanoutNext
<1>4. CASE PublicationNext(h)
  <2>1. Recover(h) \/ RecoverResult(h) \/ Enter(h) \/ Leave(h) => call'[k] = call[k]
    BY <1>1 DEF Recover, RecoverResult, Enter, Leave
  <2>2. AppendChangelog(h) \/ AppendStructuredChangelog(h) \/ UpdateManifest(h) \/ Bind(h)
          => call'[k] = call[k]
    BY <1>1 DEF AppendChangelog, AppendStructuredChangelog, UpdateManifest, Bind
  <2>3. WriteJournal(h) \/ WriteState(h) \/ KeepOld(h) \/ PlaceNew(h) \/ PlaceRelease(h)
          \/ MarkCommitted(h) => call'[k] = call[k]
    BY <1>1 DEF WriteJournal, WriteState, KeepOld, PlaceNew, PlaceRelease, MarkCommitted
  <2>4. Archive(h) \/ Answer(h) \/ Pause(h) \/ Resume(h) \/ StagePack(h) \/ BlockPack(h)
          => call'[k] = call[k]
    BY <1>1 DEF Archive, Answer, Pause, Resume, StagePack, BlockPack
  <2>5. Finalize(h) \/ Fulfill(h) \/ RefuseReceipt(h) => call'[k] = call[k]
    BY <1>1 DEF Finalize, Fulfill, Stage, RefuseReceipt
  <2>6. AskForPack(h) \/ DispatchReady(h) \/ WriteValidation(h) \/ WriteSnapshots(h)
          \/ ExtendChangelog \/ BindEvidence(h) \/ IssueReceipt(h) => call'[k] = call[k]
    BY <1>1 DEF AskForPack, DispatchReady, WriteValidation, WriteSnapshots, ExtendChangelog,
                BindEvidence, IssueReceipt
  <2>7. WriteResult(h) \/ WriteResultReceipt(h) \/ TakeResult(h) \/ CommitRelease(h)
          \/ CompleteRelease(h) \/ HandOff(h) => call'[k] = call[k]
    BY <1>1 DEF WriteResult, WriteResultReceipt, TakeResult, CommitRelease, CompleteRelease,
                HandOff
  <2> QED
    BY <1>4, <2>1, <2>2, <2>3, <2>4, <2>5, <2>6, <2>7 DEF PublicationNext, Barrier, Publish
<1> QED
  BY <1>2, <1>3, <1>4 DEF Step

\* The steps that write state.json
Controls(h) ==
    \/ Pause(h) \/ Resume(h) \/ Answer(h) \/ StagePack(h) \/ BlockPack(h) \/ AskForPack(h)
    \/ HandOff(h) \/ Register(h)
GateCommits(h) == DispatchReady(h) \/ BindEvidence(h) \/ IssueReceipt(h)
Writes(h) == Controls(h) \/ GateCommits(h) \/ Bind(h) \/ WriteState(h)

LEMMA OnlyWritesChangeTheRun ==
    ASSUME NEW h \in Hosts, Step(h), ~Writes(h) PROVE run' = run
BY DEF Step, Writes, Controls, GateCommits, Die, FanoutNext, Work, PersistStatus, Executed, Joined,
       PersistResult, PersistPlan, Execute, Cancel, Join, Begin, PublicationNext, Barrier, Publish,
       Recover, RecoverResult, Enter, Leave, Archive, AppendChangelog, AppendStructuredChangelog,
       UpdateManifest, Enlist, WriteJournal, KeepOld, PlaceNew, PlaceRelease, MarkCommitted,
       Finalize, Fulfill, Stage, RefuseReceipt, WriteValidation, WriteSnapshots, ExtendChangelog,
       WriteResult, WriteResultReceipt, TakeResult, CommitRelease, CompleteRelease

\* They hold the lock, or nobody does.
LEMMA WritesNeedTheLock ==
    ASSUME IInv, NEW h \in Hosts, Step(h), NEW k \in Hosts, k # h, call[k].at \in Inside
    PROVE  run' = run
<1>1. holder = k /\ call[h].at \notin Inside /\ holder # None
  BY HostAssumption DEF IInv, HolderInv
<1>2. ~Controls(h)
  BY <1>1 DEF Controls, Pause, Resume, Answer, StagePack, BlockPack, AskForPack, HandOff, Register,
              Inside
<1>3. ~GateCommits(h) /\ ~Bind(h) /\ ~WriteState(h)
  BY <1>1 DEF GateCommits, DispatchReady, BindEvidence, IssueReceipt, Bind, WriteState, Inside
<1> QED
  BY <1>2, <1>3, OnlyWritesChangeTheRun DEF Writes

\* Field by field, what they write.
LEMMA ControlWrites ==
    ASSUME IInv, NEW h \in Hosts, Controls(h), run' # run
    PROVE  /\ run' \in States /\ run'.version = run.version + 1
           /\ run'.tree = run.tree /\ run'.release = run.release
           /\ run'.dispatch = run.dispatch /\ run'.receipts = run.receipts
           /\ \/ /\ run.status \in {"ACTIVE", "PAUSED"} /\ run'.status \in {"ACTIVE", "PAUSED"}
                 /\ run'.node = run.node /\ run'.packs = run.packs /\ run'.staged = run.staged
                 /\ run'.pending = run.pending
              \/ /\ run.status = "ACTIVE" /\ run'.status = "ACTIVE"
                 /\ run.node \in {"review.parallel", "review.aggregate"}
                 /\ run'.node \in {"review.aggregate", "prd.optimize", "review.finalize"}
                 /\ run'.packs = run.packs /\ run'.staged = run.staged
                 /\ run'.pending = run.pending
              \/ /\ run'.status = run.status /\ run'.node = run.node
                 /\ run.tree # None /\ run'.staged = run.tree.doc
                 /\ run'.pending = TRUE \/ run'.packs = run.packs
              \/ /\ run.status = "RELEASED" /\ run'.status = "COMPLETED"
                 /\ run'.node = "handoff.dispatch"
              \/ /\ run'.status = run.status /\ run'.node = run.node /\ run'.packs = run.packs
                 /\ run'.staged = run.staged /\ run'.pending = run.pending
<1>1. run \in States /\ run.version + 1 \in Nat
  BY RunFacts, StateFacts
<1>2. CASE Pause(h) \/ Resume(h)
  <2>1. PICK activity \in {"ACTIVE", "PAUSED"} : Commit([run EXCEPT !.status = activity])
    BY <1>2 DEF Pause, Resume
  <2>2. run.status \in {"ACTIVE", "PAUSED"}
    BY <1>2 DEF Pause, Resume
  <2> QED
    BY <1>1, <2>1, <2>2 DEF Commit, Next, States
<1>3. CASE Answer(h)
  <2>1. PICK node \in {"review.aggregate", "prd.optimize", "review.finalize"} :
          Commit([run EXCEPT !.node = node])
    BY <1>3 DEF Answer
  <2>2. run.status = "ACTIVE" /\ run.node \in {"review.parallel", "review.aggregate"}
    BY <1>3 DEF Answer, MayAnswer
  <2> QED
    BY <1>1, <2>1, <2>2 DEF Commit, Next, States
<1>4. CASE StagePack(h)
  <2> DEFINE next == [run EXCEPT !.packs = run.packs + 1, !.staged = run.tree.doc, !.pending = TRUE]
  <2>1. Commit(next) /\ run.tree # None /\ run.packs < bound.packs
    BY <1>4 DEF StagePack, MayPrepare
  <2>2. run.tree.doc \in Docs /\ run.packs + 1 \in 0 .. MaxPacks
    <3>1. run.packs \in 0 .. MaxPacks /\ bound.packs \in 0 .. MaxPacks
      BY RunFacts, StateFacts, BoundFacts DEF BoundTyped
    <3> QED
      BY <1>1, <2>1, <3>1, StateFacts, TreeFacts, DocsAre
  <2>3. next \in States
    BY <1>1, <2>2 DEF States
  <2>4. /\ next.status = run.status /\ next.node = run.node /\ next.tree = run.tree
        /\ next.staged = run.tree.doc /\ next.pending = TRUE /\ next.dispatch = run.dispatch
        /\ next.receipts = run.receipts /\ next.release = run.release
    BY <1>1 DEF States
  <2> HIDE DEF next
  <2> QED
    BY <1>1, <2>1, <2>3, <2>4, CommitFacts
<1>5. CASE BlockPack(h)
  <2> DEFINE next == [run EXCEPT !.staged = run.tree.doc, !.pending = FALSE, !.blocked = TRUE]
  <2>1. Commit(next) /\ run.tree # None
    BY <1>5 DEF BlockPack, MayPrepare
  <2>2. run.tree.doc \in Docs
    BY <1>1, <2>1, StateFacts, TreeFacts
  <2>3. next \in States
    BY <1>1, <2>2 DEF States
  <2>4. /\ next.status = run.status /\ next.node = run.node /\ next.tree = run.tree
        /\ next.staged = run.tree.doc /\ next.packs = run.packs /\ next.dispatch = run.dispatch
        /\ next.receipts = run.receipts /\ next.release = run.release
    BY <1>1 DEF States
  <2> HIDE DEF next
  <2> QED
    BY <1>1, <2>1, <2>3, <2>4, CommitFacts
<1>6. CASE AskForPack(h)
  <2>1. Commit([run EXCEPT !.asked = TRUE])
    BY <1>6 DEF AskForPack
  <2> QED
    BY <1>1, <2>1 DEF Commit, Next, States
<1>7. CASE HandOff(h)
  <2>1. /\ Commit([run EXCEPT !.status = "COMPLETED", !.node = "handoff.dispatch"])
        /\ run.status = "RELEASED"
    BY <1>7 DEF HandOff, MayHandOff
  <2> QED
    BY <1>1, <2>1 DEF Commit, Next, States
<1>8. CASE Register(h)
  <2>1. Commit([run EXCEPT !.plans = run.plans \cup {call[h].plan}]) /\ call[h].plan \in Plans
    BY <1>8 DEF Register, IInv, CallInv, Doing, Fanning
  <2> QED
    BY <1>1, <2>1 DEF Commit, Next, States
<1> QED
  BY <1>2, <1>3, <1>4, <1>5, <1>6, <1>7, <1>8 DEF Controls

LEMMA LaterVersion ==
    ASSUME IInv, NEW h \in Hosts, Controls(h), run' # run
    PROVE  /\ run'.version > 0 /\ run'.tree = run.tree /\ run'.release = run.release
           /\ run'.receipts = run.receipts /\ run'.dispatch = run.dispatch
           /\ run.dispatch.authorised <= run.version => run.dispatch.authorised < run'.version
<1>1. /\ run'.version = run.version + 1 /\ run'.tree = run.tree /\ run'.release = run.release
      /\ run'.receipts = run.receipts /\ run'.dispatch = run.dispatch
  BY ControlWrites
<1>2. run.version \in Nat /\ run.dispatch.authorised \in Nat
  BY RunFacts, StateFacts
<1> QED
  BY <1>1, <1>2

\* What the gate commits leaves everything but the attempt and the receipts.
LEMMA GateCommitWrites ==
    ASSUME IInv, WorkInv, NEW h \in Hosts, GateCommits(h), run' # run
    PROVE  /\ run' \in States /\ run'.version = run.version + 1
           /\ run'.status = run.status /\ run'.node = run.node /\ run'.tree = run.tree
           /\ run'.packs = run.packs /\ run'.staged = run.staged /\ run'.pending = run.pending
           /\ run'.release = run.release
           /\ run.status = "ACTIVE" /\ run.node = Gate /\ (EvalsRequired => run.tree.evals # 0)
           /\ run'.dispatch.authorised = run'.version
           /\ \/ /\ DispatchReady(h) /\ run.receipts = 0 /\ run'.receipts = 0
                 /\ run'.dispatch.attempt = run.dispatch.attempt + 1
                 /\ run'.dispatch.evidence = FALSE
              \/ /\ BindEvidence(h) /\ ~run.dispatch.evidence /\ run'.receipts = run.receipts
                 /\ run'.dispatch.attempt = run.dispatch.attempt
                 /\ run'.dispatch.evidence = TRUE
              \/ /\ IssueReceipt(h) /\ run.dispatch.evidence /\ run.receipts # Kinds
                 /\ run'.receipts # 0
                 /\ run'.dispatch.attempt = run.dispatch.attempt
                 /\ run'.dispatch.evidence = TRUE
<1>1. /\ run \in States /\ run.version + 1 \in Nat /\ run.dispatch.attempt + 1 \in Nat
      /\ run.dispatch \in [attempt : Nat, authorised : Nat, evidence : BOOLEAN]
      /\ run.receipts \in 0 .. Kinds /\ Kinds \in Nat
  BY RunFacts, StateFacts, KindsAssumption
<1>2. IsExact => /\ run.status = "ACTIVE" /\ run.node = Gate
                 /\ (EvalsRequired => run.tree.evals # 0)
  BY DEF WorkInv, SettledInv, Settled, IsExact
<1>3. CASE DispatchReady(h)
  <2> DEFINE next == [run EXCEPT !.dispatch = [attempt |-> run.dispatch.attempt + 1,
                                               authorised |-> run.version + 1,
                                               evidence |-> FALSE]]
  <2>1. Commit(next) /\ ~IsExact /\ MayDispatchReady
    BY <1>3 DEF DispatchReady
  <2>2. /\ run.status = "ACTIVE" /\ run.node = Gate /\ run.receipts = 0
        /\ (EvalsRequired => run.tree.evals # 0)
    BY <2>1 DEF MayDispatchReady, AtGate, EvalsAreBound, Gate
  <2>3. /\ next \in States /\ next.status = run.status /\ next.node = run.node
        /\ next.tree = run.tree /\ next.packs = run.packs /\ next.staged = run.staged
        /\ next.pending = run.pending /\ next.release = run.release
        /\ next.receipts = run.receipts /\ next.dispatch.attempt = run.dispatch.attempt + 1
        /\ next.dispatch.authorised = run.version + 1 /\ next.dispatch.evidence = FALSE
    BY <1>1 DEF States
  <2> HIDE DEF next
  <2> QED
    BY <1>1, <1>3, <2>1, <2>2, <2>3, CommitFacts
<1>4. CASE BindEvidence(h)
  <2> DEFINE next == Reauthorised([run EXCEPT !.dispatch.evidence = TRUE])
  <2>1. Commit(next) /\ ~run.dispatch.evidence /\ call[h].at = "authorise"
    BY <1>4 DEF BindEvidence
  <2>2. IsExact
    BY <2>1 DEF WorkInv, AttemptInv
  <2>3. /\ next \in States /\ next.status = run.status /\ next.node = run.node
        /\ next.tree = run.tree /\ next.packs = run.packs /\ next.staged = run.staged
        /\ next.pending = run.pending /\ next.release = run.release
        /\ next.receipts = run.receipts /\ next.dispatch.attempt = run.dispatch.attempt
        /\ next.dispatch.authorised = run.version + 1 /\ next.dispatch.evidence = TRUE
    BY <1>1 DEF States, Reauthorised
  <2> HIDE DEF next
  <2> QED
    BY <1>1, <1>2, <1>4, <2>1, <2>2, <2>3, CommitFacts
<1>5. CASE IssueReceipt(h)
  <2> DEFINE next == Reauthorised([run EXCEPT !.receipts = run.receipts + 1])
  <2>1. /\ Commit(next) /\ call[h].at = "receipts" /\ IsExact /\ run.receipts < Kinds
        /\ call[h].saw = run.dispatch.attempt
    BY <1>5 DEF IssueReceipt, HasAttempt
  <2>2. run.dispatch.evidence
    BY <2>1 DEF WorkInv, AttemptInv
  <2>3. run.receipts + 1 \in 0 .. Kinds /\ run.receipts + 1 # 0 /\ run.receipts # Kinds
    BY <1>1, <2>1
  <2>4. /\ next \in States /\ next.status = run.status /\ next.node = run.node
        /\ next.tree = run.tree /\ next.packs = run.packs /\ next.staged = run.staged
        /\ next.pending = run.pending /\ next.release = run.release
        /\ next.receipts = run.receipts + 1 /\ next.dispatch.attempt = run.dispatch.attempt
        /\ next.dispatch.authorised = run.version + 1
        /\ next.dispatch.evidence = run.dispatch.evidence
    BY <1>1, <2>3 DEF States, Reauthorised
  <2> HIDE DEF next
  <2>5. run'.dispatch.evidence = TRUE
    BY <1>1, <2>1, <2>2, <2>4, CommitFacts
  <2> QED
    BY <1>1, <1>2, <1>5, <2>1, <2>2, <2>3, <2>4, <2>5, CommitFacts
<1> QED
  BY <1>3, <1>4, <1>5 DEF GateCommits

LEMMA BindWrites ==
    ASSUME IInv, NEW h \in Hosts, Bind(h)
    PROVE  /\ run' \in States /\ run'.version = run.version + 1 /\ run'.tree = NewTree
           /\ NewDoc \in Docs /\ run'.status = run.status
           /\ run'.node = "review.parallel" /\ run'.receipts = run.receipts
           /\ run'.release = run.release /\ run'.dispatch = run.dispatch
<1> DEFINE next == [run EXCEPT !.node = "review.parallel", !.tree = NewTree, !.generation = NewDoc]
<1>1. Commit(next) /\ NewDoc \in Docs /\ run \in States
  BY RunFacts DEF Bind, IInv, CallInv, Doing, Publishing
<1>2. NewTree \in Trees /\ NewDoc \in Generations
  BY <1>1, DocsAre DEF NewTree, Trees, Generations, Docs
<1>3. next \in States
  BY <1>1, <1>2 DEF States
<1>4. /\ next.status = run.status /\ next.node = "review.parallel" /\ next.tree = NewTree
      /\ next.receipts = run.receipts /\ next.release = run.release
      /\ next.dispatch = run.dispatch
  BY <1>1 DEF States
<1> HIDE DEF next
<1> QED
  BY <1>1, <1>3, <1>4, CommitFacts

\* What the state becomes was journalled.
LEMMA StateWrites ==
    ASSUME IInv, NEW h \in Hosts, WriteState(h)
    PROVE  LET j == call[h].journal IN
           /\ j \in Journals /\ j # None /\ Publishes(j) /\ run = j.before /\ run' = j.after
           /\ Ready(j) /\ UNCHANGED publication
BY DEF WriteState, IInv, CallInv, Doing, Publishing

\* The attempts are counted, and evidence that is bound stays so.
LEMMA DispatchGoes ==
    ASSUME IInv, WorkInv, NEW h \in Hosts, Step(h)
    PROVE  /\ run.dispatch.attempt \in Nat /\ run'.dispatch.attempt \in Nat
           /\ run.dispatch.attempt <= run'.dispatch.attempt
           /\ run'.dispatch.attempt = run.dispatch.attempt =>
                (run.dispatch.evidence => run'.dispatch.evidence)
<1>1. run.dispatch.attempt \in Nat
  BY RunFacts, StateFacts
<1>2. CASE run'.dispatch = run.dispatch
  BY <1>1, <1>2
<1>3. CASE GateCommits(h) /\ run' # run
  <2>1. \/ run'.dispatch.attempt = run.dispatch.attempt + 1
        \/ run'.dispatch.attempt = run.dispatch.attempt /\ run'.dispatch.evidence = TRUE
    BY <1>3, GateCommitWrites
  <2> QED
    BY <1>1, <2>1
<1>4. WriteState(h) => run'.dispatch = run.dispatch
  BY StateWrites DEF WorkInv, SettledInv, Settles
<1> QED
  BY <1>2, <1>3, <1>4, OnlyWritesChangeTheRun, ControlWrites, BindWrites DEF Writes

\* What is written at the gate is not taken back.
LEMMA ReadyGoes ==
    ASSUME IInv, WorkInv, NEW h \in Hosts, Step(h)
    PROVE  /\ ready.audited => ready'.audited
           /\ ready.result # "none" => ready'.result # "none"
           /\ ready.result = "receipted" => ready'.result = "receipted"
           /\ \/ ready'.result = ready.result
              \/ ready.result # "none"
              \/ WriteResult(h)
<1>1. ReadyTyped
  BY DEF WorkInv
<1>2. CASE ready' = ready
  BY <1>2
<1>3. CASE DispatchReady(h)
  BY <1>1, <1>3 DEF DispatchReady, ReadyTyped
<1>4. CASE WriteValidation(h) \/ WriteSnapshots(h) \/ ExtendChangelog
  BY <1>1, <1>4 DEF WriteValidation, WriteSnapshots, ExtendChangelog, ReadyTyped
<1>5. CASE WriteResult(h) \/ RecoverResult(h)
  BY <1>1, <1>5 DEF WriteResult, RecoverResult, ReadyTyped
<1>6. CASE WriteResultReceipt(h)
  <2>1. ready.result # "none"
    BY <1>6 DEF WriteResultReceipt, WorkInv, AttemptInv
  <2> QED
    BY <1>1, <1>6, <2>1 DEF WriteResultReceipt, ReadyTyped
<1>7. CASE Fulfill(h)
  BY <1>1, <1>7 DEF Fulfill, WriteReceipt, ReadyTyped
<1> QED
  BY <1>2, <1>3, <1>4, <1>5, <1>6, <1>7, OthersLeaveReady

----------------------------------------------------------------------------
(* The journals that calls prepare *)

LEMMA FinalizeFacts ==
    ASSUME IInv, NEW h \in Hosts, Finalize(h)
    PROVE  LET j == call'[h].journal IN
           /\ call'[h].at = "journal" /\ run' = run
           /\ run.status = "ACTIVE" /\ run.node = "review.finalize" /\ run.tree \in Trees
           /\ run.tree.review = "NOT_RUN"
           /\ j.before = run /\ j.after.version = run.version + 1
           /\ j.after.status = "ACTIVE" /\ j.after.node = Gate
           /\ j.after.receipts = run.receipts /\ j.after.release = run.release
           /\ j.after.dispatch = run.dispatch
           /\ archive[run.tree.doc] = run.tree
           /\ stage' = [stage EXCEPT ![run.tree.doc] = [run.tree EXCEPT !.review = "FINALIZED"]]
           /\ UNCHANGED <<archive, releasing, prepared>>
<1> DEFINE j == [before |-> run, after |-> Next(Finalized)]
<1>1. /\ run.status = "ACTIVE" /\ run.node = "review.finalize" /\ run.tree.review = "NOT_RUN"
      /\ MayStage(Finalized)
      /\ stage' = [stage EXCEPT ![run.tree.doc] = Finalized.tree]
      /\ Do(h, [Idle EXCEPT !.at = "journal", !.journal = j])
      /\ UNCHANGED <<run, archive, releasing, prepared>>
  BY DEF Finalize, Stage, MayFinalize
<1>2. run \in States /\ run.tree \in Trees
  BY <1>1, RunFacts, StateFacts DEF Sound
<1>3. /\ Finalized.tree = [run.tree EXCEPT !.review = "FINALIZED"]
      /\ Next(Finalized).version = run.version + 1 /\ Next(Finalized).status = run.status
      /\ Next(Finalized).node = Gate /\ Next(Finalized).receipts = run.receipts
      /\ Next(Finalized).release = run.release /\ Next(Finalized).dispatch = run.dispatch
  BY <1>2 DEF Finalized, Next, States, Gate
<1>4. call'[h].at = "journal" /\ call'[h].journal = j
  BY <1>1, RunFacts DEF Do, Idle
<1>5. j.before = run /\ j.after = Next(Finalized)
  OBVIOUS
<1> HIDE DEF j
<1> QED
  BY <1>1, <1>2, <1>3, <1>4, <1>5 DEF MayStage

LEMMA FulfillFacts ==
    ASSUME IInv, NEW h \in Hosts, Fulfill(h)
    PROVE  LET j == call'[h].journal
               tree == [doc |-> run.tree.doc, evals |-> PackToBind, review |-> "NOT_RUN"]
           IN
           /\ call'[h].at = "journal" /\ run' = run
           /\ run.status = "ACTIVE" /\ run.tree \in Trees
           /\ run.receipts = 0 /\ run.release = None
           /\ PackIsStaged \/ PackIsMissing
           /\ j.before = run /\ j.after.version = run.version + 1
           /\ j.after.status = "ACTIVE" /\ j.after.node = "review.parallel"
           /\ j.after.receipts = run.receipts /\ j.after.release = run.release
           /\ j.after.dispatch = run.dispatch
           /\ j.after.tree = tree /\ archive[run.tree.doc] = run.tree
           /\ stage' = [stage EXCEPT ![run.tree.doc] = tree]
           /\ UNCHANGED <<archive, releasing, prepared>>
<1> DEFINE after == Fulfilled(PackToBind)
           j == [before |-> run, after |-> Next(after)]
           tree == [doc |-> run.tree.doc, evals |-> PackToBind, review |-> "NOT_RUN"]
<1>1. /\ MayFulfill /\ MayStage(after)
      /\ stage' = [stage EXCEPT ![run.tree.doc] = after.tree]
      /\ Do(h, [Idle EXCEPT !.at = "journal", !.journal = j])
      /\ UNCHANGED <<run, archive, releasing, prepared>>
  BY DEF Fulfill, Stage
<1>2. run \in States /\ run.tree \in Trees
  BY <1>1, RunFacts, StateFacts DEF MayFulfill
<1>3. /\ after.tree = tree
      /\ Next(after).version = run.version + 1 /\ Next(after).status = run.status
      /\ Next(after).node = "review.parallel" /\ Next(after).receipts = run.receipts
      /\ Next(after).release = run.release /\ Next(after).tree = tree
      /\ Next(after).dispatch = run.dispatch
  BY <1>2 DEF Fulfilled, Next, States
<1>4. call'[h].at = "journal" /\ call'[h].journal = j
  BY <1>1, RunFacts DEF Do, Idle
<1>5. j.before = run /\ j.after = Next(after)
  OBVIOUS
<1> HIDE DEF j, after
<1> QED
  BY <1>1, <1>2, <1>3, <1>4, <1>5 DEF MayStage, MayFulfill

\* What a refused receipt leaves behind
LEMMA RefusedFacts ==
    ASSUME IInv, NEW h \in Hosts, RefuseReceipt(h)
    PROVE  /\ run' = run /\ run.tree \in Trees /\ archive' = archive
           /\ PackIsStaged \/ PackIsMissing
           /\ stage' = [stage EXCEPT ![run.tree.doc] =
                           [doc |-> run.tree.doc, evals |-> PackToBind, review |-> "NOT_RUN"]]
<1>1. /\ MayFulfill /\ run' = run /\ archive' = archive
      /\ stage' = [stage EXCEPT ![run.tree.doc] = Fulfilled(PackToBind).tree]
  BY DEF RefuseReceipt
<1>2. run \in States /\ run.tree \in Trees
  BY <1>1, RunFacts, StateFacts DEF MayFulfill
<1>3. Fulfilled(PackToBind).tree =
        [doc |-> run.tree.doc, evals |-> PackToBind, review |-> "NOT_RUN"]
  BY <1>2 DEF Fulfilled, States
<1> QED
  BY <1>1, <1>2, <1>3 DEF MayFulfill

LEMMA CommitReleaseFacts ==
    ASSUME IInv, WorkInv, NEW h \in Hosts, CommitRelease(h)
    PROVE  LET j == call'[h].journal IN
           /\ call'[h].at = "journal" /\ run' = run
           /\ run.dispatch.authorised = run.version /\ ready.result = "receipted"
           /\ run.receipts = Kinds /\ run.dispatch.evidence
           /\ run.status = "ACTIVE" /\ run.tree \in Trees /\ run.release = None
           /\ EvalsRequired => run.tree.evals # 0
           /\ j.before = run /\ j.after.version = run.version + 1
           /\ j.after.status = "RELEASED" /\ j.after.node = "handoff.prepare"
           /\ j.after.receipts = run.receipts /\ j.after.release = run.tree
           /\ j.after.tree = run.tree /\ j.after.dispatch = run.dispatch
           /\ releasing' = [releasing EXCEPT ![run.tree.doc] =
                               [tree |-> run.tree, version |-> run.version]]
           /\ UNCHANGED <<archive, stage, prepared>>
<1> DEFINE after == [run EXCEPT !.status = "RELEASED", !.node = "handoff.prepare",
                                !.release = run.tree]
           j == [before |-> run, after |-> Next(after)]
<1>1. /\ IsExact /\ ready.result = "receipted" /\ run.status = "ACTIVE"
      /\ run.node = "prd.ready.gate" /\ (EvalsRequired => run.tree.evals # 0)
      /\ releasing' = [releasing EXCEPT ![run.tree.doc] = Asserted]
      /\ Do(h, [Idle EXCEPT !.at = "journal", !.journal = j])
      /\ UNCHANGED <<run, archive, stage, prepared>>
  BY DEF CommitRelease, HasAttempt, AtGate, EvalsAreBound
<1>2. run \in States /\ run.tree \in Trees /\ run.release = None
  BY <1>1, RunFacts, StateFacts DEF Sound
<1>3. run.receipts = Kinds /\ run.dispatch.evidence
  <2>1. run.receipts = Kinds
    BY <1>1 DEF WorkInv, ResultInv
  <2>2. run.receipts # 0
    BY <2>1, KindsAssumption
  <2> QED
    BY <2>1, <2>2 DEF WorkInv, SettledInv, Settled
<1>4. /\ Next(after).version = run.version + 1 /\ Next(after).status = "RELEASED"
      /\ Next(after).node = "handoff.prepare" /\ Next(after).receipts = run.receipts
      /\ Next(after).release = run.tree /\ Next(after).tree = run.tree
      /\ Next(after).dispatch = run.dispatch
  BY <1>2 DEF Next, States
<1>5. call'[h].at = "journal" /\ call'[h].journal = j
  BY <1>1, RunFacts DEF Do, Idle
<1>6. j.before = run /\ j.after = Next(after)
  OBVIOUS
<1> HIDE DEF j, after
<1> QED
  BY <1>1, <1>2, <1>3, <1>4, <1>5, <1>6 DEF Asserted, IsExact

Prepares(h) == Finalize(h) \/ Fulfill(h) \/ CommitRelease(h)

\* A journal is the call's own, was prepared, or is new.
LEMMA JournalsComeFrom ==
    ASSUME IInv, NEW h \in Hosts, Step(h), ~Prepares(h)
    PROVE  call'[h].journal \in {None, call[h].journal} \cup prepared
<1>1. call \in [Hosts -> Steps] /\ call[h] \in Steps /\ Idle \in Steps /\ Idle.journal = None
  BY RunFacts, IdleIsAStep
<1>2. Return(h) => call'[h].journal = None
  BY <1>1 DEF Return, Do
<1>3. \A at : Goto(h, at) => call'[h].journal = call[h].journal
  BY <1>1 DEF Goto, Do, Steps
<1>4. \A step : Do(h, step) => call'[h] = step
  BY <1>1 DEF Do
<1>5. CASE Die(h)
  BY <1>2, <1>5 DEF Die
<1>6. CASE FanoutNext(h)
  <2>1. Work(h) => call'[h].journal \in {None, call[h].journal}
    BY <1>2, <1>3 DEF Work, PersistStatus, Register, Executed, Joined, PersistResult
  <2>2. \A p, where, workers : Begin(h, p, where, workers) => call'[h].journal = None
    BY <1>4 DEF Begin, Idle
  <2>3. \A p \in Plans : PersistPlan(h, p) \/ Execute(h, p) => call'[h].journal = None
    BY <2>2 DEF PersistPlan, Execute
  <2>4. \A p \in Plans, w \in Workers : Cancel(h, p, w) => call'[h] = call[h]
    BY DEF Cancel
  <2>5. \A p \in Plans, s \in SUBSET Workers : Join(h, p, s) => call'[h].journal = None
    BY <2>2 DEF Join
  <2> QED
    BY <1>6, <2>1, <2>3, <2>4, <2>5 DEF FanoutNext
<1>7. CASE PublicationNext(h)
  <2>1. Recover(h) \/ CompleteRelease(h) => call'[h].journal \in prepared
    BY <1>4 DEF Recover, CompleteRelease, Idle
  <2>2. Enter(h) \/ DispatchReady(h) => call'[h].journal = None
    BY <1>4 DEF Enter, DispatchReady, Idle
  <2>3. Leave(h) \/ Bind(h) \/ MarkCommitted(h) \/ Pause(h) \/ Resume(h) \/ StagePack(h)
          \/ BlockPack(h) \/ RefuseReceipt(h) \/ AskForPack(h) \/ HandOff(h)
          => call'[h].journal = None
    BY <1>2 DEF Leave, Bind, MarkCommitted, Pause, Resume, StagePack, BlockPack, RefuseReceipt,
                AskForPack, HandOff
  <2>4. Archive(h) \/ AppendChangelog(h) \/ AppendStructuredChangelog(h) \/ UpdateManifest(h)
          => call'[h].journal = call[h].journal
    BY <1>3 DEF Archive, AppendChangelog, AppendStructuredChangelog, UpdateManifest
  <2>5. WriteJournal(h) \/ WriteState(h) \/ PlaceNew(h) \/ PlaceRelease(h)
          => call'[h].journal = call[h].journal
    BY <1>3 DEF WriteJournal, WriteState, PlaceNew, PlaceRelease
  <2>6. KeepOld(h) \/ Answer(h) \/ RecoverResult(h) \/ ExtendChangelog \/ IssueReceipt(h)
          => call' = call
    BY DEF KeepOld, Answer, RecoverResult, ExtendChangelog, IssueReceipt
  <2>7. WriteValidation(h) \/ BindEvidence(h) \/ WriteResult(h) \/ WriteResultReceipt(h)
          \/ TakeResult(h) => call'[h].journal = call[h].journal
    BY <1>3 DEF WriteValidation, BindEvidence, WriteResult, WriteResultReceipt, TakeResult
  <2>8. WriteSnapshots(h) => call'[h].journal \in {None, call[h].journal}
    BY <1>2, <1>3 DEF WriteSnapshots
  <2> QED
    BY <1>7, <2>1, <2>2, <2>3, <2>4, <2>5, <2>6, <2>7, <2>8
       DEF PublicationNext, Barrier, Publish, Prepares
<1> QED
  BY <1>5, <1>6, <1>7 DEF Step

\* The steps of a call at the gate
AtReady(h) ==
    \/ DispatchReady(h) \/ WriteValidation(h) \/ WriteSnapshots(h) \/ BindEvidence(h)
    \/ IssueReceipt(h) \/ WriteResult(h) \/ WriteResultReceipt(h) \/ TakeResult(h)

\* Where a step leads the call
LEMMA Arrives ==
    ASSUME IInv, WorkInv, NEW h \in Hosts, Step(h)
    PROVE  \/ Archive(h) \/ AtReady(h)
           \/ call'[h].at \notin {"changelog", "structured", "bind"} \cup GateSteps
           \/ /\ call[h].at \in {"changelog", "structured"}
              /\ call'[h].at \notin GateSteps
              /\ call'[h].journal = call[h].journal /\ run' = run
           \/ call'[h].at = "changelog" /\ call'[h].journal # None
           \/ ExtendChangelog
<1>1. call \in [Hosts -> Steps] /\ call[h] \in Steps /\ Idle \in Steps /\ Idle.at = "idle"
  BY RunFacts, IdleIsAStep
<1> USE DEF GateSteps
<1>2. Return(h) => call'[h].at = "idle"
  BY <1>1 DEF Return, Do
<1>3. \A at : Goto(h, at) => call'[h].at = at /\ call'[h].journal = call[h].journal
  BY <1>1 DEF Goto, Do, Steps
<1>4. \A step : Do(h, step) => call'[h] = step
  BY <1>1 DEF Do
<1>5. CASE Die(h)
  BY <1>2, <1>5 DEF Die
<1>6. CASE FanoutNext(h)
  <2>1. Register(h) \/ Executed(h) \/ Joined(h) => call'[h].at = "idle"
    BY <1>2 DEF Register, Executed, Joined
  <2>2. PersistStatus(h) => call'[h].at = "register"
    BY <1>3 DEF PersistStatus
  <2>3. \A w \in Workers : PersistResult(h, w) => call'[h].at = "work"
    BY DEF PersistResult
  <2>4. \A p, where, workers : Begin(h, p, where, workers) => call'[h].at = where
    BY <1>4 DEF Begin, Idle
  <2>5. \A p \in Plans : PersistPlan(h, p) \/ Execute(h, p) => call'[h].at \in {"status", "work"}
    BY <2>4 DEF PersistPlan, Execute
  <2>6. \A p \in Plans, w \in Workers : Cancel(h, p, w) => call'[h].at = "idle"
    BY DEF Cancel
  <2>7. \A p \in Plans, s \in SUBSET Workers : Join(h, p, s) => call'[h].at = "joined"
    BY <2>4 DEF Join
  <2> QED
    BY <1>6, <2>1, <2>2, <2>3, <2>5, <2>6, <2>7 DEF FanoutNext, Work
<1>7. CASE PublicationNext(h)
  <2>1. Recover(h) \/ CompleteRelease(h) => call'[h].at \in {"state", "move"}
    BY <1>4 DEF Recover, CompleteRelease, Idle
  <2>2. Enter(h) => call'[h].at = "passed"
    BY <1>4 DEF Enter, Idle
  <2>3. Leave(h) \/ Bind(h) \/ MarkCommitted(h) \/ Pause(h) \/ Resume(h) \/ StagePack(h)
          \/ BlockPack(h) \/ RefuseReceipt(h) \/ AskForPack(h) \/ HandOff(h)
          => call'[h].at = "idle"
    BY <1>2 DEF Leave, Bind, MarkCommitted, Pause, Resume, StagePack, BlockPack, RefuseReceipt,
                AskForPack, HandOff
  <2>4. AppendChangelog(h) \/ AppendStructuredChangelog(h) =>
          /\ call[h].at \in {"changelog", "structured"} /\ call'[h].at \notin GateSteps
          /\ call'[h].journal = call[h].journal /\ run' = run
    BY <1>3 DEF AppendChangelog, AppendStructuredChangelog, Enlist
  <2>5. UpdateManifest(h) \/ WriteJournal(h) \/ WriteState(h) \/ PlaceNew(h)
          => call'[h].at \in {"commit", "state", "move"}
    BY <1>3 DEF UpdateManifest, WriteJournal, WriteState, PlaceNew
  <2>6. PlaceRelease(h) => call'[h].at = "changelog" /\ call'[h].journal # None
    BY <1>3 DEF PlaceRelease, IInv, CallInv, Doing, Publishing
  <2>7. KeepOld(h) => call'[h].at = "move"
    BY DEF KeepOld
  <2>8. Answer(h) \/ RecoverResult(h) => call'[h].at = "idle"
    BY DEF Answer, RecoverResult
  <2>9. Finalize(h) \/ Fulfill(h) \/ CommitRelease(h) => call'[h].at = "journal"
    BY FinalizeFacts, FulfillFacts, CommitReleaseFacts
  <2> QED
    BY <1>7, <2>1, <2>2, <2>3, <2>4, <2>5, <2>6, <2>7, <2>8, <2>9
       DEF PublicationNext, Barrier, Publish, AtReady
<1> QED
  BY <1>5, <1>6, <1>7 DEF Step

LEMMA PreparedComesFrom ==
    ASSUME NEW h \in Hosts, Step(h)
    PROVE  \/ prepared' \subseteq prepared
           \/ WriteJournal(h) /\ prepared' = prepared \cup {call[h].journal}
<1>1. UNCHANGED publication => prepared' = prepared
  BY DEF publication
<1>2. PublicationNext(h) =>
           \/ prepared' \subseteq prepared
           \/ WriteJournal(h) /\ prepared' = prepared \cup {call[h].journal}
  BY DEF publication, PublicationNext, Barrier, Publish, Recover, RecoverResult, Enter, Leave,
         Archive, AppendChangelog, AppendStructuredChangelog, UpdateManifest, Enlist, Bind,
         WriteJournal, WriteState, KeepOld, PlaceNew, PlaceRelease, MarkCommitted, Answer, Pause,
         Resume, StagePack, BlockPack, Finalize, Fulfill, Stage, RefuseReceipt, AskForPack,
         DispatchReady, WriteValidation, WriteSnapshots, ExtendChangelog, BindEvidence,
         IssueReceipt, WriteResult, WriteResultReceipt, TakeResult, CommitRelease,
         CompleteRelease, HandOff
<1> QED
  BY <1>1, <1>2 DEF Step

\* Only the call that has published a journal marks it.
LEMMA PreparedStays ==
    ASSUME NEW h \in Hosts, Step(h), ~MarkCommitted(h)
    PROVE  prepared \subseteq prepared'
<1>1. UNCHANGED publication => prepared' = prepared
  BY DEF publication
<1>2. PublicationNext(h) => prepared \subseteq prepared'
  BY DEF publication, PublicationNext, Barrier, Publish, Recover, RecoverResult, Enter, Leave,
         Archive, AppendChangelog, AppendStructuredChangelog, UpdateManifest, Enlist, Bind,
         WriteJournal, WriteState, KeepOld, PlaceNew, PlaceRelease, Answer, Pause, Resume,
         StagePack, BlockPack, Finalize, Fulfill, Stage, RefuseReceipt, AskForPack,
         DispatchReady, WriteValidation, WriteSnapshots, ExtendChangelog, BindEvidence,
         IssueReceipt, WriteResult, WriteResultReceipt, TakeResult, CommitRelease,
         CompleteRelease, HandOff
<1> QED
  BY <1>1, <1>2 DEF Step

LEMMA VersionGoes ==
    ASSUME IInv, WorkInv, NEW h \in Hosts, Step(h)
    PROVE  run' = run \/ run'.version = run.version + 1
<1>1. WriteState(h) => run'.version = run.version + 1
  BY StateWrites DEF Publishes
<1> QED
  BY <1>1, OnlyWritesChangeTheRun, ControlWrites, GateCommitWrites, BindWrites DEF Writes

LEMMA FilesChange ==
    ASSUME NEW h \in Hosts, Step(h)
    PROVE  /\ archive' # archive => Archive(h) \/ KeepOld(h) \/ PlaceNew(h)
           /\ stage' # stage => Finalize(h) \/ Fulfill(h) \/ RefuseReceipt(h) \/ PlaceNew(h)
           /\ releasing' # releasing => CommitRelease(h) \/ PlaceRelease(h)
<1>1. UNCHANGED publication => UNCHANGED <<archive, stage, releasing>>
  BY DEF publication, files
<1>2. PublicationNext(h) =>
           /\ archive' # archive => Archive(h) \/ KeepOld(h) \/ PlaceNew(h)
           /\ stage' # stage => Finalize(h) \/ Fulfill(h) \/ RefuseReceipt(h) \/ PlaceNew(h)
           /\ releasing' # releasing => CommitRelease(h) \/ PlaceRelease(h)
  BY DEF publication, files, PublicationNext, Barrier, Publish, Recover, RecoverResult, Enter,
         Leave, Archive, AppendChangelog, AppendStructuredChangelog, UpdateManifest, Enlist, Bind,
         WriteJournal, WriteState, KeepOld, PlaceNew, PlaceRelease, MarkCommitted, Answer, Pause,
         Resume, StagePack, BlockPack, Finalize, Fulfill, Stage, RefuseReceipt, AskForPack,
         DispatchReady, WriteValidation, WriteSnapshots, ExtendChangelog, BindEvidence,
         IssueReceipt, WriteResult, WriteResultReceipt, TakeResult, CommitRelease,
         CompleteRelease, HandOff
<1> QED
  BY <1>1, <1>2 DEF Step

----------------------------------------------------------------------------
(* WorkInv is kept, one part at a time *)

\* The journals that are prepared settle their states.
LEMMA PreparesSettled ==
    ASSUME IInv, WorkInv, NEW h \in Hosts, Prepares(h)
    PROVE  Settles(call'[h].journal)
<1>1. /\ run.version + 1 > 0 /\ run.dispatch.authorised < run.version + 1
      /\ run.dispatch.authorised \in Nat /\ run.version \in Nat
  <2>1. run.version \in Nat /\ run.dispatch.authorised \in Nat
    BY RunFacts, StateFacts
  <2>2. run.dispatch.authorised <= run.version
    BY DEF WorkInv, SettledInv, Settled
  <2> QED
    BY <2>1, <2>2
<1>2. run.dispatch.authorised <= run.version + 1 /\ run.dispatch.authorised # run.version + 1
  BY <1>1
<1>3. CASE Finalize(h)
  <2> DEFINE j == call'[h].journal
  <2>1. run.receipts = 0
    BY <1>3, FinalizeFacts DEF WorkInv, SettledInv, Settled, Gate
  <2>2. j.after.version > 0 /\ j.after.receipts = 0 /\ j.before.receipts = 0
        /\ j.after.dispatch = j.before.dispatch
        /\ j.after.dispatch.authorised <= j.after.version
        /\ j.after.dispatch.authorised # j.after.version
    BY <1>1, <1>2, <1>3, <2>1, FinalizeFacts
  <2>3. j.after.status = "ACTIVE" /\ j.after.node = Gate
    BY <1>3, FinalizeFacts
  <2> HIDE DEF j
  <2>4. Settles(j)
    BY <2>2, <2>3 DEF Settles, Settled, Gate
  <2> QED
    BY <2>4 DEF j
<1>4. CASE Fulfill(h)
  <2> DEFINE j == call'[h].journal
  <2>1. run.receipts = 0
    BY <1>4, FulfillFacts
  <2>2. j.after.version > 0 /\ j.after.receipts = 0 /\ j.before.receipts = 0
        /\ j.after.dispatch = j.before.dispatch
        /\ j.after.dispatch.authorised <= j.after.version
        /\ j.after.dispatch.authorised # j.after.version
    BY <1>1, <1>2, <1>4, <2>1, FulfillFacts
  <2>3. j.after.status = "ACTIVE" /\ j.after.node = "review.parallel"
        /\ j.after.tree.review = "NOT_RUN"
    BY <1>4, FulfillFacts
  <2> HIDE DEF j
  <2>4. Settles(j)
    BY <2>2, <2>3 DEF Settles, Settled, Gate
  <2> QED
    BY <2>4 DEF j
<1>5. CASE CommitRelease(h)
  <2> DEFINE j == call'[h].journal
  <2>1. run.tree # None
    BY <1>5, CommitReleaseFacts, TreeFacts
  <2>2. /\ j.after.version > 0 /\ j.after.release # j.before.release
        /\ j.after.status = "RELEASED" /\ j.after.node = "handoff.prepare"
        /\ EvalsRequired => j.after.tree.evals # 0
        /\ j.after.dispatch.evidence
        /\ j.after.receipts = j.before.receipts
    BY <1>1, <1>5, <2>1, CommitReleaseFacts
  <2>3. j.after.dispatch = j.before.dispatch
        /\ j.after.dispatch.authorised <= j.after.version
        /\ j.after.dispatch.authorised # j.after.version
    BY <1>2, <1>5, CommitReleaseFacts
  <2> HIDE DEF j
  <2>4. Settles(j)
    BY <2>2, <2>3 DEF Settles, Settled, Gate, IsRelease
  <2> QED
    BY <2>4 DEF j
<1> QED
  BY <1>3, <1>4, <1>5 DEF Prepares

LEMMA SettledStep ==
    ASSUME IInv, WorkInv, NEW h \in Hosts, Step(h)
    PROVE  SettledInv'
<1>1. /\ run \in States /\ run.version \in Nat /\ Settled(run)
      /\ run.dispatch.authorised \in Nat
      /\ \A j \in prepared : Settles(j)
      /\ call[h].journal # None => Settles(call[h].journal)
  BY RunFacts, StateFacts DEF WorkInv, SettledInv
<1>2. Settled(run)'
  <2>1. CASE run' = run
    BY <1>1, <2>1 DEF Settled
  <2>2. CASE Controls(h) /\ run' # run
    <3>1. /\ run'.version > 0 /\ run'.tree = run.tree /\ run'.receipts = run.receipts
          /\ run'.dispatch = run.dispatch /\ run.dispatch.authorised < run'.version
      BY <1>1, <2>2, LaterVersion DEF Settled
    <3>2. run'.version \in Nat
      BY <2>2, ControlWrites, StateFacts
    <3>3. run.dispatch.authorised <= run'.version /\ run.dispatch.authorised # run'.version
      BY <1>1, <3>1, <3>2
    <3>4. ASSUME run.receipts # 0
          PROVE  run'.node \in {Gate, "handoff.prepare", "handoff.dispatch"}
      <4>1. run.node \in {Gate, "handoff.prepare", "handoff.dispatch"}
        BY <1>1, <3>4 DEF Settled
      <4>2. run'.node = run.node \/ run'.node = "handoff.dispatch"
        BY <2>2, <4>1, ControlWrites DEF Gate
      <4> QED
        BY <4>1, <4>2
    <3>5. run'.node \in {"review.parallel", "review.aggregate", "prd.optimize", "review.finalize"} =>
            run.tree.review = "NOT_RUN"
      BY <1>1, <2>2, ControlWrites DEF Settled, Gate
    <3>6. run'.status \in {"ACTIVE", "PAUSED"} =>
            run'.node \notin {"handoff.prepare", "handoff.dispatch"}
      BY <1>1, <2>2, ControlWrites DEF Settled, Gate
    <3> QED
      BY <1>1, <3>1, <3>3, <3>4, <3>5, <3>6 DEF Settled
  <2>3. CASE GateCommits(h) /\ run' # run
    <3>1. /\ run'.version = run.version + 1 /\ run'.tree = run.tree
          /\ run'.status = "ACTIVE" /\ run'.node = Gate /\ (EvalsRequired => run'.tree.evals # 0)
          /\ run'.dispatch.authorised = run'.version
          /\ run'.receipts # 0 => run.receipts # 0 \/ run'.dispatch.evidence
      BY <2>3, GateCommitWrites
    <3>2. run'.receipts # 0 => run'.dispatch.evidence
      <4>1. run'.receipts = 0 \/ run'.dispatch.evidence = TRUE
        BY <2>3, GateCommitWrites
      <4> QED
        BY <4>1
    <3>3. run'.version > 0 /\ run'.dispatch.authorised <= run'.version
      BY <1>1, <3>1
    <3> QED
      BY <3>1, <3>2, <3>3 DEF Settled, Gate
  <2>4. CASE Bind(h)
    <3>1. call[h].at = "bind" /\ call[h].journal = None
      BY <2>4 DEF Bind, IInv, CallInv, Doing, Publishing
    <3>2. run.node \in {"prd.generate", "prd.optimize"}
      BY <3>1 DEF WorkInv, WaitingInv
    <3>3. run.receipts = 0
      BY <1>1, <3>2 DEF Settled, Gate
    <3>4. /\ run'.version > 0 /\ run'.dispatch.authorised <= run'.version
          /\ run'.dispatch.authorised # run'.version
      <4>1. run'.version = run.version + 1 /\ run'.dispatch = run.dispatch
        BY <2>4, BindWrites
      <4>2. run.dispatch.authorised <= run.version
        BY <1>1 DEF Settled
      <4> QED
        BY <1>1, <4>1, <4>2
    <3>5. NewTree.review = "NOT_RUN"
      BY DEF NewTree
    <3> QED
      BY <2>4, <3>3, <3>4, <3>5, BindWrites DEF Settled, Gate
  <2>5. CASE WriteState(h)
    BY <1>1, <2>5, StateWrites DEF Settles, Settled
  <2> QED
    BY <2>1, <2>2, <2>3, <2>4, <2>5, OnlyWritesChangeTheRun DEF Writes
<1>3. \A j \in prepared' : Settles(j)
  <2>1. WriteJournal(h) => call[h].journal # None
    BY DEF WriteJournal, IInv, CallInv, Doing, Publishing
  <2> QED
    BY <1>1, <2>1, PreparedComesFrom
<1>4. \A j : Settles(j)' <=> Settles(j)
  BY DEF Settles, Settled, IsRelease
<1>5. call'[h].journal # None => Settles(call'[h].journal)
  BY <1>1, PreparesSettled, JournalsComeFrom
<1>6. \A k \in Hosts : k # h => call'[k] = call[k]
  BY OtherCalls
<1> QED
  BY <1>2, <1>3, <1>4, <1>5, <1>6 DEF WorkInv, SettledInv

\* A step at the gate leads to another one, for the attempt the call has.
LEMMA ReadyArrives ==
    ASSUME IInv, WorkInv, NEW h \in Hosts, AtReady(h)
    PROVE  /\ call'[h].at \in GateSteps \cup {"idle"}
           /\ call'[h].at \in GateSteps => call'[h].saw <= run'.dispatch.attempt
           /\ call'[h].at \in {"snapshots", "authorise"} =>
                IsExact' /\ call'[h].saw = run'.dispatch.attempt
           /\ call'[h].at = "authorise" => ready'.audited
           /\ call'[h].at \in {"receipts", "receipt", "release"}
                /\ call'[h].saw = run'.dispatch.attempt => run'.dispatch.evidence
           /\ call'[h].at = "receipt" => ready'.result # "none"
<1>1. /\ call \in [Hosts -> Steps] /\ call[h] \in Steps /\ Idle \in Steps /\ Idle.at = "idle"
      /\ ReadyTyped /\ run.dispatch.attempt \in Nat
  BY RunFacts, IdleIsAStep, StateFacts DEF WorkInv
<1>2. Return(h) => call'[h].at = "idle"
  BY <1>1 DEF Return, Do
<1>3. \A at : Goto(h, at) => call'[h].at = at /\ call'[h].saw = call[h].saw
  BY <1>1 DEF Goto, Do, Steps
<1>4. LET at == call[h].at IN
        /\ at \in GateSteps => call[h].saw <= run.dispatch.attempt
        /\ at \in {"snapshots", "authorise"} => IsExact /\ call[h].saw = run.dispatch.attempt
        /\ at = "authorise" => ready.audited
        /\ at \in {"receipts", "receipt", "release"} /\ call[h].saw = run.dispatch.attempt =>
             run.dispatch.evidence
        /\ at = "receipt" => ready.result # "none"
  BY DEF WorkInv, AttemptInv
<1> USE DEF GateSteps
<1>5. CASE DispatchReady(h)
  <2>1. call'[h] = [Idle EXCEPT !.at = "evidence", !.saw = run'.dispatch.attempt]
    BY <1>1, <1>5 DEF DispatchReady, Do
  <2>2. call'[h].at = "evidence" /\ call'[h].saw = run'.dispatch.attempt
    BY <2>1 DEF Idle
  <2>3. run'.dispatch.attempt \in Nat
    <3>1. run' = run \/ run'.dispatch.attempt = run.dispatch.attempt + 1
      BY <1>5, GateCommitWrites DEF GateCommits, DispatchReady, BindEvidence, IssueReceipt
    <3> QED
      BY <1>1, <3>1
  <2> QED
    BY <2>2, <2>3
<1>6. CASE WriteValidation(h)
  <2>1. call'[h].at = "snapshots" /\ call'[h].saw = call[h].saw /\ run' = run
        /\ IsExact /\ call[h].saw = run.dispatch.attempt
    BY <1>3, <1>6 DEF WriteValidation, HasAttempt
  <2> QED
    BY <1>1, <2>1 DEF IsExact
<1>7. CASE WriteSnapshots(h)
  <2>1. /\ call[h].at = "snapshots" /\ run' = run
        /\ \/ call'[h].at = "idle"
           \/ call'[h].at = "authorise" /\ call'[h].saw = call[h].saw
        /\ ready'.audited
    BY <1>1, <1>2, <1>3, <1>7 DEF WriteSnapshots, ReadyTyped
  <2> QED
    BY <1>1, <1>4, <2>1 DEF IsExact
<1>8. CASE BindEvidence(h)
  <2>1. /\ call[h].at = "authorise" /\ call'[h].at = "receipts" /\ call'[h].saw = call[h].saw
    BY <1>3, <1>8 DEF BindEvidence
  <2>2. call[h].saw = run.dispatch.attempt
    BY <1>4, <2>1
  <2>3. CASE run' = run
    <3>1. run.dispatch.evidence
      <4>1. Commit(Reauthorised([run EXCEPT !.dispatch.evidence = TRUE])) => run' # run
        <5>1. run.version \in Nat /\ run.version + 1 # run.version
          BY RunFacts, StateFacts
        <5>2. Commit(Reauthorised([run EXCEPT !.dispatch.evidence = TRUE])) =>
                run'.version = run.version + 1
          BY RunFacts DEF Commit, Next, Reauthorised, States
        <5> QED
          BY <5>1, <5>2
      <4> QED
        BY <1>8, <2>3, <4>1 DEF BindEvidence
    <3> QED
      BY <1>1, <2>1, <2>2, <2>3, <3>1
  <2>4. CASE run' # run
    <3>1. run'.dispatch.attempt = run.dispatch.attempt /\ run'.dispatch.evidence = TRUE
      BY <1>8, <2>1, <2>4, GateCommitWrites DEF GateCommits, DispatchReady, IssueReceipt
    <3> QED
      BY <1>1, <2>1, <2>2, <3>1
  <2> QED
    BY <2>3, <2>4
<1>9. CASE IssueReceipt(h)
  <2>1. call[h].at = "receipts" /\ call' = call /\ call[h].saw = run.dispatch.attempt
    BY <1>9 DEF IssueReceipt, HasAttempt
  <2>2. run' = run \/ (run'.dispatch.attempt = run.dispatch.attempt /\ run'.dispatch.evidence = TRUE)
    BY <1>9, <2>1, GateCommitWrites DEF GateCommits, DispatchReady, BindEvidence
  <2> QED
    BY <1>1, <1>4, <2>1, <2>2
<1>10. CASE WriteResult(h)
  <2>1. /\ call[h].at = "receipts" /\ call'[h].at = "receipt" /\ call'[h].saw = call[h].saw
        /\ run' = run /\ ready'.result = "written"
    BY <1>1, <1>3, <1>10 DEF WriteResult, ReadyTyped
  <2> QED
    BY <1>4, <2>1
<1>11. CASE WriteResultReceipt(h) \/ TakeResult(h)
  <2>1. /\ call[h].at \in {"receipts", "receipt"} /\ call'[h].at = "release"
        /\ call'[h].saw = call[h].saw /\ run' = run
    BY <1>3, <1>11 DEF WriteResultReceipt, TakeResult
  <2> QED
    BY <1>4, <2>1
<1> QED
  BY <1>5, <1>6, <1>7, <1>8, <1>9, <1>10, <1>11 DEF AtReady

LEMMA WaitingStep ==
    ASSUME IInv, WorkInv, NEW h \in Hosts, Step(h)
    PROVE  WaitingInv'
<1> USE DEF WaitingInv
<1>1. ASSUME NEW k \in Hosts, k # h, call'[k].at \in {"changelog", "structured", "bind"},
             call'[k].journal = None
      PROVE  run'.node \in {"prd.generate", "prd.optimize"}
  <2>1. call'[k] = call[k] /\ call[k].at \in Inside
    BY <1>1, OtherCalls DEF Inside
  <2>2. run' = run
    BY <1>1, <2>1, WritesNeedTheLock
  <2> QED
    BY <1>1, <2>1, <2>2 DEF WorkInv
<1>2. ASSUME call'[h].at \in {"changelog", "structured", "bind"}, call'[h].journal = None
      PROVE  run'.node \in {"prd.generate", "prd.optimize"}
  <2>1. CASE Archive(h)
    BY <2>1 DEF Archive, MayArchive
  <2>2. CASE call[h].at \in {"changelog", "structured"} /\ call[h].journal = None /\ run' = run
    BY <2>2 DEF WorkInv
  <2>3. ~AtReady(h)
    BY <1>2, ReadyArrives DEF GateSteps
  <2>4. CASE ExtendChangelog
    BY <1>2, <2>4 DEF ExtendChangelog, WorkInv
  <2> QED
    BY <1>2, <2>1, <2>2, <2>3, <2>4, Arrives
<1> QED
  BY <1>1, <1>2

LEMMA AttemptStep ==
    ASSUME IInv, WorkInv, NEW h \in Hosts, Step(h)
    PROVE  AttemptInv'
<1> DEFINE Knows(k) ==
      LET at == call[k].at IN
        /\ at \in GateSteps => call[k].saw <= run.dispatch.attempt
        /\ at \in {"snapshots", "authorise"} => IsExact /\ call[k].saw = run.dispatch.attempt
        /\ at = "authorise" => ready.audited
        /\ at \in {"receipts", "receipt", "release"} /\ call[k].saw = run.dispatch.attempt =>
             run.dispatch.evidence
        /\ at = "receipt" => ready.result # "none"
<1>1. \A k \in Hosts : Knows(k)
  BY DEF WorkInv, AttemptInv
<1>2. /\ run.dispatch.attempt \in Nat /\ run'.dispatch.attempt \in Nat
      /\ run.dispatch.attempt <= run'.dispatch.attempt
      /\ run'.dispatch.attempt = run.dispatch.attempt =>
           (run.dispatch.evidence => run'.dispatch.evidence)
      /\ ready.audited => ready'.audited
      /\ ready.result # "none" => ready'.result # "none"
  BY DispatchGoes, ReadyGoes
<1>3. ASSUME NEW k \in Hosts, call'[k] = call[k],
             call[k].at \in {"snapshots", "authorise"} => run' = run
      PROVE  Knows(k)'
  <2>1. call[k].saw \in Nat /\ Knows(k)
    BY <1>1, RunFacts, StepFacts
  <2>2. call[k].at \in GateSteps => call[k].saw <= run'.dispatch.attempt
    BY <1>2, <2>1
  <2>3. call[k].at \in {"snapshots", "authorise"} =>
          IsExact' /\ call[k].saw = run'.dispatch.attempt
    BY <1>3, <2>1 DEF IsExact
  <2>4. call[k].at \in {"receipts", "receipt", "release"} /\ call[k].saw = run'.dispatch.attempt =>
          run'.dispatch.evidence
    <3> SUFFICES ASSUME call[k].at \in {"receipts", "receipt", "release"},
                        call[k].saw = run'.dispatch.attempt
                 PROVE  run'.dispatch.evidence
      OBVIOUS
    <3>1. call[k].saw <= run.dispatch.attempt
      BY <2>1 DEF GateSteps
    <3>2. run'.dispatch.attempt = run.dispatch.attempt
      BY <1>2, <3>1
    <3> QED
      BY <1>2, <2>1, <3>2
  <2> QED
    BY <1>2, <1>3, <2>1, <2>2, <2>3, <2>4
<1>4. ASSUME NEW k \in Hosts, k # h PROVE Knows(k)'
  <2>1. call'[k] = call[k]
    BY <1>4, OtherCalls
  <2>2. call[k].at \in {"snapshots", "authorise"} => run' = run
    BY <1>4, WritesNeedTheLock DEF Inside
  <2> QED
    BY <1>3, <2>1, <2>2
<1>5. Knows(h)'
  <2>1. CASE AtReady(h)
    BY <2>1, ReadyArrives
  <2>2. CASE ExtendChangelog
    BY <1>3, <2>2 DEF ExtendChangelog
  <2>3. CASE call'[h].at \notin GateSteps
    BY <2>3 DEF GateSteps
  <2>4. Archive(h) => call'[h].at = "changelog"
    BY RunFacts DEF Archive, Goto, Do, Steps
  <2> QED
    BY <2>1, <2>2, <2>3, <2>4, Arrives DEF GateSteps
<1> QED
  BY <1>4, <1>5 DEF AttemptInv

LEMMA ResultStep ==
    ASSUME IInv, WorkInv, NEW h \in Hosts, Step(h)
    PROVE  ResultInv'
<1>1. /\ ready.result # "none" => run.receipts = Kinds
      /\ run.dispatch.evidence => ready.audited
      /\ run.release # None => ready.result = "receipted"
      /\ \A j \in prepared : IsRelease(j) => ready.result = "receipted"
      /\ \A k \in Hosts : call[k].journal # None /\ IsRelease(call[k].journal) =>
           ready.result = "receipted"
  BY DEF WorkInv, ResultInv
<1>2. /\ ready.audited => ready'.audited
      /\ ready.result = "receipted" => ready'.result = "receipted"
  BY ReadyGoes
<1>3. Kinds # 0 /\ Settled(run)
  BY KindsAssumption DEF WorkInv, SettledInv
<1>4. ready'.result # "none" => run.receipts = Kinds
  <2>1. WriteResult(h) => run.receipts = Kinds
    BY DEF WriteResult
  <2> QED
    BY <1>1, <2>1, ReadyGoes
<1>5. run.receipts = Kinds => run'.receipts = Kinds
  <2>1. CASE GateCommits(h) /\ run' # run
    BY <1>3, <2>1, GateCommitWrites
  <2>2. WriteState(h) => run'.receipts = run.receipts
    BY StateWrites DEF WorkInv, SettledInv, Settles
  <2> QED
    BY <2>1, <2>2, OnlyWritesChangeTheRun, ControlWrites, BindWrites DEF Writes
<1>6. run'.dispatch.evidence => ready'.audited
  <2>1. CASE run'.dispatch = run.dispatch
    BY <1>1, <1>2, <2>1
  <2>2. CASE GateCommits(h) /\ run' # run
    <3>1. CASE DispatchReady(h)
      <4>1. run'.dispatch.evidence = FALSE
        BY <2>2, <3>1, GateCommitWrites DEF BindEvidence, IssueReceipt, DispatchReady
      <4> QED
        BY <4>1
    <3>2. CASE BindEvidence(h)
      BY <1>2, <3>2 DEF BindEvidence, WorkInv, AttemptInv
    <3>3. CASE IssueReceipt(h)
      <4>1. run.dispatch.evidence
        BY <2>2, <3>3, GateCommitWrites DEF BindEvidence, IssueReceipt, DispatchReady
      <4> QED
        BY <1>1, <1>2, <4>1
    <3> QED
      BY <2>2, <3>1, <3>2, <3>3 DEF GateCommits
  <2>3. WriteState(h) => run'.dispatch = run.dispatch
    BY StateWrites DEF WorkInv, SettledInv, Settles
  <2> QED
    BY <2>1, <2>2, <2>3, OnlyWritesChangeTheRun, ControlWrites, BindWrites DEF Writes
<1>7. run'.release # None => ready'.result = "receipted"
  <2>1. CASE run'.release = run.release
    BY <1>1, <1>2, <2>1
  <2>2. CASE WriteState(h) /\ run'.release # run.release
    <3> DEFINE j == call[h].journal
    <3>1. j # None /\ run = j.before /\ run' = j.after
      BY <2>2, StateWrites
    <3>2. IsRelease(j)
      BY <2>2, <3>1 DEF IsRelease
    <3> QED
      BY <1>1, <1>2, <3>1, <3>2
  <2> QED
    BY <2>1, <2>2, OnlyWritesChangeTheRun, ControlWrites, GateCommitWrites, BindWrites DEF Writes
<1>8. \A j \in prepared' : IsRelease(j) => ready'.result = "receipted"
  <2>1. WriteJournal(h) => call[h].journal # None
    BY DEF WriteJournal, IInv, CallInv, Doing, Publishing
  <2> QED
    BY <1>1, <1>2, <2>1, PreparedComesFrom
<1>9. call'[h].journal # None /\ IsRelease(call'[h].journal) => ready'.result = "receipted"
  <2>1. CASE CommitRelease(h)
    BY <1>2, <2>1, CommitReleaseFacts
  <2>2. CASE Finalize(h) \/ Fulfill(h)
    <3>1. ~IsRelease(call'[h].journal)
      BY <2>2, FinalizeFacts, FulfillFacts DEF IsRelease
    <3> QED
      BY <3>1
  <2> QED
    BY <1>1, <1>2, <2>1, <2>2, JournalsComeFrom DEF Prepares
<1>10. \A k \in Hosts : k # h => call'[k] = call[k]
  BY OtherCalls
<1>11. \A j : IsRelease(j)' <=> IsRelease(j)
  BY DEF IsRelease
<1> QED
  BY <1>1, <1>2, <1>4, <1>5, <1>6, <1>7, <1>8, <1>9, <1>10, <1>11 DEF ResultInv

\* The moves are those of the current document.
LEMMA Moves ==
    ASSUME IInv, NEW h \in Hosts, KeepOld(h) \/ PlaceNew(h)
    PROVE  /\ run' = run /\ run.tree \in Trees /\ run.tree.doc \in Docs
           /\ \A d \in Docs : d # run.tree.doc => archive'[d] = archive[d] /\ stage'[d] = stage[d]
           /\ \/ archive'[run.tree.doc] = None
              \/ stage'[run.tree.doc] = None
              \/ archive' = archive /\ stage' = stage
<1>1. call[h].at = "move"
  BY DEF KeepOld, PlaceNew
<1>2. /\ run.tree \in Trees /\ run.tree.doc \in Docs /\ run.tree.doc = DocOf(call[h].journal)
  BY <1>1, MoveFacts
<1>3. archive \in [Docs -> Trees \cup {None}] /\ stage \in [Docs -> Trees \cup {None}]
  BY RunFacts DEF FilesTyped
<1>4. CASE KeepOld(h)
  BY <1>2, <1>3, <1>4 DEF KeepOld
<1>5. CASE PlaceNew(h)
  BY <1>2, <1>3, <1>5 DEF PlaceNew
<1> QED
  BY <1>4, <1>5

\* The Candidate goes on to the next version, or to another generation of its own.
LEMMA TreeGoes ==
    ASSUME IInv, WorkInv, NEW h \in Hosts, Step(h), run'.tree # run.tree
    PROVE  \/ Bind(h) /\ run'.tree = NewTree
           \/ /\ WriteState(h) /\ run.tree \in Trees /\ run'.tree \in Trees
              /\ run'.tree.doc = run.tree.doc
<1>1. Bind(h) => run'.tree = NewTree
  BY BindWrites
<1>2. WriteState(h) => /\ run.tree \in Trees /\ run'.tree \in Trees
                       /\ run'.tree.doc = run.tree.doc
  BY StateWrites, PublishesFacts
<1>3. ~Controls(h) /\ ~GateCommits(h)
  BY ControlWrites, GateCommitWrites
<1> QED
  BY <1>1, <1>2, <1>3, OnlyWritesChangeTheRun DEF Writes

LEMMA AheadStep ==
    ASSUME IInv, WorkInv, NEW h \in Hosts, Step(h)
    PROVE  AheadInv'
<1> DEFINE Ahead(r, d) == r.tree = None \/ r.tree.doc < d
           fresh(d) == [doc |-> d, evals |-> 0, review |-> "NOT_RUN"]
<1> SUFFICES ASSUME NEW d \in Docs, Ahead(run', d) PROVE archive'[d] \in {None, fresh(d)}
  BY DEF AheadInv
<1>1. Ahead(run, d)
  <2>1. CASE run'.tree = run.tree
    BY <2>1
  <2>2. CASE Bind(h) /\ run'.tree = NewTree
    <3>1. NewTree # None /\ NewTree.doc = NewDoc /\ NewDoc \in Nat /\ d \in Nat
      BY <2>2, BindWrites, NewFacts, TreeFacts, DocsAre
    <3>2. NewDoc < d
      BY <2>2, <3>1
    <3>3. run.tree # None => run.tree.doc \in Nat /\ run.tree.doc < NewDoc
      BY NewFacts, RunFacts, StateFacts, TreeFacts
    <3> QED
      BY <3>1, <3>2, <3>3
  <2>3. CASE run.tree \in Trees /\ run'.tree \in Trees /\ run'.tree.doc = run.tree.doc
    BY <2>3, TreeFacts
  <2> QED
    BY <2>1, <2>2, <2>3, TreeGoes
<1>2. archive[d] \in {None, fresh(d)}
  BY <1>1 DEF WorkInv, AheadInv
<1>3. CASE archive' = archive
  BY <1>2, <1>3
<1>4. CASE Archive(h)
  <2>1. archive' = [archive EXCEPT ![NewDoc] = NewTree]
    BY <1>4 DEF Archive
  <2> QED
    BY <1>2, <2>1, RunFacts DEF FilesTyped, NewTree
<1>5. CASE KeepOld(h) \/ PlaceNew(h)
  <2>1. run.tree \in Trees /\ run.tree.doc # d
    <3>1. run.tree # None /\ run.tree.doc \in Nat
      BY <1>5, Moves, TreeFacts
    <3>2. run.tree.doc < d
      BY <1>1, <3>1
    <3> QED
      BY <1>5, <3>1, <3>2, Moves
  <2> QED
    BY <1>2, <1>5, <2>1, Moves
<1> QED
  BY <1>3, <1>4, <1>5, FilesChange

LEMMA StagedStep ==
    ASSUME IInv, WorkInv, NEW h \in Hosts, Step(h)
    PROVE  StagedInv'
<1> SUFFICES ASSUME NEW d \in Docs, stage'[d] # None PROVE stage'[d].doc = d
  BY DEF StagedInv
<1>1. stage[d] # None => stage[d].doc = d
  BY DEF WorkInv, StagedInv
<1>2. stage \in [Docs -> Trees \cup {None}]
  BY RunFacts DEF FilesTyped
<1>3. CASE Finalize(h)
  <2>1. /\ run.tree \in Trees
        /\ stage' = [stage EXCEPT ![run.tree.doc] = [run.tree EXCEPT !.review = "FINALIZED"]]
    BY <1>3, FinalizeFacts
  <2>2. [run.tree EXCEPT !.review = "FINALIZED"].doc = run.tree.doc
    BY <2>1 DEF Trees
  <2> QED
    BY <1>1, <1>2, <2>1, <2>2
<1>4. CASE Fulfill(h)
  <2>1. stage' = [stage EXCEPT ![run.tree.doc] =
                   [doc |-> run.tree.doc, evals |-> PackToBind, review |-> "NOT_RUN"]]
    BY <1>4, FulfillFacts
  <2> QED
    BY <1>1, <1>2, <2>1
<1>5. CASE PlaceNew(h)
  <2>1. stage'[d] = stage[d]
    <3>1. stage' = [stage EXCEPT ![DocOf(call[h].journal)] = None] \/ stage' = stage
      BY <1>5 DEF PlaceNew
    <3> QED
      BY <1>2, <3>1
  <2> QED
    BY <1>1, <2>1
<1>6. CASE RefuseReceipt(h)
  <2>1. stage' = [stage EXCEPT ![run.tree.doc] =
                   [doc |-> run.tree.doc, evals |-> PackToBind, review |-> "NOT_RUN"]]
    BY <1>6, RefusedFacts
  <2> QED
    BY <1>1, <1>2, <2>1
<1> QED
  BY <1>1, <1>3, <1>4, <1>5, <1>6, FilesChange

LEMMA RepairStep ==
    ASSUME IInv, WorkInv, NEW h \in Hosts, Step(h)
    PROVE  RepairInv'
<1> SUFFICES ASSUME run'.tree # None, stage'[run'.tree.doc] # None,
                    run'.receipts = 0, run'.release = None,
                    archive'[run'.tree.doc] = run'.tree,
                    stage'[run'.tree.doc].review = "NOT_RUN", ~PackIsStaged',
                    stage'[run'.tree.doc].evals = run'.packs + 1
             PROVE  PackIsMissing'
  BY DEF RepairInv
<1>1. RepairInv /\ run \in States
  BY RunFacts DEF WorkInv
<1>2. /\ archive \in [Docs -> Trees \cup {None}] /\ stage \in [Docs -> Trees \cup {None}]
      /\ run.tree # None => run.tree \in Trees /\ run.tree.doc \in Docs
  BY RunFacts, StateFacts, TreeFacts DEF FilesTyped
<1>3. CASE run' = run /\ stage' = stage /\ archive' = archive
  BY <1>1, <1>3 DEF RepairInv, PackIsStaged, PackIsMissing
<1>4. CASE Archive(h)
  <2>1. /\ archive' = [archive EXCEPT ![NewDoc] = NewTree] /\ stage' = stage /\ run' = run
    BY <1>4 DEF Archive
  <2>2. archive'[run.tree.doc] = archive[run.tree.doc]
    BY <1>2, <2>1, NewFacts
  <2> QED
    BY <1>1, <2>1, <2>2 DEF RepairInv, PackIsStaged, PackIsMissing
<1>5. CASE KeepOld(h) \/ PlaceNew(h)
  BY <1>3, <1>5, Moves, TreeFacts
<1>6. CASE Finalize(h)
  <2>1. /\ run' = run /\ run.tree \in Trees
        /\ stage' = [stage EXCEPT ![run.tree.doc] = [run.tree EXCEPT !.review = "FINALIZED"]]
    BY <1>6, FinalizeFacts
  <2>2. stage'[run.tree.doc].review = "FINALIZED"
    BY <1>2, <2>1, TreeFacts DEF Trees
  <2> QED
    BY <2>1, <2>2
<1>7. CASE Fulfill(h) \/ RefuseReceipt(h)
  BY <1>7, FulfillFacts, RefusedFacts DEF PackIsStaged, PackIsMissing
<1>8. CASE (Controls(h) \/ GateCommits(h)) /\ run' # run
  <2>1. archive' = archive /\ stage' = stage
    <3>1. CASE Controls(h) /\ ~Register(h)
      BY <3>1 DEF Controls, Pause, Resume, Answer, StagePack, BlockPack, AskForPack, HandOff,
                  publication, files
    <3>2. CASE Register(h)
      BY <3>2, FilesChange DEF Register, Archive, KeepOld, PlaceNew, Finalize, Fulfill,
                               RefuseReceipt
    <3>3. CASE GateCommits(h)
      BY <3>3 DEF GateCommits, DispatchReady, BindEvidence, IssueReceipt, publication, files
    <3> QED
      BY <1>8, <3>1, <3>2, <3>3
  <2>2. run'.tree = run.tree /\ run'.release = run.release
    BY <1>8, ControlWrites, GateCommitWrites
  <2>3. ~(run.status = "RELEASED")
    BY <2>2, RunFacts DEF Sound
  <2>4. CASE run'.packs = run.packs /\ run'.staged = run.staged /\ run'.pending = run.pending
    <3>1. run.receipts = 0
      BY <1>8, ControlWrites, GateCommitWrites
    <3>2. \/ run'.node = run.node
          \/ run.node \in {"review.parallel", "review.aggregate"}
      BY <1>8, <2>3, ControlWrites, GateCommitWrites
    <3>3. PackIsMissing
      BY <1>1, <2>1, <2>2, <2>4, <3>1 DEF RepairInv, PackIsStaged
    <3> QED
      BY <2>2, <3>2, <3>3 DEF PackIsMissing
  <2>5. CASE ~(run'.packs = run.packs /\ run'.staged = run.staged /\ run'.pending = run.pending)
    <3>1. /\ run'.staged = run.tree.doc /\ run'.node = run.node /\ run'.receipts = run.receipts
          /\ run'.pending = TRUE \/ run'.packs = run.packs
      BY <1>8, <2>3, <2>5, ControlWrites, GateCommitWrites
    <3>2. run'.packs = run.packs
      BY <2>2, <3>1 DEF PackIsStaged
    <3>3. ~PackIsStaged
      <4> SUFFICES ASSUME PackIsStaged PROVE FALSE
        OBVIOUS
      <4>1. Fits(stage[run.tree.doc])
        BY <2>1, <2>2, <3>1 DEF IInv, StageInv
      <4>2. stage[run.tree.doc].evals = run.packs + 1 /\ run.packs \in Nat
            /\ stage[run.tree.doc].review = "NOT_RUN"
        <5>1. run.packs \in 0 .. MaxPacks
          BY <1>1, StateFacts
        <5> QED
          BY <2>1, <2>2, <3>2, <5>1, DocsAre
      <4>3. stage[run.tree.doc] # [run.tree EXCEPT !.review = "FINALIZED"]
        BY <1>2, <2>2, <4>2 DEF Trees
      <4>4. stage[run.tree.doc].evals # run.packs /\ stage[run.tree.doc].evals \notin 1 .. run.packs
        BY <4>2
      <4> QED
        BY <4>1, <4>2, <4>3, <4>4 DEF Fits, PackIsStaged
    <3>4. PackIsMissing
      BY <1>1, <2>1, <2>2, <3>1, <3>2, <3>3 DEF RepairInv
    <3> QED
      BY <2>2, <3>1, <3>4 DEF PackIsMissing
  <2> QED
    BY <2>4, <2>5
<1>9. CASE Bind(h)
  <2>1. run'.tree = NewTree /\ NewDoc \in Docs /\ stage' = stage
    BY <1>9, BindWrites DEF Bind, publication, files
  <2>2. NewTree.doc = NewDoc /\ stage[NewDoc] = None
    BY <2>1, NewFacts DEF IInv, FileInv
  <2> QED
    BY <2>1, <2>2
<1>10. CASE WriteState(h)
  <2> DEFINE j == call[h].journal
  <2>1. /\ j \in Journals /\ Publishes(j) /\ run = j.before /\ run' = j.after /\ Ready(j)
        /\ archive' = archive
    BY <1>10, StateWrites DEF publication, files
  <2> HIDE DEF j
  <2>2. CASE IsRelease(j)
    BY <2>1, <2>2, PublishesFacts DEF IsRelease
  <2>3. CASE ~IsRelease(j)
    BY <2>1, <2>3, PublishesFacts DEF Ready
  <2> QED
    BY <2>2, <2>3
<1>11. ~Archive(h) /\ ~KeepOld(h) /\ ~PlaceNew(h) /\ ~Finalize(h) /\ ~Fulfill(h)
         /\ ~RefuseReceipt(h) => archive' = archive /\ stage' = stage
  BY FilesChange
<1> QED
  BY <1>3, <1>4, <1>5, <1>6, <1>7, <1>8, <1>9, <1>10, <1>11, OnlyWritesChangeTheRun DEF Writes

LEMMA ReleasingStep ==
    ASSUME IInv, WorkInv, NEW h \in Hosts, Step(h)
    PROVE  ReleasingInv'
<1> SUFFICES ASSUME run'.release = None, NEW d \in Docs, releasing'[d] # None
             PROVE  /\ run'.tree # None /\ d = run'.tree.doc
                    /\ releasing'[d] = [tree |-> run'.tree, version |-> run'.dispatch.authorised]
                    /\ run'.receipts = Kinds
  BY DEF ReleasingInv
<1>1. /\ run.release = None /\ releasing[d] # None =>
           /\ run.tree # None /\ d = run.tree.doc
           /\ releasing[d] = [tree |-> run.tree, version |-> run.dispatch.authorised]
           /\ run.receipts = Kinds
      /\ run \in States /\ Settled(run) /\ Kinds # 0
      /\ releasing \in [Docs -> [tree : Trees, version : Nat] \cup {None}]
  BY RunFacts, KindsAssumption DEF WorkInv, ReleasingInv, SettledInv, FilesTyped
<1>2. CASE run' = run /\ releasing' = releasing
  BY <1>1, <1>2
<1>3. CASE CommitRelease(h)
  <2>1. /\ run' = run /\ run.release = None /\ run.tree \in Trees
        /\ run.dispatch.authorised = run.version /\ run.receipts = Kinds
        /\ releasing' = [releasing EXCEPT ![run.tree.doc] =
                           [tree |-> run.tree, version |-> run.version]]
    BY <1>3, CommitReleaseFacts
  <2>2. run.tree # None
    BY <2>1, TreeFacts
  <2>3. CASE d = run.tree.doc
    BY <1>1, <2>1, <2>2, <2>3
  <2>4. CASE d # run.tree.doc
    BY <1>1, <2>1, <2>4
  <2> QED
    BY <2>3, <2>4
<1>4. CASE PlaceRelease(h)
  <2>1. call[h].at = "move" /\ run' = run /\ IsRelease(call[h].journal)
    BY <1>4 DEF PlaceRelease
  <2> QED
    BY <2>1, MoveFacts, PublishesFacts DEF IsRelease
<1>5. releasing' = releasing \/ CommitRelease(h) \/ PlaceRelease(h)
  BY FilesChange
<1>6. CASE Controls(h) /\ run' # run /\ releasing' = releasing
  BY <1>1, <1>6, LaterVersion
<1>7. CASE GateCommits(h) /\ run' # run /\ releasing' = releasing
  <2>1. run'.tree = run.tree /\ run'.release = run.release
    BY <1>7, GateCommitWrites
  <2>2. run.receipts = Kinds /\ run.dispatch.evidence
    BY <1>1, <1>7, <2>1 DEF Settled
  <2> QED
    BY <1>1, <1>7, <2>2, GateCommitWrites
<1>8. CASE Bind(h) /\ releasing' = releasing
  <2>1. call[h].at = "bind" /\ call[h].journal = None
    BY <1>8 DEF Bind, IInv, CallInv, Doing, Publishing
  <2>2. run.node \in {"prd.generate", "prd.optimize"}
    BY <2>1 DEF WorkInv, WaitingInv
  <2>3. run.receipts = 0
    BY <1>1, <2>2 DEF Settled, Gate
  <2>4. run'.release = run.release
    BY <1>8, BindWrites
  <2> QED
    BY <1>1, <1>8, <2>3, <2>4
<1>9. CASE WriteState(h) /\ releasing' = releasing
  <2> DEFINE j == call[h].journal
  <2>1. /\ j \in Journals /\ j # None /\ Publishes(j) /\ run = j.before /\ run' = j.after
    BY <1>9, StateWrites
  <2>2. Settles(j)
    BY <2>1 DEF WorkInv, SettledInv
  <2> HIDE DEF j
  <2>3. ~IsRelease(j) /\ run.release = None
    BY <2>1, PublishesFacts DEF IsRelease
  <2> QED
    BY <1>1, <1>9, <2>1, <2>2, <2>3 DEF Settles
<1> QED
  BY <1>2, <1>3, <1>4, <1>5, <1>6, <1>7, <1>8, <1>9, OnlyWritesChangeTheRun DEF Writes

LEMMA InitWork == Init => WorkInv
<1> SUFFICES ASSUME Init PROVE WorkInv
  OBVIOUS
<1> USE DEF Init, RunInit, PublicationInit, FanoutInit
<1>1. SettledInv
  BY IdleIsAStep DEF SettledInv, Settled, Gate, NoDispatch
<1>2. WaitingInv /\ AttemptInv
  BY IdleIsAStep DEF WaitingInv, AttemptInv, GateSteps
<1>3. ReadyTyped /\ ResultInv
  BY IdleIsAStep DEF ReadyTyped, ResultInv, NoDispatch
<1>4. AheadInv /\ StagedInv /\ RepairInv /\ ReleasingInv
  BY DEF AheadInv, StagedInv, RepairInv, ReleasingInv
<1> QED
  BY <1>1, <1>2, <1>3, <1>4 DEF WorkInv

LEMMA StutterKeepsWork == ASSUME WorkInv, UNCHANGED vars PROVE WorkInv'
<1> USE DEF vars, publication, files, fanout
<1>1. SettledInv' /\ ReadyTyped'
  BY DEF WorkInv, SettledInv, Settled, Settles, IsRelease, ReadyTyped
<1>2. WaitingInv' /\ AheadInv' /\ StagedInv' /\ ReleasingInv'
  BY DEF WorkInv, WaitingInv, AheadInv, StagedInv, ReleasingInv
<1>3. AttemptInv' /\ ResultInv'
  BY DEF WorkInv, AttemptInv, ResultInv, IsExact, IsRelease
<1>4. RepairInv'
  BY DEF WorkInv, RepairInv, PackIsStaged, PackIsMissing
<1> QED
  BY <1>1, <1>2, <1>3, <1>4 DEF WorkInv

LEMMA NextKeepsWork == IInv /\ WorkInv /\ [\E h \in Hosts : Step(h)]_vars => WorkInv'
<1> SUFFICES ASSUME IInv, WorkInv, [\E h \in Hosts : Step(h)]_vars PROVE WorkInv'
  OBVIOUS
<1>1. ASSUME NEW h \in Hosts, Step(h) PROVE WorkInv'
  <2>1. ReadyTyped'
    BY <1>1, ReadyStaysTyped DEF WorkInv
  <2> QED
    BY <1>1, <2>1, SettledStep, WaitingStep, AttemptStep, ResultStep, AheadStep, StagedStep,
       RepairStep, ReleasingStep DEF WorkInv
<1> QED
  BY <1>1, StutterKeepsWork

LEMMA WorkInvariance == Spec => [](IInv /\ WorkInv)
<1>1. Init => IInv /\ WorkInv
  BY InitIInv, InitWork
<1>2. IInv /\ WorkInv /\ [\E h \in Hosts : Step(h)]_vars => (IInv /\ WorkInv)'
  BY NextKeepsIInv, NextKeepsWork
<1> QED
  BY <1>1, <1>2, PTL DEF Spec

----------------------------------------------------------------------------
(* Calls in progress *)

\* What the next step of a call needs to find.
CallGoesOn(h) ==
    LET at == call[h].at
        j == call[h].journal
        d == DocOf(j)
    IN
    /\ at \in Inside => holder = h
    /\ at = "bind" => NewDoc \in Docs /\ archive[NewDoc] = NewTree
    /\ at = "state" => j \in prepared /\ IsConsistent(j)
    /\ at = "move" =>
        IF IsRelease(j)
        THEN IF released[d] = None THEN releasing[d].tree = j.after.release
                                   ELSE released[d] = j.after.release
        ELSE archive[d] = None => stage[d] = j.after.tree
    /\ at = "commit" => j \in prepared /\ run = j.after
    /\ at = "work" => status[call[h].plan] # None
    /\ at = "joined" => run.tree # None
    /\ at \in {"snapshots", "authorise"} => IsExact /\ call[h].saw = run.dispatch.attempt
    /\ at = "receipt" => ready.result # "none" /\ run.receipts = Kinds

CallsGoOn == \A h \in Hosts : CallGoesOn(h)

\* The files a journal was prepared with are those its checks ask for.
LEMMA ReadyIsConsistent ==
    ASSUME IInv, NEW j \in Journals, Publishes(j), run = j.before, Ready(j)
    PROVE  IsConsistent(j)
<1> DEFINE d == DocOf(j)
<1>1. /\ d \in Docs /\ d = run.tree.doc /\ run.tree # None
      /\ run.generation \in Generations /\ run.generation \in Nat /\ run.release = None
  BY PublishesFacts, RunFacts, StateFacts DEF Publishes
<1>2. CASE IsRelease(j)
  <2>1. released[d] = None
    BY <1>1 DEF IInv, FileInv
  <2> QED
    BY <1>2, <2>1 DEF Ready, IsConsistent
<1>3. CASE ~IsRelease(j)
  <2>1. history[<<d, run.generation>>] = None
    BY <1>1 DEF IInv, FileInv
  <2> QED
    BY <1>3, <2>1 DEF Ready, IsConsistent
<1> QED
  BY <1>2, <1>3

\* A call is never refused by what it wrote itself, or what an earlier process
\* left: from wherever a publication, a recovery or a fan-out got the lock, its
\* next check finds the files it asks for (_validate_candidate_finalize_transaction,
\* _validate_release_transaction), up to the step that gives the lock back; and
\* what is bound at the Ready gate is bound for the attempt that is exact.
THEOREM CallsAreNeverStuck == Spec => []CallsGoOn
<1>1. IInv /\ WorkInv => CallsGoOn
  <2> SUFFICES ASSUME IInv, WorkInv, NEW h \in Hosts PROVE CallGoesOn(h)
    BY DEF CallsGoOn
  <2>1. Publishing(h) /\ Fanning(h) /\ (call[h].at \in Inside => holder = h)
    BY DEF IInv, CallInv, Doing, HolderInv
  <2>2. call[h].at = "bind" => NewDoc \in Docs /\ archive[NewDoc] = NewTree
    BY <2>1 DEF Publishing
  <2>3. call[h].at = "state" => call[h].journal \in prepared /\ IsConsistent(call[h].journal)
    BY <2>1, ReadyIsConsistent DEF Publishing
  <2>4. ASSUME call[h].at = "move"
        PROVE  LET j == call[h].journal
                   d == DocOf(j)
               IN  IF IsRelease(j)
                   THEN IF released[d] = None THEN releasing[d].tree = j.after.release
                                              ELSE released[d] = j.after.release
                   ELSE archive[d] = None => stage[d] = j.after.tree
    <3>1. PICK j \in prepared : /\ call[h].journal = j /\ j \in Journals
                                /\ Publishes(j) /\ IsConsistent(j)
      BY <2>4, MoveFacts
    <3>2. CASE IsRelease(j)
      BY <3>1, <3>2 DEF IsConsistent, Publishes
    <3>3. CASE ~IsRelease(j)
      <4>1. j.before.tree # None /\ j.after.tree # None
        BY <3>1, PublishesFacts, TreeFacts
      <4> QED
        BY <3>1, <3>3, <4>1 DEF IsConsistent
    <3> QED
      BY <3>1, <3>2, <3>3
  <2>5. call[h].at = "commit" => call[h].journal \in prepared /\ run = call[h].journal.after
    BY <2>1 DEF Publishing
  <2>6. /\ call[h].at = "work" => status[call[h].plan] # None
        /\ call[h].at = "joined" => run.tree # None
    BY <2>1 DEF Fanning
  <2>7. /\ call[h].at \in {"snapshots", "authorise"} =>
             IsExact /\ call[h].saw = run.dispatch.attempt
        /\ call[h].at = "receipt" => ready.result # "none" /\ run.receipts = Kinds
    BY DEF WorkInv, AttemptInv, ResultInv
  <2> QED
    BY <2>1, <2>2, <2>3, <2>4, <2>5, <2>6, <2>7 DEF CallGoesOn
<1> QED
  BY <1>1, WorkInvariance, PTL

----------------------------------------------------------------------------
(* A Candidate nobody is busy with *)

\* The attempt that MayDispatchReady leads to
AttemptToCome == IF IsExact THEN run.dispatch.attempt ELSE run.dispatch.attempt + 1

\* Nothing refuses a call at the Ready gate, from its dispatch to the release.
MayBeReady ==
    /\ MayDispatchReady /\ run.tree.review = "FINALIZED"
    /\ EvidenceFits(AttemptToCome)
    /\ IsExact => ready.snapshot # "differs"
    /\ ready.result # "none" => run.receipts = Kinds
    /\ MayAssert

\* What a call that comes now can do.
CanMoveOn ==
    \/ \E j \in prepared : IsCurrent(j) /\ IsConsistent(j)
    \/ prepared = {} /\ ready.result = "written" /\ run.node = Gate /\ IsExact
    \/ /\ BarrierPasses
       /\ \/ MayArchive \/ MayAnswer \/ run.status = "PAUSED"
          \/ MayFinalize /\ MayStage(Finalized)
          \/ MayFulfill /\ ReceiptFits /\ MayStage(Fulfilled(PackToBind))
          \/ PackIsMissing /\ MayPrepare /\ MayStage(Fulfilled(run.packs + 1))
          \/ MayBeReady
          \/ MayHandOff

\* The bounds of the behaviour
NoMoreDocs == run.node \in {"prd.generate", "prd.optimize"} /\ NewDoc > bound.docs
NoMorePacks == PackIsMissing /\ ~PackIsStaged /\ run.packs >= bound.packs
NoMoreDispatches ==
    run.node = Gate /\ EvalsAreBound /\ ~IsExact /\ run.dispatch.attempt >= bound.dispatches

\* A Pack was staged, or found to be impossible, after a process died with an
\* older one in the stage.
StageConflict ==
    /\ \/ /\ run.node = "review.finalize"
          /\ stage[run.tree.doc] # [run.tree EXCEPT !.review = "FINALIZED"]
       \/ PackIsMissing
    /\ stage[run.tree.doc] # None
    /\ stage[run.tree.doc].evals \in 1 .. run.packs
    /\ run.blocked \/ stage[run.tree.doc].evals # run.packs

\* An earlier version of the PRD had its Pack staged, and one its Pack bound
\* without: the first bars another stage, the second another receipt.
PackConflict == PackIsMissing /\ ~ReceiptFits /\ run.staged \notin {0, run.tree.doc}

\* A process died with its attempt's evidence half written, and the state went on.
EvidenceConflict ==
    /\ run.node = Gate /\ run.receipts = 0
    /\ ~ready.audited /\ ready.validation \notin {0, AttemptToCome}

\* Another Run extended the changelog before the attempt had used its copy.
SnapshotConflict == run.node = Gate /\ IsExact /\ ready.snapshot = "differs"

\* A process died with receipts and without the release, and the state went on.
ReadyLost == run.node = Gate /\ run.receipts # 0 /\ ~IsExact

Stopped ==
    \/ run.status = "COMPLETED" \/ Overtaken
    \/ NoMoreDocs \/ NoMorePacks \/ NoMoreDispatches
    \/ StageConflict \/ PackConflict \/ EvidenceConflict \/ SnapshotConflict \/ ReadyLost

WorkIsLeft == holder = None => Stopped \/ CanMoveOn

LEMMA RecoveryIsOpen ==
    ASSUME IInv, prepared # {}, ~Overtaken
    PROVE  \E j \in prepared : IsCurrent(j) /\ IsConsistent(j)
<1>1. PICK j \in prepared : IsCurrent(j)
  BY DEF Overtaken
<1>2. j \in Journals /\ Publishes(j) /\ JournalOK(j)
  BY JournalVersions
<1>3. IsConsistent(j)
  BY <1>1, <1>2, ReadyIsConsistent DEF JournalOK, IsCurrent
<1> QED
  BY <1>1, <1>3

\* The result of the Ready gate that a dead process left is recovered, or lost.
LEMMA BarrierIsOpen ==
    ASSUME IInv, WorkInv, prepared = {}, ~ReadyLost
    PROVE  /\ FilesMatch
           /\ BarrierPasses \/ (ready.result = "written" /\ run.node = Gate /\ IsExact)
<1>1. FilesMatch
  BY DEF IInv, CleanInv, FilesMatch
<1>2. ASSUME ready.result = "written" PROVE run.node = Gate /\ IsExact
  <2>1. run.receipts # 0 /\ run.release = None
    BY <1>2, KindsAssumption DEF WorkInv, ResultInv
  <2>2. run \in States /\ run.status \in {"ACTIVE", "PAUSED"}
    BY <2>1, RunFacts DEF Sound, States
  <2>3. run.node = Gate
    BY <2>1, <2>2 DEF WorkInv, SettledInv, Settled
  <2> QED
    BY <2>1, <2>3 DEF ReadyLost
<1> QED
  BY <1>1, <1>2 DEF BarrierPasses

\* The stage of the current document, when it is looked at again
LEMMA StageWhenPlaced ==
    ASSUME IInv, WorkInv, run.tree # None, run.receipts = 0, run.release = None,
           archive[run.tree.doc] = run.tree, stage[run.tree.doc] # None
    PROVE  \/ /\ stage[run.tree.doc] = [run.tree EXCEPT !.review = "FINALIZED"]
              /\ run.node = "review.finalize"
           \/ /\ stage[run.tree.doc] = [doc |-> run.tree.doc, evals |-> PackToBind,
                                        review |-> "NOT_RUN"]
              /\ PackIsStaged \/ PackIsMissing
           \/ /\ stage[run.tree.doc].evals \in 1 .. run.packs
              /\ run.blocked \/ stage[run.tree.doc].evals # run.packs
<1> DEFINE left == stage[run.tree.doc]
<1>1. run.tree.doc \in Docs /\ left \in Trees
  BY RunFacts, StateFacts, TreeFacts DEF FilesTyped
<1>2. left.doc = run.tree.doc
  BY <1>1 DEF WorkInv, StagedInv
<1>3. Fits(left)
  BY DEF IInv, StageInv
<1> HIDE DEF left
<1>4. CASE /\ left.review = "NOT_RUN"
           /\ left.evals = IF run.pending /\ run.staged = run.tree.doc
                           THEN run.packs ELSE run.packs + 1
  <2>1. left.evals = PackToBind
    BY <1>4 DEF PackToBind, PackIsStaged
  <2>2. left = [doc |-> run.tree.doc, evals |-> PackToBind, review |-> "NOT_RUN"]
    BY <1>1, <1>2, <1>4, <2>1 DEF Trees
  <2>3. ~PackIsStaged => PackIsMissing
    BY <1>4, <2>1 DEF WorkInv, RepairInv, PackToBind, left
  <2> QED
    BY <2>2, <2>3 DEF left
<1> QED
  BY <1>3, <1>4 DEF Fits, left

LEMMA PackCanBeBound ==
    ASSUME IInv, WorkInv, FilesMatch, run.status = "ACTIVE", run.tree # None,
           run.receipts = 0, run.release = None,
           run.node # "review.finalize"
             \/ (stage[run.tree.doc] # None
                 /\ stage[run.tree.doc] # [run.tree EXCEPT !.review = "FINALIZED"]),
           PackIsStaged \/ PackIsMissing, ~NoMorePacks,
           stage[run.tree.doc] # None =>
             ~(/\ stage[run.tree.doc].evals \in 1 .. run.packs
               /\ run.blocked \/ stage[run.tree.doc].evals # run.packs)
    PROVE  MayFulfill /\ MayStage(Fulfilled(PackToBind))
<1>1. /\ archive[run.tree.doc] = run.tree /\ run \in States
      /\ run.packs \in Nat /\ bound.packs \in Nat
  <2>1. run \in States /\ run.packs \in 0 .. MaxPacks /\ bound.packs \in 0 .. MaxPacks
    BY RunFacts, StateFacts, BoundFacts DEF BoundTyped
  <2> QED
    BY <2>1, DocsAre DEF FilesMatch
<1>2. PackIsStaged \/ (PackIsMissing /\ run.packs < bound.packs)
  BY <1>1 DEF NoMorePacks
<1>3. MayFulfill
  BY <1>2 DEF MayFulfill
<1>4. Fulfilled(PackToBind).tree =
        [doc |-> run.tree.doc, evals |-> PackToBind, review |-> "NOT_RUN"]
  BY <1>1 DEF Fulfilled, States
<1>5. stage[run.tree.doc] \in {None, Fulfilled(PackToBind).tree}
  <2>1. CASE stage[run.tree.doc] # None
    BY <1>1, <1>4, <2>1, StageWhenPlaced
  <2> QED
    BY <2>1
<1> QED
  BY <1>1, <1>3, <1>5 DEF MayStage

LEMMA ReviewCanEnd ==
    ASSUME IInv, WorkInv, FilesMatch, run.status = "ACTIVE", run.node = "review.finalize",
           ~StageConflict, ~NoMorePacks
    PROVE  \/ MayFinalize /\ MayStage(Finalized)
           \/ MayFulfill /\ ReceiptFits /\ MayStage(Fulfilled(PackToBind))
<1>1. /\ run \in States /\ run.tree # None /\ run.tree \in Trees /\ run.release = None
      /\ run.tree.review = "NOT_RUN" /\ run.receipts = 0
  BY RunFacts, StateFacts DEF Sound, WorkInv, SettledInv, Settled, Gate
<1>2. archive[run.tree.doc] = run.tree /\ MayFinalize
  BY <1>1 DEF FilesMatch, MayFinalize
<1>3. Finalized.tree = [run.tree EXCEPT !.review = "FINALIZED"]
  BY <1>1 DEF Finalized, States
<1>4. CASE stage[run.tree.doc] \in {None, Finalized.tree}
  BY <1>2, <1>4 DEF MayStage
<1>5. CASE stage[run.tree.doc] \notin {None, Finalized.tree}
  <2>1. ~(/\ stage[run.tree.doc].evals \in 1 .. run.packs
          /\ run.blocked \/ stage[run.tree.doc].evals # run.packs)
    BY <1>3, <1>5 DEF StageConflict
  <2>2. ~PackIsMissing
    BY DEF PackIsMissing
  <2>3. PackIsStaged
    BY <1>1, <1>2, <1>3, <1>5, <2>1, <2>2, StageWhenPlaced
  <2>4. MayFulfill /\ MayStage(Fulfilled(PackToBind))
    BY <1>1, <1>3, <1>5, <2>1, <2>3, PackCanBeBound
  <2> QED
    BY <2>3, <2>4 DEF ReceiptFits
<1> QED
  BY <1>4, <1>5

\* Without a Pack, the one that is missing is bound, or staged first.
LEMMA RepairIsOpen ==
    ASSUME IInv, WorkInv, FilesMatch, run.status = "ACTIVE", PackIsMissing,
           ~StageConflict, ~PackConflict, ~NoMorePacks
    PROVE  \/ MayFulfill /\ ReceiptFits /\ MayStage(Fulfilled(PackToBind))
           \/ PackIsMissing /\ MayPrepare /\ MayStage(Fulfilled(run.packs + 1))
<1>1. run.node = Gate /\ run.node # "review.finalize"
  BY DEF PackIsMissing, Gate
<1>2. /\ run \in States /\ run.tree # None /\ run.tree \in Trees /\ run.release = None
      /\ run.receipts = 0
  BY <1>1, RunFacts, StateFacts DEF Sound, WorkInv, SettledInv, Settled, Gate, PackIsMissing
<1>3. MayFulfill /\ MayStage(Fulfilled(PackToBind))
  <2>1. stage[run.tree.doc] # None =>
          ~(/\ stage[run.tree.doc].evals \in 1 .. run.packs
            /\ run.blocked \/ stage[run.tree.doc].evals # run.packs)
    BY DEF StageConflict
  <2> QED
    BY <1>1, <1>2, <2>1, PackCanBeBound
<1>4. CASE ReceiptFits
  BY <1>3, <1>4
<1>5. CASE ~ReceiptFits
  <2>1. ~PackIsStaged /\ run.staged \in {0, run.tree.doc}
    BY <1>5 DEF ReceiptFits, PackConflict
  <2>2. run.packs < bound.packs
    BY <1>3, <2>1 DEF MayFulfill
  <2>3. MayPrepare
    BY <1>2, <2>1, <2>2 DEF MayPrepare, FilesMatch
  <2>4. PackToBind = run.packs + 1
    BY <2>1 DEF PackToBind
  <2> QED
    BY <1>3, <2>3, <2>4
<1> QED
  BY <1>4, <1>5

LEMMA ReadyIsOpen ==
    ASSUME IInv, WorkInv, FilesMatch, BarrierPasses, run.status = "ACTIVE", run.node = Gate,
           EvalsAreBound, ~NoMoreDispatches, ~EvidenceConflict, ~SnapshotConflict, ~ReadyLost
    PROVE  MayBeReady
<1>1. /\ run \in States /\ run.tree # None /\ run.tree \in Trees /\ run.release = None
      /\ run.tree.review = "FINALIZED" /\ run.tree.doc \in Docs
      /\ archive[run.tree.doc] = run.tree
  BY RunFacts, StateFacts, TreeFacts DEF Sound, Gate, FilesMatch
<1>2. MayDispatchReady
  <2>1. run.dispatch.attempt \in Nat /\ bound.dispatches \in Nat
    BY <1>1, StateFacts, RunFacts, BoundFacts DEF BoundTyped
  <2>2. IsExact \/ run.dispatch.attempt < bound.dispatches
    BY <2>1 DEF NoMoreDispatches
  <2>3. run.receipts # 0 => IsExact /\ ready.result # "written"
    BY DEF ReadyLost, BarrierPasses
  <2> QED
    BY <1>1, <2>2, <2>3 DEF MayDispatchReady, AtGate, Gate
<1>3. EvidenceFits(AttemptToCome)
  <2>1. CASE run.receipts = 0
    BY <2>1 DEF EvidenceConflict, EvidenceFits
  <2>2. CASE run.receipts # 0
    <3>1. ready.audited
      BY <2>2 DEF WorkInv, SettledInv, Settled, ResultInv
    <3> QED
      BY <3>1 DEF EvidenceFits
  <2> QED
    BY <2>1, <2>2
<1>4. MayAssert
  <2>1. CASE releasing[run.tree.doc] = None
    BY <2>1 DEF MayAssert
  <2>2. CASE releasing[run.tree.doc] # None
    <3>1. /\ releasing[run.tree.doc] = [tree |-> run.tree, version |-> run.dispatch.authorised]
          /\ run.receipts = Kinds
      BY <1>1, <2>2 DEF WorkInv, ReleasingInv
    <3>2. IsExact
      BY <3>1, KindsAssumption DEF ReadyLost
    <3> QED
      BY <3>1, <3>2 DEF MayAssert, Asserted, IsExact
  <2> QED
    BY <2>1, <2>2
<1>5. /\ IsExact => ready.snapshot # "differs"
      /\ ready.result # "none" => run.receipts = Kinds
  BY DEF SnapshotConflict, WorkInv, ResultInv
<1> QED
  BY <1>1, <1>2, <1>3, <1>4, <1>5 DEF MayBeReady

LEMMA AuthoringIsOpen ==
    ASSUME IInv, WorkInv, run.status = "ACTIVE", run.node \in {"prd.generate", "prd.optimize"},
           ~NoMoreDocs
    PROVE  MayArchive
<1>1. NewDoc \in Nat \ {0} /\ bound.docs \in 0 .. MaxDocs /\ MaxDocs \in Nat
  BY NewFacts, RunFacts, BoundFacts, DocsAre DEF BoundTyped
<1>2. NewDoc <= bound.docs
  BY <1>1 DEF NoMoreDocs
<1>3. NewDoc \in Docs
  BY <1>1, <1>2 DEF Docs
<1>4. archive[NewDoc] \in {None, NewTree}
  BY <1>3, NewFacts DEF WorkInv, AheadInv, NewTree
<1> QED
  BY <1>2, <1>4 DEF MayArchive

\* Whenever nobody has the lock, the Run of a Candidate is delivered, at a bound,
\* at one of six named dead ends (a journal that was overtaken is one of them), or
\* something is open to whoever comes: a recovery, an answer, a version, the end
\* of the review, a Pack, the whole way through the Ready gate, or the handoff.
\* No other file a dead process, a pause or another Run left stops it.
THEOREM WorkIsAlwaysLeft == Spec => []WorkIsLeft
<1>1. IInv /\ WorkInv => WorkIsLeft
  <2> SUFFICES ASSUME IInv, WorkInv, ~Stopped PROVE CanMoveOn
    BY DEF WorkIsLeft
  <2> USE DEF Stopped
  <2>1. CASE prepared # {}
    BY <2>1, RecoveryIsOpen DEF CanMoveOn
  <2>2. CASE prepared = {} /\ ~BarrierPasses
    BY <2>2, BarrierIsOpen DEF CanMoveOn
  <2>3. CASE prepared = {} /\ BarrierPasses
    <3>1. BarrierPasses /\ FilesMatch
      BY <2>3 DEF BarrierPasses
    <3>2. /\ run \in States /\ Sound(run)
          /\ run.status \in {"ACTIVE", "PAUSED", "RELEASED"}
      BY RunFacts DEF States
    <3>3. CASE run.status = "RELEASED"
      <4>1. MayHandOff
        BY <3>1, <3>2, <3>3 DEF Sound, FilesMatch, MayHandOff
      <4> QED
        BY <3>1, <4>1 DEF CanMoveOn
    <3>4. CASE run.status = "ACTIVE"
      <4>1. run.node \in {"prd.generate", "prd.optimize", "review.parallel",
                          "review.aggregate", "review.finalize", Gate}
        BY <3>2, <3>4 DEF States, WorkInv, SettledInv, Settled, Gate
      <4>2. run.node \in {"prd.generate", "prd.optimize"} => MayArchive
        BY <3>4, AuthoringIsOpen
      <4>3. run.node \in {"review.parallel", "review.aggregate"} => MayAnswer
        BY <3>4 DEF MayAnswer
      <4>4. run.node = Gate /\ ~EvalsAreBound => PackIsMissing
        BY DEF EvalsAreBound, PackIsMissing, Gate
      <4>5. run.node = Gate => \/ MayFulfill /\ ReceiptFits /\ MayStage(Fulfilled(PackToBind))
                               \/ PackIsMissing /\ MayPrepare /\ MayStage(Fulfilled(run.packs + 1))
                               \/ MayBeReady
        BY <3>1, <3>4, <4>4, RepairIsOpen, ReadyIsOpen
      <4> QED
        BY <3>1, <3>4, <4>1, <4>2, <4>3, <4>5, ReviewCanEnd DEF CanMoveOn
    <3> QED
      BY <3>1, <3>2, <3>3, <3>4 DEF CanMoveOn
  <2> QED
    BY <2>1, <2>2, <2>3
<1> QED
  BY <1>1, WorkInvariance, PTL

----------------------------------------------------------------------------
(* A journal that was overtaken *)

\* Once the state is not that of a PREPARED journal it never is again, and the
\* journal is never marked: recover_transactions has nothing to finish it with,
\* and authoritative_read_barrier passes for no later call of the Run.
THEOREM OvertakenForGood == Spec => [][Overtaken => Overtaken']_vars
<1>1. ASSUME IInv, WorkInv, Overtaken, NEW h \in Hosts, Step(h) PROVE Overtaken'
  <2>1. PICK j \in prepared : ~IsCurrent(j)
    BY <1>1 DEF Overtaken
  <2>2. /\ j.after.version = j.before.version + 1 /\ j.before.version < run.version
        /\ j.before.version \in Nat /\ run.version \in Nat /\ j \in Journals
    BY <1>1, <2>1, JournalVersions, RunFacts, StateFacts DEF JournalOK, Publishes
  <2>3. j \in prepared'
    <3>1. ~MarkCommitted(h) => prepared \subseteq prepared'
      BY <1>1, PreparedStays
    <3>2. MarkCommitted(h) => j # call[h].journal /\ prepared' = prepared \ {call[h].journal}
      BY <1>1, <2>1 DEF MarkCommitted, IInv, CallInv, Doing, Publishing, IsCurrent
    <3> QED
      BY <2>1, <3>1, <3>2
  <2>4. run' = run \/ run'.version = run.version + 1
    BY <1>1, VersionGoes
  <2>5. run' # j.before /\ run' # j.after
    <3>1. CASE run' = run
      BY <2>1, <3>1 DEF IsCurrent
    <3>2. CASE run'.version = run.version + 1
      <4>1. j.before.version < run'.version /\ j.after.version < run'.version
        BY <2>2, <3>2
      <4>2. j.after.version \in Nat
        BY <2>2
      <4> QED
        BY <2>2, <3>2, <4>1, <4>2
    <3> QED
      BY <2>4, <3>1, <3>2
  <2> QED
    BY <2>3, <2>5 DEF Overtaken, IsCurrent
<1>2. ASSUME Overtaken, UNCHANGED vars PROVE Overtaken'
  BY <1>2 DEF Overtaken, IsCurrent, vars, publication
<1>3. IInv /\ WorkInv /\ [\E h \in Hosts : Step(h)]_vars => [Overtaken => Overtaken']_vars
  BY <1>1, <1>2
<1> QED
  BY <1>3, WorkInvariance, PTL DEF Spec

=============================================================================
