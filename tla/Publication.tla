----------------------------- MODULE Publication -----------------------------
(***************************************************************************)
(* The files of a PRD Candidate.  Each version is archived in a directory  *)
(* of its own; a finished review, or a bound Eval Pack, replaces the tree  *)
(* there by a new generation and keeps the old one; Ready publishes a      *)
(* released copy and lists it.  These are several renames and writes, and  *)
(* one journal of the Run makes each whole.                                *)
(* (src/src/bpg: documents.py, state_controller.py, ready.py,              *)
(* host_runtime.py, product_navigation.py)                                 *)
(*                                                                         *)
(* An answer and the transition it makes are one step, and so is a commit  *)
(* that publishes nothing: NodeRun and StateTransaction show what is in    *)
(* them.  From prd.optimize a Run may also return to product.planning;     *)
(* that path is NodeRun's, and so is mark_dispatch_unknown.  A retry that  *)
(* brings other bytes for a version that is archived is refused, and no    *)
(* step.  One Run per document: the prd-artifacts.lock guards nothing that *)
(* the Run's lock does not, and of the other Runs of the project only the  *)
(* changelog they share is seen.                                           *)
(***************************************************************************)
EXTENDS CandidateRun

VARIABLES
    archive,    \* artifacts/prds/archived/<stem>, by version
    history,    \* candidate-generations/generation-<n>/<stem>
    stage,      \* candidate-finalize-staging/<stem>
    releasing,  \* release-staging/<stem>, with the version it asserts
    released,   \* artifacts/prds/released/<stem>
    listed,     \* the entries of changelogs and release manifest
    ready,      \* ready-evidence/, the result of the Ready gate, and the document
                \* of evals-fulfillment/receipt.json
    prepared    \* the PREPARED journals that publish

files == <<archive, history, stage, releasing, released, listed, ready>>
publication == <<files, prepared>>

\* Each Pack that is bound is one, and so is each review that is finished.
Generations == 1 .. MaxDocs + 2 * MaxPacks + 1
Lists == {"DOCUMENT_CHANGELOG.md", "PRODUCT_DOCUMENT_CHANGELOG.jsonl", "RELEASE_MANIFEST.json"}

PublicationInit ==
    /\ archive = [d \in Docs |-> None]
    /\ history = [p \in Docs \X Generations |-> None]
    /\ stage = [d \in Docs |-> None]
    /\ releasing = [d \in Docs |-> None]
    /\ released = [d \in Docs |-> None]
    /\ listed = {} /\ prepared = {}
    /\ ready = [validation |-> 0, audited |-> FALSE, snapshot |-> "none", result |-> "none",
                unstaged |-> 0]

IsRelease(j) == j.after.release # j.before.release
DocOf(j) == j.after.tree.doc

\* _validate_candidate_finalize_transaction, _validate_release_transaction
IsConsistent(j) ==
    LET d == DocOf(j)
        kept == history[<<d, j.before.generation>>]
    IN  IF IsRelease(j)
        THEN /\ archive[d] = j.before.tree
             /\ IF released[d] = None
                THEN releasing[d] = [tree |-> j.before.tree, version |-> j.before.version]
                ELSE released[d] = j.after.release
        ELSE \/ archive[d] = j.before.tree /\ kept = None /\ stage[d] = j.after.tree
             \/ archive[d] = None /\ kept = j.before.tree /\ stage[d] = j.after.tree
             \/ archive[d] = j.after.tree /\ kept = j.before.tree

\* The state is the journal's: recover_transactions can finish it.
IsCurrent(j) == run \in {j.before, j.after}

\* The checks of authoritative_read_barrier on the files of the state
FilesMatch ==
    /\ run.tree # None => archive[run.tree.doc] = run.tree
    /\ run.release # None => released[run.release.doc] = run.release

\* ... and recover_run leaves no result of the Ready gate without its receipt.
BarrierPasses == prepared = {} /\ FilesMatch /\ ready.result # "written"

\* The attempt at the Ready gate is authorised for the state as it is.
IsExact == run.dispatch.authorised = run.version

----------------------------------------------------------------------------
(* authoritative_read_barrier *)

\* Mutant: a journal whose state is written is marked, its files unmoved.
RecoverByMarking(h) ==
    /\ call[h].at = "idle" /\ Lock!Take(h)
    /\ \E j \in prepared :
        /\ IsCurrent(j) /\ IsConsistent(j)
        /\ Do(h, [Idle EXCEPT !.journal = j,
                      !.at = IF run = j.before THEN "state" ELSE "commit"])
    /\ UNCHANGED <<run, crashes, pauses, bound, publication>>

\* Mutant: a journal whose state is written is left alone.
RecoverUnwritten(h) ==
    /\ call[h].at = "idle" /\ Lock!Take(h)
    /\ \E j \in prepared :
        /\ run = j.before /\ IsConsistent(j)
        /\ Do(h, [Idle EXCEPT !.journal = j, !.at = "state"])
    /\ UNCHANGED <<run, crashes, pauses, bound, publication>>

\* recover_transactions takes up one PREPARED journal.
Recover(h) ==
    /\ call[h].at = "idle" /\ Lock!Take(h)
    /\ \E j \in prepared :
        /\ IsCurrent(j) /\ IsConsistent(j)
        /\ Do(h, [Idle EXCEPT !.journal = j,
                      !.at = IF run = j.before THEN "state" ELSE "move"])
    /\ UNCHANGED <<run, crashes, pauses, bound, publication>>

\* _repair_incomplete_result, when no journal was taken up
RecoverResult(h) ==
    /\ call[h].at = "idle" /\ holder = None
    /\ prepared = {} /\ ready.result = "written"
    /\ run.node = "prd.ready.gate" /\ IsExact
    /\ ready' = [ready EXCEPT !.result = "receipted"]
    /\ UNCHANGED <<holder, run, call, crashes, pauses, bound, archive, history, stage,
                   releasing, released, listed, prepared>>

\* A call whose barrier gives the lock back before anything else is done:
\* dispatch_current, fulfill_evals, stage_evals, engine.handle.
Enter(h) ==
    /\ call[h].at = "idle" /\ holder = None
    /\ BarrierPasses
    /\ Do(h, [Idle EXCEPT !.at = "passed", !.saw = run.version])
    /\ UNCHANGED <<holder, run, crashes, pauses, bound, publication>>

\* It only reads, or is rejected.
Leave(h) ==
    /\ call[h].at \in {"passed", "evidence", "receipts", "release"}
    /\ Return(h)
    /\ UNCHANGED <<holder, run, crashes, pauses, bound, publication>>

----------------------------------------------------------------------------
(* A version of the PRD: submit_and_advance at prd.generate, prd.optimize  *)

NewDoc == IF run.tree = None THEN 1 ELSE run.tree.doc + 1
NewTree == [doc |-> NewDoc, evals |-> 0, review |-> "NOT_RUN"]

\* What an interrupted call left is taken over.
MayArchive ==
    /\ run.status = "ACTIVE" /\ run.node \in {"prd.generate", "prd.optimize"}
    /\ NewDoc <= bound.docs /\ archive[NewDoc] \in {None, NewTree}

\* archive_prd_candidate
Archive(h) ==
    /\ call[h].at = "idle" /\ Lock!Take(h)
    /\ BarrierPasses /\ MayArchive
    /\ archive' = [archive EXCEPT ![NewDoc] = NewTree]
    /\ Goto(h, "changelog")
    /\ UNCHANGED <<run, crashes, pauses, bound, history, stage, releasing, released,
                   listed, ready, prepared>>

\* The entry of an archived, or of a released document
Entry(h) ==
    IF call[h].journal = None
    THEN [doc |-> NewDoc, status |-> "CANDIDATE_ARCHIVED"]
    ELSE [doc |-> DocOf(call[h].journal), status |-> "RELEASED"]

Enlist(h, list) ==
    /\ listed' = listed \cup {<<list, Entry(h)>>}
    /\ UNCHANGED <<holder, run, crashes, pauses, bound, archive, history, stage,
                   releasing, released, ready, prepared>>

\* _append_changelog
AppendChangelog(h) ==
    /\ call[h].at = "changelog"
    /\ Enlist(h, "DOCUMENT_CHANGELOG.md")
    /\ Goto(h, "structured")

\* _append_structured_changelog
AppendStructuredChangelog(h) ==
    /\ call[h].at = "structured"
    /\ Enlist(h, "PRODUCT_DOCUMENT_CHANGELOG.jsonl")
    /\ Goto(h, IF call[h].journal = None THEN "bind" ELSE "manifest")

\* update_release_manifest
UpdateManifest(h) ==
    /\ call[h].at = "manifest"
    /\ Enlist(h, "RELEASE_MANIFEST.json")
    /\ Goto(h, "commit")

\* The archived tree becomes the Run's current Candidate; its generation is
\* the number of Candidates so far, which is its document's version here.
Bind(h) ==
    /\ call[h].at = "bind"
    /\ Commit([run EXCEPT !.node = "review.parallel", !.tree = NewTree, !.generation = NewDoc])
    /\ Lock!Release(h) /\ Return(h)
    /\ UNCHANGED <<crashes, pauses, bound, publication>>

----------------------------------------------------------------------------
(* The review, pause and resume, Eval Packs *)

MayAnswer == run.status = "ACTIVE" /\ run.node \in {"review.parallel", "review.aggregate"}

\* submit_and_advance at review.parallel and review.aggregate
Answer(h) ==
    /\ call[h].at = "idle" /\ holder = None
    /\ BarrierPasses /\ MayAnswer
    /\ \/ run.node = "review.parallel" /\ Commit([run EXCEPT !.node = "review.aggregate"])
       \/ /\ run.node = "review.aggregate"
          /\ \/ NewDoc <= bound.docs /\ Commit([run EXCEPT !.node = "prd.optimize"])
             \/ Commit([run EXCEPT !.node = "review.finalize"])
    /\ UNCHANGED <<holder, call, crashes, pauses, bound, publication>>

\* set_run_activity
Pause(h) ==
    /\ call[h].at = "passed" /\ holder = None
    /\ run.status = "ACTIVE" /\ pauses < bound.pauses
    /\ pauses' = pauses + 1
    /\ Commit([run EXCEPT !.status = "PAUSED"])
    /\ Return(h)
    /\ UNCHANGED <<holder, crashes, bound, publication>>

Resume(h) ==
    /\ call[h].at = "passed" /\ holder = None
    /\ run.status = "PAUSED"
    /\ Commit([run EXCEPT !.status = "ACTIVE"])
    /\ Return(h)
    /\ UNCHANGED <<holder, crashes, pauses, bound, publication>>

\* A Pack, or a reason for none, that was staged for another version of the PRD
\* makes every later one stale.
MayPrepare ==
    /\ run.status = "ACTIVE" /\ run.tree # None
    /\ run.receipts = 0 /\ run.release = None
    /\ run.staged \in {0, run.tree.doc}
    /\ run.packs < bound.packs
    /\ archive[run.tree.doc] = run.tree

\* stage_product_eval_pack: the next version of the Pack
StagePack(h) ==
    /\ call[h].at = "passed" /\ holder = None
    /\ run.version = call[h].saw
    /\ MayPrepare
    /\ Commit([run EXCEPT !.packs = @ + 1, !.staged = run.tree.doc, !.pending = TRUE])
    /\ Return(h)
    /\ UNCHANGED <<holder, crashes, pauses, bound, publication>>

\* An assessment that input is missing takes its place; the transaction has the
\* document's name, so there is one of them.
BlockPack(h) ==
    /\ call[h].at = "passed" /\ holder = None
    /\ run.version = call[h].saw
    /\ MayPrepare /\ ~run.blocked
    /\ Commit([run EXCEPT !.staged = run.tree.doc, !.pending = FALSE, !.blocked = TRUE])
    /\ Return(h)
    /\ UNCHANGED <<holder, crashes, pauses, bound, publication>>

----------------------------------------------------------------------------
(* A new generation of the tree *)

\* A stage that is there must be equal.
MayStage(after) ==
    archive[run.tree.doc] = run.tree /\ stage[run.tree.doc] \in {None, after.tree}

\* _prepare_candidate_finalize_stage
Stage(h, after) ==
    /\ MayStage(after)
    /\ stage' = [stage EXCEPT ![run.tree.doc] = after.tree]
    /\ Do(h, [Idle EXCEPT !.at = "journal", !.journal = [before |-> run, after |-> Next(after)]])
    /\ UNCHANGED <<run, crashes, pauses, bound, archive, history, releasing, released,
                   listed, prepared>>

MayFinalize ==
    run.status = "ACTIVE" /\ run.node = "review.finalize" /\ run.tree.review = "NOT_RUN"

Finalized == [run EXCEPT !.node = "prd.ready.gate", !.tree.review = "FINALIZED",
                         !.generation = @ + 1]

\* finalize_review_and_transition
Finalize(h) ==
    /\ call[h].at = "passed" /\ Lock!Take(h)
    /\ MayFinalize
    /\ Stage(h, Finalized)
    /\ UNCHANGED ready

PackIsStaged == run.pending /\ run.staged = run.tree.doc

\* At the Ready gate a Pack that was not staged will do.
PackIsMissing == run.node = "prd.ready.gate" /\ EvalsRequired /\ run.tree.evals = 0

MayFulfill ==
    /\ run.status = "ACTIVE" /\ run.tree # None
    /\ run.receipts = 0 /\ run.release = None
    /\ PackIsStaged \/ (PackIsMissing /\ run.packs < bound.packs)

\* The document goes back to the review, with the Pack.
Fulfilled(pack) ==
    [run EXCEPT !.node = "review.parallel", !.generation = @ + 1,
                !.packs = pack, !.pending = FALSE, !.asked = FALSE,
                !.tree = [doc |-> run.tree.doc, evals |-> pack, review |-> "NOT_RUN"]]

PackToBind == IF PackIsStaged THEN run.packs ELSE run.packs + 1

\* The receipt of a Pack that was not staged has one name in the Run, receipt.json.
ReceiptFits == PackIsStaged \/ ready.unstaged \in {0, run.tree.doc}
WriteReceipt ==
    ready' = IF PackIsStaged THEN ready ELSE [ready EXCEPT !.unstaged = run.tree.doc]

\* Mutant: a staged Pack is counted again.
FulfillWithTheNext(h) ==
    /\ call[h].at = "passed" /\ Lock!Take(h)
    /\ run.version = call[h].saw
    /\ MayFulfill /\ ReceiptFits
    /\ Stage(h, Fulfilled(run.packs + 1))
    /\ WriteReceipt

\* fulfill_required_evals, with the staged Pack or one that was not staged
Fulfill(h) ==
    /\ call[h].at = "passed" /\ Lock!Take(h)
    /\ run.version = call[h].saw
    /\ MayFulfill /\ ReceiptFits
    /\ Stage(h, Fulfilled(PackToBind))
    /\ WriteReceipt

\* That another document's receipt is in the way is found when the tree is staged.
RefuseReceipt(h) ==
    /\ call[h].at = "passed" /\ holder = None
    /\ run.version = call[h].saw
    /\ MayFulfill /\ ~ReceiptFits
    /\ MayStage(Fulfilled(PackToBind))
    /\ stage' = [stage EXCEPT ![run.tree.doc] = Fulfilled(PackToBind).tree]
    /\ Return(h)
    /\ UNCHANGED <<holder, run, crashes, pauses, bound, archive, history, releasing, released,
                   listed, ready, prepared>>

----------------------------------------------------------------------------
(* The Ready gate: _complete_prd_ready, which takes the lock for each of   *)
(* its parts and does not run the barrier again                            *)

EvalsAreBound == EvalsRequired => run.tree.evals # 0

AtGate ==
    /\ run.status = "ACTIVE" /\ run.node = "prd.ready.gate"
    /\ archive[run.tree.doc] = run.tree

\* mark_required_evals_repair: the Run waits for a Pack, and says so once.
AskForPack(h) ==
    /\ call[h].at = "passed" /\ holder = None
    /\ AtGate /\ ~EvalsAreBound /\ ~run.asked
    /\ Commit([run EXCEPT !.asked = TRUE])
    /\ Return(h)
    /\ UNCHANGED <<holder, crashes, pauses, bound, publication>>

\* recover_redundant_ready_resume: with receipts there is no other attempt than
\* theirs, and nothing makes it exact again.
MayDispatchReady ==
    /\ AtGate /\ EvalsAreBound
    /\ run.receipts # 0 => IsExact /\ ready.result # "written"
    /\ IsExact \/ run.dispatch.attempt < bound.dispatches

\* _plan_dispatch: the exact attempt again, or a new one, with no files yet.
DispatchReady(h) ==
    /\ call[h].at = "passed" /\ holder = None
    /\ MayDispatchReady
    /\ IF IsExact
       THEN UNCHANGED <<run, ready>>
       ELSE /\ Commit([run EXCEPT !.dispatch = [attempt |-> run.dispatch.attempt + 1,
                                                authorised |-> run.version + 1,
                                                evidence |-> FALSE]])
            /\ ready' = [ready EXCEPT !.snapshot = "none"]
    /\ Do(h, [Idle EXCEPT !.at = "evidence", !.saw = run'.dispatch.attempt])
    /\ UNCHANGED <<holder, crashes, pauses, bound, archive, history, stage, releasing,
                   released, listed, prepared>>

\* The attempt of the call is the exact one.
HasAttempt(h) == AtGate /\ IsExact /\ call[h].saw = run.dispatch.attempt

\* Another attempt's evidence is in the way until its audit snapshot is there:
\* then each later attempt has a directory of its own.
EvidenceFits(attempt) == ready.audited \/ ready.validation \in {0, attempt}

\* prepare_ready_gate_evidence, up to mechanical-validation.json
WriteValidation(h) ==
    /\ call[h].at = "evidence" /\ Lock!Take(h)
    /\ HasAttempt(h) /\ EvalsAreBound /\ run.tree.review = "FINALIZED"
    /\ EvidenceFits(call[h].saw)
    /\ ready' = [ready EXCEPT !.validation = IF ready.audited THEN @ ELSE call[h].saw]
    /\ Goto(h, "snapshots")
    /\ UNCHANGED <<run, crashes, pauses, bound, archive, history, stage, releasing,
                   released, listed, prepared>>

\* audit-snapshot.json, and the changelog as it is; a snapshot that is there
\* must be equal.
WriteSnapshots(h) ==
    /\ call[h].at = "snapshots"
    /\ IF ready.snapshot = "differs"
       THEN /\ ready' = [ready EXCEPT !.audited = TRUE]
            /\ Lock!Release(h) /\ Return(h)
       ELSE /\ ready' = [ready EXCEPT !.audited = TRUE, !.snapshot = "same"]
            /\ Goto(h, "authorise") /\ UNCHANGED holder
    /\ UNCHANGED <<run, crashes, pauses, bound, archive, history, stage, releasing,
                   released, listed, prepared>>

\* Another Run of the project archives or releases a document.
ExtendChangelog ==
    /\ bound.others /\ ready.snapshot = "same"
    /\ ready' = [ready EXCEPT !.snapshot = "differs"]
    /\ UNCHANGED <<holder, run, call, crashes, pauses, bound, archive, history, stage,
                   releasing, released, listed, prepared>>

\* What the gate itself commits keeps its attempt exact.
Reauthorised(next) == [next EXCEPT !.dispatch.authorised = run.version + 1]

BindEvidence(h) ==
    /\ call[h].at = "authorise"
    /\ IF run.dispatch.evidence THEN UNCHANGED run
       ELSE Commit(Reauthorised([run EXCEPT !.dispatch.evidence = TRUE]))
    /\ Lock!Release(h) /\ Goto(h, "receipts")
    /\ UNCHANGED <<crashes, pauses, bound, publication>>

\* issue_controller_receipt, once for each kind; one that is there is returned.
IssueReceipt(h) ==
    /\ call[h].at = "receipts" /\ holder = None
    /\ HasAttempt(h) /\ run.receipts < Kinds
    /\ Commit(Reauthorised([run EXCEPT !.receipts = @ + 1]))
    /\ UNCHANGED <<holder, call, crashes, pauses, bound, publication>>

\* execute_mechanical_result, with the receipts of the attempt
WriteResult(h) ==
    /\ call[h].at = "receipts" /\ Lock!Take(h)
    /\ HasAttempt(h) /\ run.receipts = Kinds /\ ready.result = "none"
    /\ ready' = [ready EXCEPT !.result = "written"]
    /\ Goto(h, "receipt")
    /\ UNCHANGED <<run, crashes, pauses, bound, archive, history, stage, releasing,
                   released, listed, prepared>>

WriteResultReceipt(h) ==
    /\ call[h].at = "receipt"
    /\ ready' = [ready EXCEPT !.result = "receipted"]
    /\ Lock!Release(h) /\ Goto(h, "release")
    /\ UNCHANGED <<run, crashes, pauses, bound, archive, history, stage, releasing,
                   released, listed, prepared>>

\* The result that is there, with its receipt, will do.
TakeResult(h) ==
    /\ call[h].at = "receipts" /\ holder = None
    /\ run.node = "prd.ready.gate" /\ call[h].saw = run.dispatch.attempt
    /\ run.receipts = Kinds /\ ready.result = "receipted"
    /\ Goto(h, "release")
    /\ UNCHANGED <<holder, run, crashes, pauses, bound, publication>>

\* _prepare_release_stage: the assertion names the version of the state, and
\* one that is there must be equal.
Asserted == [tree |-> run.tree, version |-> run.version]
MayAssert == releasing[run.tree.doc] \in {None, Asserted}

\* ready_and_release, commit_ready_release
CommitRelease(h) ==
    /\ call[h].at = "release" /\ Lock!Take(h)
    /\ HasAttempt(h) /\ EvalsAreBound /\ ready.result = "receipted"
    /\ MayAssert
    /\ releasing' = [releasing EXCEPT ![run.tree.doc] = Asserted]
    /\ Do(h, [Idle EXCEPT !.at = "journal", !.journal =
           [before |-> run,
            after |-> Next([run EXCEPT !.status = "RELEASED", !.node = "handoff.prepare",
                                       !.release = run.tree])]])
    /\ UNCHANGED <<run, crashes, pauses, bound, archive, history, stage, released,
                   listed, ready, prepared>>

\* The Run is RELEASED already, by a call that died: its journal is taken up,
\* if the assertion can be read where it was published.
CompleteRelease(h) ==
    /\ call[h].at = "release" /\ Lock!Take(h)
    /\ run.status = "RELEASED" /\ released[run.release.doc] = run.release
    /\ call[h].saw = run.dispatch.attempt
    /\ \E j \in prepared :
        /\ IsRelease(j) /\ run = j.after /\ IsConsistent(j)
        /\ Do(h, [Idle EXCEPT !.journal = j, !.at = "move"])
    /\ UNCHANGED <<run, crashes, pauses, bound, publication>>

MayHandOff == run.status = "RELEASED" /\ released[run.release.doc] = run.release

\* _prepare_handoff, complete_local_handoff
HandOff(h) ==
    /\ call[h].at = "passed" /\ holder = None
    /\ MayHandOff
    /\ Commit([run EXCEPT !.status = "COMPLETED", !.node = "handoff.dispatch"])
    /\ Return(h)
    /\ UNCHANGED <<holder, crashes, pauses, bound, publication>>

----------------------------------------------------------------------------
(* From the journal on, in the call or in a recovery *)

WriteJournal(h) ==
    /\ call[h].at = "journal"
    /\ prepared' = prepared \cup {call[h].journal}
    /\ Goto(h, "state")
    /\ UNCHANGED <<holder, run, crashes, pauses, bound, files>>

\* The files are checked, then the event and state.json are written.
WriteState(h) ==
    /\ call[h].at = "state" /\ IsConsistent(call[h].journal)
    /\ run' = call[h].journal.after
    /\ Goto(h, "move")
    /\ UNCHANGED <<holder, crashes, pauses, bound, publication>>

\* Mutant: the old generation is removed.
DropOld(h) ==
    LET j == call[h].journal
        d == DocOf(j)
    IN
    /\ call[h].at = "move" /\ ~IsRelease(j)
    /\ archive[d] \notin {None, j.after.tree}
    /\ archive' = [archive EXCEPT ![d] = None]
    /\ UNCHANGED <<holder, run, call, crashes, pauses, bound, history, stage, releasing, released,
                   listed, ready, prepared>>

\* _publish_candidate_finalize_transaction: the old generation is kept
KeepOld(h) ==
    LET j == call[h].journal
        d == DocOf(j)
    IN
    /\ call[h].at = "move" /\ ~IsRelease(j)
    /\ archive[d] \notin {None, j.after.tree}
    /\ history' = [history EXCEPT ![<<d, j.before.generation>>] = archive[d]]
    /\ archive' = [archive EXCEPT ![d] = None]
    /\ UNCHANGED <<holder, run, call, crashes, pauses, bound, stage, releasing, released,
                   listed, ready, prepared>>

\* Mutant: the staged tree is copied, and stays.
PlaceCopy(h) ==
    LET j == call[h].journal
        d == DocOf(j)
    IN
    /\ call[h].at = "move" /\ ~IsRelease(j)
    /\ \/ archive[d] = None /\ archive' = [archive EXCEPT ![d] = stage[d]]
       \/ archive[d] = j.after.tree /\ UNCHANGED archive
    /\ Goto(h, "commit")
    /\ UNCHANGED <<holder, run, crashes, pauses, bound, history, stage, releasing, released,
                   listed, ready, prepared>>

\* ... and the staged one takes its place.
PlaceNew(h) ==
    LET j == call[h].journal
        d == DocOf(j)
    IN
    /\ call[h].at = "move" /\ ~IsRelease(j)
    /\ \/ archive[d] = None
          /\ archive' = [archive EXCEPT ![d] = stage[d]]
          /\ stage' = [stage EXCEPT ![d] = None]
       \/ archive[d] = j.after.tree /\ UNCHANGED <<archive, stage>>
    /\ Goto(h, "commit")
    /\ UNCHANGED <<holder, run, crashes, pauses, bound, history, releasing, released,
                   listed, ready, prepared>>

\* _publish_release_transaction, then release_prd_candidate
PlaceRelease(h) ==
    LET j == call[h].journal
        d == DocOf(j)
    IN
    /\ call[h].at = "move" /\ IsRelease(j)
    /\ IF released[d] = None
       THEN /\ released' = [released EXCEPT ![d] = releasing[d].tree]
            /\ releasing' = [releasing EXCEPT ![d] = None]
       ELSE UNCHANGED <<released, releasing>>
    /\ Goto(h, "changelog")
    /\ UNCHANGED <<holder, run, crashes, pauses, bound, archive, history, stage, listed, ready,
                   prepared>>

\* The journal is COMMITTED.
MarkCommitted(h) ==
    /\ call[h].at = "commit"
    /\ prepared' = prepared \ {call[h].journal}
    /\ Lock!Release(h) /\ Return(h)
    /\ UNCHANGED <<run, crashes, pauses, bound, files>>

\* What a call does once it has begun.
Publish(h) ==
    \/ Leave(h) \/ AppendChangelog(h) \/ AppendStructuredChangelog(h)
    \/ UpdateManifest(h) \/ Bind(h) \/ WriteJournal(h) \/ WriteState(h)
    \/ KeepOld(h) \/ PlaceNew(h) \/ PlaceRelease(h) \/ MarkCommitted(h)
    \/ WriteSnapshots(h) \/ BindEvidence(h) \/ WriteResultReceipt(h)

Barrier(h) == Recover(h) \/ RecoverResult(h) \/ Enter(h)

PublicationNext(h) ==
    \/ Barrier(h) \/ Publish(h)
    \/ Archive(h) \/ Answer(h) \/ Pause(h) \/ Resume(h) \/ StagePack(h) \/ BlockPack(h)
    \/ Finalize(h) \/ Fulfill(h) \/ RefuseReceipt(h) \/ HandOff(h)
    \/ AskForPack(h) \/ DispatchReady(h) \/ WriteValidation(h) \/ IssueReceipt(h)
    \/ WriteResult(h) \/ TakeResult(h) \/ CommitRelease(h) \/ CompleteRelease(h)
    \/ ExtendChangelog

====
