# Better Product Graph: a verification project

TLA+ models of the deterministic core of Better Product Graph (`src/src/bpg`),
the TLC runs that check them on small instances, and TLAPS proofs of what
matters most for every value of the constants.

The program never decides anything about a product. An Agent (the *Host*) and a
human *Owner* do; the program binds what they submit to exact, immutable
artifacts, and keeps a *Run* on legal tracks: what is reviewed is what was
frozen, what is delivered is what was reviewed, nothing is applied twice, and a
crash loses nothing. That is a state machine on files, and it is what is modelled
here.

## 1. Inventory

Two generations of the controller live side by side, and share locks and storage.

| Component | Source | State it keeps | Operations | Hard behaviour |
|---|---|---|---|---|
| BPG 2.0 controller | `alpha_runtime.py` | `run.json`, `planning-record.md`, `reviews/`, `handoff/local`, content-addressed `objects/` | start, status, replace-record, freeze-candidate, review, review-route, decision-route, pause, resume, handoff, retrospective | long sequences of legal calls, several files per operation, crash between them, Hosts that repeat calls |
| File locks | `locking.py` | RLocks per process, flock per open file, thread-local count | `exclusive_file_lock` | nesting, threads and processes, failing `open`/`flock`, dying processes |
| Storage | `storage.py` | files; `events.jsonl` as a hash chain | atomic replace, append and verify events | torn append |
| Legacy state controller | `state_controller.py` | `state.json`, `events.jsonl`, `transactions/*.json`, dispatches, results, receipts, candidates, releases | create, dispatch, submit, Decide, freeze, bind, consume triggers, release, finalize; recovery and read barrier | write-ahead journal, crash at any write, other processes between barrier and commit |
| Recovery ladder | `failpoints.py` | (reads the above) | `recover_run` | classify what an interrupted step had reached |
| Legacy Host engine | `engine.py`, `runner.py`, `host_runtime.py`, `intents.py`, `resume.py` | (the controller's) | one dispatch at a time, Owner choices, pause and resume | lock released between check and use |
| Review fan-out | `fanout.py` | plan, status, worker results | persist, execute, cancel, join, recover | late, cancelled and timed-out workers |
| Receipts, Ready | `receipts.py`, `ready.py`, `review_contract.py` | receipts bound to exact refs | issue, consume, gate | consumed once, stale basis |
| Releases | `documents.py`, `handoff.py`, `delivery_contract.py` | archived and released trees | archive, release, finalize | several files published from one journal |
| Stale Run recovery | `stale_recovery.py`, `upstream_authority.py` | journal of a repair | allowlisted repair | repaired once, crash in the middle |
| Templates | `templates.py`, `template_packs.py` | pin, history | pin, rollback | rollback to what was pinned |
| Evals, writing evaluation | `evals_*.py`, `writing_*.py` | packs; session files with a budget | validate, repair once, run | bounded repair |
| Memory and navigation | `product_memory.py`, `product_navigation.py` | append-only ledger, projections | append, project | projection equals ledger |
| Content contracts, rendering, adapters | the rest of `src/src/bpg`, `host-adapters` | none | validate, render | none |

How they interact: a Host calls one operation of one controller in a process of
its own. The controller takes the Run's file lock, reads the state file, decides,
writes artifacts, replaces the state file and answers. Nothing runs in the
background. The only shared state is the files, and the only communication
between Hosts is through them. The legacy controller writes a journal and an
event beside each state. The engine calls its read barrier before, and its
mutators after, sometimes with the lock released in between.

What makes each part correct, in one line each:

- BPG 2.0 Run: what is Ready is exactly what was reviewed and decided; no legal
  sequence of calls, and no crash, breaks that or strands a Run unnoticed.
- BPG 2.0 calls: an operation takes effect at most once, on the state its Host
  saw, and its answer is never taken back.
- Locks: one thread at a time; no waiting for oneself; no lock left behind.
- Legacy transactions: every state has its event, the chain of events leads to the
  current state, and recovery finishes what a crash left.
- Dispatch and results: no side effect repeated whose outcome is unknown; an answer is
  taken once, in the state it was asked for; nothing passes `product.decision` without
  the Owner; an interrupted Run goes on, or stops for a reason that has a name.
- Publication: files and state agree again after every recovery, and no interrupted
  move of a tree loses what was there before.
- Fan-out, receipts, release: each result, receipt and release is used once, and only
  on the exact basis it was made for.

## 2. Modules

```
 Mutex  <== implemented by ==  FileLock      (FileLockProofs, MCFileLock)
   ^ used by
 AlphaLedger == implements ==> OperationRegister   (AlphaLedgerProofs, MCAlphaLedger)
   one operation there = one action of
 AlphaRun                                    (AlphaRunProofs, MCAlphaRun)

 Mutex
   ^ used by
 StateTransaction == implements ==> StateHistory   (StateTransactionProofs, MCStateTransaction)
   one commit there = one action of
 NodeRun          == implements ==> NodePath       (NodeRunProofs, MCNodeRun)
   from review.parallel on
 CandidateReview  == implements ==> CandidateHistory   (CandidateReviewProofs, CandidateReviewProgress,
                                                    MCCandidateReview)
   = Publication + Fanout, over CandidateRun
```

### AlphaRun: the life of a Run

`run.json` is the variables from `status` to `recordRef`, the files beside it are
`runDir`, `recordFile`, `reviewFiles`, `handoffDir` and `retrospectiveFile`. Each
public operation of `BPG2AlphaController` is an action, or several actions where
it branches on its input:

| Code | Actions |
|---|---|
| `start_run` | `StartRun`, `StartRunInterrupted`; `OperateOnAbsentRun` for the directory any other operation creates by taking the lock |
| `replace_planning_record` | `ReplaceRecord`, `RemoveSections`, `ReplaceRecordInterrupted` |
| `freeze_candidate` | `FreezeCandidate` |
| `submit_review` | `PassRecordCandidate`, `PassPRD`, `RejectCandidate`, `ReviewInterrupted` |
| `submit_review_route` | `RouteToStage`, `RouteToWait`, `RouteToOwner` |
| `submit_decision_route` | `ChangeCognition`, `OwnerStops`, `OwnerDefers`, `OwnerWaits`, `OwnerResearches`, `OwnerExperiments`, `OwnerCommits`, `AgentCommits`, `AgentEscalates` |
| `pause_run`, `resume_run` | `PauseRun`, `ResumePaused`, `ResumeOnTrigger` |
| `prepare_local_handoff` | `PrepareLocalHandoff`, `HandoffInterrupted` |
| `record_retrospective` | `RecordRetrospective`, `RetrospectiveInterrupted` |

An operation that is refused changes nothing and is not a step. An operation that
replaces only `run.json` is atomic (one rename under the Run's lock). An operation
that writes another file first has an `...Interrupted` action that leaves that
file and not `run.json`. Objects stored under their hash are left out: writing one
twice is harmless and nothing refers to it until `run.json` does.

Abstractions: a Planning Record is a content with a set of removable sections. A
Candidate ref is the record, version and, for a PRD, the Decision basis its hash is
computed from. Findings, disagreements and professional reviews are one Boolean per
Review, `settled`: nothing in them is open that a later operation looks for.

### FileLock and Mutex

A thread goes `out`, `opening`, `in`, `closing`, `closed`; `in` at depth
`nesting[t]`. `local` is the process's RLock, `flock` the kernel's lock, `held` the
thread-local count. `open` and `flock` may fail, and a process may die in any of
these states. `Mutex` is what the users of the lock rely on; `ImplementsMutex`
maps its holder to the thread that is inside a block.

### AlphaLedger and OperationRegister

Several Hosts run `_mutate` step by step: `Enter` (lock), `Load`, then `Replay`,
`Refuse` or `Apply`, then `Return`. A Host's process may die at any step; the Host
then calls again with the same operation id, payload and expected version, as the
adapters instruct it (`host-adapters/*/public-skill/better-product-graph/SKILL.md`).
`OperationRegister` is the promise of those instructions: an operation id takes
effect at most once, on the version its Host had seen, and what was answered has
taken effect. `ImplementsRegister` maps its log to `run.log`.

### StateTransaction and StateHistory

The transactions of a legacy Run: every mutation of `StateController` goes through
`_commit_state_event`. `file` is `state.json`, `journals` the files under
`transactions/`, `events` the state-commit events of `events.jsonl`, `torn` a broken
last line of it. A state is the sequence of mutations that made it, so its hash is
the sequence and its `state_version` the length.

| Code | Actions |
|---|---|
| `authoritative_read_barrier`, `recover_transactions` | `CallBarrier`, `Pick` (a PREPARED journal), the writes below, `Block`, `Pass` |
| `load_state` outside the lock, then the mutator | `Look`, `Relock` |
| `create_run` | `CallCreate` |
| a mutator up to the journal; one that is refused | `Prepare`; `GiveUp` |
| the writes of `_commit_state_event` and of the recovery | `AppendEvent` or `FindTorn`, `WriteState`, `MarkCommitted` |
| the answer, or the refusal shown to the caller | `Return`, `Dismiss` |
| a process that dies | `Crash` between two writes, `Tear` in the append |

Callers differ in where the lock ends: `submit_and_advance` and `apply_owner_choice`
hold it from barrier to answer (`guarded`); `HostEngine.handle` gives it back after the
barrier (`split`); creation has no barrier. `_plan_dispatch`, which locks without a
barrier, is a `split` call whose `Look` is the step before `Relock`. `overtaken` is a
history variable: some mutation was prepared beside an unfinished one.
`recover_transactions` takes the journals in the order of their names; here any order
is possible. Creations share one transaction id, so two that differ conflict, as in
the code. `StateHistory` is the promise: the state grows by one mutation at a time
and what a caller was told of is not taken back.

Left out of the barrier here: `recover_run` and the checks of artifacts and releases,
which are in the next modules, and the graph upgrade.

### NodeRun and NodePath

The path of a legacy Run through the graph, from `evidence.collect` to
`review.parallel`. `run` is `state.json`, `attempts` and `consumed` its two lists;
`result` and `receipts` the files of an attempt, `proposals`, `records` and `pointer`
those of a decision. A commit is one step, as StateTransaction justifies; every file
written beside it is a step of its own, so that a process can die in between.

| Code | Actions |
|---|---|
| `authoritative_read_barrier`, `recover_run` | `RecoverReceipt`, `Enter`, `Leave` |
| `_plan_dispatch`: `persist_node_dispatch`, `begin_node_call` | `Reuse`, `Plan`, `Begin` |
| `mark_dispatch_unknown` | `MarkUnknown` |
| `submit_and_advance`, `_persist_result`, `transition` | `Submit`, `WriteResult`, `WriteReceipt`, `Advance` |
| `_complete_problem_ready_gate`, `_complete_validation_gate` | `Execute`, `TakeUp`, `WriteReceipt`, `AdvanceGate`, `RefuseGate` |
| `persist_decision_proposal` | `Propose` |
| `apply_owner_choice`, `record_owner_decision` | `Choose`, `Record`, `Point`, `Apply`, `RefuseChoice` |
| `set_run_activity`, `set_interview_policy`, `consume_wait_trigger` | `Pause`, `Resume`, `Interview`, `Trigger` |
| a process that dies | `Crash` |

An answer is READY or one of two that a later node refuses, and the rest of its content is
left out. `Blocks` says which: the problem gate answers NOT_READY when the quality review had
blocking findings; `plan.ready.gate` raises when the plan's `decision_ref` is not exactly one
committed Decision Record (NOT_READY); `_prd_generation_context` refuses to dispatch
`prd.generate` when the plan left no `product_plan` artifact, or has not exactly one activated
and eligible Slice (NO_SLICE). A plan with both faults stops at the first of the two, as one
that is NOT_READY does. The Owner's choices are the five of the code, COMMIT with its two timings:
COMMIT_NOW and EXPERIMENT lead to `product.planning`, RESEARCH back to the evidence,
COMMIT_FUTURE ends as ROADMAP_ONLY, STOP as CLOSED, and WAIT keeps the Run for its trigger.
`Submit` takes any
answer to any dispatch, so that late and repeated ones are tried. Four nodes between
`evidence.collect` and the quality review, which are answered as it is, are left out.
`died`, `overtaken` and `basis` are history variables. `NodePath` is the promise: a Run
leaves a node by an edge of the graph with one answer that is kept, or by the Owner's
choice, and it leaves no node that is `Blocked` by what an earlier one said last;
`ImplementsPath` maps its path to the consumed answers.

### CandidateReview: CandidateRun, Publication, Fanout, CandidateHistory

`CandidateRun` holds what the other two share: `state.json`, the Run's lock, calls,
deaths. `Publication` has the files of a PRD: the archive, kept generations, both staging
areas, the released tree, the changelogs and the release manifest, and the journals that
make several of them one.

| Code | Actions |
|---|---|
| `authoritative_read_barrier`, `recover_transactions`, `recover_run` | `Recover`, `RecoverResult`, `Enter`, `Leave` |
| `archive_prd_candidate` in `submit_and_advance` | `Archive`, `AppendChangelog`, `AppendStructuredChangelog`, `Bind` |
| the answers of the review | `Answer` |
| `stage_product_eval_pack` | `StagePack`, or `BlockPack` for an assessment that input is missing |
| `fulfill_required_evals` | `Fulfill`, `RefuseReceipt` |
| `finalize_review_and_transition` | `Finalize` |
| `mark_required_evals_repair` | `AskForPack` |
| `_plan_dispatch` at the gate, `recover_redundant_ready_resume` | `DispatchReady` |
| `prepare_ready_gate_evidence` | `WriteValidation`, `WriteSnapshots`, `BindEvidence` |
| `issue_controller_receipt` | `IssueReceipt`, once for each kind |
| `execute_mechanical_result` | `WriteResult`, `WriteResultReceipt`, `TakeResult` |
| `ready_and_release`, `commit_ready_release` | `CommitRelease`, `CompleteRelease` |
| `_append_changelog` by another Run | `ExtendChangelog` |
| `_publish_candidate_finalize_transaction` | `WriteJournal`, `WriteState`, `KeepOld`, `PlaceNew`, `MarkCommitted` |
| `_publish_release_transaction`, `release_prd_candidate` | `WriteJournal`, `WriteState`, `PlaceRelease`, `AppendChangelog`, `AppendStructuredChangelog`, `UpdateManifest`, `MarkCommitted` |
| `complete_local_handoff`, `set_run_activity` | `HandOff`, `Pause`, `Resume` |

`_complete_prd_ready` takes the lock for each of its parts, so that a pause, a Pack, a
fan-out's plan or a death may come between any two of them. What the gate commits itself keeps
its attempt authorised; any other commit makes it an old one. With no receipt yet, the next
call gets a new attempt. With receipts `recover_redundant_ready_resume` accepts their attempt
only, at the very version it is authorised for: the redundant RUN_RESUMED events it forgives
are in the logs of an older release, and no operation of this one writes them. `Kinds` is the
number of receipts the gate asks for (four in the code). `ready` holds the files of the gate.

`Fanout` is a review fan-out: `PersistPlan`, `PersistStatus`, `Register`, `Execute`,
`PersistResult`, `Executed`, `Cancel`, `Join`, `Joined`. Its calls take the Run's lock
and run no barrier. `CandidateReview` puts the two beside each other: a plan may be
registered over a publication that a dead process left PREPARED, and a new version may
make a plan stale. `CandidateHistory` is the promise: one current Candidate, every
earlier one kept as it was, and what is released is a current one whose review is
finished.

The mutated forms of definitions stand before them, marked "Mutant".

## 3. Runs

| Run | Module, cfg | Question | Bounds |
|---|---|---|---|
| `alpha_run` | MCAlphaRun | all operations in all orders: are frozen, reviewed, decided, Ready and delivered states consistent? | 2 contents (one with a removable section, so that it can be added and removed), 2 revision rounds as in the code, 3 formal Reviews, 1 interrupted operation, 1 condition and trigger, 2 delivery options |
| `alpha_run_long` | MCAlphaRunLong | whole behaviours: where can a Run get stuck (`OnlyNamedDeadEnds`), and is Ready handed off (`ReadyIsHandedOff`)? | 1 content, 1 revision round, 9 Reviews, 1 interrupted operation |
| `file_lock` | MCFileLock | do RLock, flock and count make one lock? | 2 threads of a process and 1 of another, nesting 2, 2 dying processes |
| `ledger` | MCAlphaLedger | are operations exactly-once under concurrency, crash and retry? | 2 Hosts, 2 operation ids, 2 payloads, 2 crashes |
| `state_transaction` | MCStateTransaction | does recovery finish every mutation, once, and refuse only for a cause? | 2 Hosts, 2 creations, 2 other mutations, version 3, 2 crashes |
| `node_run` | MCNodeRun | is work taken only in the state it was asked for, and does an interrupted Run go on? | 2 Hosts, one of them the Owner's, from `product.decision`; 2 Decision Records, 3 of the Owner's outcomes, 5 attempts, 1 pause, policy change or unknown outcome, 1 crash |
| `candidate_review` | MCCandidateReview | do files and state agree after every recovery, and are findings delivered once? | 2 Hosts, 2 kinds of receipts, and one of seven sets of bounds (below) |

Why these are enough: three Reviews reach a PRD's Review (Decision, PRD and one
more), all return paths, and a second Decision; nine with one revision round reach
every status from every other, since a Run that is not stuck uses at most two
Reviews of each kind before it repeats itself. A second content is needed for a
record that changed, a third adds no new comparison. In the lock, two threads of a
process and one of another give every pair that can compete. In the ledger, two ids
bound the log at two effects and two payloads give the conflict; MaxVersion is
above what can be reached. In the transactions, version 2 holds two competing
mutations beside each other, version 3 one more on top of a recovered state, and the
second crash interrupts the recovery of the first. From `product.decision`, five
attempts reach the review by EXPERIMENT, with one attempt repeated, or go back to the
evidence by WAIT and its trigger, then through the quality review and both answers of the
problem gate; a second record
is needed for a choice that changes the first. `Outcomes` has EXPERIMENT, COMMIT_FUTURE and WAIT:
COMMIT_NOW has the effect of the first on the Run, STOP ends it as COMMIT_FUTURE does, and
RESEARCH leads where WAIT does after its trigger; the theorems are about all six. In
`candidate_review`, `Bounds` has seven members, and a behaviour keeps to one:

| Versions | Packs | Deaths | Pauses | Attempts at the gate | Others | What it is for |
|---|---|---|---|---|---|---|
| 1 | 1 | 1 | | 1 | | a death at any step, through the gate and the release |
| 1 | 1 | | 1 | 2 | | a pause between two steps of the gate: an attempt made anew, or lost with its receipts |
| 1 | 1 | | | 1 | another Run | the changelog extended between the snapshot and its use |
| 1 | 2 | | | | | a second Pack prepared for the same version |
| 2 | 1 | 1 | | | | a death while a second version is archived; a Pack for a version no longer current |
| 1 | | 1 | | | a plan of two workers | a fan-out beside a version, with a death |
| 2 | | | | | a plan of two workers | a plan that a new version makes stale |

Two receipts instead of four give a gate that has none, some or all of them. Combinations of
these, and a fan-out beside a Pack or a release, are in no instance of the run; the proofs of
the safety properties (section 4) have every combination, and any number of receipts.
`FewReviews` is a state constraint and `Seen` a view
that drops only what no operation and no property reads again; both are in
MCAlphaRun. Deadlock is not checked for a Run: it really ends.
`OnlyNamedDeadEnds` says where an `AlphaRun` does: either `StopsHere`, or the guard of an
operation that takes the Run on holds (`CanProceed`). `Stopped` in NodeRun names every
reason a legacy Run stops before the review, `Stopped` in CandidateReviewProgress every
reason the Run of a Candidate does: delivered, at the bounds, or at one of its
dead ends below.

Five further runs are expected to end in a violation. The first four check a sentence of
the confirmed method document (`docs/architecture/BPG_PRODUCT_PLANNING_METHOD_CONFIRMED_v0.4.md`)
that the code does not keep, the last one of README.md; the shortest traces were
replayed on the real controller:

- `review_of_returned_candidate`: a Run that returned to an earlier stage freezes a
  Candidate whose Review name is taken (line 235, 893, 1088, 1120).
- `decision_on_ended_run`: a stopped Run accepts another decision route (line 233).
- `decision_superseded`: Ready with a decision on a Decision Candidate that has been
  replaced (line 333).
- `replanned_after_last_round`: no PRD can be frozen after planning again (line 1943).
- `interrupted_beside_split_call`: a pause that passed the barrier before another
  process died is committed on top of the unfinished mutation, and every later barrier
  raises (README.md:66).

### Fairness

- `alpha_run_long`: weak fairness of the handoff only. The Host that was told READY
  calls it until it succeeds; no other operation is assumed to happen.
- `file_lock`: a block that was entered ends (strong fairness per depth, since blocks
  nested inside come and go), and the kernel serves the waiters of an flock in turn.
- `ledger`: a running call goes on (weak), a dead Host calls again (weak), and the
  lock serves a waiting call (strong), which is `WaiterIsServed` of FileLock.
- `state_transaction`: a running call goes on (weak), and some Host, any, gets the lock
  for the barrier again and again (strong): people come back to an unfinished Run.
  Nothing is assumed of the calls that mutate or create.
- `node_run`: a running call goes on (weak). Some Host again and again gets through the
  barrier, dispatches, hands an answer in, and the Owner answers a proposal not yet
  answered (strong, each over all Hosts): a controller that does nothing by itself moves
  only if its people come back. No control and no particular answer is assumed.
- `candidate_review`: a running call goes on (weak) and some Host gets the lock for its
  barrier again and again (strong).

### Dead ends

The liveness property of NodeRun holds because `Stopped` names these; each is reached in
the model and can be read off the code. They are what an operator of the controller meets
after a crash at a bad moment, or a plan that is refused too late. That a Run of the model
stops at no other place, its bounds apart, is proved (`WorkIsAlwaysLeft` of NodeRunProofs and of
CandidateReviewProgress). A refusal for the content of a submission, which another submission
answers, is no dead end and not in the models.

Before the review (NodeRun):

- `Stranded`: a result and its receipt are on disk, the transition was not made. Only
  `problem.ready.gate` and `prd.generate` take the result up; elsewhere the answer is
  refused ("attempt already exists") until some change revokes the dispatch.
- `NoMoreRecords`: a Decision Record without its pointer; each later choice finds the
  version taken.
- `NotReady`: the problem gate's NOT_READY has no way back.
- `PlanRefused`: the plan's `decision_ref` does not match exactly one committed Decision
  Record. Nothing looks it up before `plan.ready.gate`, which raises from then on, and no
  edge leads back to `product.planning` (`state_controller.py:2999`).
- `NoSlice`: the plan passed its gate, and `prd.generate` finds no plan artifact, or not exactly
  one activated and eligible Slice; it is never dispatched (`host_runtime.py:767`).
- `Refused`: an unknown side effect, which a human must settle, or a result that a
  mutation overtook (`ReceiptIsLostOnlyWhenOvertaken` says it needs one).

From the review on (CandidateReview):

- `Overtaken`: a fan-out registers its plan, or a call that had passed its barrier
  commits, over a journal that a dead process left PREPARED. `OvertakenForGood` is the
  proof that nothing in the controller undoes it.
- `StageConflict`: a stage that was left by a dead process, and another Pack staged since, or an
  assessment that there can be none; every later publication of the document is a conflict (the
  third case of `StageIsTakenUp`). Only the end of the review and a missing Pack at the Ready
  gate can meet it.
- `PackConflict`: a document that requires Evals is at the Ready gate without a Pack; an earlier
  version had a Pack staged, so none can be staged for this one, and an earlier version had one
  bound that was not staged, so `evals-fulfillment/receipt.json` is taken
  (`state_controller.py:4998`).
- `EvidenceConflict`: a process died between `mechanical-validation.json` and the audit
  snapshot, and the version went on. The next attempt writes to the same place, with another
  identity, and is a conflict.
- `SnapshotConflict`: the changelog was extended by another Run after the attempt had copied
  it (`state_controller.py:3873`). Before the receipts a pause and a resume lead out of it, since
  they give a new attempt; with receipts nothing does.
- `ReadyLost`: a death, or the call's turn for the lock, came between a receipt and the release, and
  a pause, a fan-out's plan or any other commit moved the version on. Its receipts allow no other attempt, and
  `recover_redundant_ready_resume` refuses theirs (`state_controller.py:2281`).

## 4. Proofs

| Module | Theorems |
|---|---|
| AlphaRunProofs | `TypeCorrect`, `FrozenIsUndisturbed`, `DecisionsAreReviewed`, `PRDDecisionIsKept`, `ReadyIsAlwaysExact`, `HandoffFollowsReady`, `HandoffIsRecoverable`, `LineageIsKept`, `ReviewsAreUnique`, `RequiredIsExact`, `DeadEndsAreNamed` |
| FileLockProofs | `TypeCorrect`, `AtMostOneInside`, `NestingIsCounted`, `FileLockImplementsMutex` |
| AlphaLedgerProofs | `TypeCorrect`, `EffectsAreExactlyOnce`, `AnswersAreDurable`, `RetriesAreRecognised`, `LedgerImplementsRegister` |
| StateTransactionProofs | `TypeCorrect`, `RecoveryIsComplete`, `DecisionsAreCurrent`, `Refinement` |
| NodeRunProofs | `TypeCorrect`, `OwnerIsAsked`, `BarrierCompletesResults`, `AnswersFitTheRun`, `RunFollowsTheGraph`, `CallsAreNeverStuck`, `WorkIsAlwaysLeft` |
| CandidateReviewProofs | `TypeCorrect`, `FindingsOnce`, `FilesAreTheState`, `StagesAreTakenUp`, `Refinement` |
| CandidateReviewProgress | `CallsAreNeverStuck`, `WorkIsAlwaysLeft`, `OvertakenForGood` |

Assumptions are those on the constants, named in the modules: the initial record is
a record, bounds are naturals, `None` differs from the values it stands beside, and there
is some combination of delivery options to hand off with (`DeliveryAssumption`).

- AlphaRun. Type correctness needs that a version counts its rounds (`TypeInv`).
  On it stand three invariants that are inductive together with it:
  `FrozenCandidateUndisturbed`; `HistoryInv`, that `decisionRef` and an accepted
  decision name Candidates with a passing Review and the current Candidate's status
  agrees with the Reviews; and `PRDKeepsItsDecision`. `ReadyInv` uses them where a
  PASS makes the Run Ready and shows that nothing later disturbs it;
  `HandoffFollowsReady` and `HandoffIsRecoverable` follow. `ReviewInv`,
  the conjunction of `RevisionLineage`, `OneReviewPerVersion` and `NewCandidateRequired`, is
  inductive on top of `TypeInv` as it stands: a Review is written only under a name that is free.
  `DeadEndsAreNamed` needs to know of every Run where it stands. `RouteInv` says what the
  positions mean: at REVIEW_ROUTE a Review of the current Candidate waits to be routed, at
  DECISION_ROUTE a passed Decision or a condition, and a paused Run returns to where it was or to
  the stage of a Review that was submitted meanwhile, which is one of the dead ends. `BasisInv` says
  that what a Candidate and a decision rest on was reviewed, so that freeze and Review are
  never refused for their basis, and `EvidenceInv` that the evidence of a Ready Run is still complete when
  the handoff evaluates it again. A case on the position then finds the operation.
- FileLock. `LockInv` says what each stage owns: from `opening` to `closed` the RLock,
  `in` the flock and a count equal to the nesting. Mutual exclusion is not inductive
  without it, since the count may only be trusted by a thread that has the flock.
- AlphaLedger. `HostInv` says that a Host past `Enter` is the holder, that the copy it
  loaded is `run` itself and that its answer agrees with the log. The holder's copy
  being current is what makes `Apply` an atomic step of the register; every other
  step but `Return` maps to a stutter.
- StateTransaction. `CallInv` says where the transaction of the call inside the lock
  stands, `JournalInv` that journals add one mutation and events say what their journals
  say, `SeenInv` that what a call saw is a prefix of the state. `Reconcilable` is the core:
  as long as nothing is overtaken or torn, at most one journal is PREPARED, the state is
  its before or its after, and the chain of events ends at the state or one step ahead of
  it in that journal. It makes the barrier's only two refusals contradictory. The
  refinement needs `CallInv` and `JournalInv` only, so it also holds after an overtaken
  mutation.
- NodeRun. `IInv` is `TypeOK` and `OwnerDecides` with four parts: `HolderInv`, that a call
  past taking the lock holds it; `OutsideInv`, what a call that released the lock may still
  assume; `InsideInv`, what one that holds it knows of the state at each of its steps; and
  `AttemptInv`, that an attempt that may be answered names a version no newer than the state and was
  dispatched under the policy and decision of that version. An answer fits the Run because
  every commit makes the version it was asked for an old one. The refinement needs that a
  result once consumed is never written again. The same invariant gives the barrier's
  property: what revokes a dispatch is a commit, and the barrier before it saw the result,
  unless the result came in between. `WorkInv` is what progress needs besides. Its core is
  `CarriedInv`: the answer of a dispatch that still holds is never lost without a trace. A call
  carries it, its process died, its node takes results up again, or the Owner has yet to choose.
  From it `WorkIsAlwaysLeft` concludes that a Run no call is busy with has stopped for one of the
  named reasons, or that the recovery, a dispatch, an answer, a gate or the Owner is open.
- CandidateReview. `PublishedAsCommitted` speaks of states without a PREPARED journal;
  what makes it hold is what such a journal finds at every step before. `IInv` says that
  in parts. `HolderInv`: a call past its barrier that writes holds the lock. `CallInv`:
  what a call knows at each step, the files its journal needs (`Ready`), how far its
  document is listed, which workers it has taken. `JournalInv`: a PREPARED
  journal whose before is the state finds its stage and archive ready; one whose after is the
  state finds them consistent; any other is older than the state, so it was overtaken and
  stays so, because versions only grow. `FileInv`: a tree lies under its own document, and the generations of a
  document come in one order (`Earlier`: Packs bound, then review finished), so that no kept
  one equals the current one. `CleanInv`: unless a journal was overtaken, what is not in its
  place is what a journal still has to place. `StageInv` is `StageIsTakenUp` without the
  condition on calls and journals. `FanoutInv`: a persisted result that is not yet accepted was never
  delivered, which is what makes `FindingsAreDeliveredOnce` inductive: `Join` accepts and
  delivers in two steps, with a death possible between them, and never takes up an
  ACCEPTED worker again.
  In the refinement only `Bind` and the `WriteState` of a call or of a recovery are steps
  of CandidateHistory. All moves of files stutter: `KeepOld` moves a tree
  to where nothing lay, and what `PlaceNew` puts in its place is the current tree, which is not
  counted among the kept.
- CandidateReviewProgress. `CallsAreNeverStuck` says that a call which passed its checks never
  fails half-way: the next write of a publication, a recovery, a Ready attempt or a fan-out finds
  the files it asks for. It follows from `IInv` and `WorkInv`, and it is why the model needs no
  action for a publication that is refused in the middle. `WorkInv` says what a dead process may
  have left in the archive (`AheadInv`) and in the two stages (`StagedInv`, `RepairInv`,
  `ReleasingInv`), that receipts are issued at the gate for bound evidence and never taken back
  (`SettledInv`), what a call in the gate knows of its attempt when it comes back for the lock
  (`AttemptInv`), and that a result has all receipts and a release its result (`ResultInv`). The
  files of the gate are no part of `IInv`: no safety property asks for them, so `ReadyTyped`, their
  type, is proved beside it. From `WorkInv`
  `WorkIsAlwaysLeft` concludes that each node's operation finds its stage free, equal to what it
  would write, or one of the named conflicts. At the Ready gate, "open" is said of the whole way
  through it (`MayBeReady`): dispatch, evidence, snapshots, receipts, result and assertion, so
  that a Run whose first step is open and whose fourth would raise does not count as going on.
  `OvertakenForGood` is an action property: states only get newer and a
  journal is only marked by a call that found its state in place.

Two definitions did not survive the attempt to prove about them. `StageIsTakenUp` had left
out a Pack prepared for one version of the PRD and still staged when a later version is
repaired; TLC found the trace with two versions and two Packs, a combination that is now left to
the proof. `Executed` chose among CASE arms whose guards overlap, which TLA+ leaves open
although TLC takes the first; its guards are now disjoint.

Only model-checked are the liveness properties `ReadyIsHandedOff`, `WaiterIsServed`,
`CallIsAnswered`, `TransactionIsFinished`, `RunMovesOn` and `PublicationIsFinished`: fairness
is stated with ENABLED, which is beyond the prover. Every other property of a passing run
is a theorem. For four of the six the part that is no liveness is proved for every value of
the constants: whenever nobody is busy there is a guard that holds (`DeadEndsAreNamed`, the two
`WorkIsAlwaysLeft`), and no call is stuck half-way (`CallsAreNeverStuck`, `RecoveryIsComplete`).
Those theorems speak of the guards by name, not of ENABLED; that an operation with its guard
true can be carried out is visible in the action, which only assigns.

## 5. Plan

Most important behaviour first; done are 1 to 9.

1. FileLock with Mutex: the assumption under everything else.
2. AlphaRun: the controller that current Hosts use.
3. AlphaLedger with OperationRegister: the same controller under concurrent Hosts.
4. StateTransaction with StateHistory: commit, recovery and barrier of the legacy
   controller.
5. NodeRun with NodePath: dispatch, answer, gates, Owner's choice, `recover_run`.
6. Publication with CandidateHistory: the journals that publish several files, Eval
   Packs, receipts and release.
7. Fanout, composed with the publication in CandidateReview.
8. Proofs of CandidateReview, of its invariants and of the refinement to CandidateHistory.
9. Proofs of what is never stuck: the dead ends of AlphaRun, NodeRun and CandidateReview.
10. Two Runs over one project: `prd-artifacts.lock`, the manifest's forward target.

## 6. Not modelled

- Legacy controller: intake and routing up to `evidence.collect`, the return from
  `prd.optimize` to `product.planning`, the handoff of Bugs and Incidents, the graph
  upgrade. Their commits are those of StateTransaction.
- Several Runs over one project (10). One hazard of the list, the manifest's forward target,
  needs them and has no property for that reason; of another Run only its entries in the
  changelog are seen (`ExtendChangelog`). Two more have no property of a run and are answered by
  a theorem (`WorkIsAlwaysLeft`): a stale Pack, and a Ready attempt that lost its version.
- `mark_dispatch_unknown` in CandidateReview: it is NodeRun's, where an unknown outcome stops
  the Run.
- Stale Run recovery: which Runs it accepts is a comparison of exact contents with a list;
  it publishes its files as Publication does.
- Templates: a pin is one file replaced under one lock; a Run records the exact ref.
- Writing evaluation: a session with its own files that no Run reads.
- Rendering, content contracts, schemas and the wording of artifacts: they hold no state.
- Connectors do nothing. Host adapters, and the built copies under `plugins` and
  `claude-plugins`, repeat the implementation.

What an Agent may say in a submission is a value from a small set. The conditions of
`calculate_prd_ready` that compare contents are reduced to a finished review and bound
Evals.
