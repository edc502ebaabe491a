------------------------------ MODULE NodeRun -------------------------------
(***************************************************************************)
(* The path of a legacy Run through the graph: a node is dispatched        *)
(* (PLANNED, then DISPATCHED), the Host's answer is written with its       *)
(* receipt, the transition consumes it; two gates are answered by the      *)
(* controller; the Owner chooses at product.decision; a Run is paused,     *)
(* resumed and its interview policy changed; processes die between any     *)
(* two writes and the next call's barrier makes of the files what it can.  *)
(* (src/src/bpg: host_runtime.py, state_controller.py, failpoints.py,      *)
(* engine.py, product_memory.py)                                           *)
(*                                                                         *)
(* Every _commit_state_event is one step here: StateTransaction shows      *)
(* that the journals make it so.  A result, its receipt, a proposal, a     *)
(* Decision Record and its pointer are files of their own, written one     *)
(* after the other.  What an answer says is reduced to what later nodes    *)
(* make of it; schemas, hashes and file contents are left out.             *)
(* The content of a state is told by its version, so authority_hash is     *)
(* left to the comparison of versions beside it.                           *)
(*                                                                         *)
(* The lock is held inside a call.  A call that has transitioned also      *)
(* dispatches the next node; that is a call of its own here, because one   *)
(* that dies in between leaves the same files.                             *)
(***************************************************************************)
EXTENDS Naturals, Sequences, FiniteSets

CONSTANTS
    Hosts,
    Owners,         \* the Hosts that carry the Owner's choices and controls
    Start,          \* the node the Run is at to begin with
    MaxCrashes,     \* bound: processes that die
    MaxChanges,     \* bound: pauses, policy changes and unknown outcomes
    MaxChoices,     \* bound: Decision Records
    MaxAttempts,    \* bound: dispatch_attempts
    Outcomes,       \* bound: the outcomes the Owner may choose
    None            \* an absent value

Decision == "product.decision"
Research == "evidence.collect"
Planning == "product.planning"

\* The edges of the manifest from evidence.collect to review.parallel; the
\* four nodes between evidence.collect and the quality review are answered
\* as it is, one after the other, and are left out.
Edges == {
    <<Research, "problem.quality.review">>,
    <<"problem.quality.review", "problem.ready.gate">>,
    <<"problem.ready.gate", Decision>>,
    <<Decision, Planning>>,
    <<Decision, Research>>,
    <<Planning, "plan.ready.gate">>,
    <<"plan.ready.gate", "prd.generate">>,
    <<"prd.generate", "review.parallel">>}

Nodes == {e[1] : e \in Edges} \cup {e[2] : e \in Edges}
Gates == {"problem.ready.gate", "plan.ready.gate"}
Last == "review.parallel"   \* the review is another module's

Policies == {"ALLOW_PM_INTERVIEW", "NO_PM_INTERVIEW"}

Answers == {"READY", "NOT_READY", "NO_SLICE"}

\* <<node, earlier, answer>>: the node is not left by its edge while the newest
\* answer of the earlier node is this one.  A review that is NOT_READY has
\* blocking findings, a plan a decision_ref that is not exactly one committed
\* record; a NO_SLICE plan left no product_plan, or has not exactly one activated
\* and eligible Slice.
Blocks == {
    <<"problem.ready.gate", "problem.quality.review", "NOT_READY">>,
    <<"plan.ready.gate", Planning, "NOT_READY">>,
    <<"prd.generate", Planning, "NO_SLICE">>}

\* The Owner's outcomes; a COMMIT has a timing.
Choices == {"COMMIT_NOW", "COMMIT_FUTURE", "EXPERIMENT", "RESEARCH", "WAIT", "STOP"}
PlanRuns == {"COMMIT_NOW", "EXPERIMENT"}

ASSUME HostAssumption == Owners \subseteq Hosts /\ None \notin Hosts /\ None \notin Answers
ASSUME StartAssumption == Start \in {Research, "problem.quality.review", Decision}
ASSUME BoundAssumption == MaxCrashes \in Nat /\ MaxChanges \in Nat /\ MaxChoices \in Nat
                          /\ MaxAttempts \in Nat /\ Outcomes \subseteq Choices

VARIABLES
    holder,     \* of the Run's mutation_lock
    run,        \* state.json: version, status, node, policy, decision
    attempts,   \* dispatch_attempts, in the order they were planned
    consumed,   \* consumed_attempts, in order
    result,     \* attempts/<id>/node-result.json; None when there is none
    receipts,   \* the attempts that have a result-receipt.json
    proposals,  \* PROPOSAL_v<n>.json: the attempt each came from
    records,    \* DECISION_v<n>.json: proposal and choice
    pointer,    \* current.json of the decision; 0 when there is none
    chosen,     \* the proposals that have an owner-choice transaction
    call,       \* what each Host's call is about to do
    crashes, changes,
    died,       \* history: attempts whose answer was in a process that died
    overtaken,  \* history: results that came after the barrier of a mutation
    basis       \* history: policy and decision each dispatch was made under

store == <<result, receipts>>
bounds == <<crashes, changes>>
decisions == <<proposals, records, pointer, chosen>>
history == <<died, overtaken, basis>>
vars == <<holder, run, attempts, consumed, store, decisions, call,
          bounds, history>>

Lock == INSTANCE Mutex WITH Threads <- Hosts

Ids == 1 .. Len(attempts)
Idle == [at |-> "idle", attempt |-> 0, answer |-> None, proposal |-> 0,
         choice |-> None, knew |-> {}]

Init ==
    /\ holder = None
    /\ run = [version |-> 1, status |-> "ACTIVE", node |-> Start,
              policy |-> "ALLOW_PM_INTERVIEW", decision |-> 0]
    /\ attempts = <<>> /\ consumed = <<>>
    /\ result = <<>> /\ receipts = {}
    /\ proposals = <<>> /\ records = <<>> /\ pointer = 0 /\ chosen = {}
    /\ call = [h \in Hosts |-> Idle]
    /\ crashes = 0 /\ changes = 0
    /\ died = {} /\ overtaken = {} /\ basis = <<>>

----------------------------------------------------------------------------
(* Files and states *)

IsConsumed(a) == \E i \in 1 .. Len(consumed) : consumed[i] = a

\* Mutant: a dispatch is told by its node and status alone.
SameNode(a) == attempts[a].node = run.node /\ attempts[a].status = "DISPATCHED"

\* _validate_exact_dispatch_result, _matching_dispatch
Exact(a) ==
    /\ attempts[a].node = run.node
    /\ attempts[a].status = "DISPATCHED"
    /\ attempts[a].authorised = run.version

\* _repair_incomplete_result: a result of the current node without receipt.
Incomplete(a) ==
    attempts[a].node = run.node /\ result[a] # None /\ a \notin receipts

IncompleteIds == {a \in Ids : Incomplete(a)}

UnknownIds ==
    {a \in Ids : attempts[a].node = run.node /\ attempts[a].status = "UNKNOWN"}

\* Mutant: the barrier does not look for results without a receipt.
BarrierForgetsResults == UnknownIds = {}

BarrierPasses == IncompleteIds = {} /\ UnknownIds = {}

Commit(next) == run' = [next EXCEPT !.version = run.version + 1]

\* A mutation whose barrier was before the result that it revokes.
Overtake(h) == overtaken' = overtaken \cup (IncompleteIds \ call[h].knew)

Do(h, step) == call' = [call EXCEPT ![h] = step]
Goto(h, where) == Do(h, [call[h] EXCEPT !.at = where])
Return(h) == Do(h, Idle)

Change ==
    changes < MaxChanges /\ changes' = changes + 1 /\ UNCHANGED crashes

----------------------------------------------------------------------------
(* authoritative_read_barrier *)

\* recover_run gives the newest result that has none its receipt, when its
\* dispatch is still exact.
RecoverReceipt(h) ==
    /\ call[h].at = "idle" /\ holder = None
    /\ \E a \in IncompleteIds :
        /\ \A b \in IncompleteIds : b <= a
        /\ Exact(a)
        /\ receipts' = receipts \cup {a}
    /\ UNCHANGED <<holder, run, attempts, consumed, result, decisions, call,
                   bounds, history>>

\* The barrier of dispatch_current and of engine.handle, which gives the
\* lock back before anything else is done.
Enter(h) ==
    /\ call[h].at = "idle" /\ holder = None
    /\ BarrierPasses
    /\ Do(h, [Idle EXCEPT !.at = "passed", !.knew = IncompleteIds])
    /\ UNCHANGED <<holder, run, attempts, consumed, store, decisions,
                   bounds, history>>

\* A call that only reads, or is rejected.
Leave(h) ==
    /\ call[h].at = "passed"
    /\ Return(h)
    /\ UNCHANGED <<holder, run, attempts, consumed, store, decisions,
                   bounds, history>>

----------------------------------------------------------------------------
(* _plan_dispatch *)

\* The answers that were consumed, in order.
Taken == [i \in 1 .. Len(consumed) |->
             [node |-> attempts[consumed[i]].node, answer |-> result[consumed[i]]]]

Path == INSTANCE NodePath WITH node <- run.node, path <- Taken

\* _load_committed_result: the newest consumed answer of a node
Newest(node) ==
    LET its == {i \in 1 .. Len(Taken) : Taken[i].node = node}
    IN  {Taken[i].answer : i \in {k \in its : \A j \in its : j <= k}}

\* _prd_generation_context: there is no PRD to make from the plan.
NoSlice == run.node = "prd.generate" /\ "NO_SLICE" \in Newest(Planning)

\* The one current attempt is used again.
Reuse(h) ==
    /\ call[h].at = "passed" /\ holder = None
    /\ run.status = "ACTIVE" /\ run.node # Last
    /\ \E a \in Ids :
        /\ Exact(a)
        /\ Do(h, IF run.node \in Gates
                 THEN [Idle EXCEPT !.at = "execute", !.attempt = a]
                 ELSE Idle)
    /\ UNCHANGED <<holder, run, attempts, consumed, store, decisions,
                   bounds, history>>

\* Mutant: an attempt that was only planned keeps the node for itself.
PlanOnce(h) ==
    /\ call[h].at = "passed" /\ Lock!Take(h)
    /\ run.status = "ACTIVE" /\ run.node # Last
    /\ \A a \in Ids : attempts[a].node = run.node => attempts[a].status = "UNKNOWN"
    /\ Len(attempts) < MaxAttempts
    /\ attempts' = Append(attempts,
           [node |-> run.node, status |-> "PLANNED", authorised |-> 0])
    /\ result' = Append(result, None)
    /\ basis' = Append(basis, None)
    /\ Commit(run)
    /\ Do(h, [Idle EXCEPT !.at = "begin", !.attempt = Len(attempts) + 1])
    /\ UNCHANGED <<consumed, receipts, decisions, bounds, died, overtaken>>

\* No attempt is current, so the node is dispatched once more.
MayPlan ==
    /\ run.status = "ACTIVE" /\ run.node # Last
    /\ \A a \in Ids : ~Exact(a)
    /\ ~NoSlice
    /\ Len(attempts) < MaxAttempts

\* persist_node_dispatch
Plan(h) ==
    /\ call[h].at = "passed" /\ Lock!Take(h)
    /\ MayPlan
    /\ attempts' = Append(attempts,
           [node |-> run.node, status |-> "PLANNED", authorised |-> 0])
    /\ result' = Append(result, None)
    /\ basis' = Append(basis, None)
    /\ Commit(run)
    /\ Do(h, [Idle EXCEPT !.at = "begin", !.attempt = Len(attempts) + 1])
    /\ UNCHANGED <<consumed, receipts, decisions, bounds, died, overtaken>>

\* begin_node_call
Begin(h) ==
    /\ call[h].at = "begin"
    /\ LET a == call[h].attempt IN
        /\ attempts' = [attempts EXCEPT
               ![a].status = "DISPATCHED", ![a].authorised = run.version + 1]
        /\ basis' = [basis EXCEPT ![a] = <<run.policy, run.decision>>]
        /\ Do(h, IF run.node \in Gates THEN [call[h] EXCEPT !.at = "execute"] ELSE Idle)
    /\ Commit(run)
    /\ Lock!Release(h)
    /\ UNCHANGED <<consumed, store, decisions, bounds, died, overtaken>>

\* mark_dispatch_unknown, which a Host calls without the barrier, for any
\* attempt; the transaction has the attempt's name, so it is done once.
MarkUnknown(h, a) ==
    /\ call[h].at = "idle" /\ holder = None
    /\ attempts[a].status # "UNKNOWN" /\ Change
    /\ attempts' = [attempts EXCEPT ![a].status = "UNKNOWN"]
    /\ Commit(run)
    /\ overtaken' = overtaken \cup IncompleteIds
    /\ UNCHANGED <<holder, consumed, store, decisions, call, died, basis>>

----------------------------------------------------------------------------
(* submit_and_advance *)

\* A result that is there is refused, except by prd.generate, which goes on
\* with it.
MaySubmit(a, answer) ==
    /\ run.status = "ACTIVE" /\ run.node \notin Gates
    /\ Exact(a)
    /\ answer = "READY" \/ \E b \in Blocks : b[2] = run.node /\ b[3] = answer
    /\ result[a] = None \/ run.node = "prd.generate"

\* Any answer to any dispatch, early, late or again.
Submit(h, a, answer) ==
    /\ call[h].at = "idle" /\ Lock!Take(h)
    /\ BarrierPasses /\ MaySubmit(a, answer)
    /\ Do(h, [Idle EXCEPT !.attempt = a, !.answer = answer,
                  !.at = IF result[a] = None THEN "result" ELSE "advance"])
    /\ UNCHANGED <<run, attempts, consumed, store, decisions, bounds, history>>

\* _persist_result writes the result, then the receipt.
WriteResult(h) ==
    /\ call[h].at = "result"
    /\ result' = [result EXCEPT ![call[h].attempt] = call[h].answer]
    /\ Goto(h, "receipt")
    /\ UNCHANGED <<holder, run, attempts, consumed, receipts, decisions,
                   bounds, history>>

\* Mutant: the answer at product.decision is taken for the Owner's.
ReceiptAdvances(h) ==
    /\ call[h].at = "receipt"
    /\ receipts' = receipts \cup {call[h].attempt}
    /\ \/ run.node \in Gates /\ Goto(h, "gate") /\ Lock!Release(h)
       \/ run.node \notin Gates /\ Goto(h, "advance") /\ UNCHANGED holder
    /\ UNCHANGED <<run, attempts, consumed, result, decisions, bounds, history>>

WriteReceipt(h) ==
    /\ call[h].at = "receipt"
    /\ receipts' = receipts \cup {call[h].attempt}
    /\ \/ run.node \in Gates /\ Goto(h, "gate") /\ Lock!Release(h)
       \/ run.node = Decision /\ Goto(h, "propose") /\ UNCHANGED holder
       \/ run.node \notin Gates \cup {Decision} /\ Goto(h, "advance") /\ UNCHANGED holder
    /\ UNCHANGED <<run, attempts, consumed, result, decisions, bounds, history>>

\* Mutant: the dispatch is not matched again when the gate goes on.
TransitionUnmatched(h) ==
    LET a == call[h].attempt IN
    /\ a \in receipts /\ ~IsConsumed(a)
    /\ run.node = "problem.ready.gate" => result[a] = "READY"
    /\ \E next \in Nodes :
        /\ <<run.node, next>> \in Edges
        /\ Commit([run EXCEPT !.node = next])
    /\ consumed' = Append(consumed, a)
    /\ Return(h)

\* The answer of the exact dispatch, with its receipt, READY and not yet used.
MayTransition(a) ==
    /\ Exact(a) /\ a \in receipts /\ ~IsConsumed(a)
    /\ run.node = "problem.ready.gate" => result[a] = "READY"

\* transition
Transition(h) ==
    LET a == call[h].attempt IN
    /\ MayTransition(a)
    /\ \E next \in Nodes :
        /\ <<run.node, next>> \in Edges
        /\ Commit([run EXCEPT !.node = next])
    /\ consumed' = Append(consumed, a)
    /\ Return(h)

Advance(h) ==
    /\ call[h].at = "advance"
    /\ Transition(h)
    /\ Lock!Release(h)
    /\ UNCHANGED <<attempts, store, decisions, bounds, history>>

----------------------------------------------------------------------------
(* The gates: _complete_problem_ready_gate and _complete_validation_gate,  *)
(* which take the lock for each of their parts                             *)

\* plan.decision_ref is looked up by the gate, and by nothing before it.
PlanRefused == run.node = "plan.ready.gate" /\ "NOT_READY" \in Newest(Planning)

\* The problem gate answers as the review did; the plan gate passes or raises.
GateAnswers ==
    IF run.node = "problem.ready.gate" THEN Newest("problem.quality.review")
    ELSE {answer \in {"READY"} : ~PlanRefused}

MayExecute(a) == run.status = "ACTIVE" /\ Exact(a) /\ result[a] = None

\* execute_mechanical_result
Execute(h) ==
    /\ call[h].at = "execute" /\ Lock!Take(h)
    /\ LET a == call[h].attempt IN
        /\ MayExecute(a)
        /\ \E answer \in GateAnswers : result' = [result EXCEPT ![a] = answer]
    /\ Goto(h, "receipt")
    /\ UNCHANGED <<run, attempts, consumed, receipts, decisions, bounds, history>>

\* problem.ready.gate takes the result that is there, with its receipt.
MayTakeUp(a) ==
    /\ run.status = "ACTIVE" /\ run.node = "problem.ready.gate"
    /\ Exact(a) /\ result[a] # None

TakeUp(h) ==
    /\ call[h].at = "execute" /\ holder = None
    /\ LET a == call[h].attempt IN
        /\ MayTakeUp(a)
        /\ receipts' = receipts \cup {a}
    /\ Goto(h, "gate")
    /\ UNCHANGED <<holder, run, attempts, consumed, result, decisions,
                   bounds, history>>

AdvanceGate(h) ==
    /\ call[h].at = "gate" /\ holder = None
    /\ Transition(h)
    /\ UNCHANGED <<holder, attempts, store, decisions, bounds, history>>

\* The dispatch is revoked, the answer is NOT_READY, the plan is refused, or
\* there is a result that this gate does not take up: "attempt already exists".
GateRefuses(h) ==
    LET a == call[h].attempt IN
    \/ call[h].at \in {"execute", "gate"} /\ ~Exact(a)
    \/ call[h].at = "gate" /\ run.node = "problem.ready.gate" /\ result[a] # "READY"
    \/ call[h].at = "gate" /\ IsConsumed(a)
    \/ call[h].at = "execute" /\ PlanRefused
    \/ call[h].at = "execute" /\ run.node = "plan.ready.gate" /\ result[a] # None

RefuseGate(h) ==
    /\ holder = None /\ GateRefuses(h)
    /\ Return(h)
    /\ UNCHANGED <<holder, run, attempts, consumed, store, decisions,
                   bounds, history>>

----------------------------------------------------------------------------
(* product.decision *)

\* persist_decision_proposal; the attempt is not consumed.
Propose(h) ==
    /\ call[h].at = "propose"
    /\ proposals' = Append(proposals, call[h].attempt)
    /\ Lock!Release(h) /\ Return(h)
    /\ UNCHANGED <<run, attempts, consumed, store, records, pointer, chosen,
                   bounds, history>>

\* apply_owner_choice on any proposal of the Run, in any status
Choose(h, proposal, choice) ==
    /\ call[h].at = "idle" /\ Lock!Take(h)
    /\ BarrierPasses
    /\ run.node = Decision
    /\ Do(h, [Idle EXCEPT !.at = "record", !.proposal = proposal, !.choice = choice])
    /\ UNCHANGED <<run, attempts, consumed, store, decisions, bounds, history>>

Asked(h) == [proposal |-> call[h].proposal, choice |-> call[h].choice]

OnRecord(h) == pointer > 0 /\ records[pointer] = Asked(h)
MayRecord(h) == ~OnRecord(h) /\ Len(records) = pointer /\ pointer < MaxChoices

\* "Decision Record version already exists", or the bound
RecordRefused(h) ==
    ~OnRecord(h) /\ (Len(records) > pointer \/ pointer = MaxChoices)

\* record_owner_decision: the next version, or the current one again
Record(h) ==
    /\ call[h].at = "record"
    /\ \/ /\ OnRecord(h)
          /\ Goto(h, "choose") /\ UNCHANGED records
       \/ /\ MayRecord(h)
          /\ records' = Append(records, Asked(h))
          /\ Goto(h, "point")
    /\ UNCHANGED <<holder, run, attempts, consumed, store, proposals, pointer,
                   chosen, bounds, history>>

\* Mutant: the pointer is the next record's.
PointAhead(h) ==
    /\ call[h].at = "point"
    /\ pointer' = Len(records) + 1
    /\ Goto(h, "choose")
    /\ UNCHANGED <<holder, run, attempts, consumed, store, proposals, records,
                   chosen, bounds, history>>

Point(h) ==
    /\ call[h].at = "point"
    /\ pointer' = Len(records)
    /\ Goto(h, "choose")
    /\ UNCHANGED <<holder, run, attempts, consumed, store, proposals, records,
                   chosen, bounds, history>>

Chosen(choice) ==
    [run EXCEPT !.decision = pointer,
        !.status = CASE choice = "STOP" -> "CLOSED"
                     [] choice = "WAIT" -> "WAITING_TRIGGER"
                     [] choice = "COMMIT_FUTURE" -> "ROADMAP_ONLY"
                     [] OTHER -> "ACTIVE",
        !.node = CASE choice = "RESEARCH" -> Research
                   [] choice \in PlanRuns -> Planning
                   [] OTHER -> Decision]

\* The transaction is named for the proposal: one proposal, one choice.
Apply(h) ==
    /\ call[h].at = "choose" /\ call[h].proposal \notin chosen
    /\ Commit(Chosen(call[h].choice))
    /\ chosen' = chosen \cup {call[h].proposal}
    /\ Lock!Release(h) /\ Return(h)
    /\ UNCHANGED <<attempts, consumed, store, proposals, records, pointer,
                   bounds, history>>

\* The record is refused, or "state transaction identity conflict".
RefuseChoice(h) ==
    /\ \/ call[h].at = "record" /\ RecordRefused(h)
       \/ call[h].at = "choose" /\ call[h].proposal \in chosen
    /\ Lock!Release(h) /\ Return(h)
    /\ UNCHANGED <<run, attempts, consumed, store, decisions, bounds, history>>

----------------------------------------------------------------------------
(* engine.handle, past the barrier: pause, resume, the interview policy    *)
(* and the evidence a Run waits for                                        *)

\* set_run_activity
Pause(h) ==
    /\ call[h].at = "passed" /\ holder = None
    /\ run.status = "ACTIVE" /\ Change
    /\ Commit([run EXCEPT !.status = "PAUSED"])
    /\ Overtake(h) /\ Return(h)
    /\ UNCHANGED <<holder, attempts, consumed, store, decisions, died, basis>>

Resume(h) ==
    /\ call[h].at = "passed" /\ holder = None
    /\ run.status = "PAUSED"
    /\ Commit([run EXCEPT !.status = "ACTIVE"])
    /\ Overtake(h) /\ Return(h)
    /\ UNCHANGED <<holder, attempts, consumed, store, decisions, bounds, died, basis>>

\* set_interview_policy
Interview(h, policy) ==
    /\ call[h].at = "passed" /\ holder = None
    /\ policy # run.policy /\ Change
    /\ Commit([run EXCEPT !.policy = policy])
    /\ Overtake(h) /\ Return(h)
    /\ UNCHANGED <<holder, attempts, consumed, store, decisions, died, basis>>

\* consume_wait_trigger
Trigger(h) ==
    /\ call[h].at = "passed" /\ holder = None
    /\ run.status = "WAITING_TRIGGER" /\ run.node = Decision
    /\ Commit([run EXCEPT !.status = "ACTIVE", !.node = Research])
    /\ Overtake(h) /\ Return(h)
    /\ UNCHANGED <<holder, attempts, consumed, store, decisions, bounds, died, basis>>

----------------------------------------------------------------------------

\* The process dies; the kernel gives the lock back.
Crash(h) ==
    /\ call[h].at # "idle" /\ crashes < MaxCrashes
    /\ crashes' = crashes + 1
    /\ Return(h)
    /\ holder' = IF holder = h THEN None ELSE holder
    /\ died' = IF call[h].at \in {"receipt", "advance", "propose", "gate"}
               THEN died \cup {call[h].attempt} ELSE died
    /\ UNCHANGED <<run, attempts, consumed, store, decisions, changes, overtaken, basis>>

\* What a call does once it has begun.
Continue(h) ==
    \/ Leave(h) \/ Begin(h) \/ WriteResult(h) \/ WriteReceipt(h) \/ Advance(h)
    \/ Execute(h) \/ TakeUp(h) \/ AdvanceGate(h) \/ RefuseGate(h)
    \/ Propose(h) \/ Record(h) \/ Point(h) \/ Apply(h) \/ RefuseChoice(h)

Dispatch(h) == Reuse(h) \/ Plan(h)

Activity(h) ==
    Pause(h) \/ Resume(h) \/ Trigger(h) \/ \E p \in Policies : Interview(h, p)

Next == \E h \in Hosts :
    \/ RecoverReceipt(h) \/ Enter(h)
    \/ Dispatch(h) \/ Continue(h) \/ Crash(h)
    \/ h \in Owners /\ Activity(h)
    \/ \E a \in Ids : MarkUnknown(h, a) \/ \E answer \in Answers : Submit(h, a, answer)
    \/ \E p \in 1 .. Len(proposals), c \in Outcomes : h \in Owners /\ Choose(h, p, c)

Spec == Init /\ [][Next]_vars

\* A call in progress goes on to its end.  People come back to a Run that is not
\* finished: again and again some Host asks for its work, hands an answer in,
\* and the Owner answers a proposal that was put to them.
Fairness ==
    /\ \A h \in Hosts : WF_vars(Continue(h))
    /\ SF_vars(\E h \in Hosts : RecoverReceipt(h) \/ Enter(h))
    /\ SF_vars(\E h \in Hosts : Dispatch(h))
    /\ SF_vars(\E h \in Hosts, a \in Ids, r \in Answers : Submit(h, a, r))
    /\ SF_vars(\E h \in Owners, p \in 1 .. Len(proposals), c \in Outcomes :
                   p \notin chosen /\ Choose(h, p, c))

FairSpec == Spec /\ Fairness

----------------------------------------------------------------------------
(* Properties *)

\* Types of the files and of the calls; what is told of an attempt is told
\* of one that was planned, and a lock is held by the call that is inside.
TypeOK ==
    /\ holder \in Hosts \cup {None}
    /\ run \in [version : Nat,
               status : {"ACTIVE", "PAUSED", "WAITING_TRIGGER", "ROADMAP_ONLY", "CLOSED"},
               node : Nodes, policy : Policies, decision : Nat]
    /\ attempts \in Seq([node : Nodes, status : {"PLANNED", "DISPATCHED", "UNKNOWN"},
                         authorised : Nat])
    /\ consumed \in Seq(Ids)
    /\ result \in Seq(Answers \cup {None}) /\ Len(result) = Len(attempts)
    /\ basis \in Seq((Policies \X Nat) \cup {None}) /\ Len(basis) = Len(attempts)
    /\ receipts \subseteq Ids /\ died \subseteq Ids /\ overtaken \subseteq Ids
    /\ proposals \in Seq(Ids)
    /\ records \in Seq([proposal : 1 .. Len(proposals), choice : Choices])
    /\ pointer \in 0 .. Len(records)
    /\ chosen \subseteq 1 .. Len(proposals)
    /\ call \in [Hosts -> [at : {"idle", "passed", "begin", "result", "receipt",
                  "advance", "execute", "gate", "propose", "record", "point", "choose"},
               attempt : Ids \cup {0}, answer : Answers \cup {None},
               proposal : (1 .. Len(proposals)) \cup {0}, choice : Choices \cup {None},
               knew : SUBSET Ids]]
    /\ crashes \in 0 .. MaxCrashes /\ changes \in 0 .. MaxChanges

\* An answer is consumed in the state it was asked for: the interview policy
\* and the Owner's decision that its dispatch was made under still hold when
\* the transition takes it, however late it came, and nothing is taken twice.
WorkFitsTheRun ==
    [][\A a \in Ids : consumed' = Append(consumed, a) =>
           /\ basis[a] = <<run.policy, run.decision>>
           /\ ~IsConsumed(a)]_vars

\* The plan and the PRD are made only after the Owner's own choice to build now
\* or to experiment, which is on record and current: no answer of an agent, other
\* or repeated choice, or death between record, pointer and state gets a Run past
\* product.decision.
OwnerDecides ==
    run.node \in {Planning, "plan.ready.gate", "prd.generate", Last} =>
        /\ run.decision > 0 /\ run.decision = pointer
        /\ records[pointer].choice \in PlanRuns

\* The barrier can complete every result that a dead process left without a
\* receipt, unless a mutation that ran its own barrier before the result was
\* written came in between (or mark_dispatch_unknown, which runs none).
ReceiptIsLostOnlyWhenOvertaken ==
    \A a \in IncompleteIds : Exact(a) \/ a \in overtaken

\* What the Run did, as its answers tell it, is a path of the graph: no call,
\* death or retry changes an answer, skips or repeats one, or leads past a gate or
\* prd.generate over a review or a plan that they refuse.
ImplementsPath == Path!Spec

\* An answer that was kept but not consumed when its process died; only the
\* problem gate and prd.generate take it up again.
Stranded == \E a \in died :
    Exact(a) /\ run.node \notin {"problem.ready.gate", "prd.generate"}

NotReady == run.node = "problem.ready.gate"
    /\ \E a \in Ids : Exact(a) /\ result[a] \notin {None, "READY"}

\* A Decision Record whose pointer was not written, or the bound.
NoMoreRecords == run.node = Decision /\ (Len(records) > pointer \/ pointer = MaxChoices)

Refused == \/ UnknownIds # {}
           \/ \E a \in IncompleteIds : ~Exact(a)

Stopped ==
    \/ run.node = Last \/ run.status # "ACTIVE"
    \/ Stranded \/ NotReady \/ PlanRefused \/ NoSlice \/ NoMoreRecords \/ Refused
    \/ Len(attempts) = MaxAttempts

\* Whatever was interrupted, an ACTIVE Run gets to the review, or it stops
\* for one of the named reasons: it does not stay at a node for ever.
RunMovesOn == []<>Stopped

====
