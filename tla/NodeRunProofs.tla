--------------------------- MODULE NodeRunProofs ----------------------------
(* The proofs about NodeRun, for any Hosts, Owners and bounds. *)
EXTENDS NodeRun, SequenceTheorems, TLAPS

Inside == {"begin", "result", "receipt", "advance", "propose", "record", "point", "choose"}

Steps == [at : {"idle", "passed", "begin", "result", "receipt",
                "advance", "execute", "gate", "propose", "record", "point", "choose"},
          attempt : Ids \cup {0}, answer : Answers \cup {None},
          proposal : (1 .. Len(proposals)) \cup {0}, choice : Choices \cup {None},
          knew : SUBSET Ids]

Runs == [version : Nat,
         status : {"ACTIVE", "PAUSED", "WAITING_TRIGGER", "ROADMAP_ONLY", "CLOSED"},
         node : Nodes, policy : Policies, decision : Nat]

Attempts == [node : Nodes, status : {"PLANNED", "DISPATCHED", "UNKNOWN"}, authorised : Nat]

\* Who is inside holds the lock.
HolderInv == \A h \in Hosts : call[h].at \in Inside <=> holder = h

\* What is known of a call that does not hold the lock.
OutsideInv ==
    \A h \in Hosts :
        /\ call[h].at = "passed" => call[h].knew = {}
        /\ call[h].at \in {"execute", "gate"} =>
             call[h].attempt \in Ids /\ attempts[call[h].attempt].node \in Gates

\* What a call that holds the lock has seen still holds.
Doing(h) ==
    LET a == call[h].attempt IN
    /\ call[h].at \in {"begin", "result", "receipt", "advance", "propose"} => a \in Ids
    /\ call[h].at = "begin" =>
         /\ attempts[a].status = "PLANNED" /\ attempts[a].node = run.node
         /\ \A b \in Ids : ~Exact(b)
    /\ call[h].at \in {"result", "receipt", "advance", "propose"} => Exact(a)
    /\ call[h].at = "result" =>
         result[a] = None /\ call[h].answer \in Answers /\ run.node \notin Gates
    /\ call[h].at = "receipt" => result[a] # None
    /\ call[h].at = "advance" => run.node \notin Gates \cup {Decision}
    /\ call[h].at = "propose" => run.node = Decision
    /\ call[h].at \in {"record", "point", "choose"} =>
         /\ run.node = Decision /\ IncompleteIds = {}
         /\ call[h].proposal \in 1 .. Len(proposals) /\ call[h].choice \in Choices
    /\ call[h].at = "point" =>
         Len(records) = pointer + 1 /\ records[Len(records)] = Asked(h)
    /\ call[h].at = "choose" => pointer > 0 /\ records[pointer] = Asked(h)

InsideInv == \A h \in Hosts : Doing(h)

\* An exact dispatch is the only one, has the policy and the decision of the
\* state and was not consumed; a result without receipt is of an exact one.
AttemptInv ==
    /\ \A a \in Ids :
        /\ attempts[a].authorised <= run.version
        /\ Exact(a) => basis[a] = <<run.policy, run.decision>> /\ ~IsConsumed(a)
        /\ a \in receipts => result[a] # None
        /\ IsConsumed(a) => a \in receipts /\ attempts[a].status # "PLANNED"
        /\ result[a] # None /\ a \notin receipts => Exact(a) \/ a \in overtaken
    /\ \A a, b \in Ids : Exact(a) /\ Exact(b) => a = b

IInv == TypeOK /\ HolderInv /\ OutsideInv /\ InsideInv /\ AttemptInv /\ OwnerDecides

USE HostAssumption, BoundAssumption, StartAssumption

LEMMA NodesAre ==
    Nodes = {Research, "problem.quality.review", "problem.ready.gate", Decision, Planning,
             "plan.ready.gate", "prd.generate", Last}
BY DEF Nodes, Edges, Research, Decision, Planning, Last

\* What TypeOK says of one attempt, and of the state.
LEMMA TypeFacts ==
    ASSUME TypeOK
    PROVE  /\ run.version \in Nat /\ Len(attempts) \in Nat
           /\ \A a \in Ids :
                /\ attempts[a] \in Attempts /\ attempts[a].authorised \in Nat
                /\ result[a] \in Answers \cup {None}
<1>1. run.version \in Nat /\ Len(attempts) \in Nat
  BY DEF TypeOK
<1>2. \A a \in Ids : attempts[a] \in Attempts
  <2>1. attempts \in Seq(Attempts)
    BY DEF TypeOK, Attempts
  <2> QED
    BY <2>1, ElementOfSeq DEF Ids
<1>3. \A a \in Ids : result[a] \in Answers \cup {None}
  <2>1. result \in Seq(Answers \cup {None}) /\ Len(result) = Len(attempts)
    BY DEF TypeOK
  <2> QED
    BY <2>1, ElementOfSeq DEF Ids
<1> QED
  BY <1>1, <1>2, <1>3 DEF Attempts

\* A sequence over a set is one over a larger set.
LEMMA SeqGrows ==
    ASSUME NEW S, NEW T, S \subseteq T, NEW s \in Seq(S)
    PROVE  s \in Seq(T)
BY ElementOfSeq, SeqDef

LEMMA InitIInv == Init => IInv
<1> SUFFICES ASSUME Init PROVE IInv
  OBVIOUS
<1>1. /\ Len(attempts) = 0 /\ Ids = {}
      /\ run = [version |-> 1, status |-> "ACTIVE", node |-> Start,
                policy |-> "ALLOW_PM_INTERVIEW", decision |-> 0]
      /\ call = [h \in Hosts |-> Idle] /\ holder = None
  BY DEF Init, Ids
<1>2. run \in [version : Nat,
               status : {"ACTIVE", "PAUSED", "WAITING_TRIGGER", "ROADMAP_ONLY", "CLOSED"},
               node : Nodes, policy : Policies, decision : Nat]
  BY <1>1, NodesAre DEF Policies, Research, Decision
<1>3. call \in [Hosts -> Steps]
  BY <1>1 DEF Steps, Idle
<1>4. TypeOK
  BY <1>1, <1>2, <1>3 DEF Init, TypeOK, Steps
<1>5. HolderInv /\ OutsideInv /\ InsideInv
  BY <1>1 DEF HolderInv, OutsideInv, InsideInv, Doing, Inside, Idle
<1>6. AttemptInv
  BY <1>1 DEF AttemptInv
<1>7. OwnerDecides
  BY <1>1 DEF OwnerDecides, Research, Decision, Planning, Last
<1> QED
  BY <1>4, <1>5, <1>6, <1>7 DEF IInv

\* Files, state and history as they were: what is said of them stays true.
LEMMA FilesKept ==
    ASSUME IInv, UNCHANGED <<run, attempts, consumed, store, records, pointer, overtaken, basis>>
    PROVE  AttemptInv' /\ OwnerDecides'
<1>1. UNCHANGED <<run, attempts, consumed, result, receipts, records, pointer, overtaken, basis>>
  BY DEF store
<1>2. AttemptInv'
  BY <1>1 DEF IInv, AttemptInv, Exact, IsConsumed, Ids
<1>3. OwnerDecides'
  BY <1>1 DEF IInv, OwnerDecides
<1> QED
  BY <1>2, <1>3

\* A call goes on, or comes back, and leaves everything else as it was.
LEMMA StepKeepsIInv ==
    ASSUME IInv, NEW h \in Hosts, NEW step \in Steps, Do(h, step),
           step.at \notin Inside,
           step.at = "passed" => step.knew = {},
           step.at \in {"execute", "gate"} =>
               step.attempt \in Ids /\ attempts[step.attempt].node \in Gates,
           holder' = (IF holder = h THEN None ELSE holder),
           UNCHANGED <<run, attempts, consumed, store, decisions, changes, overtaken, basis>>,
           died' \subseteq Ids, crashes' \in 0 .. MaxCrashes
    PROVE  IInv'
<1>1. /\ UNCHANGED <<run, attempts, consumed, result, receipts, proposals, records, pointer,
                     chosen, changes, overtaken, basis>>
      /\ call' = [call EXCEPT ![h] = step]
  BY DEF store, decisions, Do
<1>2. TypeOK'
  <2>1. call' \in [Hosts -> Steps] /\ Steps' = Steps
    BY <1>1 DEF IInv, TypeOK, Steps, Ids
  <2>2. holder' \in Hosts \cup {None} /\ Ids' = Ids
    BY <1>1 DEF IInv, TypeOK, Ids
  <2> QED
    BY <1>1, <2>1, <2>2 DEF IInv, TypeOK, Steps
<1>3. HolderInv'
  BY <1>1 DEF IInv, TypeOK, HolderInv, Inside
<1>4. OutsideInv'
  BY <1>1 DEF IInv, TypeOK, OutsideInv, Ids
<1>5. InsideInv'
  <2>1. Doing(h)'
    BY <1>1 DEF IInv, TypeOK, Doing, Inside
  <2>2. ASSUME NEW k \in Hosts, k # h PROVE Doing(k)'
    <3>1. /\ call'[k] = call[k] /\ Ids' = Ids /\ Asked(k)' = Asked(k)
          /\ \A a : Exact(a)' <=> Exact(a)
      BY <1>1, <2>2 DEF IInv, TypeOK, Ids, Asked, Exact
    <3>2. IncompleteIds' = IncompleteIds
      BY <1>1 DEF Ids, IncompleteIds, Incomplete
    <3> QED
      BY <1>1, <3>1, <3>2 DEF IInv, InsideInv, Doing
  <2> QED
    BY <2>1, <2>2 DEF InsideInv
<1> QED
  BY <1>1, <1>2, <1>3, <1>4, <1>5, FilesKept DEF IInv, store

\* An action of a call that has the lock, or finds it free, sees no other call
\* inside, and disturbs none that is outside.
LEMMA CallsKept ==
    ASSUME IInv, NEW h \in Hosts, NEW step,
           call' = [call EXCEPT ![h] = step],
           holder \in {None, h}, holder' = IF step.at \in Inside THEN h ELSE None,
           step.at = "passed" => step.knew = {},
           step.at \in {"execute", "gate"} =>
               step.attempt \in Ids' /\ attempts'[step.attempt].node \in Gates,
           Ids \subseteq Ids', \A a \in Ids : attempts'[a].node = attempts[a].node,
           Doing(h)'
    PROVE  HolderInv' /\ OutsideInv' /\ InsideInv'
<1>1. /\ call'[h] = step
      /\ \A k \in Hosts : k # h => call'[k] = call[k] /\ call[k].at \notin Inside
  BY DEF IInv, TypeOK, HolderInv
<1>2. HolderInv'
  BY <1>1 DEF HolderInv
<1>3. OutsideInv'
  BY <1>1 DEF IInv, OutsideInv
<1>4. InsideInv'
  <2> SUFFICES ASSUME NEW k \in Hosts, k # h PROVE Doing(k)'
    BY DEF InsideInv
  <2>1. (call[k].at)' \notin Inside
    BY <1>1
  <2> QED
    BY <2>1 DEF Doing, Inside
<1> QED
  BY <1>2, <1>3, <1>4

----------------------------------------------------------------------------
(* authoritative_read_barrier *)

LEMMA EnterKeepsIInv == ASSUME IInv, NEW h \in Hosts, Enter(h) PROVE IInv'
<1>1. [Idle EXCEPT !.at = "passed", !.knew = IncompleteIds] \in Steps
  BY DEF Steps, Idle, IncompleteIds
<1> QED
  BY <1>1, StepKeepsIInv DEF Enter, BarrierPasses, Idle, Inside, bounds, history, IInv, TypeOK

LEMMA LeaveKeepsIInv == ASSUME IInv, NEW h \in Hosts, Leave(h) PROVE IInv'
<1>1. Idle \in Steps
  BY DEF Steps, Idle
<1>2. call[h].at \notin Inside /\ Idle.at = "idle"
  BY DEF Leave, Inside, Idle
<1>3. holder # h
  BY <1>2 DEF IInv, HolderInv
<1> QED
  BY <1>1, <1>2, <1>3, StepKeepsIInv DEF Leave, Return, Inside, bounds, history, IInv, TypeOK

LEMMA ReuseKeepsIInv == ASSUME IInv, NEW h \in Hosts, Reuse(h) PROVE IInv'
<1>1. PICK a \in Ids : Exact(a) /\ Do(h, IF run.node \in Gates
                 THEN [Idle EXCEPT !.at = "execute", !.attempt = a]
                 ELSE Idle)
  BY DEF Reuse
<1> DEFINE step == IF run.node \in Gates
                   THEN [Idle EXCEPT !.at = "execute", !.attempt = a] ELSE Idle
<1>2. /\ step \in Steps /\ step.at \notin Inside /\ step.at # "passed" /\ step.at # "gate"
      /\ step.at = "execute" => step.attempt = a /\ attempts[a].node \in Gates
  BY <1>1 DEF Steps, Idle, Inside, Exact
<1> HIDE DEF step
<1> QED
  BY <1>1, <1>2, StepKeepsIInv DEF Reuse, step, bounds, history, IInv, TypeOK

\* A call that is refused.
LEMMA ReturnKeepsIInv ==
    ASSUME IInv, NEW h \in Hosts, Return(h),
           holder' = (IF holder = h THEN None ELSE holder),
           UNCHANGED <<run, attempts, consumed, store, decisions, changes, overtaken, basis>>,
           died' \subseteq Ids, crashes' \in 0 .. MaxCrashes
    PROVE  IInv'
<1>1. Idle \in Steps /\ Idle.at = "idle" /\ Idle.at \notin Inside
  BY DEF Steps, Idle, Inside
<1> QED
  BY <1>1, StepKeepsIInv DEF Return

LEMMA RefusalsKeepIInv ==
    ASSUME IInv, NEW h \in Hosts, RefuseGate(h) \/ RefuseChoice(h) PROVE IInv'
<1>1. CASE RefuseGate(h)
  <2>1. holder # h
    BY <1>1 DEF RefuseGate
  <2> QED
    BY <1>1, <2>1, ReturnKeepsIInv DEF RefuseGate, bounds, history, IInv, TypeOK
<1>2. CASE RefuseChoice(h)
  BY <1>2, ReturnKeepsIInv DEF RefuseChoice, Lock!Release, bounds, history, IInv, TypeOK
<1> QED
  BY <1>1, <1>2

LEMMA CrashKeepsIInv == ASSUME IInv, NEW h \in Hosts, Crash(h) PROVE IInv'
<1>1. call[h].at \in {"receipt", "advance", "propose", "gate"} => call[h].attempt \in Ids
  BY DEF IInv, OutsideInv, InsideInv, Doing
<1>2. died' \subseteq Ids /\ crashes' \in 0 .. MaxCrashes
  BY <1>1 DEF Crash, IInv, TypeOK
<1> QED
  BY <1>2, ReturnKeepsIInv DEF Crash

----------------------------------------------------------------------------
(* Commits that plan and begin no dispatch *)

\* A new version of the state revokes every dispatch.
LEMMA CommitRevokes ==
    ASSUME IInv, run'.version = run.version + 1,
           Len(attempts') = Len(attempts),
           \A a \in Ids : attempts'[a].authorised = attempts[a].authorised,
           \A a \in Ids : attempts'[a].status = "PLANNED" => attempts[a].status = "PLANNED",
           \A a \in Ids : IsConsumed(a)' /\ ~IsConsumed(a) =>
               a \in receipts /\ attempts[a].status # "PLANNED",
           UNCHANGED <<store, basis>>,
           overtaken \subseteq overtaken',
           \A a \in Ids : Exact(a) /\ Incomplete(a) => a \in overtaken'
    PROVE  AttemptInv' /\ \A a \in Ids : ~Exact(a)'
<1>1. Ids' = Ids /\ result' = result /\ receipts' = receipts
  BY DEF Ids, store
<1>2. run.version \in Nat /\ \A a \in Ids : attempts[a].authorised \in Nat
  BY TypeFacts DEF IInv
<1>3. \A a \in Ids : ~Exact(a)'
  <2> SUFFICES ASSUME NEW a \in Ids PROVE ~(attempts'[a].authorised = run'.version)
    BY DEF Exact
  <2>1. /\ attempts[a].authorised <= run.version
        /\ attempts'[a].authorised = attempts[a].authorised
        /\ run'.version = run.version + 1
    BY DEF IInv, AttemptInv
  <2>2. attempts[a].authorised \in Nat /\ run.version \in Nat
    BY <1>2
  <2> QED
    BY <2>1, <2>2
<1>4. \A a \in Ids : Exact(a) /\ result[a] # None /\ a \notin receipts => a \in overtaken'
  BY DEF Incomplete, Exact
<1>5. AttemptInv'
  <2> SUFFICES ASSUME NEW a \in Ids
               PROVE  /\ attempts'[a].authorised <= run'.version
                      /\ a \in receipts => result[a] # None
                      /\ IsConsumed(a)' => a \in receipts /\ attempts'[a].status # "PLANNED"
                      /\ result[a] # None /\ a \notin receipts => a \in overtaken'
    BY <1>1, <1>3 DEF AttemptInv
  <2>1. /\ attempts[a].authorised <= run.version
        /\ a \in receipts => result[a] # None
        /\ IsConsumed(a) => a \in receipts /\ attempts[a].status # "PLANNED"
        /\ result[a] # None /\ a \notin receipts => Exact(a) \/ a \in overtaken
    BY DEF IInv, AttemptInv
  <2>2. attempts'[a].authorised <= run'.version
    <3>1. attempts[a].authorised \in Nat /\ run.version \in Nat
      BY <1>2
    <3> QED
      BY <2>1, <3>1
  <2> QED
    BY <1>4, <2>1, <2>2
<1> QED
  BY <1>3, <1>5

LEMMA CommitTyped ==
    ASSUME run \in Runs, NEW next \in Runs, Commit(next)
    PROVE  /\ run' \in Runs /\ run'.version = run.version + 1
           /\ run'.status = next.status /\ run'.node = next.node
           /\ run'.policy = next.policy /\ run'.decision = next.decision
BY DEF Commit, Runs

\* A control changes the state alone, and revokes what is outstanding.
LEMMA ControlKeepsIInv ==
    ASSUME IInv, NEW h \in Hosts, call[h].at = "passed", holder = None, holder' = holder,
           NEW next \in Runs, Commit(next), next.node \in {run.node, Research},
           next.decision = run.decision,
           Overtake(h), Return(h), changes' \in 0 .. MaxChanges,
           UNCHANGED <<attempts, consumed, store, decisions, crashes, died, basis>>
    PROVE  IInv'
<1>1. run \in Runs /\ call[h].knew = {}
  BY DEF IInv, TypeOK, Runs, OutsideInv
<1>2. /\ run' \in Runs /\ run'.version = run.version + 1
      /\ run'.node = next.node /\ run'.decision = run.decision
  BY <1>1, CommitTyped
<1>3. /\ UNCHANGED <<proposals, records, pointer, chosen, result, receipts>>
      /\ overtaken' = overtaken \cup IncompleteIds
      /\ call' = [call EXCEPT ![h] = Idle]
  BY <1>1 DEF decisions, store, Overtake, Return, Do
<1>4. Ids' = Ids /\ IncompleteIds \subseteq Ids
  BY DEF Ids, IncompleteIds
<1>5. TypeOK'
  <2>1. Idle \in Steps
    BY DEF Steps, Idle
  <2>2. call' \in [Hosts -> Steps]
    BY <1>3, <2>1 DEF IInv, TypeOK, Steps
  <2> QED
    BY <1>2, <1>3, <1>4, <2>2 DEF IInv, TypeOK, Steps, Runs
<1>6. HolderInv' /\ OutsideInv' /\ InsideInv'
  <2>1. Idle.at = "idle" /\ "idle" \notin Inside
    BY DEF Idle, Inside
  <2>2. call'[h] = Idle
    BY <1>3 DEF IInv, TypeOK
  <2>3. Doing(h)'
    BY <2>1, <2>2 DEF Doing
  <2> QED
    BY <1>3, <1>4, <2>1, <2>3, CallsKept
<1>7. AttemptInv'
  <2>1. \A a \in Ids : Exact(a) /\ Incomplete(a) => a \in overtaken'
    BY <1>3 DEF IncompleteIds
  <2> QED
    BY <1>2, <1>3, <2>1, CommitRevokes DEF IsConsumed
<1>8. OwnerDecides'
  BY <1>2, <1>3 DEF IInv, OwnerDecides, Research, Planning, Last
<1> QED
  BY <1>5, <1>6, <1>7, <1>8 DEF IInv

LEMMA ActivityKeepsIInv == ASSUME IInv, NEW h \in Hosts, Activity(h) PROVE IInv'
<1>1. run \in Runs /\ Research \in Nodes /\ changes \in 0 .. MaxChanges
  BY NodesAre DEF IInv, TypeOK, Runs
<1>2. CASE Pause(h)
  <2>1. [run EXCEPT !.status = "PAUSED"] \in Runs
    BY <1>1 DEF Runs
  <2> QED
    BY <1>1, <1>2, <2>1, ControlKeepsIInv DEF Pause, Change, Runs
<1>3. CASE Resume(h)
  <2>1. [run EXCEPT !.status = "ACTIVE"] \in Runs
    BY <1>1 DEF Runs
  <2> QED
    BY <1>1, <1>3, <2>1, ControlKeepsIInv DEF Resume, bounds, Runs
<1>4. CASE Trigger(h)
  <2>1. [run EXCEPT !.status = "ACTIVE", !.node = Research] \in Runs
    BY <1>1 DEF Runs
  <2> QED
    BY <1>1, <1>4, <2>1, ControlKeepsIInv DEF Trigger, bounds, Runs
<1>5. ASSUME NEW policy \in Policies, Interview(h, policy) PROVE IInv'
  <2>1. [run EXCEPT !.policy = policy] \in Runs
    BY <1>1 DEF Runs
  <2> QED
    BY <1>1, <1>5, <2>1, ControlKeepsIInv DEF Interview, Change, Runs
<1> QED
  BY <1>2, <1>3, <1>4, <1>5 DEF Activity

LEMMA MarkUnknownKeepsIInv ==
    ASSUME IInv, NEW h \in Hosts, NEW u \in Ids, MarkUnknown(h, u) PROVE IInv'
<1>1. /\ attempts' = [attempts EXCEPT ![u].status = "UNKNOWN"]
      /\ Commit(run) /\ run \in Runs
      /\ overtaken' = overtaken \cup IncompleteIds
      /\ holder = None /\ changes' \in 0 .. MaxChanges
      /\ UNCHANGED <<holder, consumed, result, receipts, proposals, records, pointer, chosen,
                     call, crashes, died, basis>>
  BY DEF MarkUnknown, Change, decisions, store, IInv, TypeOK, Runs
<1>2. /\ run' \in Runs /\ run'.version = run.version + 1
      /\ run'.node = run.node /\ run'.decision = run.decision
  BY <1>1, CommitTyped
<1>3. attempts \in Seq(Attempts) /\ attempts[u] \in Attempts
  BY TypeFacts DEF IInv, TypeOK, Attempts
<1>4. attempts' \in Seq(Attempts) /\ Len(attempts') = Len(attempts)
  BY <1>1, <1>3, ExceptSeq DEF Ids, Attempts
<1>5. Ids' = Ids /\ IncompleteIds \subseteq Ids
  BY <1>4 DEF Ids, IncompleteIds
<1>6. \A a \in Ids :
        /\ attempts'[a].authorised = attempts[a].authorised
        /\ attempts'[a].node = attempts[a].node
        /\ attempts'[a].status = "PLANNED" => attempts[a].status = "PLANNED"
  BY <1>1, <1>3 DEF Ids, Attempts
<1>7. TypeOK'
  BY <1>1, <1>2, <1>4, <1>5 DEF IInv, TypeOK, Attempts, Runs
<1>8. HolderInv' /\ OutsideInv' /\ InsideInv'
  <2>1. \A k \in Hosts : call[k].at \notin Inside
    BY <1>1 DEF IInv, HolderInv
  <2>2. HolderInv'
    BY <1>1, <2>1 DEF HolderInv
  <2>3. OutsideInv'
    BY <1>1, <1>5, <1>6 DEF IInv, OutsideInv
  <2>4. InsideInv'
    BY <1>1, <2>1 DEF InsideInv, Doing, Inside
  <2> QED
    BY <2>2, <2>3, <2>4
<1>9. AttemptInv'
  <2>1. \A a \in Ids : Exact(a) /\ Incomplete(a) => a \in overtaken'
    BY <1>1 DEF IncompleteIds
  <2> QED
    BY <1>1, <1>2, <1>4, <1>6, <2>1, CommitRevokes DEF IsConsumed, store
<1>10. OwnerDecides'
  BY <1>1, <1>2 DEF IInv, OwnerDecides
<1> QED
  BY <1>7, <1>8, <1>9, <1>10 DEF IInv

LEMMA RecoverReceiptKeepsIInv ==
    ASSUME IInv, NEW h \in Hosts, RecoverReceipt(h) PROVE IInv'
<1>1. PICK u \in IncompleteIds : receipts' = receipts \cup {u}
  BY DEF RecoverReceipt
<1>2. /\ u \in Ids /\ result[u] # None
      /\ holder = None
      /\ UNCHANGED <<holder, run, attempts, consumed, result, proposals, records, pointer,
                     chosen, call, crashes, changes, died, overtaken, basis>>
  BY <1>1 DEF RecoverReceipt, IncompleteIds, Incomplete, decisions, bounds, history
<1>3. TypeOK' /\ HolderInv' /\ OutsideInv' /\ OwnerDecides'
  BY <1>1, <1>2 DEF IInv, TypeOK, HolderInv, OutsideInv, OwnerDecides, Ids
<1>4. InsideInv'
  <2>1. \A k \in Hosts : call[k].at \notin Inside
    BY <1>2 DEF IInv, HolderInv
  <2> QED
    BY <1>2, <2>1 DEF InsideInv, Doing, Inside
<1>5. AttemptInv'
  BY <1>1, <1>2 DEF IInv, AttemptInv, Exact, IsConsumed, Ids
<1> QED
  BY <1>3, <1>4, <1>5 DEF IInv

----------------------------------------------------------------------------
(* Steps of one call that commit no state *)

\* A call that goes on is a call.
LEMMA GotoTyped ==
    ASSUME TypeOK, NEW h \in Hosts,
           NEW where \in {"receipt", "advance", "execute", "gate", "propose", "point", "choose"}
    PROVE  LET step == [call[h] EXCEPT !.at = where] IN
           /\ step \in Steps /\ step.at = where /\ step.attempt = call[h].attempt
           /\ step.proposal = call[h].proposal /\ step.choice = call[h].choice
<1>1. call[h] \in Steps
  BY DEF TypeOK, Steps
<1>2. where \in {"idle", "passed", "begin", "result", "receipt",
                "advance", "execute", "gate", "propose", "record", "point", "choose"}
  OBVIOUS
<1> QED
  BY <1>1, <1>2 DEF Steps

\* A call that has the lock, or finds it free, writes a result, a receipt, a
\* Decision Record or its pointer, and goes on.
LEMMA WriteKeepsIInv ==
    ASSUME IInv, NEW h \in Hosts, NEW step \in Steps, Do(h, step),
           holder \in {None, h}, holder' = IF step.at \in Inside THEN h ELSE None,
           step.at # "passed",
           step.at \in {"execute", "gate"} =>
               step.attempt \in Ids /\ attempts[step.attempt].node \in Gates,
           UNCHANGED <<run, attempts, consumed, proposals, chosen, bounds, history>>,
           result' \in Seq(Answers \cup {None}), Len(result') = Len(result),
           receipts' \subseteq Ids,
           records' \in Seq([proposal : 1 .. Len(proposals), choice : Choices]),
           pointer' \in 0 .. Len(records'),
           AttemptInv', OwnerDecides', Doing(h)'
    PROVE  IInv'
<1>1. /\ UNCHANGED <<run, attempts, consumed, proposals, chosen, crashes, changes, died,
                     overtaken, basis>>
      /\ call' = [call EXCEPT ![h] = step] /\ Ids' = Ids
  BY DEF Do, bounds, history, Ids
<1>2. call' \in [Hosts -> Steps]
  BY <1>1 DEF IInv, TypeOK, Steps
<1>3. TypeOK'
  BY <1>1, <1>2 DEF IInv, TypeOK, Steps
<1>4. HolderInv' /\ OutsideInv' /\ InsideInv'
  BY <1>1, CallsKept
<1> QED
  BY <1>3, <1>4 DEF IInv

\* Only the call goes on, inside the lock.
LEMMA GoKeepsIInv ==
    ASSUME IInv, NEW h \in Hosts, NEW step \in Steps, Do(h, step),
           holder \in {None, h}, holder' = h, step.at \in Inside,
           UNCHANGED <<run, attempts, consumed, store, decisions, bounds, history>>,
           Doing(h)'
    PROVE  IInv'
<1>1. UNCHANGED <<result, receipts, proposals, records, pointer, chosen, overtaken, basis>>
  BY DEF store, decisions, history
<1>2. AttemptInv' /\ OwnerDecides'
  BY <1>1, FilesKept DEF store
<1>3. /\ result \in Seq(Answers \cup {None}) /\ receipts \subseteq Ids
      /\ records \in Seq([proposal : 1 .. Len(proposals), choice : Choices])
      /\ pointer \in 0 .. Len(records)
  BY DEF IInv, TypeOK
<1>4. step.at # "passed" /\ step.at \notin {"execute", "gate"}
  BY DEF Inside
<1> QED
  BY <1>1, <1>2, <1>3, <1>4, WriteKeepsIInv

LEMMA SubmitKeepsIInv ==
    ASSUME IInv, NEW h \in Hosts, NEW a \in Ids, NEW answer \in Answers, Submit(h, a, answer)
    PROVE  IInv'
<1> DEFINE where == IF result[a] = None THEN "result" ELSE "advance"
<1> DEFINE step == [Idle EXCEPT !.attempt = a, !.answer = answer, !.at = where]
<1>1. /\ step \in Steps /\ step.at \in Inside /\ Do(h, step)
      /\ step.at = where /\ step.attempt = a /\ step.answer = answer
  BY DEF Submit, Steps, Idle, Inside
<1>2. /\ UNCHANGED <<run, attempts, result, proposals, records, pointer, receipts>>
      /\ call'[h] = step /\ Ids' = Ids
      /\ Exact(a) /\ run.node \notin Gates
      /\ holder = None /\ holder' = h
  BY <1>1 DEF Submit, MaySubmit, store, decisions, Do, IInv, TypeOK, Ids, Lock!Take
<1>3. where = "advance" => run.node \notin Gates \cup {Decision}
  BY DEF Submit, MaySubmit, Gates, Decision
<1>4. Exact(a)'
  BY <1>2 DEF Exact
<1> HIDE DEF step
<1>5. Doing(h)'
  <2>1. step.at \in {"result", "advance"}
    BY <1>1
  <2> QED
    BY <1>1, <1>2, <1>3, <1>4, <2>1 DEF Doing
<1> QED
  BY <1>1, <1>2, <1>5, GoKeepsIInv DEF Submit

\* A result goes to an attempt that is exact.
LEMMA ResultKeepsAttempts ==
    ASSUME IInv, NEW a \in Ids, Exact(a), NEW answer \in Answers,
           result' = [result EXCEPT ![a] = answer],
           UNCHANGED <<run, attempts, consumed, receipts, overtaken, basis>>
    PROVE  /\ AttemptInv' /\ result'[a] # None
           /\ result' \in Seq(Answers \cup {None}) /\ Len(result') = Len(result)
<1>1. result \in Seq(Answers \cup {None}) /\ Len(result) = Len(attempts)
  BY DEF IInv, TypeOK
<1>2. result' \in Seq(Answers \cup {None}) /\ Len(result') = Len(result)
  BY <1>1, ExceptSeq DEF Ids
<1>3. \A b \in Ids : result'[b] = IF b = a THEN answer ELSE result[b]
  BY <1>1 DEF Ids
<1>4. Ids' = Ids /\ \A b : Exact(b)' <=> Exact(b)
  BY DEF Ids, Exact
<1>5. AttemptInv'
  BY <1>3, <1>4 DEF IInv, AttemptInv, IsConsumed
<1> QED
  BY <1>2, <1>3, <1>5

LEMMA WriteResultKeepsIInv == ASSUME IInv, NEW h \in Hosts, WriteResult(h) PROVE IInv'
<1> DEFINE a == call[h].attempt
<1> DEFINE step == [call[h] EXCEPT !.at = "receipt"]
<1>1. a \in Ids /\ Exact(a) /\ call[h].answer \in Answers /\ holder = h
  BY DEF WriteResult, IInv, InsideInv, Doing, HolderInv, Inside
<1>2. /\ result' = [result EXCEPT ![a] = call[h].answer]
      /\ UNCHANGED <<run, attempts, consumed, receipts, overtaken, basis>>
  BY DEF WriteResult, history
<1>3. /\ AttemptInv' /\ result'[a] # None
      /\ result' \in Seq(Answers \cup {None}) /\ Len(result') = Len(result)
  BY <1>1, <1>2, ResultKeepsAttempts
<1>4. step \in Steps /\ step.at = "receipt" /\ step.attempt = a /\ Do(h, step)
  BY GotoTyped DEF WriteResult, Goto, IInv
<1>5. Exact(a)' /\ Ids' = Ids /\ call'[h] = step
  BY <1>1, <1>2, <1>4 DEF Exact, Ids, Do, IInv, TypeOK
<1>6. OwnerDecides'
  BY <1>2 DEF WriteResult, decisions, IInv, OwnerDecides
<1>7. /\ receipts \subseteq Ids /\ pointer \in 0 .. Len(records)
      /\ records \in Seq([proposal : 1 .. Len(proposals), choice : Choices])
  BY DEF IInv, TypeOK
<1> HIDE DEF step
<1>8. Doing(h)'
  BY <1>1, <1>3, <1>4, <1>5 DEF Doing
<1>9. step.at \in Inside
  BY <1>4 DEF Inside
<1> QED
  BY <1>1, <1>2, <1>3, <1>4, <1>6, <1>7, <1>8, <1>9, WriteKeepsIInv DEF WriteResult, decisions

\* A receipt goes to a result.
LEMMA ReceiptKeepsAttempts ==
    ASSUME IInv, NEW a \in Ids, result[a] # None, receipts' = receipts \cup {a},
           UNCHANGED <<run, attempts, consumed, result, overtaken, basis>>
    PROVE  AttemptInv' /\ receipts' \subseteq Ids
<1>1. Ids' = Ids /\ \A b : Exact(b)' <=> Exact(b)
  BY DEF Ids, Exact
<1> QED
  BY <1>1 DEF IInv, TypeOK, AttemptInv, IsConsumed

LEMMA WriteReceiptKeepsIInv == ASSUME IInv, NEW h \in Hosts, WriteReceipt(h) PROVE IInv'
<1> DEFINE a == call[h].attempt
<1> DEFINE where == IF run.node \in Gates THEN "gate"
                    ELSE IF run.node = Decision THEN "propose" ELSE "advance"
<1> DEFINE step == [call[h] EXCEPT !.at = where]
<1>1. a \in Ids /\ Exact(a) /\ result[a] # None /\ holder = h
  BY DEF WriteReceipt, IInv, InsideInv, Doing, HolderInv, Inside
<1>2. /\ receipts' = receipts \cup {a}
      /\ UNCHANGED <<run, attempts, consumed, result, overtaken, basis>>
  BY DEF WriteReceipt, history
<1>3. AttemptInv' /\ receipts' \subseteq Ids
  BY <1>1, <1>2, ReceiptKeepsAttempts
<1>4. Decision \notin Gates
  BY DEF Decision, Gates
<1>5. /\ step \in Steps /\ step.at = where /\ step.attempt = a /\ Do(h, step)
      /\ holder' = IF where = "gate" THEN None ELSE h
  <2>1. where \in {"receipt", "advance", "execute", "gate", "propose", "point", "choose"}
    OBVIOUS
  <2>2. Do(h, step) /\ holder' = IF where = "gate" THEN None ELSE h
    BY <1>1, <1>4 DEF WriteReceipt, Goto, Lock!Release
  <2> HIDE DEF where
  <2> QED
    BY <2>1, <2>2, GotoTyped DEF IInv
<1>6. Exact(a)' /\ Ids' = Ids /\ call'[h] = step /\ attempts[a].node = run.node
  BY <1>1, <1>2, <1>5 DEF Exact, Ids, Do, IInv, TypeOK
<1>7. OwnerDecides'
  BY <1>2 DEF WriteReceipt, decisions, IInv, OwnerDecides
<1>8. /\ result \in Seq(Answers \cup {None}) /\ pointer \in 0 .. Len(records)
      /\ records \in Seq([proposal : 1 .. Len(proposals), choice : Choices])
  BY DEF IInv, TypeOK
<1>9. /\ where \in {"gate", "propose", "advance"} /\ (where \in Inside <=> where # "gate")
      /\ where = "gate" => run.node \in Gates
      /\ where = "propose" => run.node = Decision
      /\ where = "advance" => run.node \notin Gates \cup {Decision}
  BY DEF Inside
<1> HIDE DEF step, where
<1>10. Doing(h)'
  BY <1>1, <1>2, <1>5, <1>6, <1>9 DEF Doing
<1> QED
  BY <1>1, <1>2, <1>3, <1>5, <1>6, <1>7, <1>8, <1>9, <1>10, WriteKeepsIInv
     DEF WriteReceipt, decisions

LEMMA TakeUpKeepsIInv == ASSUME IInv, NEW h \in Hosts, TakeUp(h) PROVE IInv'
<1> DEFINE a == call[h].attempt
<1> DEFINE step == [call[h] EXCEPT !.at = "gate"]
<1>1. a \in Ids /\ attempts[a].node \in Gates /\ result[a] # None /\ holder = None
  BY DEF TakeUp, MayTakeUp, IInv, OutsideInv
<1>2. /\ receipts' = receipts \cup {a}
      /\ UNCHANGED <<run, attempts, consumed, result, overtaken, basis>>
  BY DEF TakeUp, history
<1>3. AttemptInv' /\ receipts' \subseteq Ids
  BY <1>1, <1>2, ReceiptKeepsAttempts
<1>4. step \in Steps /\ step.at = "gate" /\ step.attempt = a /\ Do(h, step)
  BY GotoTyped DEF TakeUp, Goto, IInv
<1>5. call'[h] = step
  BY <1>4 DEF Do, IInv, TypeOK
<1>6. OwnerDecides'
  BY <1>2 DEF TakeUp, decisions, IInv, OwnerDecides
<1>7. /\ result \in Seq(Answers \cup {None}) /\ pointer \in 0 .. Len(records)
      /\ records \in Seq([proposal : 1 .. Len(proposals), choice : Choices])
  BY DEF IInv, TypeOK
<1>8. "gate" \notin Inside
  BY DEF Inside
<1> HIDE DEF step
<1>9. Doing(h)'
  BY <1>4, <1>5 DEF Doing
<1> QED
  BY <1>1, <1>2, <1>3, <1>4, <1>6, <1>7, <1>8, <1>9, WriteKeepsIInv DEF TakeUp, decisions

\* What was consumed is an answer, and so is what a gate reads.
LEMMA NewestAnswers ==
    ASSUME IInv, NEW node PROVE Newest(node) \subseteq Answers
<1> SUFFICES ASSUME NEW i \in 1 .. Len(Taken) PROVE Taken[i].answer \in Answers
  BY DEF Newest
<1>1. Len(consumed) \in Nat /\ Len(Taken) = Len(consumed)
  BY DEF IInv, TypeOK, Taken
<1>2. consumed[i] \in Ids /\ Taken[i].answer = result[consumed[i]] /\ IsConsumed(consumed[i])
  BY <1>1, ElementOfSeq DEF IInv, TypeOK, Taken, IsConsumed
<1>3. result[consumed[i]] # None
  BY <1>2 DEF IInv, AttemptInv
<1> QED
  BY <1>2, <1>3, TypeFacts DEF IInv

LEMMA GateAnswersAre == ASSUME IInv PROVE GateAnswers \subseteq Answers
BY NewestAnswers DEF GateAnswers, Answers

LEMMA ExecuteKeepsIInv == ASSUME IInv, NEW h \in Hosts, Execute(h) PROVE IInv'
<1> DEFINE a == call[h].attempt
<1> DEFINE step == [call[h] EXCEPT !.at = "receipt"]
<1>1. a \in Ids /\ Exact(a) /\ holder = None /\ holder' = h
  BY DEF Execute, MayExecute, IInv, OutsideInv, Lock!Take
<1>2. /\ \E answer \in Answers : result' = [result EXCEPT ![a] = answer]
      /\ UNCHANGED <<run, attempts, consumed, receipts, overtaken, basis>>
  BY GateAnswersAre DEF Execute, history
<1>3. /\ AttemptInv' /\ result'[a] # None
      /\ result' \in Seq(Answers \cup {None}) /\ Len(result') = Len(result)
  BY <1>1, <1>2, ResultKeepsAttempts
<1>4. step \in Steps /\ step.at = "receipt" /\ step.attempt = a /\ Do(h, step)
  BY GotoTyped DEF Execute, Goto, IInv
<1>5. Exact(a)' /\ Ids' = Ids /\ call'[h] = step
  BY <1>1, <1>2, <1>4 DEF Exact, Ids, Do, IInv, TypeOK
<1>6. OwnerDecides'
  BY <1>2 DEF Execute, decisions, IInv, OwnerDecides
<1>7. /\ receipts \subseteq Ids /\ pointer \in 0 .. Len(records)
      /\ records \in Seq([proposal : 1 .. Len(proposals), choice : Choices])
  BY DEF IInv, TypeOK
<1>8. "receipt" \in Inside
  BY DEF Inside
<1> HIDE DEF step
<1>9. Doing(h)'
  BY <1>1, <1>3, <1>4, <1>5 DEF Doing
<1> QED
  BY <1>1, <1>2, <1>3, <1>4, <1>6, <1>7, <1>8, <1>9, WriteKeepsIInv DEF Execute, decisions

LEMMA ProposeKeepsIInv == ASSUME IInv, NEW h \in Hosts, Propose(h) PROVE IInv'
<1> DEFINE a == call[h].attempt
<1>1. a \in Ids /\ holder = h /\ holder' = None
  BY DEF Propose, IInv, InsideInv, Doing, HolderInv, Inside, Lock!Release
<1>2. /\ proposals' = Append(proposals, a)
      /\ UNCHANGED <<run, attempts, consumed, result, receipts, records, pointer, chosen,
                     crashes, changes, died, overtaken, basis>>
      /\ call' = [call EXCEPT ![h] = Idle] /\ Ids' = Ids
  BY DEF Propose, store, bounds, history, Return, Do, Ids
<1>3. /\ proposals \in Seq(Ids) /\ records \in Seq([proposal : 1 .. Len(proposals), choice : Choices])
      /\ Len(proposals) \in Nat /\ chosen \subseteq 1 .. Len(proposals)
      /\ call \in [Hosts -> Steps]
  BY DEF IInv, TypeOK, Steps
<1>4. proposals' \in Seq(Ids) /\ Len(proposals') = Len(proposals) + 1
  BY <1>1, <1>2, <1>3, AppendProperties
<1>5. 1 .. Len(proposals) \subseteq 1 .. Len(proposals')
  BY <1>3, <1>4
<1>6. records' \in Seq([proposal : 1 .. Len(proposals'), choice : Choices])
  <2> DEFINE old == [proposal : 1 .. Len(proposals), choice : Choices]
             new == [proposal : 1 .. Len(proposals'), choice : Choices]
  <2>1. old \subseteq new
    BY <1>5
  <2>2. records' \in Seq(old)
    BY <1>2, <1>3
  <2> HIDE DEF old, new
  <2>3. records' \in Seq(new)
    BY <2>1, <2>2, SeqGrows
  <2> QED
    BY <2>3 DEF new
<1>7. call' \in [Hosts -> Steps']
  <2>1. Steps \subseteq Steps' /\ Idle \in Steps
    BY <1>2, <1>5 DEF Steps, Idle
  <2> QED
    BY <1>2, <1>3, <2>1
<1>8. TypeOK'
  <2>1. /\ holder' \in Hosts \cup {None} /\ chosen' \subseteq 1 .. Len(proposals')
        /\ proposals' \in Seq(Ids')
    BY <1>1, <1>2, <1>3, <1>4, <1>5
  <2> QED
    BY <1>2, <1>6, <1>7, <2>1 DEF IInv, TypeOK, Steps
<1>9. HolderInv' /\ OutsideInv' /\ InsideInv'
  <2>1. Idle.at = "idle" /\ "idle" \notin Inside
    BY DEF Idle, Inside
  <2>2. call'[h] = Idle
    BY <1>2, <1>3
  <2>3. Doing(h)'
    BY <2>1, <2>2 DEF Doing
  <2> QED
    BY <1>1, <1>2, <2>1, <2>3, CallsKept
<1>10. AttemptInv' /\ OwnerDecides'
  BY <1>2, FilesKept DEF store
<1> QED
  BY <1>8, <1>9, <1>10 DEF IInv

----------------------------------------------------------------------------
(* product.decision *)

LEMMA ChooseKeepsIInv ==
    ASSUME IInv, NEW h \in Hosts, NEW p \in 1 .. Len(proposals), NEW c \in Outcomes,
           Choose(h, p, c)
    PROVE  IInv'
<1> DEFINE step == [Idle EXCEPT !.at = "record", !.proposal = p, !.choice = c]
<1>1. /\ step \in Steps /\ step.at = "record" /\ step.proposal = p /\ step.choice = c
      /\ Do(h, step)
  BY DEF Choose, Steps, Idle
<1>2. /\ UNCHANGED <<run, attempts, result, receipts, proposals, records, pointer>>
      /\ call'[h] = step /\ run.node = Decision /\ IncompleteIds = {}
      /\ holder = None /\ holder' = h
  BY <1>1 DEF Choose, BarrierPasses, store, decisions, Do, IInv, TypeOK, Lock!Take
<1>3. IncompleteIds' = {}
  BY <1>2 DEF IncompleteIds, Incomplete, Ids
<1> HIDE DEF step
<1>4. Doing(h)'
  BY <1>1, <1>2, <1>3 DEF Doing
<1>5. step.at \in Inside
  BY <1>1 DEF Inside
<1> QED
  BY <1>1, <1>2, <1>4, <1>5, GoKeepsIInv DEF Choose

\* Record and Point: the record, then the pointer, of the Owner's choice.
LEMMA RecordKeepsIInv ==
    ASSUME IInv, NEW h \in Hosts, Record(h) \/ Point(h) PROVE IInv'
<1>1. /\ holder = h /\ run.node = Decision /\ IncompleteIds = {}
      /\ call[h].proposal \in 1 .. Len(proposals) /\ call[h].choice \in Choices
      /\ call[h].at = "point" => Len(records) = pointer + 1 /\ records[Len(records)] = Asked(h)
  BY DEF Record, Point, IInv, InsideInv, Doing, HolderInv, Inside
<1>2. /\ UNCHANGED <<holder, run, attempts, consumed, result, receipts, proposals, chosen,
                     overtaken, basis>>
      /\ UNCHANGED <<bounds, history>>
  BY DEF Record, Point, store, history
<1>3. /\ result \in Seq(Answers \cup {None}) /\ receipts \subseteq Ids
      /\ records \in Seq([proposal : 1 .. Len(proposals), choice : Choices])
      /\ pointer \in 0 .. Len(records)
  BY DEF IInv, TypeOK
<1>4. AttemptInv'
  BY <1>2 DEF IInv, AttemptInv, Exact, IsConsumed, Ids
<1>5. OwnerDecides'
  BY <1>1, <1>2 DEF OwnerDecides, Decision, Planning, Last
<1>6. IncompleteIds' = {}
  BY <1>1, <1>2 DEF IncompleteIds, Incomplete, Ids
<1>7. Asked(h) \in [proposal : 1 .. Len(proposals), choice : Choices]
  BY <1>1 DEF Asked
<1>8. ASSUME NEW where \in {"choose", "point"}, Goto(h, where),
             records' \in Seq([proposal : 1 .. Len(proposals), choice : Choices]),
             pointer' \in 0 .. Len(records'),
             where = "point" => Len(records') = pointer' + 1 /\ records'[Len(records')] = Asked(h),
             where = "choose" => pointer' > 0 /\ records'[pointer'] = Asked(h)
      PROVE  IInv'
  <2> DEFINE step == [call[h] EXCEPT !.at = where]
  <2>1. /\ step \in Steps /\ step.at = where /\ Do(h, step)
        /\ step.proposal = call[h].proposal /\ step.choice = call[h].choice
    <3>1. where \in {"receipt", "advance", "execute", "gate", "propose", "point", "choose"}
      BY <1>8
    <3> QED
      BY <1>8, <3>1, GotoTyped DEF Goto, IInv
  <2>2. call'[h] = step /\ Asked(h)' = Asked(h)
    BY <2>1 DEF Do, IInv, TypeOK, Asked
  <2> HIDE DEF step
  <2>3. Doing(h)'
    BY <1>1, <1>2, <1>6, <1>8, <2>1, <2>2 DEF Doing
  <2>4. step.at \in Inside
    BY <2>1 DEF Inside
  <2> QED
    BY <1>1, <1>2, <1>3, <1>4, <1>5, <1>8, <2>1, <2>3, <2>4, WriteKeepsIInv
<1>9. CASE Record(h) /\ Goto(h, "choose") /\ pointer > 0 /\ records[pointer] = Asked(h)
           /\ UNCHANGED records
  BY <1>3, <1>8, <1>9 DEF Record
<1>10. CASE Record(h) /\ Goto(h, "point") /\ Len(records) = pointer
            /\ records' = Append(records, Asked(h))
  <2>1. /\ records' \in Seq([proposal : 1 .. Len(proposals), choice : Choices])
        /\ Len(records') = Len(records) + 1 /\ records'[Len(records) + 1] = Asked(h)
    BY <1>3, <1>7, <1>10, AppendProperties
  <2>2. pointer' = pointer /\ pointer' \in 0 .. Len(records')
    BY <1>3, <1>10, <2>1 DEF Record
  <2> QED
    BY <1>8, <1>10, <2>1, <2>2
<1>11. CASE Point(h)
  <2>1. pointer' = Len(records) /\ UNCHANGED records /\ Goto(h, "choose")
    BY <1>11 DEF Point
  <2>2. Len(records) = pointer + 1 /\ records[Len(records)] = Asked(h)
    BY <1>1, <1>11 DEF Point
  <2>3. pointer' \in 0 .. Len(records') /\ pointer' > 0
    BY <1>3, <2>1, <2>2
  <2> QED
    BY <1>3, <1>8, <2>1, <2>2, <2>3
<1> QED
  BY <1>9, <1>10, <1>11 DEF Record, OnRecord, MayRecord

LEMMA ApplyKeepsIInv == ASSUME IInv, NEW h \in Hosts, Apply(h) PROVE IInv'
<1> DEFINE next == Chosen(call[h].choice)
<1>1. /\ holder = h /\ holder' = None /\ IncompleteIds = {}
      /\ call[h].proposal \in 1 .. Len(proposals) /\ call[h].choice \in Choices
      /\ pointer > 0 /\ records[pointer] = Asked(h)
  BY DEF Apply, IInv, InsideInv, Doing, HolderInv, Inside, Lock!Release
<1>2. /\ UNCHANGED <<attempts, consumed, result, receipts, proposals, records, pointer,
                     crashes, changes, died, overtaken, basis>>
      /\ chosen' = chosen \cup {call[h].proposal}
      /\ call' = [call EXCEPT ![h] = Idle] /\ Ids' = Ids /\ Commit(next)
  BY DEF Apply, store, bounds, history, Return, Do, Ids
<1>3. run \in Runs /\ pointer \in Nat
  BY DEF IInv, TypeOK, Runs
<1>4. /\ next \in Runs /\ next.decision = pointer
      /\ next.node \in {Research, Planning, Decision}
      /\ next.node = Planning => call[h].choice \in PlanRuns
  BY <1>1, <1>3, NodesAre DEF Chosen, Runs, Research, Planning, Decision
<1> HIDE DEF next
<1>5. /\ run' \in Runs /\ run'.version = run.version + 1
      /\ run'.node = next.node /\ run'.decision = pointer
  BY <1>2, <1>3, <1>4, CommitTyped
<1>6. TypeOK'
  <2>1. Idle \in Steps
    BY DEF Steps, Idle
  <2>2. call' \in [Hosts -> Steps]
    BY <1>2, <2>1 DEF IInv, TypeOK, Steps
  <2> QED
    BY <1>1, <1>2, <1>5, <2>2 DEF IInv, TypeOK, Steps, Runs
<1>7. HolderInv' /\ OutsideInv' /\ InsideInv'
  <2>1. Idle.at = "idle" /\ "idle" \notin Inside
    BY DEF Idle, Inside
  <2>2. call'[h] = Idle
    BY <1>2 DEF IInv, TypeOK
  <2>3. Doing(h)'
    BY <2>1, <2>2 DEF Doing
  <2> QED
    BY <1>1, <1>2, <2>1, <2>3, CallsKept
<1>8. AttemptInv'
  <2>1. \A a \in Ids : Exact(a) /\ Incomplete(a) => a \in overtaken'
    BY <1>1 DEF IncompleteIds
  <2> QED
    BY <1>2, <1>5, <2>1, CommitRevokes DEF IsConsumed, store
<1>9. OwnerDecides'
  BY <1>1, <1>2, <1>4, <1>5 DEF OwnerDecides, Asked, Research, Planning, Decision, Last
<1> QED
  BY <1>6, <1>7, <1>8, <1>9 DEF IInv

----------------------------------------------------------------------------
(* The transition *)

\* An answer is taken at a node that is not the Owner's.
LEMMA TransitionKeepsIInv ==
    ASSUME IInv, NEW h \in Hosts, Transition(h), call[h].attempt \in Ids,
           run.node # Decision, holder \in {None, h}, holder' = None,
           UNCHANGED <<attempts, store, decisions, bounds, history>>
    PROVE  IInv'
<1> DEFINE a == call[h].attempt
<1>1. /\ Exact(a) /\ a \in receipts
      /\ consumed' = Append(consumed, a)
      /\ call' = [call EXCEPT ![h] = Idle] /\ Ids' = Ids
      /\ UNCHANGED <<attempts, result, receipts, proposals, records, pointer, chosen,
                     crashes, changes, died, overtaken, basis>>
  BY DEF Transition, MayTransition, Return, Do, store, decisions, bounds, history, Ids
<1>2. PICK node \in Nodes : <<run.node, node>> \in Edges /\ Commit([run EXCEPT !.node = node])
  BY DEF Transition
<1>3. run \in Runs /\ consumed \in Seq(Ids)
  BY DEF IInv, TypeOK, Runs
<1>4. [run EXCEPT !.node = node] \in Runs
  BY <1>3 DEF Runs
<1>5. /\ run' \in Runs /\ run'.version = run.version + 1
      /\ run'.node = node /\ run'.decision = run.decision
  BY <1>2, <1>3, <1>4, CommitTyped DEF Runs
<1>6. /\ consumed' \in Seq(Ids) /\ Len(consumed') = Len(consumed) + 1 /\ Len(consumed) \in Nat
      /\ consumed'[Len(consumed) + 1] = a
      /\ \A i \in 1 .. Len(consumed) : consumed'[i] = consumed[i]
  BY <1>1, <1>3, AppendProperties
<1>7. \A b : IsConsumed(b)' /\ ~IsConsumed(b) => b = a
  BY <1>6 DEF IsConsumed
<1>8. TypeOK'
  <2>1. Idle \in Steps
    BY DEF Steps, Idle
  <2>2. call' \in [Hosts -> Steps]
    BY <1>1, <2>1 DEF IInv, TypeOK, Steps
  <2> QED
    BY <1>1, <1>5, <1>6, <2>2 DEF IInv, TypeOK, Steps, Runs
<1>9. HolderInv' /\ OutsideInv' /\ InsideInv'
  <2>1. Idle.at = "idle" /\ "idle" \notin Inside
    BY DEF Idle, Inside
  <2>2. call'[h] = Idle
    BY <1>1 DEF IInv, TypeOK
  <2>3. Doing(h)'
    BY <2>1, <2>2 DEF Doing
  <2> QED
    BY <1>1, <2>1, <2>3, CallsKept
<1>10. AttemptInv'
  <2>1. \A b \in Ids : ~(Exact(b) /\ Incomplete(b))
    BY <1>1 DEF IInv, AttemptInv, Incomplete
  <2>2. a \in receipts /\ attempts[a].status # "PLANNED"
    BY <1>1 DEF Exact
  <2> QED
    BY <1>1, <1>5, <1>7, <2>1, <2>2, CommitRevokes DEF store
<1>11. OwnerDecides'
  BY <1>1, <1>2, <1>5 DEF IInv, OwnerDecides, Edges, Research, Planning, Decision, Last
<1> QED
  BY <1>8, <1>9, <1>10, <1>11 DEF IInv

\* Where a call that transitions is.
LEMMA TransitionPlace ==
    ASSUME IInv, NEW h \in Hosts, Advance(h) \/ AdvanceGate(h)
    PROVE  call[h].attempt \in Ids /\ run.node # Decision /\ holder \in {None, h}
<1>1. CASE Advance(h)
  BY <1>1 DEF Advance, IInv, InsideInv, Doing, HolderInv, Inside
<1>2. CASE AdvanceGate(h)
  BY <1>2 DEF AdvanceGate, Transition, MayTransition, Exact, IInv, OutsideInv, Gates, Decision
<1> QED
  BY <1>1, <1>2

LEMMA AdvanceKeepsIInv ==
    ASSUME IInv, NEW h \in Hosts, Advance(h) \/ AdvanceGate(h) PROVE IInv'
<1>1. Transition(h) /\ UNCHANGED <<attempts, store, decisions, bounds, history>>
  BY DEF Advance, AdvanceGate
<1>2. holder' = None
  BY DEF Advance, AdvanceGate, Lock!Release
<1> QED
  BY <1>1, <1>2, TransitionPlace, TransitionKeepsIInv

----------------------------------------------------------------------------
(* _plan_dispatch *)

LEMMA BeginKeepsIInv == ASSUME IInv, NEW h \in Hosts, Begin(h) PROVE IInv'
<1> DEFINE d == call[h].attempt
<1> DEFINE step == IF run.node \in Gates THEN [call[h] EXCEPT !.at = "execute"] ELSE Idle
<1> DEFINE new == [attempts[d] EXCEPT !.status = "DISPATCHED", !.authorised = run.version + 1]
<1>1. /\ d \in Ids /\ holder = h /\ holder' = None
      /\ attempts[d].status = "PLANNED" /\ attempts[d].node = run.node
      /\ \A b \in Ids : ~Exact(b)
  BY DEF Begin, IInv, InsideInv, Doing, HolderInv, Inside, Lock!Release
<1>2. /\ attempts' = [attempts EXCEPT ![d] = new]
      /\ basis' = [basis EXCEPT ![d] = <<run.policy, run.decision>>]
      /\ UNCHANGED <<consumed, result, receipts, proposals, records, pointer, chosen,
                     crashes, changes, died, overtaken>>
      /\ call' = [call EXCEPT ![h] = step] /\ Commit(run)
  BY DEF Begin, store, decisions, bounds, Do
<1>3. /\ run \in Runs /\ attempts \in Seq(Attempts) /\ attempts[d] \in Attempts
      /\ basis \in Seq((Policies \X Nat) \cup {None}) /\ Len(basis) = Len(attempts)
      /\ run.version \in Nat
  BY <1>1, TypeFacts DEF IInv, TypeOK, Runs, Attempts
<1>4. /\ run' \in Runs /\ run'.version = run.version + 1 /\ run'.node = run.node
      /\ run'.policy = run.policy /\ run'.decision = run.decision
  BY <1>2, <1>3, CommitTyped
<1>5. /\ new \in Attempts /\ new.node = run.node /\ new.status = "DISPATCHED"
      /\ new.authorised = run.version + 1
  <2>1. run.version + 1 \in Nat
    BY <1>3
  <2> QED
    BY <1>1, <1>3, <2>1 DEF Attempts
<1> HIDE DEF new
<1>6. /\ attempts' \in Seq(Attempts) /\ Len(attempts') = Len(attempts)
      /\ \A b \in Ids : attempts'[b] = IF b = d THEN new ELSE attempts[b]
  BY <1>1, <1>2, <1>3, <1>5, ExceptSeq DEF Ids
<1>7. Ids' = Ids
  BY <1>6 DEF Ids
<1>8. <<run.policy, run.decision>> \in Policies \X Nat
  BY <1>3 DEF Runs
<1>9. /\ basis' \in Seq((Policies \X Nat) \cup {None}) /\ Len(basis') = Len(basis)
      /\ basis'[d] = <<run.policy, run.decision>>
  BY <1>1, <1>2, <1>3, <1>8, ExceptSeq DEF Ids
<1>10. step \in Steps /\ step.at \in {"execute", "idle"}
       /\ (step.at = "execute" => step.attempt = d /\ run.node \in Gates)
  <2>1. Idle \in Steps /\ Idle.at = "idle"
    BY DEF Steps, Idle
  <2>2. LET on == [call[h] EXCEPT !.at = "execute"] IN
            on \in Steps /\ on.at = "execute" /\ on.attempt = d
    BY GotoTyped DEF IInv
  <2> QED
    BY <2>1, <2>2
<1> HIDE DEF step
<1>11. TypeOK'
  <2>1. call' \in [Hosts -> Steps]
    BY <1>2, <1>10 DEF IInv, TypeOK, Steps
  <2> QED
    BY <1>1, <1>2, <1>4, <1>6, <1>7, <1>9, <2>1 DEF IInv, TypeOK, Steps, Runs, Attempts
<1>12. HolderInv' /\ OutsideInv' /\ InsideInv'
  <2>1. step.at \notin Inside /\ step.at # "passed" /\ step.at # "gate"
    BY <1>10 DEF Inside
  <2>2. call'[h] = step
    BY <1>2 DEF IInv, TypeOK
  <2>3. Doing(h)'
    BY <1>10, <2>2 DEF Doing
  <2>4. \A b \in Ids : attempts'[b].node = attempts[b].node
    BY <1>1, <1>5, <1>6
  <2>5. step.at \in {"execute", "gate"} =>
            step.attempt \in Ids' /\ attempts'[step.attempt].node \in Gates
    BY <1>1, <1>5, <1>6, <1>7, <1>10
  <2>6. holder' = IF step.at \in Inside THEN h ELSE None
    BY <1>1, <2>1
  <2> QED
    BY <1>1, <1>2, <1>7, <2>1, <2>3, <2>4, <2>5, <2>6, CallsKept
<1>13. \A b \in Ids : b # d => ~Exact(b)'
  <2> SUFFICES ASSUME NEW b \in Ids, b # d PROVE attempts'[b].authorised # run'.version
    BY DEF Exact
  <2>1. attempts[b].authorised \in Nat
    BY TypeFacts DEF IInv
  <2>2. attempts[b].authorised <= run.version
    BY DEF IInv, AttemptInv
  <2> QED
    BY <1>3, <1>4, <1>6, <2>1, <2>2
<1>14. AttemptInv'
  <2> SUFFICES ASSUME NEW b \in Ids
               PROVE  /\ attempts'[b].authorised <= run'.version
                      /\ Exact(b)' => basis'[b] = <<run'.policy, run'.decision>> /\ ~IsConsumed(b)'
                      /\ b \in receipts' => result'[b] # None
                      /\ IsConsumed(b)' => b \in receipts' /\ attempts'[b].status # "PLANNED"
                      /\ result'[b] # None /\ b \notin receipts' => Exact(b)' \/ b \in overtaken'
    BY <1>7, <1>13 DEF AttemptInv
  <2>1. IsConsumed(b)' <=> IsConsumed(b)
    BY <1>2 DEF IsConsumed
  <2>2. /\ attempts[b].authorised <= run.version
        /\ b \in receipts => result[b] # None
        /\ IsConsumed(b) => b \in receipts /\ attempts[b].status # "PLANNED"
        /\ result[b] # None /\ b \notin receipts => b \in overtaken
    BY <1>1 DEF IInv, AttemptInv
  <2>3. attempts'[b].authorised <= run'.version
    <3>1. attempts[b].authorised \in Nat
      BY TypeFacts DEF IInv
    <3> QED
      BY <1>3, <1>4, <1>5, <1>6, <2>2, <3>1
  <2>4. b = d => ~IsConsumed(b)
    BY <1>1, <2>2
  <2>5. Exact(b)' => b = d
    BY <1>13
  <2>6. IsConsumed(b) => attempts'[b].status # "PLANNED"
    BY <1>6, <2>2, <2>4
  <2> QED
    BY <1>2, <1>4, <1>9, <2>1, <2>2, <2>3, <2>4, <2>5, <2>6
<1>15. OwnerDecides'
  BY <1>2, <1>4 DEF IInv, OwnerDecides
<1> QED
  BY <1>11, <1>12, <1>14, <1>15 DEF IInv

LEMMA PlanKeepsIInv == ASSUME IInv, NEW h \in Hosts, Plan(h) PROVE IInv'
<1> DEFINE n == Len(attempts) + 1
<1> DEFINE new == [node |-> run.node, status |-> "PLANNED", authorised |-> 0]
<1> DEFINE step == [Idle EXCEPT !.at = "begin", !.attempt = n]
<1>1. /\ holder = None /\ holder' = h
      /\ attempts' = Append(attempts, new)
      /\ result' = Append(result, None) /\ basis' = Append(basis, None)
      /\ UNCHANGED <<consumed, receipts, proposals, records, pointer, chosen,
                     crashes, changes, died, overtaken>>
      /\ call' = [call EXCEPT ![h] = step] /\ Commit(run)
      /\ \A a \in Ids : ~Exact(a)
  BY DEF Plan, MayPlan, Lock!Take, decisions, bounds, Do
<1>2. /\ run \in Runs /\ run.version \in Nat
      /\ attempts \in Seq(Attempts) /\ Len(attempts) \in Nat
      /\ result \in Seq(Answers \cup {None}) /\ Len(result) = Len(attempts)
      /\ basis \in Seq((Policies \X Nat) \cup {None}) /\ Len(basis) = Len(attempts)
      /\ consumed \in Seq(Ids) /\ proposals \in Seq(Ids)
      /\ receipts \subseteq Ids /\ died \subseteq Ids /\ overtaken \subseteq Ids
      /\ call \in [Hosts -> Steps]
  BY TypeFacts DEF IInv, TypeOK, Runs, Attempts, Steps
<1>3. /\ run' \in Runs /\ run'.version = run.version + 1 /\ run'.node = run.node
      /\ run'.decision = run.decision
  BY <1>1, <1>2, CommitTyped
<1>4. /\ new \in Attempts /\ new.status = "PLANNED" /\ new.node = run.node
      /\ new.authorised = 0
  BY <1>2 DEF Attempts, Runs
<1>5. step.at = "begin" /\ step.attempt = n
  BY DEF Idle
<1> HIDE DEF new
<1>6. /\ attempts' \in Seq(Attempts) /\ Len(attempts') = n
      /\ \A a \in Ids : attempts'[a] = attempts[a]
      /\ attempts'[n] = new
  BY <1>1, <1>2, <1>4, AppendProperties DEF Ids
<1>7. /\ result' \in Seq(Answers \cup {None}) /\ Len(result') = n
      /\ \A a \in Ids : result'[a] = result[a]
      /\ result'[n] = None
  BY <1>1, <1>2, AppendProperties DEF Ids
<1>8. basis' \in Seq((Policies \X Nat) \cup {None}) /\ Len(basis') = n
  BY <1>1, <1>2, AppendProperties
<1>9. Ids' = Ids \cup {n} /\ n \notin Ids /\ n \in Nat
  BY <1>2, <1>6 DEF Ids
<1>10. TypeOK'
  <2>1. consumed' \in Seq(Ids') /\ proposals' \in Seq(Ids')
    <3>1. Ids \subseteq Ids'
      BY <1>9
    <3> QED
      BY <1>1, <1>2, <3>1, SeqGrows
  <2>2. receipts' \subseteq Ids' /\ died' \subseteq Ids' /\ overtaken' \subseteq Ids'
    BY <1>1, <1>2, <1>9
  <2>3. call' \in [Hosts -> Steps']
    <3>1. step \in Steps'
      BY <1>1, <1>9 DEF Steps, Idle
    <3>2. Steps \subseteq Steps'
      BY <1>1, <1>9 DEF Steps
    <3> QED
      BY <1>1, <1>2, <3>1, <3>2
  <2> QED
    BY <1>1, <1>3, <1>6, <1>7, <1>8, <2>1, <2>2, <2>3
       DEF IInv, TypeOK, Steps, Runs, Attempts
<1> HIDE DEF step
<1>11. \A a \in Ids' : ~Exact(a)'
  <2> SUFFICES ASSUME NEW a \in Ids', attempts'[a].authorised = run'.version PROVE FALSE
    BY DEF Exact
  <2>1. a \in Ids => attempts'[a].authorised \in Nat /\ attempts'[a].authorised <= run.version
    BY <1>6, TypeFacts DEF IInv, AttemptInv
  <2>2. a \notin Ids => attempts'[a].authorised = 0
    BY <1>4, <1>6, <1>9
  <2> QED
    BY <1>2, <1>3, <2>1, <2>2
<1>12. HolderInv' /\ OutsideInv' /\ InsideInv'
  <2>1. call'[h] = step
    BY <1>1, <1>2
  <2>2. Doing(h)'
    BY <1>3, <1>4, <1>5, <1>6, <1>9, <1>11, <2>1 DEF Doing
  <2>3. step.at \in Inside /\ step.at # "passed" /\ step.at \notin {"execute", "gate"}
    BY <1>5 DEF Inside
  <2>4. holder' = IF step.at \in Inside THEN h ELSE None
    BY <1>1, <2>3
  <2>5. Ids \subseteq Ids' /\ \A a \in Ids : attempts'[a].node = attempts[a].node
    BY <1>6, <1>9
  <2> QED
    BY <1>1, <2>2, <2>3, <2>4, <2>5, CallsKept
<1>13. AttemptInv'
  <2> SUFFICES ASSUME NEW a \in Ids'
               PROVE  /\ attempts'[a].authorised <= run'.version
                      /\ a \in receipts' => result'[a] # None
                      /\ IsConsumed(a)' => a \in receipts' /\ attempts'[a].status # "PLANNED"
                      /\ result'[a] # None /\ a \notin receipts' => a \in overtaken'
    BY <1>11 DEF AttemptInv
  <2>1. IsConsumed(a)' => a \in Ids
    BY <1>1, <1>2, ElementOfSeq DEF IsConsumed
  <2>2. CASE a \in Ids
    <3>1. /\ attempts[a].authorised <= run.version
          /\ a \in receipts => result[a] # None
          /\ IsConsumed(a) => a \in receipts /\ attempts[a].status # "PLANNED"
          /\ result[a] # None /\ a \notin receipts => a \in overtaken
      BY <1>1, <2>2 DEF IInv, AttemptInv
    <3>2. attempts'[a].authorised <= run'.version
      <4>1. attempts[a].authorised \in Nat /\ attempts'[a] = attempts[a]
        BY <1>6, <2>2, TypeFacts DEF IInv
      <4> QED
        BY <1>2, <1>3, <3>1, <4>1
    <3> QED
      BY <1>1, <1>6, <1>7, <2>2, <3>1, <3>2 DEF IsConsumed
  <2>3. CASE a \notin Ids
    <3>1. a = n /\ a \notin receipts' /\ ~IsConsumed(a)'
      BY <1>1, <1>2, <1>9, <2>1, <2>3
    <3>2. attempts'[a].authorised <= run'.version
      BY <1>2, <1>3, <1>4, <1>6, <3>1
    <3> QED
      BY <1>7, <3>1, <3>2
  <2> QED
    BY <2>2, <2>3
<1>14. OwnerDecides'
  BY <1>1, <1>3 DEF IInv, OwnerDecides
<1> QED
  BY <1>10, <1>12, <1>13, <1>14 DEF IInv

----------------------------------------------------------------------------
(* Every step, and the theorems *)

LEMMA StutterKeepsIInv == ASSUME IInv, UNCHANGED vars PROVE IInv'
<1>1. /\ UNCHANGED <<holder, run, attempts, consumed, result, receipts, proposals, records,
                     pointer, chosen, call, crashes, changes, died, overtaken, basis>>
      /\ Ids' = Ids
  BY DEF vars, store, decisions, bounds, history, Ids
<1>2. \A a : (Exact(a)' <=> Exact(a)) /\ (IsConsumed(a)' <=> IsConsumed(a))
  BY <1>1 DEF Exact, IsConsumed
<1>3. IncompleteIds' = IncompleteIds /\ \A h : Asked(h)' = Asked(h)
  BY <1>1 DEF IncompleteIds, Incomplete, Asked
<1>4. TypeOK'
  BY <1>1 DEF IInv, TypeOK
<1>5. HolderInv' /\ OutsideInv' /\ OwnerDecides'
  BY <1>1 DEF IInv, HolderInv, OutsideInv, OwnerDecides
<1>6. InsideInv'
  BY <1>1, <1>2, <1>3 DEF IInv, InsideInv, Doing
<1>7. AttemptInv'
  BY <1>1, <1>2 DEF IInv, AttemptInv
<1> QED
  BY <1>4, <1>5, <1>6, <1>7 DEF IInv

LEMMA NextKeepsIInv == IInv /\ [Next]_vars => IInv'
<1> SUFFICES ASSUME IInv, [Next]_vars PROVE IInv'
  OBVIOUS
<1>1. CASE UNCHANGED vars
  BY <1>1, StutterKeepsIInv
<1>2. CASE Next
  <2>1. PICK h \in Hosts :
          \/ RecoverReceipt(h) \/ Enter(h)
          \/ Dispatch(h) \/ Continue(h) \/ Crash(h)
          \/ h \in Owners /\ Activity(h)
          \/ \E a \in Ids : MarkUnknown(h, a) \/ \E answer \in Answers : Submit(h, a, answer)
          \/ \E p \in 1 .. Len(proposals), c \in Outcomes : h \in Owners /\ Choose(h, p, c)
    BY <1>2 DEF Next
  <2>2. CASE RecoverReceipt(h) \/ Enter(h) \/ Dispatch(h) \/ Crash(h)
    BY <2>2, RecoverReceiptKeepsIInv, EnterKeepsIInv, ReuseKeepsIInv, PlanKeepsIInv,
       CrashKeepsIInv DEF Dispatch
  <2>3. CASE Continue(h)
    BY <2>3, LeaveKeepsIInv, BeginKeepsIInv, WriteResultKeepsIInv, WriteReceiptKeepsIInv,
       AdvanceKeepsIInv, ExecuteKeepsIInv, TakeUpKeepsIInv, RefusalsKeepIInv,
       ProposeKeepsIInv, RecordKeepsIInv, ApplyKeepsIInv DEF Continue
  <2>4. CASE Activity(h)
    BY <2>4, ActivityKeepsIInv
  <2>5. CASE \E a \in Ids : MarkUnknown(h, a) \/ \E answer \in Answers : Submit(h, a, answer)
    BY <2>5, MarkUnknownKeepsIInv, SubmitKeepsIInv
  <2>6. CASE \E p \in 1 .. Len(proposals), c \in Outcomes : Choose(h, p, c)
    BY <2>6, ChooseKeepsIInv
  <2> QED
    BY <2>1, <2>2, <2>3, <2>4, <2>5, <2>6
<1> QED
  BY <1>1, <1>2

\* The files and the calls have their types, in every state of every Run.
THEOREM TypeCorrect == Spec => []TypeOK
<1>1. IInv => TypeOK
  BY DEF IInv
<1> QED
  BY InitIInv, NextKeepsIInv, <1>1, PTL DEF Spec

\* The plan and the PRD are made only after the Owner's own commitment.
THEOREM OwnerIsAsked == Spec => []OwnerDecides
<1>1. IInv => OwnerDecides
  BY DEF IInv
<1> QED
  BY InitIInv, NextKeepsIInv, <1>1, PTL DEF Spec

\* A result without receipt is one the barrier completes, or was overtaken.
THEOREM BarrierCompletesResults == Spec => []ReceiptIsLostOnlyWhenOvertaken
<1>1. IInv => ReceiptIsLostOnlyWhenOvertaken
  BY DEF IInv, AttemptInv, ReceiptIsLostOnlyWhenOvertaken, IncompleteIds, Incomplete
<1> QED
  BY InitIInv, NextKeepsIInv, <1>1, PTL DEF Spec

----------------------------------------------------------------------------
(* What a step may do to the state and to what was answered *)

\* What was consumed stays as it is.
AnswersKept ==
    /\ consumed' = consumed
    /\ \A a \in Ids : IsConsumed(a) =>
         attempts'[a].node = attempts[a].node /\ result'[a] = result[a]

\* The Run stays at its node, or leaves the Owner's by one of its edges.
NodeKept ==
    \/ run'.node = run.node
    \/ run.node = Decision /\ run'.node \in {Research, Planning}

LEMMA NodeOfCommit ==
    ASSUME IInv, NEW next \in Runs, Commit(next) PROVE run'.node = next.node
<1>1. run \in Runs
  BY DEF IInv, TypeOK, Runs
<1> QED
  BY <1>1, CommitTyped

\* Only a transition consumes, and only it and the Owner move the Run.
LEMMA StepKinds ==
    ASSUME IInv, NEW h \in Hosts,
           \/ RecoverReceipt(h) \/ Enter(h)
           \/ Dispatch(h) \/ Continue(h) \/ Crash(h)
           \/ Activity(h)
           \/ \E a \in Ids : MarkUnknown(h, a) \/ \E answer \in Answers : Submit(h, a, answer)
           \/ \E p \in 1 .. Len(proposals), c \in Outcomes : Choose(h, p, c)
    PROVE  Advance(h) \/ AdvanceGate(h) \/ (AnswersKept /\ NodeKept)
<1>1. /\ run \in Runs /\ attempts \in Seq(Attempts) /\ Len(attempts) \in Nat
      /\ result \in Seq(Answers \cup {None}) /\ Len(result) = Len(attempts)
  BY TypeFacts DEF IInv, TypeOK, Runs, Attempts
<1>2. CASE UNCHANGED <<run, attempts, consumed, result>>
  BY <1>2 DEF AnswersKept, NodeKept
<1>3. CASE Plan(h)
  <2>1. run'.node = run.node
    BY <1>1, <1>3, NodeOfCommit DEF Plan
  <2>2. [node |-> run.node, status |-> "PLANNED", authorised |-> 0] \in Attempts
    BY <1>1 DEF Attempts, Runs
  <2>3. \A a \in Ids : attempts'[a] = attempts[a] /\ result'[a] = result[a]
    BY <1>1, <1>3, <2>2, AppendProperties DEF Plan, Ids
  <2> QED
    BY <1>3, <2>1, <2>3 DEF Plan, AnswersKept, NodeKept
<1>4. CASE Begin(h)
  <2>1. run'.node = run.node
    BY <1>1, <1>4, NodeOfCommit DEF Begin
  <2>2. /\ attempts' = [attempts EXCEPT ![call[h].attempt].status = "DISPATCHED",
                                      ![call[h].attempt].authorised = run.version + 1]
        /\ UNCHANGED <<consumed, result>>
    BY <1>4 DEF Begin, store
  <2>3. \A a \in Ids : attempts'[a].node = attempts[a].node
    BY <1>1, <2>2 DEF Ids, Attempts
  <2> QED
    BY <2>1, <2>2, <2>3 DEF AnswersKept, NodeKept
<1>5. ASSUME NEW u \in Ids, MarkUnknown(h, u) PROVE AnswersKept /\ NodeKept
  <2>1. run'.node = run.node
    BY <1>1, <1>5, NodeOfCommit DEF MarkUnknown
  <2>2. attempts' = [attempts EXCEPT ![u].status = "UNKNOWN"] /\ UNCHANGED <<consumed, result>>
    BY <1>5 DEF MarkUnknown, store
  <2>3. \A a \in Ids : attempts'[a].node = attempts[a].node
    BY <1>1, <2>2 DEF Ids, Attempts
  <2> QED
    BY <2>1, <2>2, <2>3 DEF AnswersKept, NodeKept
<1>6. CASE WriteResult(h) \/ Execute(h)
  <2>1. /\ call[h].attempt \in Ids /\ Exact(call[h].attempt)
    BY <1>6 DEF WriteResult, Execute, MayExecute, IInv, InsideInv, OutsideInv, Doing
  <2>2. ~IsConsumed(call[h].attempt)
    BY <2>1 DEF IInv, AttemptInv
  <2>3. \E answer : result' = [result EXCEPT ![call[h].attempt] = answer]
    BY <1>6 DEF WriteResult, Execute
  <2>4. \A a \in Ids : a # call[h].attempt => result'[a] = result[a]
    BY <1>1, <2>3 DEF Ids
  <2>5. UNCHANGED <<run, attempts, consumed>>
    BY <1>6 DEF WriteResult, Execute
  <2> QED
    BY <2>2, <2>4, <2>5 DEF AnswersKept, NodeKept
<1>7. CASE Apply(h)
  <2>1. run.node = Decision /\ call[h].choice \in Choices
    BY <1>7 DEF Apply, IInv, InsideInv, Doing
  <2>2. Chosen(call[h].choice) \in Runs
    <3>1. pointer \in Nat
      BY DEF IInv, TypeOK
    <3> QED
      BY <1>1, <2>1, <3>1, NodesAre DEF Chosen, Runs, Research, Planning, Decision
  <2>3. run'.node \in {Research, Planning, Decision}
    BY <1>1, <1>7, <2>2, NodeOfCommit DEF Apply, Chosen, Runs
  <2> QED
    BY <1>7, <2>1, <2>3 DEF Apply, store, AnswersKept, NodeKept
<1>8. CASE Activity(h)
  <2>1. UNCHANGED <<attempts, consumed, result>>
    BY <1>8 DEF Activity, Pause, Resume, Trigger, Interview, store
  <2>2. run'.node = run.node \/ (run.node = Decision /\ run'.node = Research)
    BY <1>1, <1>8, NodesAre, NodeOfCommit
       DEF Activity, Pause, Resume, Trigger, Interview, Commit, Runs
  <2> QED
    BY <2>1, <2>2 DEF AnswersKept, NodeKept
<1>9. CASE RecoverReceipt(h) \/ Enter(h) \/ Reuse(h) \/ Crash(h)
  BY <1>2, <1>9 DEF RecoverReceipt, Enter, Reuse, Crash, store
<1>10. CASE Leave(h) \/ WriteReceipt(h) \/ TakeUp(h) \/ RefuseGate(h)
  BY <1>2, <1>10 DEF Leave, WriteReceipt, TakeUp, RefuseGate, store
<1>11. CASE Propose(h) \/ Record(h) \/ Point(h) \/ RefuseChoice(h)
  BY <1>2, <1>11 DEF Propose, Record, Point, RefuseChoice, store
<1>12. ASSUME NEW a, NEW answer, Submit(h, a, answer) PROVE AnswersKept /\ NodeKept
  BY <1>2, <1>12 DEF Submit, store, AnswersKept, NodeKept
<1>13. ASSUME NEW p, NEW c, Choose(h, p, c) PROVE AnswersKept /\ NodeKept
  BY <1>13 DEF Choose, store, AnswersKept, NodeKept
<1>14. CASE Continue(h)
  BY <1>4, <1>6, <1>7, <1>10, <1>11, <1>14 DEF Continue
<1>15. CASE Dispatch(h)
  BY <1>3, <1>9, <1>15 DEF Dispatch
<1> QED
  BY <1>5, <1>8, <1>9, <1>12, <1>13, <1>14, <1>15

\* What a transition does.
LEMMA TransitionFacts ==
    ASSUME IInv, NEW h \in Hosts, Advance(h) \/ AdvanceGate(h)
    PROVE  /\ call[h].attempt \in Ids /\ Exact(call[h].attempt)
           /\ ~IsConsumed(call[h].attempt) /\ result[call[h].attempt] \in Answers
           /\ consumed' = Append(consumed, call[h].attempt)
           /\ UNCHANGED <<attempts, result>>
           /\ run.node # Decision /\ <<run.node, run'.node>> \in Edges
<1> DEFINE a == call[h].attempt
<1>1. a \in Ids /\ run.node # Decision
  BY TransitionPlace
<1>2. /\ Transition(h) /\ Exact(a) /\ ~IsConsumed(a) /\ a \in receipts
      /\ consumed' = Append(consumed, a) /\ UNCHANGED <<attempts, result>>
  BY DEF Advance, AdvanceGate, Transition, MayTransition, store
<1>3. result[a] \in Answers
  BY <1>1, <1>2, TypeFacts DEF IInv, AttemptInv
<1>4. PICK node \in Nodes : <<run.node, node>> \in Edges /\ Commit([run EXCEPT !.node = node])
  BY <1>2 DEF Transition
<1>5. [run EXCEPT !.node = node] \in Runs /\ [run EXCEPT !.node = node].node = node
  BY DEF IInv, TypeOK, Runs
<1>6. run'.node = node
  BY <1>4, <1>5, NodeOfCommit
<1> QED
  BY <1>1, <1>2, <1>3, <1>4, <1>6

\* An answer is consumed in the state it was asked for, and once.
THEOREM AnswersFitTheRun == Spec => WorkFitsTheRun
<1>1. ASSUME IInv, Next, NEW a \in Ids, consumed' = Append(consumed, a)
      PROVE  basis[a] = <<run.policy, run.decision>> /\ ~IsConsumed(a)
  <2>1. consumed \in Seq(Ids) /\ Len(consumed) \in Nat
    <3>1. consumed \in Seq(Ids)
      BY <1>1 DEF IInv, TypeOK
    <3> QED
      BY <3>1, LenProperties
  <2>2. consumed' # consumed /\ consumed'[Len(consumed) + 1] = a
    BY <1>1, <2>1, AppendProperties
  <2>3. PICK h \in Hosts : Advance(h) \/ AdvanceGate(h)
    BY <1>1, <2>2, StepKinds DEF Next, AnswersKept
  <2>4. consumed' = Append(consumed, call[h].attempt) /\ call[h].attempt \in Ids
        /\ Exact(call[h].attempt)
    BY <1>1, <2>3, TransitionFacts
  <2>5. call[h].attempt = a
    BY <2>1, <2>2, <2>4, AppendProperties
  <2> QED
    BY <1>1, <2>4, <2>5 DEF IInv, AttemptInv
<1>2. IInv /\ [Next]_vars =>
        [\A a \in Ids : consumed' = Append(consumed, a) =>
             /\ basis[a] = <<run.policy, run.decision>>
             /\ ~IsConsumed(a)]_vars
  BY <1>1
<1> QED
  BY InitIInv, NextKeepsIInv, <1>2, PTL DEF Spec, WorkFitsTheRun

----------------------------------------------------------------------------
(* The path that the answers tell *)

Answered == [node : Nodes, answer : Answers]

LEMMA TakenTyped ==
    ASSUME IInv
    PROVE  Taken \in Seq(Answered) /\ Len(Taken) = Len(consumed)
<1>1. consumed \in Seq(Ids) /\ Len(consumed) \in Nat
  BY DEF IInv, TypeOK
<1>2. ASSUME NEW i \in 1 .. Len(consumed)
      PROVE  [node |-> attempts[consumed[i]].node, answer |-> result[consumed[i]]] \in Answered
  <2>1. consumed[i] \in Ids /\ IsConsumed(consumed[i])
    BY <1>1, ElementOfSeq DEF IsConsumed
  <2>2. result[consumed[i]] # None
    BY <2>1 DEF IInv, AttemptInv
  <2> QED
    BY <2>1, <2>2, TypeFacts DEF IInv, Answered, Attempts
<1> QED
  BY <1>1, <1>2 DEF Taken

LEMMA TakenKept ==
    ASSUME IInv, AnswersKept
    PROVE  Taken' = Taken /\ \A node : Newest(node)' = Newest(node)
<1>1. ASSUME NEW i \in 1 .. Len(consumed)
      PROVE  attempts'[consumed[i]].node = attempts[consumed[i]].node
             /\ result'[consumed[i]] = result[consumed[i]]
  <2>1. consumed[i] \in Ids /\ IsConsumed(consumed[i])
    BY ElementOfSeq DEF IInv, TypeOK, IsConsumed
  <2> QED
    BY <2>1 DEF AnswersKept
<1>2. Taken' = Taken
  BY <1>1 DEF Taken, AnswersKept
<1> QED
  BY <1>2 DEF Newest

\* There is one newest answer.
LEMMA NewestIsOne ==
    ASSUME IInv, NEW node, NEW x \in Newest(node), NEW y \in Newest(node)
    PROVE  x = y
<1> DEFINE its == {i \in 1 .. Len(Taken) : Taken[i].node = node}
<1>1. PICK i \in its : (\A j \in its : j <= i) /\ x = Taken[i].answer
  BY DEF Newest
<1>2. PICK k \in its : (\A j \in its : j <= k) /\ y = Taken[k].answer
  BY DEF Newest
<1>3. its \subseteq Nat
  BY TakenTyped DEF IInv, TypeOK
<1> QED
  BY <1>1, <1>2, <1>3

----------------------------------------------------------------------------
(* Where a Run stops: what a step leaves of the dispatches and the calls *)

StepOf(h) ==
    \/ RecoverReceipt(h) \/ Enter(h)
    \/ Dispatch(h) \/ Continue(h) \/ Crash(h)
    \/ Activity(h)
    \/ \E a \in Ids : MarkUnknown(h, a) \/ \E answer \in Answers : Submit(h, a, answer)
    \/ \E p \in 1 .. Len(proposals), c \in Outcomes : Choose(h, p, c)

LEMMA SomeStep == ASSUME Next PROVE \E h \in Hosts : StepOf(h)
BY DEF Next, StepOf

\* The steps that commit a state, and so revoke what was dispatched before.
Commits(h) ==
    \/ Plan(h) \/ Begin(h) \/ Advance(h) \/ AdvanceGate(h) \/ Apply(h) \/ Activity(h)
    \/ \E a \in Ids : MarkUnknown(h, a)

LEMMA OnlyCommitsChangeTheState ==
    ASSUME NEW h \in Hosts, StepOf(h)
    PROVE  Commits(h) \/ UNCHANGED <<run, attempts>>
BY DEF StepOf, Commits, Dispatch, Continue, RecoverReceipt, Enter, Reuse, Crash, Leave,
       WriteResult, WriteReceipt, Execute, TakeUp, RefuseGate, Propose, Record, Point,
       RefuseChoice, Submit, Choose

\* A call is only moved by its own Host.
LEMMA OtherCalls ==
    ASSUME IInv, NEW h \in Hosts, StepOf(h), NEW k \in Hosts, k # h
    PROVE  call'[k] = call[k]
<1> USE DEF Do, Goto, Return, IInv, TypeOK
<1>1. CASE RecoverReceipt(h) \/ Enter(h) \/ Crash(h) \/ Dispatch(h)
  BY <1>1 DEF RecoverReceipt, Enter, Crash, Dispatch, Reuse, Plan
<1>2. CASE Leave(h) \/ Begin(h) \/ WriteResult(h) \/ WriteReceipt(h)
  BY <1>2 DEF Leave, Begin, WriteResult, WriteReceipt
<1>3. CASE Advance(h) \/ Execute(h) \/ TakeUp(h) \/ AdvanceGate(h) \/ RefuseGate(h)
  BY <1>3 DEF Advance, Execute, TakeUp, AdvanceGate, RefuseGate, Transition
<1>4. CASE Propose(h) \/ Record(h) \/ Point(h) \/ Apply(h) \/ RefuseChoice(h)
  BY <1>4 DEF Propose, Record, Point, Apply, RefuseChoice
<1>5. CASE Activity(h)
  BY <1>5 DEF Activity, Pause, Resume, Trigger, Interview
<1>6. ASSUME NEW a, MarkUnknown(h, a) \/ \E answer \in Answers : Submit(h, a, answer)
      PROVE  call'[k] = call[k]
  BY <1>6 DEF MarkUnknown, Submit
<1>7. ASSUME NEW p, NEW c, Choose(h, p, c)
      PROVE  call'[k] = call[k]
  BY <1>7 DEF Choose
<1> QED
  BY <1>1, <1>2, <1>3, <1>4, <1>5, <1>6, <1>7 DEF StepOf, Continue

\* A state is committed by a call that is inside, or while none is.
LEMMA CommitsNeedTheLock ==
    ASSUME IInv, NEW h \in Hosts, Commits(h), NEW k \in Hosts, k # h
    PROVE  call[k].at \notin Inside
<1>1. holder = None \/ call[h].at \in Inside
  BY DEF Commits, Plan, Lock!Take, Begin, Advance, AdvanceGate, Apply, MarkUnknown,
         Activity, Pause, Resume, Trigger, Interview, Inside
<1> QED
  BY <1>1 DEF IInv, HolderInv

LEMMA NewVersion ==
    ASSUME IInv, run'.version = run.version + 1, NEW a \in Ids,
           attempts'[a].authorised = attempts[a].authorised
    PROVE  ~Exact(a)'
<1>1. attempts[a].authorised \in Nat /\ run.version \in Nat
      /\ attempts[a].authorised <= run.version
  BY TypeFacts DEF IInv, AttemptInv
<1> QED
  BY <1>1 DEF Exact

\* What a commit does to the dispatches.
LEMMA CommitFacts ==
    ASSUME IInv, NEW h \in Hosts, Commits(h)
    PROVE  /\ run'.version = run.version + 1
           /\ Ids \subseteq Ids'
           /\ \A a \in Ids :
                \/ Begin(h) /\ a = call[h].attempt
                \/ attempts'[a].authorised = attempts[a].authorised
           /\ \A a \in Ids' \ Ids : attempts'[a].status = "PLANNED"
           /\ \A a \in Ids : attempts'[a].status = "PLANNED" => attempts[a].status = "PLANNED"
           /\ \A a \in Ids : attempts'[a].node = attempts[a].node
<1>1. /\ run \in Runs /\ attempts \in Seq(Attempts) /\ Len(attempts) \in Nat
  BY TypeFacts DEF IInv, TypeOK, Runs, Attempts
<1>2. ASSUME NEW next \in Runs, Commit(next) PROVE run'.version = run.version + 1
  BY <1>1, <1>2, CommitTyped
<1>3. CASE Plan(h)
  <2>1. [node |-> run.node, status |-> "PLANNED", authorised |-> 0] \in Attempts
    BY <1>1 DEF Attempts, Runs
  <2>2. /\ \A a \in Ids : attempts'[a] = attempts[a]
        /\ Len(attempts') = Len(attempts) + 1
        /\ attempts'[Len(attempts) + 1].status = "PLANNED"
    BY <1>1, <1>3, <2>1, AppendProperties DEF Plan, Ids
  <2>3. Ids' = Ids \cup {Len(attempts) + 1}
    BY <1>1, <2>2 DEF Ids
  <2> QED
    BY <1>1, <1>2, <1>3, <2>2, <2>3 DEF Plan
<1>4. CASE Begin(h)
  <2>1. attempts' = [attempts EXCEPT ![call[h].attempt].status = "DISPATCHED",
                                     ![call[h].attempt].authorised = run.version + 1]
    BY <1>4 DEF Begin
  <2>2. /\ Ids' = Ids
        /\ \A a \in Ids : a # call[h].attempt => attempts'[a] = attempts[a]
        /\ call[h].attempt \in Ids =>
             /\ attempts'[call[h].attempt].status = "DISPATCHED"
             /\ attempts'[call[h].attempt].node = attempts[call[h].attempt].node
    BY <1>1, <2>1 DEF Ids, Attempts
  <2> QED
    BY <1>1, <1>2, <1>4, <2>2 DEF Begin
<1>5. ASSUME NEW u \in Ids, MarkUnknown(h, u)
      PROVE  /\ run'.version = run.version + 1 /\ Ids' = Ids
             /\ \A a \in Ids : attempts'[a].authorised = attempts[a].authorised
             /\ \A a \in Ids : attempts'[a].status = "PLANNED" => attempts[a].status = "PLANNED"
             /\ \A a \in Ids : attempts'[a].node = attempts[a].node
  <2>1. attempts' = [attempts EXCEPT ![u].status = "UNKNOWN"] /\ Commit(run)
    BY <1>5 DEF MarkUnknown
  <2> QED
    BY <1>1, <1>2, <2>1 DEF Ids, Attempts
<1>6. CASE Advance(h) \/ AdvanceGate(h)
  <2>1. PICK node \in Nodes : Commit([run EXCEPT !.node = node])
    BY <1>6 DEF Advance, AdvanceGate, Transition
  <2>2. [run EXCEPT !.node = node] \in Runs /\ attempts' = attempts
    BY <1>1, <1>6 DEF Runs, Advance, AdvanceGate
  <2> QED
    BY <1>2, <2>1, <2>2 DEF Ids
<1>7. CASE Apply(h)
  <2>1. call[h].choice \in Choices /\ run.node = Decision
    BY <1>7 DEF Apply, IInv, InsideInv, Doing
  <2>2. pointer \in Nat
    BY DEF IInv, TypeOK
  <2>3. Chosen(call[h].choice) \in Runs
    BY <1>1, <2>1, <2>2, NodesAre DEF Chosen, Runs, Research, Planning, Decision
  <2>4. Commit(Chosen(call[h].choice)) /\ attempts' = attempts
    BY <1>7 DEF Apply
  <2> QED
    BY <1>2, <2>3, <2>4 DEF Ids
<1>8. CASE Activity(h)
  <2>1. /\ attempts' = attempts
        /\ \E next \in Runs : Commit(next)
    BY <1>1, <1>8, NodesAre DEF Activity, Pause, Resume, Trigger, Interview, Runs
  <2> QED
    BY <1>2, <2>1 DEF Ids
<1> QED
  BY <1>3, <1>4, <1>5, <1>6, <1>7, <1>8 DEF Commits

\* A dispatch becomes exact by begin_node_call and stays so only while the
\* state does not change.
LEMMA ExactArises ==
    ASSUME IInv, NEW h \in Hosts, StepOf(h), NEW a \in Ids', Exact(a)'
    PROVE  \/ a \in Ids /\ Exact(a) /\ UNCHANGED <<run, attempts>>
           \/ Begin(h) /\ a = call[h].attempt
<1>1. CASE UNCHANGED <<run, attempts>>
  BY <1>1 DEF Exact, Ids
<1>2. CASE Commits(h)
  <2>1. a \in Ids
    BY <1>2, CommitFacts DEF Exact
  <2> QED
    BY <1>2, <2>1, CommitFacts, NewVersion
<1> QED
  BY <1>1, <1>2, OnlyCommitsChangeTheState

\* Nobody answers or proposes for an attempt that was only planned.
PlannedInv ==
    \A a \in Ids : attempts[a].status = "PLANNED" =>
        result[a] = None /\ \A p \in 1 .. Len(proposals) : proposals[p] # a

\* A dispatch is exact only while the Run is ACTIVE before the review, and a
\* call that is about to transition has the receipt.
ActiveInv ==
    /\ \A a \in Ids : Exact(a) => run.status = "ACTIVE" /\ run.node # Last
    /\ \A h \in Hosts :
        /\ call[h].at = "begin" => run.status = "ACTIVE" /\ run.node # Last
        /\ call[h].at \in {"advance", "gate"} => call[h].attempt \in receipts

\* The problem gate is reached by the transition of the quality review, so there
\* is an answer for it to take.
ReviewedInv ==
    run.node = "problem.ready.gate" =>
        /\ Len(consumed) > 0
        /\ attempts[consumed[Len(consumed)]].node = "problem.quality.review"

\* The dispatches and the Decision Records stay within their bounds.
WithinBounds == Len(attempts) <= MaxAttempts /\ Len(records) <= MaxChoices

\* A proposal is of a dispatch of product.decision, and one whose transaction is
\* done is of a dispatch that was revoked.
ChosenInv ==
    /\ \A p \in 1 .. Len(proposals) : attempts[proposals[p]].node = Decision
    /\ \A p \in chosen : ~Exact(proposals[p])

Carries(h, a) ==
    call[h].attempt = a /\ call[h].at \in {"receipt", "advance", "propose", "gate"}

\* The answer of an exact dispatch is on its way: a call carries it, its process
\* died, its node takes it up again, or it waits for the Owner's choice.
CarriedInv ==
    \A a \in Ids : Exact(a) /\ result[a] # None =>
        \/ a \in died
        \/ \E h \in Hosts : Carries(h, a)
        \/ run.node \in {"problem.ready.gate", "prd.generate"}
        \/ \E p \in 1 .. Len(proposals) : proposals[p] = a /\ p \notin chosen

\* What a gate was answered with is what its newest review or plan allows, and
\* prd.generate is dispatched only for a plan that has its Slice.
GateInv ==
    /\ \A a \in Ids : Exact(a) =>
        ~NoSlice /\ (run.node \in Gates => result[a] \in GateAnswers \cup {None})
    /\ \A h \in Hosts : call[h].at = "begin" => ~NoSlice

WorkInv ==
    /\ PlannedInv /\ ActiveInv /\ ReviewedInv /\ WithinBounds /\ ChosenInv
    /\ CarriedInv /\ GateInv

\* Which steps answer, and which propose.
LEMMA AnswersWritten ==
    ASSUME IInv, NEW h \in Hosts, StepOf(h)
    PROVE  \/ result' = result
           \/ Plan(h) /\ result' = Append(result, None)
           \/ /\ WriteResult(h) \/ Execute(h)
              /\ call[h].attempt \in Ids /\ Exact(call[h].attempt)
              /\ \E answer \in Answers :
                   result' = [result EXCEPT ![call[h].attempt] = answer]
              /\ call' = [call EXCEPT ![h] = [call[h] EXCEPT !.at = "receipt"]]
<1>1. ASSUME WriteResult(h)
      PROVE  /\ call[h].attempt \in Ids /\ Exact(call[h].attempt) /\ call[h].answer \in Answers
             /\ result' = [result EXCEPT ![call[h].attempt] = call[h].answer]
             /\ call' = [call EXCEPT ![h] = [call[h] EXCEPT !.at = "receipt"]]
  BY <1>1 DEF WriteResult, IInv, InsideInv, Doing, Goto, Do
<1>2. ASSUME Execute(h)
      PROVE  /\ call[h].attempt \in Ids /\ Exact(call[h].attempt)
             /\ \E answer \in Answers : result' = [result EXCEPT ![call[h].attempt] = answer]
             /\ call' = [call EXCEPT ![h] = [call[h] EXCEPT !.at = "receipt"]]
  BY <1>2, GateAnswersAre DEF Execute, MayExecute, IInv, OutsideInv, Goto, Do
<1> QED
  BY <1>1, <1>2
     DEF StepOf, Dispatch, Continue, Activity, RecoverReceipt, Enter, Reuse, Plan, Crash, Leave,
         Begin, WriteReceipt, Advance, TakeUp, AdvanceGate, RefuseGate, Propose, Record,
         Point, Apply, RefuseChoice, Pause, Resume, Interview, Trigger, MarkUnknown,
         Submit, Choose, store

LEMMA ProposalsWritten ==
    ASSUME IInv, NEW h \in Hosts, StepOf(h)
    PROVE  \/ UNCHANGED <<proposals, chosen>>
           \/ /\ Propose(h) /\ proposals' = Append(proposals, call[h].attempt)
              /\ chosen' = chosen /\ call[h].attempt \in Ids /\ Exact(call[h].attempt)
           \/ Apply(h) /\ proposals' = proposals /\ chosen' = chosen \cup {call[h].proposal}
<1>1. ASSUME Propose(h) PROVE call[h].attempt \in Ids /\ Exact(call[h].attempt)
  BY <1>1 DEF Propose, IInv, InsideInv, Doing
<1> QED
  BY <1>1
     DEF StepOf, Dispatch, Continue, Activity, RecoverReceipt, Enter, Reuse, Plan, Crash, Leave,
         Begin, WriteResult, WriteReceipt, Advance, Execute, TakeUp, AdvanceGate, RefuseGate,
         Propose, Record, Point, Apply, RefuseChoice, Pause, Resume, Interview, Trigger,
         MarkUnknown, Submit, Choose, decisions

\* A step only ever adds to the proposals.
LEMMA ProposalsKept ==
    ASSUME IInv, NEW h \in Hosts, StepOf(h)
    PROVE  /\ 1 .. Len(proposals) \subseteq 1 .. Len(proposals')
           /\ \A p \in 1 .. Len(proposals) : proposals'[p] = proposals[p]
           /\ \A p \in 1 .. Len(proposals') :
                \/ p \in 1 .. Len(proposals)
                \/ /\ Propose(h) /\ p = Len(proposals) + 1 /\ proposals'[p] = call[h].attempt
                   /\ call[h].attempt \in Ids /\ Exact(call[h].attempt)
<1>1. proposals \in Seq(Ids) /\ Len(proposals) \in Nat
  BY DEF IInv, TypeOK
<1>2. CASE proposals' = proposals
  BY <1>2
<1>3. CASE Propose(h) /\ proposals' = Append(proposals, call[h].attempt)
  <2>1. call[h].attempt \in Ids /\ Exact(call[h].attempt)
    BY <1>3 DEF Propose, IInv, InsideInv, Doing
  <2>2. /\ Len(proposals') = Len(proposals) + 1
        /\ \A p \in 1 .. Len(proposals) : proposals'[p] = proposals[p]
        /\ proposals'[Len(proposals) + 1] = call[h].attempt
    BY <1>1, <1>3, <2>1, AppendProperties
  <2> QED
    BY <1>1, <1>3, <2>1, <2>2
<1> QED
  BY <1>2, <1>3, ProposalsWritten

LEMMA PlannedStep ==
    ASSUME IInv, PlannedInv, NEW h \in Hosts, StepOf(h)
    PROVE  PlannedInv'
<1> SUFFICES ASSUME NEW a \in Ids', attempts'[a].status = "PLANNED"
             PROVE  result'[a] = None /\ \A p \in 1 .. Len(proposals') : proposals'[p] # a
  BY DEF PlannedInv
<1>1. result \in Seq(Answers \cup {None}) /\ Len(result) = Len(attempts) /\ Len(attempts) \in Nat
  BY TypeFacts DEF IInv, TypeOK
<1>2. CASE a \in Ids
  <2>1. attempts[a].status = "PLANNED"
    BY <1>2, CommitFacts, OnlyCommitsChangeTheState
  <2>2. result[a] = None /\ ~Exact(a)
    BY <1>2, <2>1 DEF PlannedInv, Exact
  <2>3. result'[a] = None
    <3>1. CASE result' = Append(result, None)
      BY <1>1, <1>2, <2>2, <3>1, AppendProperties DEF Ids
    <3>2. CASE \E answer \in Answers : result' = [result EXCEPT ![call[h].attempt] = answer]
               /\ Exact(call[h].attempt)
      BY <1>1, <1>2, <2>2, <3>2 DEF Ids
    <3> QED
      BY <2>2, <3>1, <3>2, AnswersWritten
  <2>4. ASSUME NEW p \in 1 .. Len(proposals') PROVE proposals'[p] # a
    BY <1>2, <2>1, <2>2, ProposalsKept DEF PlannedInv
  <2> QED
    BY <2>3, <2>4
<1>3. CASE a \notin Ids
  <2>1. Commits(h) /\ attempts' # attempts
    BY <1>3, OnlyCommitsChangeTheState DEF Ids
  <2>2. Plan(h) /\ a = Len(attempts) + 1
    <3>1. Plan(h) \/ Begin(h) \/ \E u \in Ids : MarkUnknown(h, u)
      BY <2>1 DEF Commits, Advance, AdvanceGate, Apply, Activity, Pause, Resume, Trigger, Interview
    <3>2. ~Plan(h) => Len(attempts') = Len(attempts)
      BY <1>1, <3>1 DEF Begin, MarkUnknown, IInv, TypeOK
    <3>3. Plan(h) => Len(attempts') = Len(attempts) + 1
      BY <1>1 DEF Plan, IInv, TypeOK
    <3> QED
      BY <1>1, <1>3, <3>2, <3>3 DEF Ids
  <2>3. result' = Append(result, None) /\ proposals' = proposals
    BY <2>2 DEF Plan, decisions
  <2>4. result'[a] = None
    BY <1>1, <2>2, <2>3, AppendProperties
  <2>5. \A p \in 1 .. Len(proposals) : proposals[p] \in Ids
    BY ElementOfSeq DEF IInv, TypeOK
  <2> QED
    BY <1>3, <2>3, <2>4, <2>5
<1> QED
  BY <1>2, <1>3

\* A receipt is never taken back.
LEMMA ReceiptsKept ==
    ASSUME NEW h \in Hosts, StepOf(h)
    PROVE  receipts \subseteq receipts'
BY DEF StepOf, Dispatch, Continue, Activity, RecoverReceipt, Enter, Reuse, Plan, Crash, Leave,
       Begin, WriteResult, WriteReceipt, Advance, Execute, TakeUp, AdvanceGate, RefuseGate,
       Propose, Record, Point, Apply, RefuseChoice, Pause, Resume, Interview, Trigger,
       MarkUnknown, Submit, Choose, store

\* Where a dispatch, a barrier, a death or a control leaves the call.
LEMMA CallIsTurned ==
    ASSUME IInv, NEW h \in Hosts
    PROVE  /\ Dispatch(h) \/ Enter(h) \/ Crash(h) \/ Activity(h) =>
                call'[h].at \in {"idle", "passed", "begin", "execute"}
           /\ Reuse(h) \/ Enter(h) \/ Crash(h) \/ Activity(h) => call'[h].at # "begin"
<1> USE DEF Do, Return, Idle, IInv, TypeOK
<1>2. Plan(h) => call'[h].at = "begin"
  BY DEF Plan
<1>3. Enter(h) => call'[h].at = "passed"
  BY DEF Enter
<1>4. Crash(h) => call'[h].at = "idle"
  BY DEF Crash
<1>5. Activity(h) => call'[h].at = "idle"
  <2>1. Pause(h) \/ Resume(h) => call'[h].at = "idle"
    BY DEF Pause, Resume
  <2>2. Trigger(h) => call'[h].at = "idle"
    BY DEF Trigger
  <2>3. \A p : Interview(h, p) => call'[h].at = "idle"
    BY DEF Interview
  <2> QED
    BY <2>1, <2>2, <2>3 DEF Activity
<1>6. Reuse(h) => call'[h].at \in {"idle", "execute"}
  BY DEF Reuse
<1> QED
  BY <1>2, <1>3, <1>4, <1>5, <1>6 DEF Dispatch

\* The call that goes on to a transition has written its receipt or found it.
LEMMA CallWithReceipt ==
    ASSUME IInv, ActiveInv, NEW h \in Hosts, StepOf(h), call'[h].at \in {"advance", "gate"}
    PROVE  call'[h].attempt \in receipts'
<1> USE DEF Do, Goto, Return, Idle, IInv, TypeOK
<1>1. CASE call'[h] = call[h]
  BY <1>1, ReceiptsKept DEF ActiveInv
<1>2. CASE WriteReceipt(h) \/ TakeUp(h)
  <2>1. call'[h].attempt = call[h].attempt /\ receipts' = receipts \cup {call[h].attempt}
    BY <1>2 DEF WriteReceipt, TakeUp
  <2> QED
    BY <2>1
<1>3. ASSUME NEW a \in Ids, NEW answer \in Answers, Submit(h, a, answer)
      PROVE  call'[h].attempt \in receipts'
  <2>1. /\ IncompleteIds = {} /\ attempts[a].node = run.node /\ result[a] # None
        /\ call'[h].attempt = a /\ receipts' = receipts
    BY <1>3 DEF Submit, MaySubmit, BarrierPasses, Exact, store
  <2> QED
    BY <2>1 DEF IncompleteIds, Incomplete
<1>4. CASE Leave(h) \/ Begin(h) \/ Advance(h) \/ AdvanceGate(h) \/ Execute(h) \/ RefuseGate(h)
  BY <1>4 DEF Leave, Begin, Advance, AdvanceGate, Transition, Execute, RefuseGate
<1>5. CASE WriteResult(h) \/ Propose(h) \/ Record(h) \/ Point(h) \/ Apply(h) \/ RefuseChoice(h)
  BY <1>5 DEF WriteResult, Propose, Record, Point, Apply, RefuseChoice
<1>6. CASE Dispatch(h) \/ Enter(h) \/ Crash(h) \/ Activity(h)
  BY <1>6, CallIsTurned
<1>7. ASSUME NEW p, NEW c, Choose(h, p, c) PROVE call'[h].at \notin {"advance", "gate"}
  BY <1>7 DEF Choose
<1>8. CASE RecoverReceipt(h) \/ \E a \in Ids : MarkUnknown(h, a)
  BY <1>1, <1>8 DEF RecoverReceipt, MarkUnknown
<1> QED
  BY <1>2, <1>3, <1>4, <1>5, <1>6, <1>7, <1>8 DEF StepOf, Continue

\* Only persist_node_dispatch makes a call begin a dispatch.
LEMMA CallThatBegins ==
    ASSUME IInv, NEW h \in Hosts, StepOf(h), call'[h].at = "begin"
    PROVE  Plan(h)
<1> USE DEF Do, Goto, Return, Idle, IInv, TypeOK
<1>1. CASE Leave(h) \/ Begin(h) \/ Advance(h) \/ AdvanceGate(h) \/ Execute(h) \/ RefuseGate(h)
  BY <1>1 DEF Leave, Begin, Advance, AdvanceGate, Transition, Execute, RefuseGate
<1>2. CASE WriteResult(h) \/ Propose(h) \/ Record(h) \/ Point(h) \/ Apply(h) \/ RefuseChoice(h)
  BY <1>2 DEF WriteResult, Propose, Record, Point, Apply, RefuseChoice
<1>3. CASE Reuse(h) \/ Enter(h) \/ Crash(h) \/ Activity(h) \/ WriteReceipt(h) \/ TakeUp(h)
  <2>1. CASE WriteReceipt(h) \/ TakeUp(h)
    BY <2>1 DEF WriteReceipt, TakeUp
  <2> QED
    BY <1>3, <2>1, CallIsTurned
<1>4. ASSUME NEW a, NEW answer, Submit(h, a, answer) PROVE call'[h].at # "begin"
  BY <1>4 DEF Submit
<1>5. ASSUME NEW p, NEW c, Choose(h, p, c) PROVE call'[h].at # "begin"
  BY <1>5 DEF Choose
<1>6. ASSUME NEW a \in Ids, MarkUnknown(h, a) PROVE call'[h].at # "begin"
  BY <1>6 DEF MarkUnknown
<1>7. CASE RecoverReceipt(h)
  BY <1>7 DEF RecoverReceipt
<1> QED
  BY <1>1, <1>2, <1>3, <1>4, <1>5, <1>6, <1>7 DEF StepOf, Continue, Dispatch

LEMMA ActiveStep ==
    ASSUME IInv, ActiveInv, NEW h \in Hosts, StepOf(h)
    PROVE  ActiveInv'
<1>1. ASSUME NEW a \in Ids', Exact(a)' PROVE run'.status = "ACTIVE" /\ run'.node # Last
  <2>1. CASE a \in Ids /\ Exact(a) /\ UNCHANGED <<run, attempts>>
    BY <2>1 DEF ActiveInv
  <2>2. CASE Begin(h)
    <3>1. run.status = "ACTIVE" /\ run.node # Last /\ Commit(run) /\ run \in Runs
      BY <2>2 DEF Begin, ActiveInv, IInv, TypeOK, Runs
    <3> QED
      BY <3>1, CommitTyped
  <2> QED
    BY <1>1, <2>1, <2>2, ExactArises
<1>2. ASSUME NEW k \in Hosts, call'[k].at = "begin" PROVE run'.status = "ACTIVE" /\ run'.node # Last
  <2>1. CASE k = h
    <3>1. Commit(run) /\ run \in Runs /\ run.status = "ACTIVE" /\ run.node # Last
      BY <1>2, <2>1, CallThatBegins DEF Plan, MayPlan, IInv, TypeOK, Runs
    <3> QED
      BY <3>1, CommitTyped
  <2>2. CASE k # h
    <3>1. call[k].at = "begin"
      BY <1>2, <2>2, OtherCalls
    <3>2. run' = run
      BY <2>2, <3>1, CommitsNeedTheLock, OnlyCommitsChangeTheState DEF Inside
    <3> QED
      BY <3>1, <3>2 DEF ActiveInv
  <2> QED
    BY <2>1, <2>2
<1>3. ASSUME NEW k \in Hosts, call'[k].at \in {"advance", "gate"} PROVE call'[k].attempt \in receipts'
  <2>1. CASE k = h
    BY <1>3, <2>1, CallWithReceipt
  <2>2. CASE k # h
    BY <1>3, <2>2, OtherCalls, ReceiptsKept DEF ActiveInv
  <2> QED
    BY <2>1, <2>2
<1> QED
  BY <1>1, <1>2, <1>3 DEF ActiveInv

LEMMA ReviewedStep ==
    ASSUME IInv, ReviewedInv, NEW h \in Hosts, StepOf(h)
    PROVE  ReviewedInv'
<1> SUFFICES ASSUME run'.node = "problem.ready.gate"
             PROVE  /\ Len(consumed') > 0
                    /\ attempts'[consumed'[Len(consumed')]].node = "problem.quality.review"
  BY DEF ReviewedInv
<1>1. consumed \in Seq(Ids) /\ Len(consumed) \in Nat
  BY DEF IInv, TypeOK
<1>2. CASE Advance(h) \/ AdvanceGate(h)
  <2>1. /\ call[h].attempt \in Ids /\ attempts[call[h].attempt].node = run.node
        /\ consumed' = Append(consumed, call[h].attempt) /\ attempts' = attempts
        /\ <<run.node, run'.node>> \in Edges
    BY <1>2, TransitionFacts DEF Exact
  <2>2. run.node = "problem.quality.review"
    BY <2>1 DEF Edges, Decision, Research, Planning, Last
  <2>3. Len(consumed') = Len(consumed) + 1 /\ consumed'[Len(consumed) + 1] = call[h].attempt
    BY <1>1, <2>1, AppendProperties
  <2> QED
    BY <1>1, <2>1, <2>2, <2>3
<1>3. CASE AnswersKept /\ NodeKept
  <2>1. run.node = "problem.ready.gate"
    BY <1>3 DEF NodeKept, Research, Planning
  <2>2. Len(consumed) > 0 /\ attempts[consumed[Len(consumed)]].node = "problem.quality.review"
    BY <2>1 DEF ReviewedInv
  <2>3. consumed[Len(consumed)] \in Ids /\ IsConsumed(consumed[Len(consumed)])
    BY <1>1, <2>2, ElementOfSeq DEF IsConsumed
  <2> QED
    BY <1>3, <2>2, <2>3 DEF AnswersKept
<1> QED
  BY <1>2, <1>3, StepKinds DEF StepOf

\* A step that commits nothing consumes nothing.
LEMMA AnswersStay ==
    ASSUME IInv, NEW h \in Hosts, StepOf(h), run' = run
    PROVE  AnswersKept
<1>1. CASE Advance(h) \/ AdvanceGate(h)
  <2>1. run'.version = run.version + 1 /\ run.version \in Nat
    BY <1>1, CommitFacts, TypeFacts DEF Commits, IInv
  <2> QED
    BY <2>1
<1> QED
  BY <1>1, StepKinds DEF StepOf

\* What a step of a Run that stays as it is writes for an exact attempt.
LEMMA GateIsAnswered ==
    ASSUME IInv, NEW h \in Hosts, StepOf(h), run' = run,
           NEW a \in Ids, Exact(a), run.node \in Gates
    PROVE  result'[a] \in GateAnswers \cup {result[a]}
<1>1. result \in Seq(Answers \cup {None}) /\ Len(result) = Len(attempts)
  BY DEF IInv, TypeOK
<1>2. CASE Plan(h)
  <2>1. run'.version = run.version + 1 /\ run.version \in Nat
    BY <1>2, CommitFacts, TypeFacts DEF Commits, IInv
  <2> QED
    BY <2>1
<1>3. ASSUME call[h].attempt # a,
             NEW answer, result' = [result EXCEPT ![call[h].attempt] = answer]
      PROVE  result'[a] = result[a]
  BY <1>1, <1>3 DEF Ids
<1>4. CASE WriteResult(h)
  <2>1. call[h].attempt # a
    BY <1>4 DEF WriteResult, IInv, InsideInv, Doing
  <2> QED
    BY <1>3, <1>4, <2>1 DEF WriteResult
<1>5. CASE Execute(h)
  <2>1. PICK answer \in GateAnswers : result' = [result EXCEPT ![call[h].attempt] = answer]
    BY <1>5 DEF Execute
  <2> QED
    BY <1>1, <1>3, <2>1 DEF Ids
<1> QED
  BY <1>2, <1>4, <1>5, AnswersWritten

LEMMA GateStep ==
    ASSUME IInv, PlannedInv, GateInv, NEW h \in Hosts, StepOf(h)
    PROVE  GateInv'
<1>1. ASSUME AnswersKept, run'.node = run.node
      PROVE  NoSlice' = NoSlice /\ GateAnswers' = GateAnswers
  BY <1>1, TakenKept DEF NoSlice, PlanRefused, GateAnswers
<1>2. ASSUME run' = run PROVE NoSlice' = NoSlice /\ GateAnswers' = GateAnswers
  BY <1>1, <1>2, AnswersStay
<1>3. ASSUME Plan(h) \/ Begin(h)
      PROVE  NoSlice' = NoSlice /\ GateAnswers' = GateAnswers /\ run'.node = run.node
  <2>1. AnswersKept
    BY <1>3, StepKinds DEF StepOf, Plan, Begin, Advance, AdvanceGate
  <2>2. run'.node = run.node
    BY <1>3, NodeOfCommit DEF Plan, Begin, IInv, TypeOK, Runs
  <2> QED
    BY <1>1, <2>1, <2>2
<1>4. ASSUME NEW a \in Ids', Exact(a)'
      PROVE  ~NoSlice' /\ (run'.node \in Gates => result'[a] \in GateAnswers' \cup {None})
  <2>1. CASE a \in Ids /\ Exact(a) /\ UNCHANGED <<run, attempts>>
    BY <1>2, <2>1, GateIsAnswered DEF GateInv
  <2>2. CASE Begin(h) /\ a = call[h].attempt
    <3>1. a \in Ids /\ result'[a] = None /\ ~NoSlice
      BY <2>2 DEF Begin, store, IInv, InsideInv, Doing, PlannedInv, GateInv
    <3> QED
      BY <1>3, <2>2, <3>1
  <2> QED
    BY <1>4, <2>1, <2>2, ExactArises
<1>5. ASSUME NEW k \in Hosts, call'[k].at = "begin" PROVE ~NoSlice'
  <2>1. CASE k = h
    BY <1>3, <1>5, <2>1, CallThatBegins DEF Plan, MayPlan
  <2>2. CASE k # h
    <3>1. call[k].at = "begin"
      BY <1>5, <2>2, OtherCalls
    <3>2. run' = run
      BY <2>2, <3>1, CommitsNeedTheLock, OnlyCommitsChangeTheState DEF Inside
    <3> QED
      BY <1>2, <3>1, <3>2 DEF GateInv
  <2> QED
    BY <2>1, <2>2
<1> QED
  BY <1>4, <1>5 DEF GateInv

LEMMA BoundsStep ==
    ASSUME IInv, WithinBounds, NEW h \in Hosts, StepOf(h)
    PROVE  WithinBounds'
<1>1. CASE records' = records /\ Len(attempts') = Len(attempts)
  BY <1>1 DEF WithinBounds
<1>2. CASE Record(h)
  BY <1>2, AppendProperties DEF Record, MayRecord, WithinBounds, IInv, TypeOK
<1>3. CASE Plan(h)
  BY <1>3 DEF Plan, MayPlan, WithinBounds, IInv, TypeOK, decisions
<1>4. ASSUME Begin(h) \/ \E a \in Ids : MarkUnknown(h, a)
      PROVE  records' = records /\ Len(attempts') = Len(attempts)
  BY <1>4 DEF Begin, MarkUnknown, IInv, TypeOK, decisions
<1> QED
  BY <1>1, <1>2, <1>3, <1>4
     DEF StepOf, Dispatch, Continue, Activity, RecoverReceipt, Enter, Reuse, Crash, Leave,
         WriteResult, WriteReceipt, Advance, Execute, TakeUp, AdvanceGate, RefuseGate,
         Propose, Point, Apply, RefuseChoice, Pause, Resume, Interview, Trigger,
         Submit, Choose, decisions

\* A proposal of an exact dispatch was put before the dispatch began, or its
\* dispatch was exact before.
LEMMA ProposedExact ==
    ASSUME IInv, IInv', PlannedInv, NEW h \in Hosts, StepOf(h),
           NEW p \in 1 .. Len(proposals'), NEW a \in Ids', a = proposals'[p], Exact(a)'
    PROVE  /\ a \in Ids /\ Exact(a) /\ UNCHANGED <<run, attempts>>
           /\ p \in 1 .. Len(proposals) => proposals[p] = a
<1>1. ASSUME Begin(h), a = call[h].attempt PROVE FALSE
  <2>1. call[h].attempt \in Ids /\ attempts[call[h].attempt].status = "PLANNED"
    BY <1>1 DEF Begin, IInv, InsideInv, Doing
  <2>2. proposals' = proposals
    BY <1>1 DEF Begin, decisions
  <2> QED
    BY <1>1, <2>1, <2>2 DEF PlannedInv
<1> QED
  BY <1>1, ExactArises, ProposalsKept

LEMMA ChosenStep ==
    ASSUME IInv, IInv', PlannedInv, ChosenInv, NEW h \in Hosts, StepOf(h)
    PROVE  ChosenInv'
<1>1. ASSUME NEW p \in chosen', NEW a \in Ids', a = proposals'[p], Exact(a)'
      PROVE  FALSE
  <2>1. p \in 1 .. Len(proposals')
    BY DEF IInv, TypeOK
  <2>2. /\ a \in Ids /\ Exact(a) /\ UNCHANGED <<run, attempts>>
        /\ p \in 1 .. Len(proposals) => proposals[p] = a
    BY <1>1, <2>1, ProposedExact
  <2>3. CASE Apply(h)
    <3>1. run'.version = run.version + 1 /\ run.version \in Nat
      BY <2>3, CommitFacts DEF Commits, IInv, TypeOK
    <3> QED
      BY <2>2, <3>1
  <2>4. CASE ~Apply(h)
    <3>1. p \in chosen /\ p \in 1 .. Len(proposals)
      BY <2>1, <2>4, ProposalsWritten, ProposalsKept DEF IInv, TypeOK
    <3> QED
      BY <2>2, <3>1 DEF ChosenInv
  <2> QED
    BY <2>3, <2>4
<1>2. \A p \in 1 .. Len(proposals') : proposals'[p] \in Ids'
  BY ElementOfSeq DEF IInv, TypeOK
<1>3. \A p \in chosen' : ~Exact(proposals[p])'
  <2>1. chosen' \subseteq 1 .. Len(proposals')
    BY DEF IInv, TypeOK
  <2> QED
    BY <1>1, <1>2, <2>1
<1>4. ASSUME NEW p \in 1 .. Len(proposals')
      PROVE  attempts'[proposals'[p]].node = Decision
  <2>1. CASE p \in 1 .. Len(proposals)
    <3>1. proposals'[p] = proposals[p] /\ proposals[p] \in Ids
      BY <2>1, ProposalsKept, ElementOfSeq DEF IInv, TypeOK
    <3>2. attempts'[proposals[p]].node = attempts[proposals[p]].node
      BY <3>1, CommitFacts, OnlyCommitsChangeTheState
    <3> QED
      BY <2>1, <3>1, <3>2 DEF ChosenInv
  <2>2. CASE p \notin 1 .. Len(proposals)
    <3>1. Propose(h) /\ proposals'[p] = call[h].attempt /\ Exact(call[h].attempt)
      BY <2>2, ProposalsKept
    <3>2. run.node = Decision /\ attempts' = attempts
      BY <3>1 DEF Propose, IInv, InsideInv, Doing
    <3> QED
      BY <3>1, <3>2 DEF Exact
  <2> QED
    BY <2>1, <2>2
<1> QED
  BY <1>3, <1>4 DEF ChosenInv

\* What becomes of the answer a call carries: the call still has it, or it died,
\* or put it to the Owner, or used it in a transition, or the problem gate
\* refused it.
LEMMA CarrierStep ==
    ASSUME IInv, NEW h \in Hosts, StepOf(h),
           NEW a \in Ids, Exact(a), Carries(h, a), UNCHANGED <<run, attempts>>
    PROVE  \/ a \in died'
           \/ Carries(h, a)'
           \/ run'.node = "problem.ready.gate"
           \/ \E p \in 1 .. Len(proposals') : proposals'[p] = a /\ p \notin chosen'
<1> USE DEF Carries, Do, Goto, Return, IInv, TypeOK
<1>1. ~Commits(h)
  BY CommitFacts
<1>2. CASE WriteReceipt(h)
  <2>1. PICK where \in {"gate", "propose", "advance"} :
          call' = [call EXCEPT ![h] = [call[h] EXCEPT !.at = where]]
    BY <1>2 DEF WriteReceipt
  <2>2. call'[h].at = where /\ call'[h].attempt = a
    BY <2>1
  <2> QED
    BY <2>2
<1>3. CASE Crash(h)
  BY <1>3 DEF Crash
<1>4. CASE Propose(h)
  <2>1. /\ Len(proposals') = Len(proposals) + 1 /\ proposals'[Len(proposals) + 1] = a
        /\ chosen' = chosen /\ chosen \subseteq 1 .. Len(proposals)
        /\ Len(proposals) \in Nat
    BY <1>4, AppendProperties DEF Propose
  <2>2. Len(proposals) + 1 \in 1 .. Len(proposals') /\ Len(proposals) + 1 \notin chosen'
    BY <2>1
  <2> QED
    BY <2>1, <2>2
<1>5. CASE RefuseGate(h)
  BY <1>5 DEF RefuseGate, GateRefuses, AttemptInv
<1>6. CASE RecoverReceipt(h)
  BY <1>6 DEF RecoverReceipt
<1> QED
  BY <1>1, <1>2, <1>3, <1>4, <1>5, <1>6
     DEF StepOf, Commits, Dispatch, Continue, Enter, Reuse, Leave, WriteResult, Execute, TakeUp,
         Record, Point, Apply, RefuseChoice, Submit, Choose

LEMMA DiedKept == ASSUME NEW h \in Hosts, StepOf(h) PROVE died \subseteq died'
BY DEF StepOf, Dispatch, Continue, Activity, RecoverReceipt, Enter, Reuse, Plan, Crash, Leave,
       Begin, WriteResult, WriteReceipt, Advance, Execute, TakeUp, AdvanceGate, RefuseGate,
       Propose, Record, Point, Apply, RefuseChoice, Pause, Resume, Interview, Trigger,
       MarkUnknown, Submit, Choose, history

LEMMA CarriedStep ==
    ASSUME IInv, IInv', PlannedInv, CarriedInv, NEW h \in Hosts, StepOf(h)
    PROVE  CarriedInv'
<1> DEFINE Kept(a) ==
        \/ a \in died'
        \/ \E k \in Hosts : Carries(k, a)'
        \/ run'.node \in {"problem.ready.gate", "prd.generate"}
        \/ \E p \in 1 .. Len(proposals') : proposals'[p] = a /\ p \notin chosen'
<1>1. ASSUME NEW a \in Ids', Exact(a)', result'[a] # None PROVE Kept(a)
  <2>1. CASE Begin(h) /\ a = call[h].attempt
    <3>1. a \in Ids /\ attempts[a].status = "PLANNED" /\ result' = result
      BY <2>1 DEF Begin, IInv, InsideInv, Doing, store
    <3> QED
      BY <1>1, <3>1 DEF PlannedInv
  <2>2. CASE a \in Ids /\ Exact(a) /\ UNCHANGED <<run, attempts>>
    <3>1. CASE result[a] = None
      <4>1. ~Plan(h)
        <5>1. Plan(h) => run'.version = run.version + 1
          BY CommitFacts DEF Commits
        <5>2. run.version \in Nat
          BY DEF IInv, TypeOK
        <5> QED
          BY <2>2, <5>1, <5>2
      <4>2. /\ WriteResult(h) \/ Execute(h)
            /\ \E answer \in Answers : result' = [result EXCEPT ![call[h].attempt] = answer]
            /\ call' = [call EXCEPT ![h] = [call[h] EXCEPT !.at = "receipt"]]
        BY <1>1, <3>1, <4>1, AnswersWritten
      <4>3. call[h].attempt = a
        <5>1. result \in Seq(Answers \cup {None}) /\ a \in 1 .. Len(result)
          BY <2>2 DEF IInv, TypeOK, Ids
        <5> QED
          BY <1>1, <3>1, <4>2, <5>1
      <4> QED
        BY <4>2, <4>3 DEF Carries, IInv, TypeOK
    <3>2. CASE a \in died \/ run.node \in {"problem.ready.gate", "prd.generate"}
      BY <2>2, <3>2, DiedKept
    <3>3. ASSUME NEW k \in Hosts, Carries(k, a) PROVE Kept(a)
      <4>1. CASE k = h
        BY <2>2, <3>3, <4>1, CarrierStep
      <4>2. CASE k # h
        BY <3>3, <4>2, OtherCalls DEF Carries
      <4> QED
        BY <4>1, <4>2
    <3>4. ASSUME NEW p \in 1 .. Len(proposals), proposals[p] = a, p \notin chosen PROVE Kept(a)
      <4>1. ~Apply(h)
        <5>1. Apply(h) => run'.version = run.version + 1
          BY CommitFacts DEF Commits
        <5>2. run.version \in Nat
          BY DEF IInv, TypeOK
        <5> QED
          BY <2>2, <5>1, <5>2
      <4>2. chosen' = chosen
        BY <4>1, ProposalsWritten
      <4> QED
        BY <3>4, <4>2, ProposalsKept
    <3> QED
      BY <2>2, <3>1, <3>2, <3>3, <3>4 DEF CarriedInv
  <2> QED
    BY <1>1, <2>1, <2>2, ExactArises
<1> QED
  BY <1>1 DEF CarriedInv

LEMMA InitWork == Init => WorkInv
BY DEF Init, WorkInv, PlannedInv, ActiveInv, ReviewedInv, WithinBounds, ChosenInv, CarriedInv,
       GateInv, NoSlice, Ids, Idle, Decision, Research

LEMMA NextKeepsWork == IInv /\ IInv' /\ WorkInv /\ [Next]_vars => WorkInv'
<1> SUFFICES ASSUME IInv, IInv', WorkInv, [Next]_vars PROVE WorkInv'
  OBVIOUS
<1>1. CASE UNCHANGED vars
  <2>1. /\ UNCHANGED <<run, attempts, consumed, result, receipts, proposals, records,
                       chosen, call, died>>
        /\ Ids' = Ids /\ \A a : Exact(a)' <=> Exact(a)
    BY <1>1 DEF vars, store, decisions, history, Ids, Exact
  <2>2. \A h, a : Carries(h, a)' <=> Carries(h, a)
    BY <2>1 DEF Carries
  <2>3. Taken' = Taken
    BY <2>1 DEF Taken
  <2>4. NoSlice' = NoSlice /\ GateAnswers' = GateAnswers
    BY <2>1, <2>3 DEF NoSlice, GateAnswers, PlanRefused, Newest
  <2> QED
    BY <2>1, <2>2, <2>4 DEF WorkInv, PlannedInv, ActiveInv, ReviewedInv, WithinBounds,
                            ChosenInv, CarriedInv, GateInv
<1>2. CASE Next
  <2>1. PICK h \in Hosts : StepOf(h)
    BY <1>2, SomeStep
  <2> QED
    BY <2>1, PlannedStep, ActiveStep, ReviewedStep, BoundsStep, ChosenStep, CarriedStep,
       GateStep
       DEF WorkInv
<1> QED
  BY <1>1, <1>2

----------------------------------------------------------------------------
(* The refinement *)

\* The answer of a gate was READY, and the newest review or plan allowed it.
LEMMA TransitionUnblocked ==
    ASSUME IInv, GateInv, NEW h \in Hosts, Advance(h) \/ AdvanceGate(h)
    PROVE  ~Path!Blocked
<1> DEFINE a == call[h].attempt
<1>1. /\ a \in Ids /\ Exact(a) /\ result[a] # None
      /\ run.node = "problem.ready.gate" => result[a] = "READY"
  <2>1. result[a] \in Answers
    BY TransitionFacts
  <2> QED
    BY <2>1, TransitionFacts DEF Advance, AdvanceGate, Transition, MayTransition
<1> SUFFICES ASSUME NEW b \in Blocks, b[1] = run.node, b[3] \in Newest(b[2]) PROVE FALSE
  <2>1. ASSUME NEW b \in Blocks, NEW i \in 1 .. Len(Taken),
               Taken[i] = [node |-> b[2], answer |-> b[3]],
               \A j \in 1 .. Len(Taken) : Taken[j].node = b[2] => j <= i
        PROVE  b[3] \in Newest(b[2])
    BY <2>1 DEF Newest
  <2> QED
    BY <2>1 DEF Path!Blocked
<1>2. CASE run.node = "problem.ready.gate"
  <2>1. b[2] = "problem.quality.review" /\ b[3] = "NOT_READY"
    BY <1>2 DEF Blocks
  <2>2. "READY" \in Newest("problem.quality.review")
    BY <1>1, <1>2 DEF GateInv, GateAnswers, Gates
  <2>3. "READY" = "NOT_READY"
    BY <2>1, <2>2, NewestIsOne
  <2> QED
    BY <2>3
<1>3. CASE run.node = "plan.ready.gate"
  <2>1. PlanRefused
    BY <1>3 DEF Blocks, PlanRefused
  <2> QED
    BY <1>1, <1>3, <2>1 DEF GateInv, GateAnswers, Gates
<1>4. CASE run.node = "prd.generate"
  <2>1. NoSlice
    BY <1>4 DEF Blocks, NoSlice
  <2> QED
    BY <1>1, <2>1 DEF GateInv
<1> QED
  BY <1>2, <1>3, <1>4 DEF Blocks

LEMMA TransitionAnswers ==
    ASSUME IInv, IInv', GateInv, NEW h \in Hosts, Advance(h) \/ AdvanceGate(h)
    PROVE  Path!Next
<1> DEFINE a == call[h].attempt
<1> DEFINE new == [node |-> run.node, answer |-> result[a]]
<1>1. /\ a \in Ids /\ attempts[a].node = run.node /\ result[a] \in Answers
      /\ consumed' = Append(consumed, a) /\ UNCHANGED <<attempts, result>>
      /\ run.node # Decision /\ <<run.node, run'.node>> \in Edges
  BY TransitionFacts DEF Exact
<1>2. consumed \in Seq(Ids) /\ run.node \in Nodes
  BY DEF IInv, TypeOK
<1>3. /\ Len(consumed') = Len(consumed) + 1 /\ Len(consumed) \in Nat
      /\ \A i \in 1 .. Len(consumed) : consumed'[i] = consumed[i]
      /\ consumed'[Len(consumed) + 1] = a
  BY <1>1, <1>2, AppendProperties
<1>4. Taken \in Seq(Answered) /\ Len(Taken) = Len(consumed)
  BY TakenTyped
<1>5. Taken' \in Seq(Answered) /\ Len(Taken') = Len(consumed) + 1
  <2>1. (Taken \in Seq(Answered) /\ Len(Taken) = Len(consumed))'
    BY TakenTyped, PTL
  <2> QED
    BY <1>3, <2>1 DEF Answered
<1>6. new \in Answered
  BY <1>1, <1>2 DEF Answered
<1>7. /\ Append(Taken, new) \in Seq(Answered)
      /\ Len(Append(Taken, new)) = Len(consumed) + 1
      /\ \A i \in 1 .. Len(consumed) : Append(Taken, new)[i] = Taken[i]
      /\ Append(Taken, new)[Len(consumed) + 1] = new
  BY <1>4, <1>6, AppendProperties
<1>8. \A i \in 1 .. Len(consumed) : Taken'[i] = Taken[i]
  BY <1>1, <1>3 DEF Taken
<1>9. Taken'[Len(consumed) + 1] = new
  BY <1>1, <1>3 DEF Taken
<1>10. Taken' = Append(Taken, new)
  <2>1. \A i \in 1 .. Len(Taken') : Taken'[i] = Append(Taken, new)[i]
    BY <1>3, <1>5, <1>7, <1>8, <1>9
  <2> HIDE DEF new
  <2> QED
    BY <1>5, <1>7, <2>1, SeqEqual
<1> QED
  BY <1>1, <1>10, TransitionUnblocked DEF Path!Next, Path!Answer

LEMMA StepRefines == IInv /\ IInv' /\ GateInv /\ [Next]_vars => [Path!Next]_<<run.node, Taken>>
<1> SUFFICES ASSUME IInv, IInv', GateInv, [Next]_vars
             PROVE  Path!Next \/ (run'.node = run.node /\ Taken' = Taken)
  OBVIOUS
<1>1. CASE UNCHANGED vars
  BY <1>1 DEF vars, store, Taken
<1>2. CASE Next
  <2>1. PICK h \in Hosts : Advance(h) \/ AdvanceGate(h) \/ (AnswersKept /\ NodeKept)
    BY <1>2, StepKinds DEF Next
  <2>2. CASE Advance(h) \/ AdvanceGate(h)
    BY <2>2, TransitionAnswers
  <2>3. CASE AnswersKept /\ NodeKept
    <3>1. Taken' = Taken
      BY <2>3, TakenKept
    <3>2. <<Decision, Research>> \in Edges /\ <<Decision, Planning>> \in Edges
      BY DEF Edges
    <3> QED
      BY <2>3, <3>1, <3>2 DEF NodeKept, Path!Next, Path!Choose
  <2> QED
    BY <2>1, <2>2, <2>3
<1> QED
  BY <1>1, <1>2

\* Every Run takes a path of the graph, whatever its calls and deaths, and none
\* leads past a gate or prd.generate over what they refuse.
THEOREM RunFollowsTheGraph == Spec => ImplementsPath
<1>1. Init => Path!Init
  BY DEF Init, Path!Init, Taken
<1>2. IInv /\ [Next]_vars => IInv'
  BY NextKeepsIInv
<1>3. WorkInv => GateInv
  BY DEF WorkInv
<1> QED
  BY <1>1, <1>2, <1>3, InitIInv, InitWork, NextKeepsWork, StepRefines, PTL
     DEF Spec, ImplementsPath, Path!Spec

----------------------------------------------------------------------------
(* What the calls, and a Run that no call is busy with, can do *)

HasNext == \E next \in Nodes : <<run.node, next>> \in Edges

\* A step of Continue is open to the call once the lock is free for it; the
\* steps that are not named here have no further guard.
CallGoesOn(h) ==
    LET a == call[h].attempt IN
    /\ call[h].at \in Inside => holder = h
    /\ call[h].at = "advance" => MayTransition(a) /\ HasNext
    /\ call[h].at = "execute" =>
         (MayExecute(a) /\ GateAnswers # {}) \/ MayTakeUp(a) \/ GateRefuses(h)
    /\ call[h].at = "gate" => (MayTransition(a) /\ HasNext) \/ GateRefuses(h)
    /\ call[h].at = "record" => OnRecord(h) \/ MayRecord(h) \/ RecordRefused(h)

CallsGoOn == \A h \in Hosts : CallGoesOn(h)

Quiet == holder = None /\ \A h \in Hosts : call[h].at \in {"idle", "passed"}

\* The guards of the recovery, of the dispatch, of an answer that is handed in,
\* of the two gates and of the Owner's choice.
CanMoveOn ==
    \/ \E a \in IncompleteIds : Exact(a) /\ \A b \in IncompleteIds : b <= a
    \/ /\ BarrierPasses
       /\ \/ MayPlan
          \/ \E a \in Ids, answer \in Answers : MaySubmit(a, answer)
          \/ \E a \in Ids : run.node \in Gates /\ MayExecute(a) /\ GateAnswers # {}
          \/ \E a \in Ids : MayTakeUp(a) /\ MayTransition(a) /\ HasNext
          \/ /\ run.node = Decision /\ Len(records) = pointer /\ pointer < MaxChoices
             /\ \E p \in 1 .. Len(proposals) : p \notin chosen

WorkIsLeft == Quiet => Stopped \/ CanMoveOn

LEMMA NextNode == ASSUME IInv, run.node # Last PROVE HasNext
<1>1. run.node \in Nodes
  BY DEF IInv, TypeOK
<1> QED
  BY <1>1, NodesAre DEF HasNext, Edges, Decision, Research, Planning, Last

\* There is a review for the problem gate to answer with.
LEMMA GateHasAnswer == ASSUME IInv, ReviewedInv, ~PlanRefused PROVE GateAnswers # {}
<1>1. CASE run.node = "problem.ready.gate"
  <2> DEFINE reviews == {i \in 1 .. Len(Taken) : Taken[i].node = "problem.quality.review"}
  <2>1. Len(consumed) \in Nat /\ Len(Taken) = Len(consumed)
    BY DEF IInv, TypeOK, Taken
  <2>2. Len(Taken) \in reviews /\ \A j \in reviews : j <= Len(Taken)
    BY <1>1, <2>1 DEF ReviewedInv, Taken
  <2>3. Taken[Len(Taken)].answer \in Newest("problem.quality.review")
    BY <2>2 DEF Newest
  <2> QED
    BY <1>1, <2>3 DEF GateAnswers
<1>2. CASE run.node # "problem.ready.gate"
  BY <1>2 DEF GateAnswers
<1> QED
  BY <1>1, <1>2

LEMMA EveryCallGoesOn == IInv /\ WorkInv => CallsGoOn
<1> SUFFICES ASSUME IInv, WorkInv, NEW h \in Hosts PROVE CallGoesOn(h)
  BY DEF CallsGoOn
<1> DEFINE a == call[h].attempt
<1>1. call[h].at \in Inside => holder = h
  BY DEF IInv, HolderInv
<1>2. ASSUME a \in Ids, Exact(a)
      PROVE  ~IsConsumed(a) /\ run.status = "ACTIVE" /\ HasNext /\ run.node \in Nodes
  BY <1>2, NextNode DEF IInv, AttemptInv, WorkInv, ActiveInv, TypeOK
<1>3. ASSUME call[h].at = "advance" PROVE MayTransition(a) /\ HasNext
  <2>1. a \in Ids /\ Exact(a) /\ run.node \notin Gates /\ a \in receipts
    BY <1>3 DEF IInv, InsideInv, Doing, WorkInv, ActiveInv
  <2> QED
    BY <1>2, <2>1 DEF MayTransition, Gates
<1>4. ASSUME call[h].at \in {"execute", "gate"}, Exact(a)
      PROVE  a \in Ids /\ run.node \in {"problem.ready.gate", "plan.ready.gate"}
  BY <1>4 DEF IInv, OutsideInv, Exact, Gates
<1>5. ASSUME call[h].at = "execute"
      PROVE  (MayExecute(a) /\ GateAnswers # {}) \/ MayTakeUp(a) \/ GateRefuses(h)
  <2>1. CASE ~Exact(a)
    BY <1>5, <2>1 DEF GateRefuses
  <2>2. CASE PlanRefused
    BY <1>5, <2>2 DEF GateRefuses
  <2>3. CASE Exact(a) /\ ~PlanRefused
    <3>1. GateAnswers # {}
      BY <2>3, GateHasAnswer DEF WorkInv
    <3> QED
      BY <1>2, <1>4, <1>5, <2>3, <3>1 DEF MayExecute, MayTakeUp, GateRefuses
  <2> QED
    BY <2>1, <2>2, <2>3
<1>6. ASSUME call[h].at = "gate" PROVE (MayTransition(a) /\ HasNext) \/ GateRefuses(h)
  <2>1. a \in receipts
    BY <1>6 DEF WorkInv, ActiveInv
  <2> QED
    BY <1>2, <1>4, <1>6, <2>1 DEF MayTransition, GateRefuses
<1>7. OnRecord(h) \/ MayRecord(h) \/ RecordRefused(h)
  <2>1. pointer \in Nat /\ Len(records) \in Nat /\ pointer <= Len(records)
        /\ Len(records) <= MaxChoices
    BY DEF IInv, TypeOK, WorkInv, WithinBounds
  <2> QED
    BY <2>1 DEF MayRecord, RecordRefused
<1> QED
  BY <1>1, <1>3, <1>5, <1>6, <1>7 DEF CallGoesOn

LEMMA QuietRunsHaveWork == IInv /\ WorkInv => WorkIsLeft
<1> SUFFICES ASSUME IInv, WorkInv, Quiet, ~Stopped PROVE CanMoveOn
  BY DEF WorkIsLeft
<1>1. /\ run.node # Last /\ run.status = "ACTIVE" /\ ~Stranded /\ ~NotReady
      /\ ~PlanRefused /\ ~NoSlice /\ ~NoMoreRecords /\ ~Refused /\ Len(attempts) # MaxAttempts
  BY DEF Stopped
<1>2. /\ pointer \in Nat /\ Len(records) \in Nat /\ pointer <= Len(records)
      /\ Len(records) <= MaxChoices /\ Len(attempts) \in Nat /\ Len(attempts) <= MaxAttempts
  BY DEF IInv, TypeOK, WorkInv, WithinBounds
<1>3. CASE IncompleteIds # {}
  <2>1. PICK a \in IncompleteIds : Exact(a)
    BY <1>1, <1>3 DEF Refused
  <2>2. \A b \in IncompleteIds : b = a
    BY <1>1, <2>1 DEF Refused, IncompleteIds, IInv, AttemptInv
  <2>3. a \in Nat
    BY <1>2, <2>1 DEF IncompleteIds, Ids
  <2> QED
    BY <2>1, <2>2, <2>3 DEF CanMoveOn
<1>4. CASE IncompleteIds = {} /\ \A a \in Ids : ~Exact(a)
  BY <1>1, <1>2, <1>4 DEF CanMoveOn, BarrierPasses, Refused, MayPlan
<1>5. ASSUME IncompleteIds = {}, NEW a \in Ids, Exact(a) PROVE CanMoveOn
  <2>1. BarrierPasses
    BY <1>1, <1>5 DEF BarrierPasses, Refused
  <2>2. CASE result[a] = None
    <3>1. CASE run.node \in Gates
      BY <1>1, <1>5, <2>1, <2>2, <3>1, GateHasAnswer DEF CanMoveOn, MayExecute, WorkInv
    <3>2. CASE run.node \notin Gates
      <4>1. MaySubmit(a, "READY")
        BY <1>1, <1>5, <2>2, <3>2 DEF MaySubmit
      <4> QED
        BY <1>5, <2>1, <4>1 DEF CanMoveOn, Answers
    <3> QED
      BY <3>1, <3>2
  <2>3. CASE result[a] # None
    <3>1. a \in receipts /\ ~IsConsumed(a) /\ result[a] \in Answers
      <4>1. a \in receipts
        BY <1>5, <2>3 DEF IncompleteIds, Incomplete, Exact
      <4>2. result[a] \in Answers
        BY <2>3, TypeFacts DEF IInv
      <4> QED
        BY <1>5, <4>1, <4>2 DEF IInv, AttemptInv
    <3>2. \A h \in Hosts : ~Carries(h, a)
      BY DEF Quiet, Carries
    <3>3. \/ run.node \in {"problem.ready.gate", "prd.generate"}
          \/ \E p \in 1 .. Len(proposals) : proposals[p] = a /\ p \notin chosen
      BY <1>1, <1>5, <2>3, <3>2 DEF WorkInv, CarriedInv, Stranded
    <3>4. CASE run.node = "prd.generate"
      <4>1. MaySubmit(a, "READY")
        BY <1>1, <1>5, <3>4 DEF MaySubmit, Gates
      <4> QED
        BY <1>5, <2>1, <4>1 DEF CanMoveOn, Answers
    <3>5. CASE run.node = "problem.ready.gate"
      <4>1. result[a] = "READY"
        BY <1>1, <1>5, <3>1, <3>5 DEF NotReady, Answers
      <4>2. MayTakeUp(a) /\ MayTransition(a) /\ HasNext
        BY <1>1, <1>5, <2>3, <3>1, <3>5, <4>1, NextNode DEF MayTakeUp, MayTransition
      <4> QED
        BY <1>5, <2>1, <4>2 DEF CanMoveOn
    <3>6. ASSUME NEW p \in 1 .. Len(proposals), proposals[p] = a, p \notin chosen
          PROVE  CanMoveOn
      <4>1. run.node = Decision
        BY <1>5, <3>6 DEF Exact, WorkInv, ChosenInv
      <4>2. Len(records) = pointer /\ pointer < MaxChoices
        BY <1>1, <1>2, <4>1 DEF NoMoreRecords
      <4> QED
        BY <2>1, <3>6, <4>1, <4>2 DEF CanMoveOn
    <3> QED
      BY <3>3, <3>4, <3>5, <3>6
  <2> QED
    BY <2>2, <2>3
<1> QED
  BY <1>3, <1>4, <1>5

\* No call of any Host is stuck half-way, whatever the others did in between:
\* submit_and_advance, the two gates and apply_owner_choice can always take
\* their next step, or refuse and return.
THEOREM CallsAreNeverStuck == Spec => []CallsGoOn
BY InitIInv, InitWork, NextKeepsIInv, NextKeepsWork, EveryCallGoesOn, PTL DEF Spec

\* Whatever was interrupted, when no call is busy a Run has stopped for one of
\* the named reasons (a refused plan or one without its Slice among them), or the barrier, a dispatch, an answer, a gate or the
\* Owner can take it on: it is never at a node with nothing left to do.
THEOREM WorkIsAlwaysLeft == Spec => []WorkIsLeft
BY InitIInv, InitWork, NextKeepsIInv, NextKeepsWork, QuietRunsHaveWork, PTL DEF Spec

=============================================================================
