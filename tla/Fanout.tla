------------------------------- MODULE Fanout -------------------------------
(***************************************************************************)
(* A review fan-out: a plan for one Candidate with its workers, executed,  *)
(* cancelled and joined by calls that may come in any order and more than  *)
(* once, and die between their writes.  The calls take the Run's lock, but *)
(* run no barrier.  (src/src/bpg: fanout.py, state_controller.py)          *)
(*                                                                         *)
(* A Candidate is told here by its document: a new generation of the same  *)
(* document does not make a result stale.  What a worker found is left     *)
(* out, and so are the joined/ files, which nothing reads; the checks of   *)
(* a submitted result against the persisted one reduce to the worker.      *)
(***************************************************************************)
EXTENDS CandidateRun, Sequences

VARIABLES
    planned,    \* fanout/<plan>/plan.json: the document; None
    status,     \* fanout/<plan>/status.json: the workers' attempts; None
    results,    \* fanout/<plan>/results: the workers that have one
    delivered   \* history: accepted findings, as they were answered

fanout == <<planned, status, results, delivered>>

Statuses == {"PENDING", "DISPATCHED", "RESULT_PERSISTED", "FAILED", "TIMED_OUT",
             "CANCELLED", "ACCEPTED"}

FanoutInit ==
    /\ planned = [p \in Plans |-> None]
    /\ status = [p \in Plans |-> None]
    /\ results = [p \in Plans |-> {}]
    /\ delivered = <<>>

Begin(h, p, where, workers) ==
    /\ call[h].at = "idle" /\ Lock!Take(h)
    /\ Do(h, [Idle EXCEPT !.at = where, !.plan = p, !.workers = workers])

----------------------------------------------------------------------------
(* persist_fanout_plan *)

\* plan.json, for the current Candidate; one that is there must be equal.
PersistPlan(h, p) ==
    /\ Begin(h, p, "status", {})
    /\ run.tree # None /\ p \in bound.plans
    /\ planned[p] \in {None, run.tree.doc}
    /\ planned' = [planned EXCEPT ![p] = run.tree.doc]
    /\ UNCHANGED <<run, crashes, pauses, bound, status, results, delivered>>

\* status.json
PersistStatus(h) ==
    LET p == call[h].plan IN
    /\ call[h].at = "status"
    /\ status' = [status EXCEPT ![p] =
           IF status[p] = None THEN [w \in Workers |-> "PENDING"] ELSE @]
    /\ Goto(h, "register")
    /\ UNCHANGED <<holder, run, crashes, pauses, bound, planned, results, delivered>>

\* register_fanout_plan
Register(h) ==
    LET p == call[h].plan IN
    /\ call[h].at = "register"
    /\ IF p \in run.plans THEN UNCHANGED run ELSE Commit([run EXCEPT !.plans = @ \cup {p}])
    /\ Lock!Release(h) /\ Return(h)
    /\ UNCHANGED <<crashes, pauses, bound, fanout>>

----------------------------------------------------------------------------
(* execute_fanout *)

\* The PENDING workers are marked before any is called.
Execute(h, p) ==
    /\ planned[p] # None /\ status[p] # None
    /\ LET pending == {w \in Workers : status[p][w] = "PENDING"} IN
        /\ Begin(h, p, "work", pending)
        /\ status' = [status EXCEPT ![p] =
               [w \in Workers |-> IF w \in pending THEN "DISPATCHED" ELSE @[w]]]
    /\ UNCHANGED <<run, crashes, pauses, bound, planned, results, delivered>>

\* A worker answers in time; the parent writes its result.
PersistResult(h, w) ==
    LET p == call[h].plan IN
    /\ call[h].at = "work" /\ w \in call[h].workers \ results[p]
    /\ results' = [results EXCEPT ![p] = @ \cup {w}]
    /\ UNCHANGED <<holder, run, call, crashes, pauses, bound, planned, status, delivered>>

\* The wait is over: what the other workers say is never written.
Executed(h) ==
    LET p == call[h].plan IN
    /\ call[h].at = "work"
    /\ \E failed \in SUBSET (call[h].workers \ results[p]) :
        status' = [status EXCEPT ![p] = [w \in Workers |->
            IF w \notin call[h].workers THEN @[w]
            ELSE CASE w \in results[p] -> "RESULT_PERSISTED"
                   [] w \in failed -> "FAILED"
                   [] OTHER -> "TIMED_OUT"]]
    /\ Lock!Release(h) /\ Return(h)
    /\ UNCHANGED <<run, crashes, pauses, bound, planned, results, delivered>>

----------------------------------------------------------------------------
(* cancel_fanout_attempt, join_fanout *)

Cancel(h, p, w) ==
    /\ call[h].at = "idle" /\ holder = None
    /\ status[p] # None /\ status[p][w] \in {"PENDING", "DISPATCHED"}
    /\ status' = [status EXCEPT ![p][w] = "CANCELLED"]
    /\ UNCHANGED <<holder, run, call, crashes, pauses, bound, planned, results, delivered>>

\* Mutant: what was accepted before is accepted again.
JoinAgain(h, p, submitted) ==
    /\ planned[p] # None /\ status[p] # None
    /\ run.tree # None /\ run.tree.doc = planned[p]
    /\ LET accepted == {w \in submitted : status[p][w] \in {"RESULT_PERSISTED", "ACCEPTED"}} IN
        /\ Begin(h, p, "joined", accepted)
        /\ status' = [status EXCEPT ![p] =
               [w \in Workers |-> IF w \in accepted THEN "ACCEPTED" ELSE @[w]]]
    /\ UNCHANGED <<run, crashes, pauses, bound, planned, results, delivered>>

\* Any results are submitted; a stale one, one that was accepted before and
\* one that was not persisted have no effect.
Join(h, p, submitted) ==
    /\ planned[p] # None /\ status[p] # None
    /\ run.tree # None /\ run.tree.doc = planned[p]
    /\ LET accepted == {w \in submitted : status[p][w] = "RESULT_PERSISTED"} IN
        /\ Begin(h, p, "joined", accepted)
        /\ status' = [status EXCEPT ![p] =
               [w \in Workers |-> IF w \in accepted THEN "ACCEPTED" ELSE @[w]]]
    /\ UNCHANGED <<run, crashes, pauses, bound, planned, results, delivered>>

\* The caller is given the accepted findings, if there are any.
Joined(h) ==
    /\ call[h].at = "joined"
    /\ delivered' = IF call[h].workers = {} THEN delivered
                    ELSE Append(delivered, [plan |-> call[h].plan, doc |-> run.tree.doc,
                                            workers |-> call[h].workers])
    /\ Lock!Release(h) /\ Return(h)
    /\ UNCHANGED <<run, crashes, pauses, bound, planned, status, results>>

\* What a call does once it has begun.
Work(h) ==
    \/ PersistStatus(h) \/ Register(h) \/ Executed(h) \/ Joined(h)
    \/ \E w \in Workers : PersistResult(h, w)

FanoutNext(h) ==
    \/ Work(h)
    \/ \E p \in Plans :
        \/ PersistPlan(h, p) \/ Execute(h, p)
        \/ \E w \in Workers : Cancel(h, p, w)
        \/ \E submitted \in SUBSET Workers : Join(h, p, submitted)

====
