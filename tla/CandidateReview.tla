--------------------------- MODULE CandidateReview ---------------------------
(***************************************************************************)
(* The Candidate of a legacy Run: its publication and its review fan-outs  *)
(* over one state.json and one lock, which only the publication guards     *)
(* with the barrier.                                                       *)
(***************************************************************************)
EXTENDS Publication, Fanout

vars == <<holder, run, call, crashes, pauses, bound, publication, fanout>>

Init == RunInit /\ PublicationInit /\ FanoutInit

Step(h) ==
    \/ PublicationNext(h) /\ UNCHANGED fanout
    \/ FanoutNext(h) /\ UNCHANGED publication
    \/ Die(h) /\ UNCHANGED <<publication, fanout>>

Spec == Init /\ [][\E h \in Hosts : Step(h)]_vars

\* A call in progress goes on, and people come back to an unfinished Run:
\* again and again some Host gets the lock for its barrier.
Fairness ==
    /\ \A h \in Hosts : WF_vars((Publish(h) /\ UNCHANGED fanout)
                                \/ (Work(h) /\ UNCHANGED publication))
    /\ SF_vars(\E h \in Hosts : Barrier(h) /\ UNCHANGED fanout)

FairSpec == Spec /\ Fairness

----------------------------------------------------------------------------
(* Properties *)

States == [version : Nat, status : {"ACTIVE", "PAUSED", "RELEASED", "COMPLETED"},
           node : {"prd.generate", "review.parallel", "review.aggregate", "prd.optimize",
                   "review.finalize", "prd.ready.gate", "handoff.prepare", "handoff.dispatch"},
           tree : Trees \cup {None}, generation : {0} \cup Generations,
           packs : 0 .. MaxPacks, staged : {0} \cup Docs, pending : BOOLEAN,
           blocked : BOOLEAN, asked : BOOLEAN,
           dispatch : [attempt : Nat, authorised : Nat, evidence : BOOLEAN],
           receipts : 0 .. Kinds, release : Trees \cup {None}, plans : SUBSET Plans]
Journals == [before : States, after : States]

\* An absent document, journal or status is none of those that are there.
ASSUME AbsentAssumption == None \notin Docs \cup Journals \cup [Workers -> Statuses]

\* Types of the files, the state and the calls.
TypeOK ==
    /\ holder \in Hosts \cup {None} /\ run \in States
    /\ call \in [Hosts -> [at : {"idle", "passed", "changelog", "structured", "manifest",
           "bind", "journal", "state", "move", "commit", "evidence", "snapshots", "authorise",
           "receipts", "receipt", "release", "status", "register", "work", "joined"},
           journal : Journals \cup {None}, saw : Nat, plan : Plans \cup {None},
           workers : SUBSET Workers]]
    /\ bound \in Bounds
    /\ crashes \in 0 .. bound.crashes /\ pauses \in 0 .. bound.pauses
    /\ archive \in [Docs -> Trees \cup {None}]
    /\ history \in [Docs \X Generations -> Trees \cup {None}]
    /\ stage \in [Docs -> Trees \cup {None}]
    /\ releasing \in [Docs -> [tree : Trees, version : Nat] \cup {None}]
    /\ released \in [Docs -> Trees \cup {None}]
    /\ listed \subseteq Lists \X [doc : Docs, status : {"CANDIDATE_ARCHIVED", "RELEASED"}]
    /\ ready \in [validation : Nat, audited : BOOLEAN,
                   snapshot : {"none", "same", "differs"},
                   result : {"none", "written", "receipted"}, unstaged : {0} \cup Docs]
    /\ prepared \subseteq Journals
    /\ planned \in [Plans -> Docs \cup {None}]
    /\ status \in [Plans -> [Workers -> Statuses] \cup {None}]
    /\ results \in [Plans -> SUBSET Workers]
    /\ delivered \in Seq([plan : Plans, workers : SUBSET Workers, doc : Docs])

IsListed(doc, how, lists) ==
    \A list \in lists : <<list, [doc |-> doc, status |-> how]>> \in listed

\* With no journal left PREPARED, the files are what the state says: the
\* current Candidate is in the archive and both changelogs, a released one is
\* where it should be and listed as such, and every registered plan has its
\* files.  Wherever processes died, the barrier has then nothing to refuse.
PublishedAsCommitted ==
    prepared = {} =>
        /\ FilesMatch
        /\ run.tree # None =>
            IsListed(run.tree.doc, "CANDIDATE_ARCHIVED", Lists \ {"RELEASE_MANIFEST.json"})
        /\ run.release # None => IsListed(run.release.doc, "RELEASED", Lists)
        /\ \A p \in run.plans : planned[p] # None /\ status[p] # None

\* Findings reach a caller once, from workers whose results were persisted
\* in time and never cancelled, for the document that is the current one.
FindingsAreDeliveredOnce ==
    \A i \in 1 .. Len(delivered) : LET d == delivered[i] IN
        /\ d.doc = planned[d.plan]
        /\ \A w \in d.workers :
            /\ w \in results[d.plan] /\ status[d.plan][w] = "ACCEPTED"
            /\ \A k \in 1 .. Len(delivered) :
                k # i /\ delivered[k].plan = d.plan => w \notin delivered[k].workers

\* A process that died before it wrote its journal left a new tree in the stage
\* of the current document.
Abandoned ==
    /\ run.tree # None /\ stage[run.tree.doc] # None
    /\ run.receipts = 0 /\ run.release = None
    /\ prepared = {} /\ \A h \in Hosts : call[h].at # "journal"

\* What is left in the stage is what a retry prepares again: the finished
\* review, or the Pack to be bound.  Only a Pack that was staged since, or an
\* assessment that there can be none, makes every later publication of the
\* document a conflict.
StageIsTakenUp ==
    Abandoned => LET left == stage[run.tree.doc] IN
        \/ /\ left = [run.tree EXCEPT !.review = "FINALIZED"]
           /\ run.node = "review.finalize"
        \/ /\ left.review = "NOT_RUN"
           /\ left.evals = PackToBind
        \/ left.evals \in 1 .. run.packs /\ (run.blocked \/ left.evals # run.packs)

\* The trees that can be read, and are not the current one
Kept ==
    LET trees == {archive[d] : d \in Docs} \cup {history[p] : p \in Docs \X Generations}
    IN  {t \in trees \ {None, run.tree} : t.doc <= run.tree.doc}

\* Every publication is one step of the Run's Candidate; no interrupted move
\* of a tree loses or changes what was there before.
History == INSTANCE CandidateHistory WITH
    current <- run.tree, kept <- IF run.tree = None THEN {} ELSE Kept, released <- run.release
ImplementsHistory == History!Spec

\* The state was changed by a call that had passed its barrier before the
\* journal was written, or by a fan-out, which runs none.
Overtaken == \E j \in prepared : ~IsCurrent(j)

\* What was prepared is published, unless it was overtaken.
PublicationIsFinished == prepared # {} ~> (prepared = {} \/ Overtaken)

====
