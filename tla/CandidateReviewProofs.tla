----------------------- MODULE CandidateReviewProofs -----------------------
(***************************************************************************)
(* Proofs about module CandidateReview, for every set of Hosts, plans and  *)
(* workers and every bound.                                                *)
(*                                                                         *)
(* IInv says, beside the types, what each call knows while it has the      *)
(* lock, what a PREPARED journal still finds when a recovery takes it up,  *)
(* and that a journal that finds anything else was overtaken for good.     *)
(***************************************************************************)
EXTENDS CandidateReview, SequenceTheorems, TLAPS

Inside == {"changelog", "structured", "manifest", "bind", "journal", "state", "move",
           "commit", "snapshots", "authorise", "receipt", "status", "register", "work", "joined"}

\* Who is inside holds the lock.
HolderInv == \A h \in Hosts : call[h].at \in Inside <=> holder = h

\* What a state says in itself: where the Run can be, and how many generations
\* a document can have had.
Sound(r) ==
    /\ r.tree = None <=> r.node = "prd.generate"
    /\ r.node = "prd.ready.gate" => r.tree.review = "FINALIZED"
    /\ r.release # None => r.release = r.tree
    /\ r.release # None <=> r.status \in {"RELEASED", "COMPLETED"}
    /\ r.pending => r.packs > 0
    /\ r.tree # None =>
        /\ r.generation > 0
        /\ r.generation <= r.tree.doc + 2 * r.tree.evals
                             + (IF r.tree.review = "FINALIZED" THEN 1 ELSE 0)
        /\ r.tree.evals <= r.packs
        /\ r.pending => r.tree.evals < r.packs

\* The order of the generations of a document
Earlier(t, u) ==
    \/ t.evals < u.evals
    \/ t.evals = u.evals /\ t.review = "NOT_RUN" /\ u.review = "FINALIZED"

\* What a journal may do: release the Candidate, or replace it by a generation
\* that comes after it.
Publishes(j) ==
    /\ Sound(j.before) /\ Sound(j.after)
    /\ j.after.version = j.before.version + 1 /\ j.after.plans = j.before.plans
    /\ j.before.tree # None /\ j.before.status = "ACTIVE"
    /\ IF IsRelease(j)
       THEN /\ j.after.tree = j.before.tree /\ j.after.release = j.before.tree
            /\ j.after.generation = j.before.generation
            /\ j.before.tree.review = "FINALIZED"
            /\ EvalsRequired => j.before.tree.evals # 0
       ELSE /\ j.after.tree # None /\ j.after.tree.doc = j.before.tree.doc
            /\ j.after.generation = j.before.generation + 1
            /\ Earlier(j.before.tree, j.after.tree)
            /\ j.after.tree.review = "NOT_RUN" \/ j.after.tree.evals = j.before.tree.evals

\* The files of a journal before its state is written
Ready(j) ==
    /\ archive[DocOf(j)] = j.before.tree
    /\ IF IsRelease(j)
       THEN releasing[DocOf(j)] = [tree |-> j.before.tree, version |-> j.before.version]
       ELSE stage[DocOf(j)] = j.after.tree

\* A journal that is no longer current was overtaken, for good.
JournalOK(j) ==
    /\ Publishes(j)
    /\ run = j.before => Ready(j)
    /\ run = j.after => IsConsistent(j)
    /\ IsCurrent(j) \/ j.before.version < run.version

JournalInv ==
    /\ \A j \in prepared : JournalOK(j)
    /\ \A j, k \in prepared : j.before.version = k.before.version => j.before = k.before

\* What a call that holds the lock has seen still holds.
Publishing(h) ==
    LET at == call[h].at
        j == call[h].journal
    IN
    /\ at = "idle" => j = None
    /\ at \in {"changelog", "structured", "bind"} /\ j = None =>
        /\ NewDoc \in Docs /\ archive[NewDoc] = NewTree
        /\ run.status = "ACTIVE" /\ FilesMatch
    /\ at = "bind" => j = None
    /\ at \in {"manifest", "journal", "state", "move", "commit"} => j # None
    /\ at \in {"journal", "state"} =>
        j \in Journals /\ Publishes(j) /\ run = j.before /\ Ready(j)
    /\ at = "state" => j \in prepared
    /\ at \in {"move", "commit", "changelog", "structured", "manifest"} /\ j # None =>
        j \in prepared /\ run = j.after
    /\ at \in {"changelog", "structured", "manifest"} /\ j # None => IsRelease(j)
    /\ at \in {"changelog", "structured", "manifest", "commit"} /\ j # None =>
        IF IsRelease(j) THEN released[DocOf(j)] = j.after.release
                        ELSE archive[DocOf(j)] = j.after.tree

\* How far a document is listed
Listing(h) ==
    LET at == call[h].at
        done == at = "commit" /\ IsRelease(call[h].journal)
    IN
    /\ at \in {"structured", "manifest", "bind"} \/ done =>
        <<"DOCUMENT_CHANGELOG.md", Entry(h)>> \in listed
    /\ at \in {"manifest", "bind"} \/ done =>
        <<"PRODUCT_DOCUMENT_CHANGELOG.jsonl", Entry(h)>> \in listed
    /\ done => <<"RELEASE_MANIFEST.json", Entry(h)>> \in listed

Delivered(p, w) ==
    \E i \in 1 .. Len(delivered) : delivered[i].plan = p /\ w \in delivered[i].workers

Fanning(h) ==
    LET at == call[h].at
        p == call[h].plan
    IN
    /\ at \in {"status", "register", "work", "joined"} => p \in Plans /\ planned[p] # None
    /\ at \in {"register", "work", "joined"} => status[p] # None
    /\ at = "work" => \A w \in call[h].workers : status[p][w] = "DISPATCHED"
    /\ at = "joined" =>
        /\ run.tree # None /\ planned[p] = run.tree.doc
        /\ \A w \in call[h].workers :
            w \in results[p] /\ status[p][w] = "ACCEPTED" /\ ~Delivered(p, w)

Doing(h) == Publishing(h) /\ Listing(h) /\ Fanning(h)

CallInv == \A h \in Hosts : Doing(h)

\* Trees lie where their document says; a document to come has no stage and no
\* history; the history of the current one comes before it.
FileInv ==
    /\ \A d \in Docs : archive[d] # None => archive[d].doc = d
    /\ \A d \in Docs, g \in Generations : history[<<d, g>>] # None => history[<<d, g>>].doc = d
    /\ \A d \in Docs : (run.tree = None \/ run.tree.doc < d) =>
        stage[d] = None /\ \A g \in Generations : history[<<d, g>>] = None
    /\ run.tree # None => \A g \in Generations :
        LET t == history[<<run.tree.doc, g>>]
        IN  t # None => g < run.generation /\ Earlier(t, run.tree)
    /\ run.release = None => \A d \in Docs : released[d] = None

ListInv ==
    /\ run.tree # None =>
        IsListed(run.tree.doc, "CANDIDATE_ARCHIVED", Lists \ {"RELEASE_MANIFEST.json"})
    /\ \A p \in run.plans : planned[p] # None /\ status[p] # None

\* The stage of a Candidate that is in its place
Fits(left) ==
    \/ left = [run.tree EXCEPT !.review = "FINALIZED"] /\ run.node = "review.finalize"
    \/ /\ left.review = "NOT_RUN"
       /\ left.evals = IF run.pending /\ run.staged = run.tree.doc
                       THEN run.packs ELSE run.packs + 1
    \/ left.evals \in 1 .. run.packs /\ (run.blocked \/ left.evals # run.packs)

StageInv ==
    /\ run.tree # None /\ stage[run.tree.doc] # None
    /\ run.receipts = 0 /\ run.release = None
    /\ archive[run.tree.doc] = run.tree
    => Fits(stage[run.tree.doc])

\* Unless a journal was overtaken, what is not in its place is what a journal
\* that has written its state has still to place.
CleanInv ==
    (\A j \in prepared : IsCurrent(j)) =>
        /\ run.tree # None =>
            \/ archive[run.tree.doc] = run.tree
            \/ \E j \in prepared : run = j.after /\ ~IsRelease(j)
        /\ run.release # None =>
            \/ /\ released[run.release.doc] = run.release
               /\ IsListed(run.release.doc, "RELEASED", Lists)
            \/ \E j \in prepared : run = j.after /\ IsRelease(j)

\* A result that was persisted is there, and was not delivered; what was
\* delivered comes from a plan that has its files.
FanoutInv ==
    /\ \A p \in Plans, w \in Workers :
        status[p] # None /\ status[p][w] = "RESULT_PERSISTED" =>
            w \in results[p] /\ ~Delivered(p, w)
    /\ \A i \in 1 .. Len(delivered) :
        planned[delivered[i].plan] # None /\ status[delivered[i].plan] # None
    /\ FindingsAreDeliveredOnce

Steps == [at : {"idle", "passed", "changelog", "structured", "manifest",
                "bind", "journal", "state", "move", "commit", "evidence", "snapshots",
                "authorise", "receipts", "receipt", "release", "status", "register", "work",
                "joined"},
          journal : Journals \cup {None}, saw : Nat, plan : Plans \cup {None},
          workers : SUBSET Workers]

FilesTyped ==
    /\ archive \in [Docs -> Trees \cup {None}]
    /\ history \in [Docs \X Generations -> Trees \cup {None}]
    /\ stage \in [Docs -> Trees \cup {None}]
    /\ releasing \in [Docs -> [tree : Trees, version : Nat] \cup {None}]
    /\ released \in [Docs -> Trees \cup {None}]
    /\ listed \subseteq Lists \X [doc : Docs, status : {"CANDIDATE_ARCHIVED", "RELEASED"}]
    /\ prepared \subseteq Journals

PlansTyped ==
    /\ planned \in [Plans -> Docs \cup {None}]
    /\ status \in [Plans -> [Workers -> Statuses] \cup {None}]
    /\ results \in [Plans -> SUBSET Workers]
    /\ delivered \in Seq([plan : Plans, workers : SUBSET Workers, doc : Docs])

BoundTyped ==
    bound \in Bounds /\ crashes \in 0 .. bound.crashes /\ pauses \in 0 .. bound.pauses

\* The types, but for those of the Ready gate's files, which nothing here needs
Typed ==
    /\ holder \in Hosts \cup {None} /\ run \in States /\ call \in [Hosts -> Steps]
    /\ BoundTyped /\ FilesTyped /\ PlansTyped

kept == <<archive, history, stage, releasing, released, listed, prepared>>

ReadyTyped ==
    ready \in [validation : Nat, audited : BOOLEAN, snapshot : {"none", "same", "differs"},
               result : {"none", "written", "receipted"}, unstaged : {0} \cup Docs]

IInv ==
    /\ Typed /\ HolderInv /\ Sound(run) /\ CallInv /\ FileInv /\ ListInv
    /\ JournalInv /\ StageInv /\ CleanInv /\ FanoutInv

----------------------------------------------------------------------------
(* Types *)

LEMMA DocsAre == MaxDocs \in Nat /\ MaxPacks \in Nat /\ Docs \subseteq Nat \ {0} /\ None \notin Docs
BY BoundAssumption, AbsentAssumption DEF Docs

LEMMA TreeFacts ==
    ASSUME NEW t \in Trees
    PROVE  /\ t # None /\ t.doc \in Docs /\ t.evals \in 0 .. MaxPacks
           /\ t.review \in {"NOT_RUN", "FINALIZED"}
           /\ t.doc \in Nat /\ t.evals \in Nat
<1>1. /\ t # None /\ t.doc \in Docs /\ t.evals \in 0 .. MaxPacks
      /\ t.review \in {"NOT_RUN", "FINALIZED"}
  BY NoneAssumption DEF Trees
<1>2. t.doc \in Nat
  BY <1>1, DocsAre
<1>3. t.evals \in Nat
  BY <1>1, DocsAre
<1> QED
  BY <1>1, <1>2, <1>3

\* What is told of a state, field by field
LEMMA StateFacts ==
    ASSUME NEW r \in States
    PROVE  /\ r.version \in Nat /\ r.receipts \in Nat
           /\ r.tree \in Trees \cup {None} /\ r.release \in Trees \cup {None}
           /\ r.generation \in {0} \cup Generations /\ r.generation \in Nat
           /\ r.packs \in 0 .. MaxPacks /\ r.staged \in {0} \cup Docs
           /\ r.pending \in BOOLEAN /\ r.blocked \in BOOLEAN /\ r.plans \subseteq Plans
           /\ r.dispatch \in [attempt : Nat, authorised : Nat, evidence : BOOLEAN]
           /\ r.dispatch.attempt \in Nat /\ r.dispatch.authorised \in Nat
           /\ r.dispatch.evidence \in BOOLEAN /\ r.receipts \in 0 .. Kinds
<1>1. /\ r.version \in Nat /\ r.receipts \in 0 .. Kinds /\ Kinds \in Nat
      /\ r.tree \in Trees \cup {None} /\ r.release \in Trees \cup {None}
      /\ r.generation \in {0} \cup Generations
      /\ r.packs \in 0 .. MaxPacks /\ r.staged \in {0} \cup Docs
      /\ r.pending \in BOOLEAN /\ r.blocked \in BOOLEAN /\ r.plans \subseteq Plans
      /\ r.dispatch \in [attempt : Nat, authorised : Nat, evidence : BOOLEAN]
  BY KindsAssumption DEF States
<1>2. r.receipts \in Nat
  BY <1>1
<1> QED
  BY <1>1, <1>2, DocsAre DEF Generations

\* Two states that agree in every field are one.
LEMMA SameState ==
    ASSUME NEW r \in States, NEW s \in States,
           r.version = s.version, r.status = s.status, r.node = s.node, r.tree = s.tree,
           r.generation = s.generation, r.packs = s.packs, r.staged = s.staged,
           r.pending = s.pending, r.blocked = s.blocked, r.asked = s.asked,
           r.dispatch = s.dispatch, r.receipts = s.receipts, r.release = s.release,
           r.plans = s.plans
    PROVE  r = s
BY DEF States

LEMMA JournalFacts ==
    ASSUME NEW j \in Journals
    PROVE  j # None /\ j.before \in States /\ j.after \in States
BY AbsentAssumption DEF Journals

LEMMA SameJournal ==
    ASSUME NEW j \in Journals, NEW k \in Journals, j.before = k.before, j.after = k.after
    PROVE  j = k
BY DEF Journals

LEMMA StepFacts ==
    ASSUME NEW step \in Steps
    PROVE  /\ step.journal \in Journals \cup {None} /\ step.saw \in Nat
           /\ step.plan \in Plans \cup {None} /\ step.workers \subseteq Workers
BY DEF Steps

LEMMA BoundFacts ==
    ASSUME NEW b \in Bounds
    PROVE  b.docs \in 0 .. MaxDocs /\ b.packs \in 0 .. MaxPacks /\ b.crashes \in Nat
           /\ b.pauses \in Nat /\ b.dispatches \in Nat /\ b.others \in BOOLEAN
           /\ b.plans \subseteq Plans
BY BoundAssumption

LEMMA TypeParts == TypeOK <=> Typed /\ ReadyTyped
BY DEF TypeOK, Typed, ReadyTyped, Steps, FilesTyped, PlansTyped, BoundTyped

LEMMA IdleIsAStep == Idle \in Steps /\ Idle.at = "idle" /\ Idle.journal = None
BY DEF Idle, Steps

LEMMA IdleDoes ==
    ASSUME NEW h \in Hosts, call[h] = Idle
    PROVE  Doing(h)
BY IdleIsAStep DEF Doing, Publishing, Listing, Fanning

LEMMA InitIInv == Init => IInv
<1> SUFFICES ASSUME Init PROVE IInv
  OBVIOUS
<1> USE DEF Init, RunInit, PublicationInit, FanoutInit
<1>1. run \in States
  <2>1. 0 \in 0 .. MaxPacks /\ 0 \in 0 .. Kinds
    BY BoundAssumption, KindsAssumption
  <2> QED
    BY <2>1 DEF States, NoDispatch
<1>2. call \in [Hosts -> Steps]
  BY IdleIsAStep
<1>3. BoundTyped
  <2>1. bound.crashes \in Nat /\ bound.pauses \in Nat
    BY BoundFacts
  <2> QED
    BY <2>1 DEF BoundTyped
<1>4. FilesTyped /\ PlansTyped
  BY DEF FilesTyped, PlansTyped
<1>5. Typed
  BY <1>1, <1>2, <1>3, <1>4 DEF Typed
<1>6. HolderInv /\ CallInv
  BY HostAssumption, IdleIsAStep, IdleDoes DEF HolderInv, CallInv, Inside
<1>7. Sound(run)
  BY DEF Sound
<1>8. FileInv /\ ListInv /\ JournalInv /\ StageInv
  BY DEF FileInv, ListInv, JournalInv, StageInv
<1>9. CleanInv
  BY DEF CleanInv
<1>10. FanoutInv
  <2>1. Len(delivered) = 0
    OBVIOUS
  <2> QED
    BY <2>1 DEF FanoutInv, FindingsAreDeliveredOnce
<1> QED
  BY <1>5, <1>6, <1>7, <1>8, <1>9, <1>10 DEF IInv

----------------------------------------------------------------------------
(* What steps leave alone *)

\* A call that has the lock, or finds it free, sees no other call inside.
LEMMA CallsKept ==
    ASSUME IInv, NEW h \in Hosts, NEW step \in Steps, call' = [call EXCEPT ![h] = step],
           holder \in {None, h}, holder' = IF step.at \in Inside THEN h ELSE None,
           Doing(h)'
    PROVE  /\ HolderInv' /\ CallInv'
           /\ call' \in [Hosts -> Steps] /\ holder' \in Hosts \cup {None}
<1>1. call \in [Hosts -> Steps] /\ run \in States
  BY DEF Typed, IInv
<1>2. call' \in [Hosts -> Steps] /\ call'[h] = step
  BY <1>1
<1>3. \A k \in Hosts : k # h => call'[k] = call[k] /\ call[k].at \notin Inside
  BY <1>1, HostAssumption DEF IInv, HolderInv
<1>4. HolderInv'
  BY <1>2, <1>3, HostAssumption DEF HolderInv
<1>5. ASSUME NEW k \in Hosts, k # h PROVE Doing(k)'
  <2>1. call'[k] = call[k] /\ call[k].at \notin Inside
    BY <1>3, <1>5
  <2>2. Listing(k)' /\ Fanning(k)'
    BY <2>1 DEF Listing, Fanning, Inside
  <2>3. call[k].at = "idle" => call[k].journal = None
    BY DEF IInv, CallInv, Doing, Publishing
  <2>4. Publishing(k)'
    BY <2>1, <2>3 DEF Publishing, Inside
  <2> QED
    BY <2>2, <2>4 DEF Doing
<1>6. CallInv'
  BY <1>5 DEF CallInv
<1> QED
  BY <1>2, <1>4, <1>6

\* Files and state as they were
LEMMA FilesKept ==
    ASSUME IInv, UNCHANGED <<run, kept>>
    PROVE  /\ run' \in States /\ FilesTyped' /\ Sound(run)'
           /\ FileInv' /\ JournalInv' /\ StageInv' /\ CleanInv'
<1>1. UNCHANGED <<run, archive, history, stage, releasing, released, listed, prepared>>
  BY DEF kept
<1>2. run' \in States /\ FilesTyped'
  BY <1>1 DEF Typed, IInv, FilesTyped
<1>3. Sound(run)' /\ FileInv' /\ StageInv'
  BY <1>1 DEF IInv, Sound, FileInv, StageInv, Fits
<1>4. JournalInv'
  BY <1>1 DEF IInv, JournalInv, JournalOK, Ready, IsConsistent, IsCurrent
<1>5. CleanInv'
  BY <1>1 DEF IInv, CleanInv, IsCurrent, IsListed
<1> QED
  BY <1>2, <1>3, <1>4, <1>5

LEMMA PlansKept ==
    ASSUME IInv, UNCHANGED fanout
    PROVE  PlansTyped' /\ FanoutInv'
<1>1. UNCHANGED <<planned, status, results, delivered>>
  BY DEF fanout
<1> QED
  BY <1>1 DEF Typed, IInv, PlansTyped, FanoutInv, FindingsAreDeliveredOnce, Delivered

\* What is listed stays listed, of the same Candidate.
LEMMA ListsKept ==
    ASSUME IInv, listed \subseteq listed', UNCHANGED fanout,
           run'.plans = run.plans, run'.tree # None => run.tree # None /\ run'.tree.doc = run.tree.doc
    PROVE  ListInv'
BY DEF IInv, ListInv, IsListed, fanout

\* A call goes on, or ends, and leaves everything else as it was, but for the
\* files of the Ready gate.
LEMMA GoesOnKeepsIInv ==
    ASSUME IInv, NEW h \in Hosts, NEW step \in Steps, Do(h, step),
           UNCHANGED <<run, bound, crashes, pauses, kept, fanout>>,
           holder \in {None, h}, holder' = IF step.at \in Inside THEN h ELSE None,
           Doing(h)'
    PROVE  IInv'
<1>1. HolderInv' /\ CallInv' /\ call' \in [Hosts -> Steps] /\ holder' \in Hosts \cup {None}
  BY CallsKept DEF Do
<1>2. BoundTyped'
  BY DEF Typed, IInv, BoundTyped
<1>3. ListInv'
  BY ListsKept DEF kept
<1>4. /\ run' \in States /\ FilesTyped' /\ Sound(run)'
      /\ FileInv' /\ JournalInv' /\ StageInv' /\ CleanInv'
  BY FilesKept
<1>5. PlansTyped' /\ FanoutInv'
  BY PlansKept
<1> QED
  BY <1>1, <1>2, <1>3, <1>4, <1>5 DEF IInv, Typed

LEMMA StepKeepsIInv ==
    ASSUME IInv, NEW h \in Hosts, NEW step \in Steps, Do(h, step),
           UNCHANGED <<run, bound, crashes, pauses, publication, fanout>>,
           holder \in {None, h}, holder' = IF step.at \in Inside THEN h ELSE None,
           Doing(h)'
    PROVE  IInv'
BY GoesOnKeepsIInv DEF publication, files, kept

\* Nothing is said of the calls outside the lock, nor of those at the Ready gate.
LEMMA OutsideDoes ==
    ASSUME NEW h \in Hosts, call'[h].at = "idle" => call'[h].journal = None,
           call'[h].at \in {"idle", "passed", "evidence", "snapshots", "authorise", "receipts",
                            "receipt", "release"}
    PROVE  Doing(h)'
BY DEF Doing, Publishing, Listing, Fanning

\* The same for a call that ends, or whose process dies.
LEMMA EndKeepsIInv ==
    ASSUME IInv, NEW h \in Hosts, Return(h),
           holder' = (IF holder = h THEN None ELSE holder),
           UNCHANGED <<run, bound, pauses, publication, fanout>>,
           crashes' \in 0 .. bound.crashes
    PROVE  IInv'
<1>1. call \in [Hosts -> Steps] /\ holder \in Hosts \cup {None} /\ BoundTyped
  BY DEF Typed, IInv
<1>2. /\ call' \in [Hosts -> Steps] /\ holder' \in Hosts \cup {None} /\ call'[h].at = "idle"
      /\ call'[h].journal = None
      /\ \A k \in Hosts : k # h => call'[k] = call[k]
  BY <1>1, IdleIsAStep DEF Return, Do
<1>3. HolderInv'
  BY <1>2, HostAssumption DEF IInv, HolderInv, Inside
<1>4. CallInv'
  <2> SUFFICES ASSUME NEW k \in Hosts, k # h PROVE Doing(k)'
    BY <1>2, OutsideDoes DEF CallInv
  <2>1. call'[k] = call[k] /\ Doing(k)
    BY <1>2 DEF IInv, CallInv
  <2>2. UNCHANGED <<run, archive, history, stage, releasing, released, listed, prepared,
                    planned, status, results, delivered>>
    BY DEF publication, files, fanout
  <2>3. Publishing(k)'
    BY <2>1, <2>2 DEF Doing, Publishing, Ready, NewDoc, NewTree, FilesMatch
  <2>4. Listing(k)'
    BY <2>1, <2>2 DEF Doing, Listing, Entry, NewDoc
  <2>5. Fanning(k)'
    BY <2>1, <2>2 DEF Doing, Fanning, Delivered
  <2> QED
    BY <2>3, <2>4, <2>5 DEF Doing
<1>5. BoundTyped'
  BY <1>1 DEF BoundTyped
<1>6. ListInv'
  BY ListsKept DEF publication, files
<1>7. /\ run' \in States /\ FilesTyped' /\ Sound(run)'
      /\ FileInv' /\ JournalInv' /\ StageInv' /\ CleanInv'
  BY FilesKept DEF publication, files, kept
<1>8. PlansTyped' /\ FanoutInv'
  BY PlansKept
<1> QED
  BY <1>2, <1>3, <1>4, <1>5, <1>6, <1>7, <1>8 DEF IInv, Typed

----------------------------------------------------------------------------
(* Barrier, calls that only read, and processes that die *)

\* A journal that was left is taken up.
LEMMA TakeUpKeepsIInv ==
    ASSUME IInv, NEW h \in Hosts, Lock!Take(h), NEW j \in prepared,
           IsCurrent(j), IsConsistent(j),
           Do(h, [Idle EXCEPT !.journal = j,
                      !.at = IF run = j.before THEN "state" ELSE "move"]),
           UNCHANGED <<run, crashes, pauses, bound, publication, fanout>>
    PROVE  IInv'
<1>1. /\ IsCurrent(j) /\ IsConsistent(j)
      /\ Do(h, [Idle EXCEPT !.journal = j,
                    !.at = IF run = j.before THEN "state" ELSE "move"])
  OBVIOUS
<1> DEFINE step == [Idle EXCEPT !.journal = j,
                      !.at = IF run = j.before THEN "state" ELSE "move"]
<1>2. call \in [Hosts -> Steps] /\ j \in Journals /\ JournalOK(j)
  BY DEF Typed, IInv, FilesTyped, JournalInv
<1>3. /\ step \in Steps /\ step.journal = j /\ step.at \in {"state", "move"}
      /\ step.at = "state" <=> run = j.before
  BY <1>2 DEF Idle, Steps
<1> HIDE DEF step
<1>4. Doing(h)'
  <2>1. call'[h] = step /\ j # None
    BY <1>1, <1>2, JournalFacts DEF Do, step
  <2>2. UNCHANGED <<run, archive, stage, releasing, prepared>>
    BY DEF publication, files
  <2>3. step.at = "state" => Publishes(j) /\ run = j.before /\ Ready(j)'
    BY <1>2, <1>3, <2>2 DEF JournalOK, Ready
  <2>4. step.at = "move" => run = j.after
    BY <1>1, <1>3 DEF IsCurrent
  <2>5. Publishing(h)'
    BY <1>2, <1>3, <2>1, <2>2, <2>3, <2>4 DEF Publishing
  <2> QED
    BY <1>3, <2>1, <2>5 DEF Doing, Listing, Fanning
<1>5. Do(h, step) /\ step.at \in Inside /\ holder = None /\ holder' = h
  BY <1>1, <1>3 DEF step, Inside, Lock!Take
<1> QED
  BY <1>3, <1>4, <1>5, StepKeepsIInv

LEMMA RecoverKeepsIInv ==
    ASSUME IInv, NEW h \in Hosts, Recover(h), UNCHANGED fanout PROVE IInv'
BY TakeUpKeepsIInv DEF Recover

LEMMA EnterKeepsIInv ==
    ASSUME IInv, NEW h \in Hosts, Enter(h), UNCHANGED fanout PROVE IInv'
<1> DEFINE step == [Idle EXCEPT !.at = "passed", !.saw = run.version]
<1>1. call \in [Hosts -> Steps] /\ run.version \in Nat
  BY StateFacts DEF Typed, IInv
<1>2. step \in Steps /\ step.at = "passed" /\ step.journal = None
  BY <1>1, IdleIsAStep DEF Idle, Steps
<1>3. Do(h, step) /\ holder = None /\ holder' = None
  BY DEF Enter
<1> HIDE DEF step
<1>4. Doing(h)'
  BY <1>1, <1>2, <1>3, OutsideDoes DEF Do
<1>5. UNCHANGED <<run, bound, crashes, pauses, publication, fanout>>
  BY DEF Enter
<1>6. step.at \notin Inside
  BY <1>2 DEF Inside
<1> QED
  BY <1>2, <1>3, <1>4, <1>5, <1>6, StepKeepsIInv

LEMMA LeaveKeepsIInv ==
    ASSUME IInv, NEW h \in Hosts, Leave(h), UNCHANGED fanout PROVE IInv'
<1>1. holder # h
  BY DEF Leave, IInv, HolderInv, Inside
<1>2. crashes' \in 0 .. bound.crashes
  BY DEF Leave, Typed, IInv, BoundTyped
<1>3. /\ Return(h) /\ holder' = (IF holder = h THEN None ELSE holder)
      /\ UNCHANGED <<run, bound, pauses, publication, fanout>>
  BY <1>1 DEF Leave
<1> QED
  BY <1>2, <1>3, EndKeepsIInv

LEMMA DieKeepsIInv ==
    ASSUME IInv, NEW h \in Hosts, Die(h), UNCHANGED <<publication, fanout>> PROVE IInv'
<1>1. crashes \in 0 .. bound.crashes /\ bound.crashes \in Nat
  BY BoundFacts DEF Typed, IInv, BoundTyped
<1>2. crashes' \in 0 .. bound.crashes
  BY <1>1 DEF Die
<1> QED
  BY <1>2, EndKeepsIInv DEF Die

----------------------------------------------------------------------------
(* The review fan-outs *)

\* What a plan, its files and its results never lose; a new result is one that
\* was not delivered.
LEMMA PlansGo ==
    ASSUME IInv, PlansTyped', UNCHANGED delivered,
           \A p \in Plans : planned[p] # None => planned'[p] = planned[p],
           \A p \in Plans : results[p] \subseteq results'[p],
           \A p \in Plans : status[p] # None =>
               /\ status'[p] # None
               /\ \A w \in Workers : status[p][w] = "ACCEPTED" => status'[p][w] = "ACCEPTED",
           \A p \in Plans, w \in Workers :
               status'[p] # None /\ status'[p][w] = "RESULT_PERSISTED" =>
                   w \in results'[p] /\ ~Delivered(p, w)
    PROVE  FanoutInv'
<1>1. PlansTyped
  BY DEF Typed, IInv
<1>2. ASSUME NEW i \in 1 .. Len(delivered)
      PROVE  /\ delivered[i].plan \in Plans /\ delivered[i].workers \subseteq Workers
             /\ planned[delivered[i].plan] # None /\ status[delivered[i].plan] # None
  <2>1. delivered[i] \in [plan : Plans, workers : SUBSET Workers, doc : Docs]
    BY <1>1, ElementOfSeq DEF PlansTyped
  <2> QED
    BY <2>1 DEF IInv, FanoutInv
<1>3. FindingsAreDeliveredOnce'
  BY <1>2 DEF IInv, FanoutInv, FindingsAreDeliveredOnce
<1>4. \A p \in Plans, w \in Workers : Delivered(p, w)' <=> Delivered(p, w)
  BY DEF Delivered
<1> QED
  BY <1>2, <1>3, <1>4 DEF FanoutInv

\* A fan-out call goes on, and leaves the Run and its Candidate as they were.
LEMMA FanKeepsIInv ==
    ASSUME IInv, NEW h \in Hosts, NEW step \in Steps, Do(h, step),
           UNCHANGED <<run, bound, crashes, pauses, publication>>,
           holder \in {None, h}, holder' = IF step.at \in Inside THEN h ELSE None,
           Doing(h)', PlansTyped', FanoutInv',
           \A p \in Plans : planned[p] # None => planned'[p] # None,
           \A p \in Plans : status[p] # None => status'[p] # None
    PROVE  IInv'
<1>1. HolderInv' /\ CallInv' /\ call' \in [Hosts -> Steps] /\ holder' \in Hosts \cup {None}
  BY CallsKept DEF Do
<1>2. BoundTyped'
  BY DEF Typed, IInv, BoundTyped
<1>3. /\ run' \in States /\ FilesTyped' /\ Sound(run)'
      /\ FileInv' /\ JournalInv' /\ StageInv' /\ CleanInv'
  BY FilesKept DEF publication, files, kept
<1>4. ListInv'
  <2>1. run.plans \subseteq Plans
    BY StateFacts DEF Typed, IInv
  <2> QED
    BY <2>1 DEF IInv, ListInv, IsListed, publication, files
<1> QED
  BY <1>1, <1>2, <1>3, <1>4 DEF IInv, Typed

\* What is delivered was accepted.
LEMMA DeliveredFacts ==
    ASSUME IInv, NEW p \in Plans, NEW w \in Workers, Delivered(p, w)
    PROVE  planned[p] # None /\ status[p] # None /\ status[p][w] = "ACCEPTED"
BY DEF Delivered, IInv, FanoutInv, FindingsAreDeliveredOnce

LEMMA PersistPlanKeepsIInv ==
    ASSUME IInv, NEW h \in Hosts, NEW p \in Plans, PersistPlan(h, p), UNCHANGED publication
    PROVE  IInv'
<1> DEFINE step == [Idle EXCEPT !.at = "status", !.plan = p, !.workers = {}]
<1>1. PlansTyped /\ run \in States /\ call \in [Hosts -> Steps]
  BY DEF Typed, IInv
<1>2. run.tree.doc \in Docs /\ run.tree.doc # None
  BY <1>1, StateFacts, TreeFacts, DocsAre DEF PersistPlan
<1>3. step \in Steps /\ step.at = "status" /\ step.plan = p
  BY IdleIsAStep DEF Steps, Idle
<1>4. Do(h, step) /\ holder = None /\ holder' = h
  BY DEF PersistPlan, Begin, Lock!Take
<1>5. /\ planned' = [planned EXCEPT ![p] = run.tree.doc]
      /\ planned[p] \in {None, run.tree.doc}
      /\ UNCHANGED <<run, crashes, pauses, bound, status, results, delivered>>
  BY DEF PersistPlan
<1> HIDE DEF step
<1>6. PlansTyped'
  BY <1>1, <1>2, <1>5 DEF PlansTyped
<1>7. \A q \in Plans : planned[q] # None => planned'[q] = planned[q] /\ planned'[q] # None
  BY <1>1, <1>5 DEF PlansTyped
<1>8. FanoutInv'
  BY <1>5, <1>6, <1>7, PlansGo DEF IInv, FanoutInv
<1>9. Doing(h)'
  <2>1. call'[h] = step /\ planned'[p] # None
    BY <1>1, <1>2, <1>4, <1>5 DEF Do, PlansTyped
  <2> QED
    BY <1>3, <2>1 DEF Doing, Publishing, Listing, Fanning
<1>10. step.at \in Inside
  BY <1>3 DEF Inside
<1> QED
  BY <1>3, <1>4, <1>5, <1>6, <1>7, <1>8, <1>9, <1>10, FanKeepsIInv

LEMMA PersistStatusKeepsIInv ==
    ASSUME IInv, NEW h \in Hosts, PersistStatus(h), UNCHANGED publication
    PROVE  IInv'
<1> DEFINE p == call[h].plan
           step == [call[h] EXCEPT !.at = "register"]
<1>1. PlansTyped /\ run \in States /\ call \in [Hosts -> Steps]
  BY DEF Typed, IInv
<1>2. call[h].at = "status" /\ holder = h /\ p \in Plans /\ planned[p] # None
  BY DEF PersistStatus, IInv, HolderInv, CallInv, Doing, Fanning, Inside
<1>3. step \in Steps /\ step.at = "register" /\ step.plan = p
  BY <1>1 DEF Steps
<1>4. Do(h, step) /\ holder' = h
  BY <1>2 DEF PersistStatus, Goto
<1>5. /\ status' = [status EXCEPT ![p] = IF status[p] = None THEN [w \in Workers |-> "PENDING"]
                                         ELSE status[p]]
      /\ UNCHANGED <<run, crashes, pauses, bound, planned, results, delivered>>
  BY DEF PersistStatus
<1> HIDE DEF step, p
<1>6. [w \in Workers |-> "PENDING"] \in [Workers -> Statuses]
  BY DEF Statuses
<1>7. PlansTyped'
  BY <1>1, <1>2, <1>5, <1>6 DEF PlansTyped
<1>8. /\ \A q \in Plans : status[q] # None => status'[q] = status[q]
      /\ \A q \in Plans : status[q] = None => status'[q] = None
                                              \/ status'[q] = [w \in Workers |-> "PENDING"]
      /\ status'[p] # None
  BY <1>1, <1>2, <1>5, <1>6, AbsentAssumption DEF PlansTyped
<1>9. FanoutInv'
  BY <1>5, <1>7, <1>8, PlansGo DEF IInv, FanoutInv
<1>10. Doing(h)'
  <2>1. call'[h] = step
    BY <1>1, <1>4 DEF Do
  <2> QED
    BY <1>2, <1>3, <1>5, <1>8, <2>1 DEF Doing, Publishing, Listing, Fanning
<1>11. step.at \in Inside
  BY <1>3 DEF Inside
<1> QED
  BY <1>2, <1>3, <1>4, <1>5, <1>7, <1>8, <1>9, <1>10, <1>11, FanKeepsIInv

LEMMA ExecuteKeepsIInv ==
    ASSUME IInv, NEW h \in Hosts, NEW p \in Plans, Execute(h, p), UNCHANGED publication
    PROVE  IInv'
<1> DEFINE pending == {w \in Workers : status[p][w] = "PENDING"}
           step == [Idle EXCEPT !.at = "work", !.plan = p, !.workers = pending]
           marked == [w \in Workers |-> IF w \in pending THEN "DISPATCHED" ELSE status[p][w]]
<1>1. PlansTyped /\ run \in States /\ call \in [Hosts -> Steps]
  BY DEF Typed, IInv
<1>2. step \in Steps /\ step.at = "work" /\ step.plan = p /\ step.workers = pending
  BY IdleIsAStep DEF Steps, Idle
<1>3. Do(h, step) /\ holder = None /\ holder' = h
  BY DEF Execute, Begin, Lock!Take
<1>4. /\ status' = [status EXCEPT ![p] = marked]
      /\ planned[p] # None /\ status[p] # None
      /\ UNCHANGED <<run, crashes, pauses, bound, planned, results, delivered>>
  BY DEF Execute
<1>5. marked \in [Workers -> Statuses] /\ marked # None
  BY <1>1, <1>4, AbsentAssumption DEF PlansTyped, Statuses
<1>6. \A w \in Workers : marked[w] = IF status[p][w] = "PENDING" THEN "DISPATCHED" ELSE status[p][w]
  OBVIOUS
<1>7. \A w \in pending : marked[w] = "DISPATCHED"
  OBVIOUS
<1> HIDE DEF step, marked
<1>8. PlansTyped'
  BY <1>1, <1>4, <1>5 DEF PlansTyped
<1>9. /\ status'[p] = marked /\ status'[p] # None
      /\ \A q \in Plans : q # p => status'[q] = status[q]
  BY <1>1, <1>4, <1>5 DEF PlansTyped
<1>10. \A q \in Plans : status[q] # None =>
         /\ status'[q] # None
         /\ \A w \in Workers : status[q][w] = "ACCEPTED" => status'[q][w] = "ACCEPTED"
  BY <1>6, <1>9
<1>11. \A q \in Plans, w \in Workers :
         status'[q] # None /\ status'[q][w] = "RESULT_PERSISTED" =>
             w \in results'[q] /\ ~Delivered(q, w)
  BY <1>4, <1>6, <1>9 DEF IInv, FanoutInv
<1>12. FanoutInv'
  BY <1>4, <1>8, <1>10, <1>11, PlansGo
<1>13. Doing(h)'
  <2>1. call'[h] = step
    BY <1>1, <1>3 DEF Do
  <2> QED
    BY <1>2, <1>4, <1>7, <1>9, <2>1 DEF Doing, Publishing, Listing, Fanning
<1>14. step.at \in Inside
  BY <1>2 DEF Inside
<1> QED
  BY <1>2, <1>3, <1>4, <1>8, <1>10, <1>12, <1>13, <1>14, FanKeepsIInv

LEMMA PersistResultKeepsIInv ==
    ASSUME IInv, NEW h \in Hosts, NEW w \in Workers, PersistResult(h, w), UNCHANGED publication
    PROVE  IInv'
<1> DEFINE p == call[h].plan
<1>1. PlansTyped /\ run \in States /\ call \in [Hosts -> Steps]
  BY DEF Typed, IInv
<1>2. /\ call[h].at = "work" /\ holder = h /\ p \in Plans /\ planned[p] # None
      /\ status[p] # None /\ w \in call[h].workers /\ status[p][w] = "DISPATCHED"
  BY DEF PersistResult, IInv, HolderInv, CallInv, Doing, Fanning, Inside
<1>3. Do(h, call[h]) /\ call[h] \in Steps /\ holder' = h
  BY <1>1, <1>2 DEF PersistResult, Do
<1>4. /\ results' = [results EXCEPT ![p] = results[p] \cup {w}]
      /\ UNCHANGED <<run, call, crashes, pauses, bound, planned, status, delivered>>
  BY DEF PersistResult
<1> HIDE DEF p
<1>5. PlansTyped'
  BY <1>1, <1>2, <1>4 DEF PlansTyped
<1>6. \A q \in Plans : results[q] \subseteq results'[q]
  BY <1>1, <1>4 DEF PlansTyped
<1>7. \A q \in Plans, v \in Workers :
         status'[q] # None /\ status'[q][v] = "RESULT_PERSISTED" =>
             v \in results'[q] /\ ~Delivered(q, v)
  BY <1>4, <1>6 DEF IInv, FanoutInv
<1>8. FanoutInv'
  BY <1>4, <1>5, <1>6, <1>7, PlansGo
<1>9. Doing(h)'
  BY <1>2, <1>4 DEF IInv, CallInv, Doing, Publishing, Listing, Fanning
<1>10. call[h].at \in Inside
  BY <1>2 DEF Inside
<1> QED
  BY <1>2, <1>3, <1>4, <1>5, <1>8, <1>9, <1>10, FanKeepsIInv

LEMMA ExecutedKeepsIInv ==
    ASSUME IInv, NEW h \in Hosts, Executed(h), UNCHANGED publication
    PROVE  IInv'
<1> DEFINE p == call[h].plan
           mine == call[h].workers
<1>1. PlansTyped /\ run \in States /\ call \in [Hosts -> Steps]
  BY DEF Typed, IInv
<1>2. /\ call[h].at = "work" /\ holder = h /\ p \in Plans /\ planned[p] # None
      /\ status[p] # None /\ \A w \in mine : status[p][w] = "DISPATCHED"
  BY DEF Executed, IInv, HolderInv, CallInv, Doing, Fanning, Inside
<1>3. Do(h, Idle) /\ holder' = None
  BY DEF Executed, Return, Lock!Release
<1>4. PICK failed \in SUBSET (mine \ results[p]) :
        status' = [status EXCEPT ![p] = [w \in Workers |->
            IF w \notin mine THEN status[p][w]
            ELSE CASE w \in results[p] -> "RESULT_PERSISTED"
                   [] w \in failed -> "FAILED"
                   [] OTHER -> "TIMED_OUT"]]
  BY DEF Executed
<1>5. UNCHANGED <<run, crashes, pauses, bound, planned, results, delivered>>
  BY DEF Executed
<1> DEFINE marked == [w \in Workers |->
                         IF w \notin mine THEN status[p][w]
                         ELSE CASE w \in results[p] -> "RESULT_PERSISTED"
                                [] w \in failed -> "FAILED"
                                [] OTHER -> "TIMED_OUT"]
<1>6. /\ \A w \in Workers \ mine : marked[w] = status[p][w]
      /\ \A w \in Workers : w \in mine =>
            marked[w] \in {"RESULT_PERSISTED", "FAILED", "TIMED_OUT"}
      /\ \A w \in Workers : w \in mine /\ marked[w] = "RESULT_PERSISTED" => w \in results[p]
  <2> SUFFICES ASSUME NEW w \in Workers
               PROVE  /\ w \notin mine => marked[w] = status[p][w]
                      /\ w \in mine =>
                            /\ marked[w] \in {"RESULT_PERSISTED", "FAILED", "TIMED_OUT"}
                            /\ marked[w] = "RESULT_PERSISTED" => w \in results[p]
    OBVIOUS
  <2>1. CASE w \notin mine
    BY <2>1
  <2>2. CASE w \in mine /\ w \in results[p]
    BY <2>2, <1>4
  <2>3. CASE w \in mine /\ w \in failed
    BY <2>3, <1>4
  <2>4. CASE w \in mine /\ w \notin results[p] /\ w \notin failed
    BY <2>4
  <2> QED
    BY <2>1, <2>2, <2>3, <2>4
<1>7. status' = [status EXCEPT ![p] = marked]
  BY <1>4
<1>8. marked = [w \in Workers |-> marked[w]]
  OBVIOUS
<1> HIDE DEF p, mine, marked
<1>9. marked \in [Workers -> Statuses] /\ marked # None
  <2>1. \A w \in Workers : marked[w] \in Statuses
    BY <1>1, <1>2, <1>6 DEF PlansTyped, Statuses
  <2>2. marked \in [Workers -> Statuses]
    BY <1>8, <2>1
  <2> QED
    BY <2>2, AbsentAssumption
<1>10. PlansTyped'
  BY <1>1, <1>5, <1>7, <1>9 DEF PlansTyped
<1>11. /\ status'[p] = marked /\ status'[p] # None
       /\ \A q \in Plans : q # p => status'[q] = status[q]
  BY <1>1, <1>2, <1>7, <1>9 DEF PlansTyped
<1>12. \A q \in Plans : status[q] # None =>
         /\ status'[q] # None
         /\ \A w \in Workers : status[q][w] = "ACCEPTED" => status'[q][w] = "ACCEPTED"
  <2>1. \A w \in Workers : status[p][w] = "ACCEPTED" => w \notin mine
    BY <1>2
  <2> QED
    BY <1>6, <1>11, <2>1
<1>13. ASSUME NEW q \in Plans, NEW w \in Workers,
              status'[q] # None, status'[q][w] = "RESULT_PERSISTED"
       PROVE  w \in results'[q] /\ ~Delivered(q, w)
  <2>1. CASE q = p /\ w \in mine
    BY <1>2, <1>5, <1>6, <1>11, <1>13, <2>1, DeliveredFacts
  <2>2. CASE q # p \/ w \notin mine
    BY <1>2, <1>5, <1>6, <1>11, <1>13, <2>2 DEF IInv, FanoutInv
  <2> QED
    BY <2>1, <2>2
<1>14. FanoutInv'
  BY <1>5, <1>10, <1>12, <1>13, PlansGo
<1>15. Doing(h)'
  BY <1>1, <1>3, IdleIsAStep, OutsideDoes DEF Do
<1>16. Idle \in Steps /\ Idle.at \notin Inside
  BY IdleIsAStep DEF Inside
<1> QED
  BY <1>2, <1>3, <1>5, <1>10, <1>12, <1>14, <1>15, <1>16, FanKeepsIInv

LEMMA CancelKeepsIInv ==
    ASSUME IInv, NEW h \in Hosts, NEW p \in Plans, NEW v \in Workers, Cancel(h, p, v),
           UNCHANGED publication
    PROVE  IInv'
<1>1. PlansTyped /\ run \in States /\ call \in [Hosts -> Steps]
  BY DEF Typed, IInv
<1>2. /\ call[h].at = "idle" /\ holder = None /\ holder' = None
      /\ status[p] # None /\ status[p][v] \in {"PENDING", "DISPATCHED"}
      /\ status' = [status EXCEPT ![p] = [status[p] EXCEPT ![v] = "CANCELLED"]]
      /\ UNCHANGED <<run, call, crashes, pauses, bound, planned, results, delivered>>
  BY DEF Cancel
<1>3. Do(h, call[h]) /\ call[h] \in Steps
  BY <1>1, <1>2 DEF Do
<1> DEFINE marked == [status[p] EXCEPT ![v] = "CANCELLED"]
<1>4. status[p] \in [Workers -> Statuses]
  BY <1>1, <1>2 DEF PlansTyped
<1>5. /\ marked \in [Workers -> Statuses] /\ marked # None
      /\ \A w \in Workers : marked[w] = IF w = v THEN "CANCELLED" ELSE status[p][w]
  BY <1>4, AbsentAssumption DEF Statuses
<1>6. status' = [status EXCEPT ![p] = marked]
  BY <1>2
<1> HIDE DEF marked
<1>7. PlansTyped'
  BY <1>1, <1>2, <1>5, <1>6 DEF PlansTyped
<1>8. /\ status'[p] = marked /\ status'[p] # None
      /\ \A q \in Plans : q # p => status'[q] = status[q]
  BY <1>1, <1>5, <1>6 DEF PlansTyped
<1>9. \A q \in Plans : status[q] # None =>
         /\ status'[q] # None
         /\ \A w \in Workers : status[q][w] = "ACCEPTED" => status'[q][w] = "ACCEPTED"
  BY <1>2, <1>5, <1>8
<1>10. \A q \in Plans, w \in Workers :
         status'[q] # None /\ status'[q][w] = "RESULT_PERSISTED" =>
             w \in results'[q] /\ ~Delivered(q, w)
  BY <1>2, <1>5, <1>8 DEF IInv, FanoutInv
<1>11. FanoutInv'
  BY <1>2, <1>7, <1>9, <1>10, PlansGo
<1>12. Doing(h)'
  BY <1>2, OutsideDoes DEF IInv, CallInv, Doing, Publishing
<1>13. call[h].at \notin Inside
  BY <1>2 DEF Inside
<1> QED
  BY <1>2, <1>3, <1>7, <1>9, <1>11, <1>12, <1>13, FanKeepsIInv

LEMMA JoinKeepsIInv ==
    ASSUME IInv, NEW h \in Hosts, NEW p \in Plans, NEW submitted \in SUBSET Workers,
           Join(h, p, submitted), UNCHANGED publication
    PROVE  IInv'
<1> DEFINE accepted == {w \in submitted : status[p][w] = "RESULT_PERSISTED"}
           step == [Idle EXCEPT !.at = "joined", !.plan = p, !.workers = accepted]
           marked == [w \in Workers |-> IF w \in accepted THEN "ACCEPTED" ELSE status[p][w]]
<1>1. PlansTyped /\ run \in States /\ call \in [Hosts -> Steps]
  BY DEF Typed, IInv
<1>2. step \in Steps /\ step.at = "joined" /\ step.plan = p /\ step.workers = accepted
  BY IdleIsAStep DEF Steps, Idle
<1>3. Do(h, step) /\ holder = None /\ holder' = h
  BY DEF Join, Begin, Lock!Take
<1>4. /\ status' = [status EXCEPT ![p] = marked]
      /\ planned[p] # None /\ status[p] # None
      /\ run.tree # None /\ run.tree.doc = planned[p]
      /\ UNCHANGED <<run, crashes, pauses, bound, planned, results, delivered>>
  BY DEF Join
<1>5. marked \in [Workers -> Statuses] /\ marked # None
  BY <1>1, <1>4, AbsentAssumption DEF PlansTyped, Statuses
<1>6. \A w \in Workers : marked[w] = IF w \in accepted THEN "ACCEPTED" ELSE status[p][w]
  OBVIOUS
<1>7. \A w \in accepted : w \in Workers /\ marked[w] = "ACCEPTED" /\ status[p][w] = "RESULT_PERSISTED"
  OBVIOUS
<1> HIDE DEF step, marked, accepted
<1>8. PlansTyped'
  BY <1>1, <1>4, <1>5 DEF PlansTyped
<1>9. /\ status'[p] = marked /\ status'[p] # None
      /\ \A q \in Plans : q # p => status'[q] = status[q]
  BY <1>1, <1>4, <1>5 DEF PlansTyped
<1>10. \A q \in Plans : status[q] # None =>
         /\ status'[q] # None
         /\ \A w \in Workers : status[q][w] = "ACCEPTED" => status'[q][w] = "ACCEPTED"
  BY <1>6, <1>9
<1>11. \A q \in Plans, w \in Workers :
         status'[q] # None /\ status'[q][w] = "RESULT_PERSISTED" =>
             w \in results'[q] /\ ~Delivered(q, w)
  BY <1>4, <1>6, <1>9 DEF IInv, FanoutInv
<1>12. FanoutInv'
  BY <1>4, <1>8, <1>10, <1>11, PlansGo
<1>13. \A w \in accepted : w \in results[p] /\ ~Delivered(p, w)
  BY <1>4, <1>7 DEF IInv, FanoutInv
<1>14. Doing(h)'
  <2>1. call'[h] = step
    BY <1>1, <1>3 DEF Do
  <2>2. Fanning(h)'
    BY <1>2, <1>4, <1>7, <1>9, <1>13, <2>1 DEF Fanning, Delivered
  <2> QED
    BY <1>2, <2>1, <2>2 DEF Doing, Publishing, Listing
<1>15. step.at \in Inside
  BY <1>2 DEF Inside
<1> QED
  BY <1>2, <1>3, <1>4, <1>8, <1>10, <1>12, <1>14, <1>15, FanKeepsIInv

LEMMA JoinedKeepsIInv ==
    ASSUME IInv, NEW h \in Hosts, Joined(h), UNCHANGED publication
    PROVE  IInv'
<1> DEFINE p == call[h].plan
           mine == call[h].workers
           found == [plan |-> p, doc |-> run.tree.doc, workers |-> mine]
<1>1. PlansTyped /\ run \in States /\ call \in [Hosts -> Steps]
  BY DEF Typed, IInv
<1>2. /\ call[h].at = "joined" /\ holder = h /\ p \in Plans /\ planned[p] # None
      /\ status[p] # None /\ run.tree # None /\ planned[p] = run.tree.doc
      /\ \A w \in mine : w \in results[p] /\ status[p][w] = "ACCEPTED" /\ ~Delivered(p, w)
  BY DEF Joined, IInv, HolderInv, CallInv, Doing, Fanning, Inside
<1>3. Do(h, Idle) /\ holder' = None
  BY DEF Joined, Return, Lock!Release
<1>4. UNCHANGED <<run, crashes, pauses, bound, planned, status, results>>
  BY DEF Joined
<1>5. delivered' = IF mine = {} THEN delivered ELSE Append(delivered, found)
  BY DEF Joined
<1>6. found \in [plan : Plans, workers : SUBSET Workers, doc : Docs]
  BY <1>1, <1>2, StateFacts, TreeFacts, StepFacts
<1>7. found.plan = p /\ found.workers = mine /\ found.doc = run.tree.doc
  OBVIOUS
<1> HIDE DEF p, mine, found
<1>8. PlansTyped'
  <2> DEFINE answers == [plan : Plans, workers : SUBSET Workers, doc : Docs]
  <2>1. delivered \in Seq(answers)
    BY <1>1 DEF PlansTyped
  <2>2. found \in answers
    BY <1>6
  <2> HIDE DEF answers
  <2>3. delivered' \in Seq(answers)
    BY <1>5, <2>1, <2>2
  <2> QED
    BY <1>1, <1>4, <2>3 DEF PlansTyped, answers
<1>9. Doing(h)'
  BY <1>1, <1>3, IdleIsAStep, OutsideDoes DEF Do
<1>10. Idle \in Steps /\ Idle.at \notin Inside
  BY IdleIsAStep DEF Inside
<1>11. FanoutInv'
  <2>1. CASE mine = {}
    BY <1>4, <1>5, <2>1 DEF IInv, FanoutInv, Delivered, FindingsAreDeliveredOnce
  <2>2. CASE mine # {}
    <3> DEFINE n == Len(delivered) + 1
    <3>1. /\ Len(delivered) \in Nat /\ Len(delivered') = n /\ delivered'[n] = found
          /\ \A i \in 1 .. Len(delivered) : delivered'[i] = delivered[i]
      BY <1>1, <1>5, <1>6, <2>2 DEF PlansTyped
    <3>2. \A i \in 1 .. n : i \in 1 .. Len(delivered) \/ i = n
      BY <3>1
    <3>3. n \notin 1 .. Len(delivered) /\ n \in 1 .. n
      BY <3>1
    <3> HIDE DEF n
    <3>4. ASSUME NEW q \in Plans, NEW w \in Workers, Delivered(q, w)'
          PROVE  Delivered(q, w) \/ (q = p /\ w \in mine)
      <4>1. PICK i \in 1 .. n : delivered'[i].plan = q /\ w \in delivered'[i].workers
        BY <3>1, <3>4 DEF Delivered
      <4> QED
        BY <1>7, <3>1, <3>2, <4>1 DEF Delivered
    <3>5. \A q \in Plans, w \in Workers :
            status'[q] # None /\ status'[q][w] = "RESULT_PERSISTED" =>
                w \in results'[q] /\ ~Delivered(q, w)'
      BY <1>2, <1>4, <3>4 DEF IInv, FanoutInv
    <3>6. \A i \in 1 .. n :
            planned[delivered'[i].plan] # None /\ status[delivered'[i].plan] # None
      BY <1>2, <1>7, <3>1, <3>2 DEF IInv, FanoutInv
    <3>7. ASSUME NEW i \in 1 .. n
          PROVE  /\ delivered'[i].doc = planned[delivered'[i].plan]
                 /\ \A w \in delivered'[i].workers :
                     /\ w \in results[delivered'[i].plan]
                     /\ status[delivered'[i].plan][w] = "ACCEPTED"
                     /\ \A k \in 1 .. n : k # i /\ delivered'[k].plan = delivered'[i].plan =>
                            w \notin delivered'[k].workers
      <4>1. CASE i = n
        <5>1. delivered'[i] = found
          BY <3>1, <4>1
        <5>2. ASSUME NEW w \in mine, NEW k \in 1 .. n, k # i, delivered'[k].plan = p
              PROVE  w \notin delivered'[k].workers
          BY <1>2, <3>1, <3>2, <4>1, <5>2 DEF Delivered
        <5> QED
          BY <1>2, <1>7, <5>1, <5>2
      <4>2. CASE i \in 1 .. Len(delivered)
        <5>1. delivered'[i] = delivered[i]
          BY <3>1, <4>2
        <5>2. ASSUME NEW w \in delivered[i].workers, NEW k \in 1 .. n, k # i,
                     delivered'[k].plan = delivered[i].plan
              PROVE  w \notin delivered'[k].workers
          <6>1. CASE k = n
            <7>1. delivered'[k] = found
              BY <3>1, <6>1
            <7> QED
              BY <1>2, <1>7, <4>2, <5>2, <7>1 DEF Delivered
          <6>2. CASE k \in 1 .. Len(delivered)
            BY <3>1, <4>2, <5>2, <6>2 DEF IInv, FanoutInv, FindingsAreDeliveredOnce
          <6> QED
            BY <3>2, <6>1, <6>2
        <5> QED
          BY <4>2, <5>1, <5>2 DEF IInv, FanoutInv, FindingsAreDeliveredOnce
      <4> QED
        BY <3>2, <4>1, <4>2
    <3>8. FindingsAreDeliveredOnce'
      BY <1>4, <3>1, <3>7 DEF FindingsAreDeliveredOnce
    <3> QED
      BY <1>4, <3>1, <3>5, <3>6, <3>8 DEF FanoutInv
  <2> QED
    BY <2>1, <2>2
<1> QED
  BY <1>2, <1>3, <1>4, <1>8, <1>9, <1>10, <1>11, FanKeepsIInv

----------------------------------------------------------------------------
(* Commits that publish nothing *)

\* A journal tells of its own version and of the next.
LEMMA JournalVersions ==
    ASSUME IInv, NEW j \in prepared
    PROVE  /\ j \in Journals /\ Publishes(j) /\ JournalOK(j)
           /\ j.before \in States /\ j.after \in States /\ run \in States
           /\ j.before.version \in Nat /\ j.after.version = j.before.version + 1
           /\ run.version \in Nat /\ j.before.version <= run.version
           /\ j.before.version = run.version => run = j.before
           /\ run = j.before => j.before.version = run.version
           /\ run = j.after => run.version = j.before.version + 1
<1>1. j \in Journals /\ run \in States
  BY DEF Typed, IInv, FilesTyped
<1>2. JournalOK(j)
  BY DEF IInv, JournalInv
<1>3. j.before \in States /\ j.after \in States
  BY <1>1, JournalFacts
<1>4. j.before.version \in Nat /\ run.version \in Nat
  BY <1>1, <1>3, StateFacts
<1>5. j.after.version = j.before.version + 1 /\ Publishes(j)
  BY <1>2 DEF JournalOK, Publishes
<1>6. run = j.before \/ run = j.after \/ j.before.version < run.version
  BY <1>2 DEF JournalOK, IsCurrent
<1> QED
  BY <1>1, <1>2, <1>3, <1>4, <1>5, <1>6

\* A new version of the state overtakes every journal but the one that writes it.
LEMMA Overtakes ==
    ASSUME IInv, run'.version = run.version + 1, NEW j \in prepared, run' # j.after
    PROVE  run' # j.before /\ j.before.version < run'.version
<1>1. j.before.version \in Nat /\ run.version \in Nat /\ j.before.version <= run.version
  BY JournalVersions
<1>2. j.before.version < run'.version
  BY <1>1
<1> QED
  BY <1>1, <1>2

\* Neither the files nor the Candidate are changed.
LEMMA CandidateKept ==
    ASSUME IInv, run' \in States, run'.version = run.version + 1,
           UNCHANGED kept,
           run'.tree = run.tree, run'.generation = run.generation, run'.release = run.release
    PROVE  FilesTyped' /\ FileInv' /\ JournalInv' /\ CleanInv'
<1>1. UNCHANGED <<archive, history, stage, releasing, released, listed, prepared>>
  BY DEF kept
<1>2. FilesTyped'
  BY <1>1 DEF Typed, IInv, FilesTyped
<1>3. FileInv'
  BY <1>1 DEF IInv, FileInv
<1>4. \A j \in prepared : run' # j.after
  <2> SUFFICES ASSUME NEW j \in prepared, run' = j.after PROVE FALSE
    OBVIOUS
  <2>1. Publishes(j) /\ j.before.version = run.version /\ j.before.generation \in Nat
    BY JournalVersions, StateFacts
  <2>2. run = j.before
    BY <2>1, JournalVersions
  <2> QED
    BY <2>1, <2>2 DEF Publishes, IsRelease
<1>5. \A j \in prepared : ~IsCurrent(j)' /\ j.before.version < run'.version
  BY <1>4, Overtakes DEF IsCurrent
<1>6. JournalInv'
  BY <1>1, <1>5 DEF IInv, JournalInv, JournalOK, IsCurrent
<1>7. CleanInv'
  BY <1>1, <1>5 DEF IInv, CleanInv, IsListed
<1> QED
  BY <1>2, <1>3, <1>6, <1>7

LEMMA CommitsKeepIInv ==
    ASSUME IInv, NEW h \in Hosts, NEW step \in Steps, Do(h, step),
           run' \in States, run'.version = run.version + 1,
           UNCHANGED <<kept, fanout>>,
           run'.tree = run.tree, run'.generation = run.generation, run'.release = run.release,
           BoundTyped', Sound(run)', StageInv', ListInv',
           holder \in {None, h}, holder' = IF step.at \in Inside THEN h ELSE None,
           Doing(h)'
    PROVE  IInv'
<1>1. HolderInv' /\ CallInv' /\ call' \in [Hosts -> Steps] /\ holder' \in Hosts \cup {None}
  BY CallsKept DEF Do
<1>2. FilesTyped' /\ FileInv' /\ JournalInv' /\ CleanInv'
  BY CandidateKept
<1>3. PlansTyped' /\ FanoutInv'
  BY PlansKept
<1> QED
  BY <1>1, <1>2, <1>3 DEF IInv, Typed

LEMMA CommitKeepsIInv ==
    ASSUME IInv, NEW h \in Hosts, NEW step \in Steps, Do(h, step),
           run' \in States, run'.version = run.version + 1,
           UNCHANGED <<publication, fanout>>,
           run'.tree = run.tree, run'.generation = run.generation, run'.release = run.release,
           BoundTyped', Sound(run)', StageInv', ListInv',
           holder \in {None, h}, holder' = IF step.at \in Inside THEN h ELSE None,
           Doing(h)'
    PROVE  IInv'
BY CommitsKeepIInv DEF publication, files, kept

LEMMA RunFacts ==
    ASSUME IInv
    PROVE  /\ run \in States /\ Sound(run) /\ call \in [Hosts -> Steps] /\ BoundTyped
           /\ FilesTyped /\ prepared \subseteq Journals
BY DEF Typed, IInv, FilesTyped

\* The call ends.
LEMMA ReturnFacts ==
    ASSUME IInv, NEW h \in Hosts, Return(h)
    PROVE  Do(h, Idle) /\ Idle \in Steps /\ Idle.at \notin Inside /\ Doing(h)'
<1>1. Do(h, Idle) /\ Idle \in Steps /\ Idle.at = "idle" /\ Idle.journal = None
  BY IdleIsAStep DEF Return
<1>2. call'[h] = Idle
  BY <1>1, RunFacts DEF Do
<1> QED
  BY <1>1, <1>2, OutsideDoes DEF Inside

\* A commit writes the next version of a state.
LEMMA CommitFacts ==
    ASSUME NEW next \in States, run \in States, Commit(next)
    PROVE  /\ run' \in States /\ run'.version = run.version + 1
           /\ run'.status = next.status /\ run'.node = next.node /\ run'.tree = next.tree
           /\ run'.generation = next.generation /\ run'.packs = next.packs
           /\ run'.staged = next.staged /\ run'.pending = next.pending
           /\ run'.receipts = next.receipts /\ run'.release = next.release
           /\ run'.plans = next.plans /\ run'.blocked = next.blocked
           /\ run'.asked = next.asked /\ run'.dispatch = next.dispatch
<1>1. run.version + 1 \in Nat
  BY StateFacts
<1>2. run' = [next EXCEPT !.version = run.version + 1]
  BY DEF Commit, Next
<1> QED
  BY <1>1, <1>2 DEF States

LEMMA PauseKeepsIInv ==
    ASSUME IInv, NEW h \in Hosts, Pause(h), UNCHANGED fanout
    PROVE  IInv'
<1>1. /\ Commit([run EXCEPT !.status = "PAUSED"])
      /\ run.status = "ACTIVE" /\ Return(h) /\ holder = None /\ holder' = None
      /\ pauses < bound.pauses /\ pauses' = pauses + 1
      /\ UNCHANGED <<crashes, bound, publication>>
  BY DEF Pause
<1>2. /\ run' \in States /\ run'.version = run.version + 1 /\ run'.status = "PAUSED"
      /\ run'.node = run.node /\ run'.tree = run.tree /\ run'.generation = run.generation
      /\ run'.packs = run.packs /\ run'.staged = run.staged /\ run'.pending = run.pending
      /\ run'.receipts = run.receipts /\ run'.release = run.release /\ run'.plans = run.plans
      /\ run'.blocked = run.blocked
  <2> DEFINE next == [run EXCEPT !.status = "PAUSED"]
  <2>1. next \in States
    BY <1>1, RunFacts DEF States
  <2> QED
    BY <1>1, <2>1, RunFacts, CommitFacts DEF States
<1>3. BoundTyped'
  <2>1. pauses \in Nat /\ bound.pauses \in Nat /\ crashes' \in 0 .. bound.crashes /\ bound' \in Bounds
    BY <1>1, RunFacts, BoundFacts DEF BoundTyped
  <2>2. pauses' \in 0 .. bound.pauses
    BY <1>1, <2>1
  <2> QED
    BY <1>1, <2>1, <2>2 DEF BoundTyped
<1>4. Sound(run)'
  BY <1>1, <1>2, RunFacts DEF Sound
<1>5. StageInv'
  BY <1>1, <1>2 DEF IInv, StageInv, Fits, publication, files
<1>6. ListInv'
  BY <1>1, <1>2, ListsKept DEF publication, files
<1> QED
  BY <1>1, <1>2, <1>3, <1>4, <1>5, <1>6, ReturnFacts, CommitKeepsIInv

LEMMA ResumeKeepsIInv ==
    ASSUME IInv, NEW h \in Hosts, Resume(h), UNCHANGED fanout
    PROVE  IInv'
<1>1. /\ Commit([run EXCEPT !.status = "ACTIVE"])
      /\ run.status = "PAUSED" /\ Return(h) /\ holder = None /\ holder' = None
      /\ UNCHANGED <<crashes, pauses, bound, publication>>
  BY DEF Resume
<1>2. /\ run' \in States /\ run'.version = run.version + 1 /\ run'.status = "ACTIVE"
      /\ run'.node = run.node /\ run'.tree = run.tree /\ run'.generation = run.generation
      /\ run'.packs = run.packs /\ run'.staged = run.staged /\ run'.pending = run.pending
      /\ run'.receipts = run.receipts /\ run'.release = run.release /\ run'.plans = run.plans
      /\ run'.blocked = run.blocked
  <2> DEFINE next == [run EXCEPT !.status = "ACTIVE"]
  <2>1. next \in States
    BY <1>1, RunFacts DEF States
  <2> QED
    BY <1>1, <2>1, RunFacts, CommitFacts DEF States
<1>3. BoundTyped'
  BY <1>1, RunFacts DEF BoundTyped
<1>4. Sound(run)'
  BY <1>1, <1>2, RunFacts DEF Sound
<1>5. StageInv'
  BY <1>1, <1>2 DEF IInv, StageInv, Fits, publication, files
<1>6. ListInv'
  BY <1>1, <1>2, ListsKept DEF publication, files
<1> QED
  BY <1>1, <1>2, <1>3, <1>4, <1>5, <1>6, ReturnFacts, CommitKeepsIInv

LEMMA AnswerKeepsIInv ==
    ASSUME IInv, NEW h \in Hosts, Answer(h), UNCHANGED fanout
    PROVE  IInv'
<1>1. PICK node \in {"review.aggregate", "prd.optimize", "review.finalize"} :
        Commit([run EXCEPT !.node = node])
  BY DEF Answer, MayAnswer
<1>2. /\ run.node \in {"review.parallel", "review.aggregate"} /\ holder = None /\ holder' = None
      /\ call[h].at = "idle" /\ UNCHANGED <<call, crashes, pauses, bound, publication>>
  BY DEF Answer, MayAnswer
<1>3. /\ run' \in States /\ run'.version = run.version + 1 /\ run'.status = run.status
      /\ run'.node = node /\ run'.tree = run.tree /\ run'.generation = run.generation
      /\ run'.packs = run.packs /\ run'.staged = run.staged /\ run'.pending = run.pending
      /\ run'.receipts = run.receipts /\ run'.release = run.release /\ run'.plans = run.plans
      /\ run'.blocked = run.blocked
  <2> DEFINE next == [run EXCEPT !.node = node]
  <2>1. next \in States
    BY <1>1, RunFacts DEF States
  <2> QED
    BY <1>1, <2>1, RunFacts, CommitFacts DEF States
<1>4. BoundTyped'
  BY <1>2, RunFacts DEF BoundTyped
<1>5. Sound(run)'
  BY <1>2, <1>3, RunFacts DEF Sound
<1>6. StageInv'
  BY <1>2, <1>3 DEF IInv, StageInv, Fits, publication, files
<1>7. ListInv'
  BY <1>2, <1>3, ListsKept DEF publication, files
<1>8. /\ call[h] \in Steps /\ Do(h, call[h]) /\ call[h].at \notin Inside
      /\ Doing(h)'
  <2>1. call[h].journal = None
    BY <1>2 DEF IInv, CallInv, Doing, Publishing
  <2> QED
    BY <1>2, <2>1, RunFacts, OutsideDoes DEF Do, Inside
<1> QED
  BY <1>2, <1>3, <1>4, <1>5, <1>6, <1>7, <1>8, CommitKeepsIInv

LEMMA StagePackKeepsIInv ==
    ASSUME IInv, NEW h \in Hosts, StagePack(h), UNCHANGED fanout
    PROVE  IInv'
<1> DEFINE next == [run EXCEPT !.packs = run.packs + 1, !.staged = run.tree.doc, !.pending = TRUE]
<1>1. /\ Commit(next) /\ Return(h) /\ holder = None /\ holder' = None
      /\ run.tree # None /\ run.packs < bound.packs
      /\ UNCHANGED <<crashes, pauses, bound, publication>>
  BY DEF StagePack, MayPrepare
<1>2. run.tree.doc \in Docs /\ run.tree.evals \in Nat
  BY <1>1, RunFacts, StateFacts, TreeFacts
<1>3. run.packs \in Nat /\ run.packs + 1 \in 0 .. MaxPacks /\ run.packs + 1 > 0
  <2>1. run.packs \in 0 .. MaxPacks /\ bound.packs \in 0 .. MaxPacks
    BY RunFacts, StateFacts, BoundFacts DEF BoundTyped
  <2> QED
    BY <1>1, <2>1, DocsAre
<1>4. next \in States
  BY <1>2, <1>3, RunFacts DEF States
<1>5. /\ run' \in States /\ run'.version = run.version + 1 /\ run'.status = run.status
      /\ run'.node = run.node /\ run'.tree = run.tree /\ run'.generation = run.generation
      /\ run'.packs = run.packs + 1 /\ run'.staged = run.tree.doc /\ run'.pending = TRUE
      /\ run'.receipts = run.receipts /\ run'.release = run.release /\ run'.plans = run.plans
      /\ run'.blocked = run.blocked
  <2>1. /\ next.status = run.status /\ next.node = run.node /\ next.tree = run.tree
        /\ next.generation = run.generation /\ next.packs = run.packs + 1
        /\ next.staged = run.tree.doc /\ next.pending = TRUE
        /\ next.receipts = run.receipts /\ next.release = run.release
        /\ next.plans = run.plans /\ next.blocked = run.blocked
    BY RunFacts DEF States
  <2> HIDE DEF next
  <2> QED
    BY <1>1, <1>4, <2>1, RunFacts, CommitFacts
<1>6. BoundTyped'
  BY <1>1, RunFacts DEF BoundTyped
<1>7. Sound(run)'
  <2>1. run.tree.evals <= run.packs
    BY <1>1, RunFacts DEF Sound
  <2>2. run'.tree.evals < run'.packs /\ run'.packs > 0
    BY <1>2, <1>3, <1>5, <2>1
  <2>3. run'.tree.evals <= run'.packs
    BY <1>2, <1>3, <1>5, <2>1
  <2> QED
    BY <1>5, <2>2, <2>3, RunFacts DEF Sound
<1>8. StageInv'
  <2> DEFINE d == run.tree.doc
             left == stage[d]
  <2> SUFFICES ASSUME left # None, run.receipts = 0, run.release = None,
                      archive[d] = run.tree
               PROVE  Fits(left)'
    BY <1>1, <1>5 DEF StageInv, publication, files
  <2>1. Fits(left)
    BY <1>1 DEF IInv, StageInv
  <2>2. CASE left = [run.tree EXCEPT !.review = "FINALIZED"] /\ run.node = "review.finalize"
    BY <1>1, <1>5, <2>2 DEF Fits, publication, files
  <2>3. CASE left.review = "NOT_RUN" /\ left.evals = run.packs + 1
    BY <1>1, <1>5, <2>3 DEF Fits, publication, files
  <2>4. CASE left.evals = run.packs /\ run.pending
    <3>1. run.packs > 0
      BY <2>4, RunFacts DEF Sound
    <3>2. left.evals \in 1 .. run'.packs /\ left.evals # run'.packs
      BY <1>3, <1>5, <2>4, <3>1
    <3> QED
      BY <1>1, <1>5, <3>2 DEF Fits, publication, files
  <2>5. CASE left.evals \in 1 .. run.packs
    <3>1. left.evals \in 1 .. run'.packs /\ left.evals # run'.packs
      BY <1>3, <1>5, <2>5
    <3> QED
      BY <1>1, <1>5, <3>1 DEF Fits, publication, files
  <2> QED
    BY <2>1, <2>2, <2>3, <2>4, <2>5 DEF Fits
<1>9. ListInv'
  BY <1>1, <1>5, ListsKept DEF publication, files
<1> QED
  BY <1>1, <1>5, <1>6, <1>7, <1>8, <1>9, ReturnFacts, CommitKeepsIInv

LEMMA HandOffKeepsIInv ==
    ASSUME IInv, NEW h \in Hosts, HandOff(h), UNCHANGED fanout
    PROVE  IInv'
<1> DEFINE next == [run EXCEPT !.status = "COMPLETED", !.node = "handoff.dispatch"]
<1>1. /\ Commit(next) /\ Return(h) /\ holder = None /\ holder' = None
      /\ run.status = "RELEASED"
      /\ UNCHANGED <<crashes, pauses, bound, publication>>
  BY DEF HandOff, MayHandOff
<1>2. next \in States
  BY RunFacts DEF States
<1>3. /\ run' \in States /\ run'.version = run.version + 1 /\ run'.status = "COMPLETED"
      /\ run'.node = "handoff.dispatch" /\ run'.tree = run.tree
      /\ run'.generation = run.generation
      /\ run'.packs = run.packs /\ run'.staged = run.staged /\ run'.pending = run.pending
      /\ run'.receipts = run.receipts /\ run'.release = run.release /\ run'.plans = run.plans
      /\ run'.blocked = run.blocked
  <2>1. /\ next.status = "COMPLETED" /\ next.node = "handoff.dispatch" /\ next.tree = run.tree
        /\ next.generation = run.generation /\ next.packs = run.packs
        /\ next.staged = run.staged /\ next.pending = run.pending
        /\ next.receipts = run.receipts /\ next.release = run.release
        /\ next.plans = run.plans /\ next.blocked = run.blocked
    BY RunFacts DEF States
  <2> HIDE DEF next
  <2> QED
    BY <1>1, <1>2, <2>1, RunFacts, CommitFacts
<1>4. BoundTyped'
  BY <1>1, RunFacts DEF BoundTyped
<1>5. run.release # None /\ run.tree # None
  <2>1. run.release # None /\ run.release = run.tree
    BY <1>1, RunFacts DEF Sound
  <2> QED
    BY <2>1
<1>6. Sound(run)'
  BY <1>3, <1>5, RunFacts DEF Sound
<1>7. StageInv'
  BY <1>3, <1>5 DEF StageInv
<1>8. ListInv'
  BY <1>1, <1>3, ListsKept DEF publication, files
<1> QED
  BY <1>1, <1>3, <1>4, <1>6, <1>7, <1>8, ReturnFacts, CommitKeepsIInv

\* An assessment in the place of a Pack: what was staged with a Pack is a
\* conflict from then on.
LEMMA BlockPackKeepsIInv ==
    ASSUME IInv, NEW h \in Hosts, BlockPack(h), UNCHANGED fanout
    PROVE  IInv'
<1> DEFINE next == [run EXCEPT !.staged = run.tree.doc, !.pending = FALSE, !.blocked = TRUE]
<1>1. /\ Commit(next) /\ Return(h) /\ holder = None /\ holder' = None
      /\ run.tree # None
      /\ UNCHANGED <<crashes, pauses, bound, publication>>
  BY DEF BlockPack, MayPrepare
<1>2. run.tree.doc \in Docs /\ run.packs \in Nat
  <2>1. run.packs \in 0 .. MaxPacks /\ MaxPacks \in Nat
    BY RunFacts, StateFacts, DocsAre
  <2> QED
    BY <1>1, <2>1, RunFacts, StateFacts, TreeFacts
<1>3. next \in States
  BY <1>2, RunFacts DEF States
<1>4. /\ run' \in States /\ run'.version = run.version + 1 /\ run'.status = run.status
      /\ run'.node = run.node /\ run'.tree = run.tree /\ run'.generation = run.generation
      /\ run'.packs = run.packs /\ run'.staged = run.tree.doc /\ run'.pending = FALSE
      /\ run'.blocked = TRUE
      /\ run'.receipts = run.receipts /\ run'.release = run.release /\ run'.plans = run.plans
  <2>1. /\ next.status = run.status /\ next.node = run.node /\ next.tree = run.tree
        /\ next.generation = run.generation /\ next.packs = run.packs
        /\ next.staged = run.tree.doc /\ next.pending = FALSE /\ next.blocked = TRUE
        /\ next.receipts = run.receipts /\ next.release = run.release
        /\ next.plans = run.plans
    BY RunFacts DEF States
  <2> HIDE DEF next
  <2> QED
    BY <1>1, <1>3, <2>1, RunFacts, CommitFacts
<1>5. BoundTyped'
  BY <1>1, RunFacts DEF BoundTyped
<1>6. Sound(run)'
  BY <1>4, RunFacts DEF Sound
<1>7. StageInv'
  <2> DEFINE d == run.tree.doc
             left == stage[d]
  <2> SUFFICES ASSUME left # None, run.receipts = 0, run.release = None,
                      archive[d] = run.tree
               PROVE  Fits(left)'
    BY <1>1, <1>4 DEF StageInv, publication, files
  <2>1. Fits(left)
    BY <1>1 DEF IInv, StageInv
  <2>2. CASE left = [run.tree EXCEPT !.review = "FINALIZED"] /\ run.node = "review.finalize"
    BY <1>1, <1>4, <2>2 DEF Fits, publication, files
  <2>3. CASE left.review = "NOT_RUN" /\ left.evals = run.packs + 1
    BY <1>1, <1>4, <2>3 DEF Fits, publication, files
  <2>4. CASE left.evals = run.packs /\ run.pending
    <3>1. run.packs > 0
      BY <2>4, RunFacts DEF Sound
    <3>2. left.evals \in 1 .. run'.packs
      BY <1>2, <1>4, <2>4, <3>1
    <3> QED
      BY <1>1, <1>4, <3>2 DEF Fits, publication, files
  <2>5. CASE left.evals \in 1 .. run.packs
    BY <1>1, <1>4, <2>5 DEF Fits, publication, files
  <2> QED
    BY <2>1, <2>2, <2>3, <2>4, <2>5 DEF Fits
<1>8. ListInv'
  BY <1>1, <1>4, ListsKept DEF publication, files
<1> QED
  BY <1>1, <1>4, <1>5, <1>6, <1>7, <1>8, ReturnFacts, CommitKeepsIInv

----------------------------------------------------------------------------
(* The Ready gate *)

\* A commit that leaves the Candidate, its Packs and its node as they are
GateWrites(next) ==
    /\ next \in States /\ next.status = run.status /\ next.node = run.node
    /\ next.tree = run.tree /\ next.generation = run.generation /\ next.packs = run.packs
    /\ next.staged = run.staged /\ next.pending = run.pending /\ next.blocked = run.blocked
    /\ next.release = run.release /\ next.plans = run.plans
    /\ next.receipts = run.receipts \/ next.receipts # 0

LEMMA GateCommitKeepsIInv ==
    ASSUME IInv, NEW h \in Hosts, NEW step \in Steps, Do(h, step),
           NEW next, GateWrites(next), Commit(next),
           UNCHANGED <<crashes, pauses, bound, kept, fanout>>,
           holder \in {None, h}, holder' = IF step.at \in Inside THEN h ELSE None,
           Doing(h)'
    PROVE  IInv'
<1>1. /\ run' \in States /\ run'.version = run.version + 1 /\ run'.status = run.status
      /\ run'.node = run.node /\ run'.tree = run.tree /\ run'.generation = run.generation
      /\ run'.packs = run.packs /\ run'.staged = run.staged /\ run'.pending = run.pending
      /\ run'.blocked = run.blocked /\ run'.release = run.release /\ run'.plans = run.plans
      /\ run'.receipts = run.receipts \/ run'.receipts # 0
  BY RunFacts, CommitFacts DEF GateWrites
<1>2. BoundTyped'
  BY RunFacts DEF BoundTyped
<1>3. Sound(run)'
  BY <1>1, RunFacts DEF Sound
<1>4. StageInv'
  BY <1>1 DEF IInv, StageInv, Fits, kept
<1>5. ListInv'
  BY <1>1, ListsKept DEF kept
<1> QED
  BY <1>1, <1>2, <1>3, <1>4, <1>5, CommitsKeepIInv

LEMMA AskForPackKeepsIInv ==
    ASSUME IInv, NEW h \in Hosts, AskForPack(h), UNCHANGED fanout
    PROVE  IInv'
<1> DEFINE next == [run EXCEPT !.asked = TRUE]
<1>1. /\ Commit(next) /\ Return(h) /\ holder = None /\ holder' = None
      /\ UNCHANGED <<crashes, pauses, bound, kept>>
  BY DEF AskForPack, publication, files, kept
<1>2. GateWrites(next)
  BY RunFacts DEF GateWrites, States
<1> HIDE DEF next
<1> QED
  BY <1>1, <1>2, ReturnFacts, GateCommitKeepsIInv

LEMMA DispatchReadyKeepsIInv ==
    ASSUME IInv, NEW h \in Hosts, DispatchReady(h), UNCHANGED fanout
    PROVE  IInv'
<1> DEFINE step == [Idle EXCEPT !.at = "evidence", !.saw = run'.dispatch.attempt]
           next == [run EXCEPT !.dispatch = [attempt |-> run.dispatch.attempt + 1,
                                             authorised |-> run.version + 1,
                                             evidence |-> FALSE]]
<1>1. /\ Do(h, step) /\ holder = None /\ holder' = None
      /\ run' = run \/ Commit(next)
      /\ UNCHANGED <<crashes, pauses, bound, kept>>
  BY DEF DispatchReady, kept
<1>2. GateWrites(next)
  <2>1. run.version + 1 \in Nat /\ run.dispatch.attempt + 1 \in Nat
    BY RunFacts, StateFacts
  <2> QED
    BY <2>1, RunFacts DEF GateWrites, States
<1>3. run'.dispatch.attempt \in Nat
  BY <1>1, <1>2, RunFacts, CommitFacts, StateFacts DEF GateWrites
<1>4. step \in Steps /\ step.at = "evidence" /\ step.journal = None /\ step.at \notin Inside
  BY <1>3 DEF Steps, Idle, Inside
<1> HIDE DEF step, next
<1>5. Doing(h)'
  BY <1>1, <1>4, RunFacts, OutsideDoes DEF Do
<1>6. CASE run' = run
  BY <1>1, <1>4, <1>5, <1>6, GoesOnKeepsIInv
<1>7. CASE Commit(next)
  BY <1>1, <1>2, <1>4, <1>5, <1>7, GateCommitKeepsIInv
<1> QED
  BY <1>1, <1>6, <1>7

\* The steps of the gate that write nothing but its own files
LEMMA GateStepKeepsIInv ==
    ASSUME IInv, NEW h \in Hosts,
           \/ WriteValidation(h) \/ WriteSnapshots(h) \/ WriteResult(h)
           \/ WriteResultReceipt(h) \/ TakeResult(h),
           UNCHANGED fanout
    PROVE  IInv'
<1>1. call[h].at \in {"evidence", "snapshots", "receipts", "receipt"}
  BY DEF WriteValidation, WriteSnapshots, WriteResult, WriteResultReceipt, TakeResult
<1>2. UNCHANGED <<run, bound, crashes, pauses, kept, fanout>>
  BY DEF WriteValidation, WriteSnapshots, WriteResult, WriteResultReceipt, TakeResult, kept,
         publication, files
<1>3. call[h] \in Steps /\ Idle \in Steps /\ Idle.at = "idle" /\ Idle.journal = None
  BY RunFacts, IdleIsAStep
<1>4. call[h].at \in {"snapshots", "receipt"} => holder = h
  BY DEF IInv, HolderInv, Inside
<1>5. PICK at \in {"idle", "snapshots", "authorise", "receipt", "release"} :
        /\ Do(h, IF at = "idle" THEN Idle ELSE [call[h] EXCEPT !.at = at])
        /\ holder \in {None, h} /\ holder' = IF at \in Inside THEN h ELSE None
  <2>1. CASE WriteValidation(h)
    BY <2>1 DEF WriteValidation, Goto, Lock!Take, Inside
  <2>2. CASE WriteSnapshots(h) /\ ready.snapshot = "differs"
    BY <1>4, <2>2 DEF WriteSnapshots, Return, Lock!Release, Inside
  <2>3. CASE WriteSnapshots(h) /\ ready.snapshot # "differs"
    BY <1>4, <2>3 DEF WriteSnapshots, Goto, Inside
  <2>4. CASE WriteResult(h)
    BY <2>4 DEF WriteResult, Goto, Lock!Take, Inside
  <2>5. CASE WriteResultReceipt(h)
    BY <1>4, <2>5 DEF WriteResultReceipt, Goto, Lock!Release, Inside
  <2>6. CASE TakeResult(h)
    BY <2>6 DEF TakeResult, Goto, Inside
  <2> QED
    BY <2>1, <2>2, <2>3, <2>4, <2>5, <2>6
<1> DEFINE step == IF at = "idle" THEN Idle ELSE [call[h] EXCEPT !.at = at]
<1>6. step \in Steps /\ step.at = at /\ (at = "idle" => step.journal = None)
  BY <1>3, <1>5 DEF Steps
<1> HIDE DEF step
<1>7. Do(h, step) /\ call'[h] = step
  BY <1>5, RunFacts DEF Do, step
<1>8. Doing(h)'
  BY <1>5, <1>6, <1>7, OutsideDoes
<1> QED
  BY <1>2, <1>5, <1>6, <1>7, <1>8, GoesOnKeepsIInv

LEMMA BindEvidenceKeepsIInv ==
    ASSUME IInv, NEW h \in Hosts, BindEvidence(h), UNCHANGED fanout
    PROVE  IInv'
<1> DEFINE step == [call[h] EXCEPT !.at = "receipts"]
           next == Reauthorised([run EXCEPT !.dispatch.evidence = TRUE])
<1>1. /\ Do(h, step) /\ holder = h /\ holder' = None
      /\ run' = run \/ Commit(next)
      /\ UNCHANGED <<crashes, pauses, bound, kept>>
  <2>1. holder = h
    BY DEF BindEvidence, IInv, HolderInv, Inside
  <2> QED
    BY <2>1 DEF BindEvidence, Goto, Lock!Release, publication, files, kept
<1>2. GateWrites(next)
  <2>1. run.version + 1 \in Nat /\ run.dispatch \in [attempt : Nat, authorised : Nat, evidence : BOOLEAN]
    BY RunFacts, StateFacts
  <2> QED
    BY <2>1, RunFacts DEF GateWrites, States, Reauthorised
<1>3. step \in Steps /\ step.at = "receipts" /\ step.at \notin Inside
  BY RunFacts DEF Steps, Inside
<1> HIDE DEF step, next
<1>4. Doing(h)'
  BY <1>1, <1>3, RunFacts, OutsideDoes DEF Do
<1>5. CASE run' = run
  BY <1>1, <1>3, <1>4, <1>5, GoesOnKeepsIInv
<1>6. CASE Commit(next)
  BY <1>1, <1>2, <1>3, <1>4, <1>6, GateCommitKeepsIInv
<1> QED
  BY <1>1, <1>5, <1>6

LEMMA IssueReceiptKeepsIInv ==
    ASSUME IInv, NEW h \in Hosts, IssueReceipt(h), UNCHANGED fanout
    PROVE  IInv'
<1> DEFINE next == Reauthorised([run EXCEPT !.receipts = run.receipts + 1])
<1>1. /\ call[h].at = "receipts" /\ holder = None /\ holder' = None /\ call' = call
      /\ Commit(next) /\ run.receipts < Kinds
      /\ UNCHANGED <<crashes, pauses, bound, kept>>
  BY DEF IssueReceipt, publication, files, kept
<1>2. GateWrites(next)
  <2>1. /\ run.version + 1 \in Nat /\ run.receipts + 1 \in 0 .. Kinds /\ run.receipts + 1 # 0
        /\ run.dispatch \in [attempt : Nat, authorised : Nat, evidence : BOOLEAN]
    BY <1>1, RunFacts, StateFacts, KindsAssumption
  <2> QED
    BY <2>1, RunFacts DEF GateWrites, States, Reauthorised
<1> HIDE DEF next
<1>3. call[h] \in Steps /\ Do(h, call[h]) /\ call[h].at \notin Inside /\ Doing(h)'
  BY <1>1, RunFacts, OutsideDoes DEF Do, Inside
<1> QED
  BY <1>1, <1>2, <1>3, GateCommitKeepsIInv

\* Only the files of the gate are written, outside every call.
LEMMA ReadyKeepsIInv ==
    ASSUME IInv, UNCHANGED <<holder, run, call, crashes, pauses, bound, kept, fanout>>
    PROVE  IInv'
<1>1. UNCHANGED <<holder, run, call, crashes, pauses, bound, archive, history, stage, releasing,
                  released, listed, prepared, planned, status, results, delivered>>
  BY DEF kept, fanout
<1>2. UNCHANGED <<run, kept>> /\ UNCHANGED fanout
  OBVIOUS
<1>3. HolderInv'
  BY <1>1 DEF IInv, HolderInv
<1>4. CallInv'
  <2> SUFFICES ASSUME NEW k \in Hosts PROVE Doing(k)'
    BY DEF CallInv
  <2>1. Doing(k)
    BY DEF IInv, CallInv
  <2>2. Publishing(k)'
    BY <1>1, <2>1 DEF Doing, Publishing, Ready, NewDoc, NewTree, FilesMatch
  <2>3. Listing(k)'
    BY <1>1, <2>1 DEF Doing, Listing, Entry, NewDoc
  <2>4. Fanning(k)'
    BY <1>1, <2>1 DEF Doing, Fanning, Delivered
  <2> QED
    BY <2>2, <2>3, <2>4 DEF Doing
<1>5. ListInv'
  BY <1>1, <1>2, ListsKept
<1>6. holder' \in Hosts \cup {None} /\ call' \in [Hosts -> Steps] /\ BoundTyped'
  BY <1>1 DEF Typed, IInv, BoundTyped
<1> QED
  BY <1>2, <1>3, <1>4, <1>5, <1>6, FilesKept, PlansKept DEF IInv, Typed
LEMMA RegisterKeepsIInv ==
    ASSUME IInv, NEW h \in Hosts, Register(h), UNCHANGED publication
    PROVE  IInv'
<1> DEFINE p == call[h].plan
           next == [run EXCEPT !.plans = run.plans \cup {p}]
<1>1. /\ call[h].at = "register" /\ holder = h /\ p \in Plans
      /\ planned[p] # None /\ status[p] # None
  BY DEF Register, IInv, HolderInv, CallInv, Doing, Fanning, Inside
<1>2. /\ IF p \in run.plans THEN UNCHANGED run ELSE Commit(next)
      /\ holder' = None /\ Return(h)
      /\ UNCHANGED <<crashes, pauses, bound, fanout>>
  BY DEF Register, Lock!Release
<1>3. next \in States
  BY <1>1, RunFacts DEF States
<1>4. ASSUME Commit(next)
      PROVE  /\ run' \in States /\ run'.version = run.version + 1 /\ run'.status = run.status
             /\ run'.node = run.node /\ run'.tree = run.tree /\ run'.generation = run.generation
             /\ run'.packs = run.packs /\ run'.staged = run.staged
             /\ run'.pending = run.pending /\ run'.receipts = run.receipts
             /\ run'.release = run.release /\ run'.plans = run.plans \cup {p}
             /\ run'.blocked = run.blocked
  BY <1>3, <1>4, RunFacts, CommitFacts DEF States
<1> HIDE DEF p, next
<1>5. CASE p \in run.plans
  BY <1>1, <1>2, <1>5, ReturnFacts, StepKeepsIInv
<1>6. CASE p \notin run.plans
  <2>1. Commit(next)
    BY <1>2, <1>6
  <2>2. BoundTyped'
    BY <1>2, RunFacts DEF BoundTyped
  <2>3. Sound(run)'
    BY <1>4, <2>1, RunFacts DEF Sound
  <2>4. StageInv'
    BY <1>4, <2>1 DEF IInv, StageInv, Fits, publication, files
  <2>5. ListInv'
    BY <1>1, <1>2, <1>4, <2>1 DEF IInv, ListInv, IsListed, fanout, publication, files
  <2> QED
    BY <1>1, <1>2, <1>4, <2>1, <2>2, <2>3, <2>4, <2>5, ReturnFacts, CommitKeepsIInv
<1> QED
  BY <1>5, <1>6

----------------------------------------------------------------------------
(* Steps that change the files of a Candidate *)

LEMMA FileStepKeepsIInv ==
    ASSUME IInv, NEW h \in Hosts, NEW step \in Steps, Do(h, step),
           UNCHANGED <<run, bound, crashes, pauses, fanout>>, listed \subseteq listed',
           holder \in {None, h}, holder' = IF step.at \in Inside THEN h ELSE None,
           Doing(h)', FilesTyped', FileInv', JournalInv', StageInv', CleanInv'
    PROVE  IInv'
<1>1. HolderInv' /\ CallInv' /\ call' \in [Hosts -> Steps] /\ holder' \in Hosts \cup {None}
  BY CallsKept DEF Do
<1>2. run' \in States /\ Sound(run)' /\ BoundTyped'
  BY RunFacts DEF Sound, BoundTyped
<1>3. ListInv'
  BY ListsKept
<1>4. PlansTyped' /\ FanoutInv'
  BY PlansKept
<1> QED
  BY <1>1, <1>2, <1>3, <1>4 DEF IInv, Typed

\* The next version of the PRD and its tree
LEMMA NewFacts ==
    ASSUME IInv
    PROVE  /\ NewDoc \in Nat \ {0}
           /\ NewDoc \in Docs => NewTree \in Trees /\ NewTree.doc = NewDoc
           /\ NewTree.evals = 0 /\ NewTree.review = "NOT_RUN"
           /\ run.tree # None => run.tree.doc < NewDoc /\ run.tree.doc # NewDoc
<1>1. run.tree # None => run.tree \in Trees /\ run.tree.doc \in Nat
  BY RunFacts, StateFacts, TreeFacts
<1>2. /\ NewDoc \in Nat \ {0}
      /\ run.tree # None => run.tree.doc < NewDoc /\ run.tree.doc # NewDoc
  BY <1>1 DEF NewDoc
<1>3. 0 \in 0 .. MaxPacks
  BY DocsAre
<1> QED
  BY <1>2, <1>3 DEF NewTree, Trees

LEMMA ArchiveKeepsIInv ==
    ASSUME IInv, NEW h \in Hosts, Archive(h), UNCHANGED fanout
    PROVE  IInv'
<1> DEFINE step == [call[h] EXCEPT !.at = "changelog"]
<1>1. /\ call[h].at = "idle" /\ holder = None /\ holder' = h
      /\ prepared = {} /\ FilesMatch /\ run.status = "ACTIVE"
      /\ NewDoc <= bound.docs /\ Do(h, step)
      /\ archive' = [archive EXCEPT ![NewDoc] = NewTree]
      /\ UNCHANGED <<run, crashes, pauses, bound, history, stage, releasing, released,
                     listed, prepared>>
  BY DEF Archive, MayArchive, BarrierPasses, Goto, Lock!Take
<1>2. call[h] \in Steps /\ call[h].journal = None
  BY <1>1, RunFacts DEF IInv, CallInv, Doing, Publishing
<1>3. step \in Steps /\ step.at = "changelog" /\ step.journal = None
  BY <1>2 DEF Steps
<1> HIDE DEF step
<1>4. NewDoc \in Docs
  <2>1. bound.docs \in 0 .. MaxDocs
    BY RunFacts, BoundFacts DEF BoundTyped
  <2> QED
    BY <1>1, <2>1, NewFacts, DocsAre DEF Docs
<1>5. NewTree \in Trees /\ NewTree # None /\ NewTree.doc = NewDoc
  BY <1>4, NewFacts, TreeFacts
<1>6. /\ archive'[NewDoc] = NewTree
      /\ \A d \in Docs : d # NewDoc => archive'[d] = archive[d]
  BY <1>1, <1>4, RunFacts DEF FilesTyped
<1>7. run.tree # None => run.tree.doc \in Docs /\ archive'[run.tree.doc] = archive[run.tree.doc]
  BY <1>6, NewFacts, RunFacts, StateFacts, TreeFacts
<1>8. FilesTyped'
  BY <1>1, <1>5, RunFacts DEF FilesTyped
<1>9. FileInv'
  BY <1>1, <1>5, <1>6 DEF IInv, FileInv
<1>10. JournalInv'
  BY <1>1 DEF JournalInv
<1>11. StageInv'
  BY <1>1, <1>7 DEF IInv, StageInv, Fits
<1>12. CleanInv'
  BY <1>1, <1>7 DEF IInv, CleanInv, IsListed
<1>13. Doing(h)'
  <2>1. call'[h] = step
    BY <1>1, RunFacts DEF Do
  <2>2. FilesMatch'
    BY <1>1, <1>7 DEF FilesMatch
  <2>3. NewDoc' = NewDoc /\ NewTree' = NewTree
    BY <1>1 DEF NewDoc, NewTree
  <2>4. Publishing(h)'
    BY <1>1, <1>3, <1>4, <1>6, <2>1, <2>2, <2>3 DEF Publishing
  <2> QED
    BY <1>3, <2>1, <2>4 DEF Doing, Listing, Fanning
<1>14. step.at \in Inside
  BY <1>3 DEF Inside
<1> QED
  BY <1>1, <1>3, <1>8, <1>9, <1>10, <1>11, <1>12, <1>13, <1>14, FileStepKeepsIInv

\* An entry is of a document.
LEMMA EntryFacts ==
    ASSUME IInv, NEW h \in Hosts,
           \/ call[h].journal = None /\ NewDoc \in Docs
           \/ call[h].journal \in prepared
    PROVE  Entry(h) \in [doc : Docs, status : {"CANDIDATE_ARCHIVED", "RELEASED"}]
<1>1. CASE call[h].journal = None
  <2>1. NewDoc \in Docs
    BY <1>1, RunFacts, JournalFacts
  <2> QED
    BY <1>1, <2>1 DEF Entry
<1>2. CASE call[h].journal # None
  <2> DEFINE j == call[h].journal
  <2>1. j \in prepared /\ j.after \in States /\ Publishes(j)
    BY <1>2, JournalVersions
  <2>2. j.after.tree # None
    BY <2>1 DEF Publishes
  <2>3. DocOf(j) \in Docs
    BY <2>1, <2>2, StateFacts, TreeFacts DEF DocOf
  <2> QED
    BY <1>2, <2>3 DEF Entry
<1> QED
  BY <1>1, <1>2

\* One more entry in a list
LEMMA EnlistKeeps ==
    ASSUME IInv, NEW h \in Hosts, NEW list \in Lists, Enlist(h, list),
           Entry(h) \in [doc : Docs, status : {"CANDIDATE_ARCHIVED", "RELEASED"}]
    PROVE  /\ FilesTyped' /\ FileInv' /\ JournalInv' /\ StageInv' /\ CleanInv'
           /\ listed \subseteq listed'
<1>1. UNCHANGED <<run, archive, history, stage, releasing, released, prepared>>
  BY DEF Enlist
<1>2. listed' = listed \cup {<<list, Entry(h)>>}
  BY DEF Enlist
<1>3. FilesTyped'
  BY <1>1, <1>2, RunFacts DEF FilesTyped
<1>4. FileInv' /\ StageInv'
  BY <1>1 DEF IInv, FileInv, StageInv, Fits
<1>5. JournalInv'
  BY <1>1 DEF IInv, JournalInv, JournalOK, Ready, IsConsistent, IsCurrent
<1>6. CleanInv'
  BY <1>1, <1>2 DEF IInv, CleanInv, IsCurrent, IsListed
<1> QED
  BY <1>2, <1>3, <1>4, <1>5, <1>6

LEMMA AppendChangelogKeepsIInv ==
    ASSUME IInv, NEW h \in Hosts, AppendChangelog(h), UNCHANGED fanout
    PROVE  IInv'
<1> DEFINE step == [call[h] EXCEPT !.at = "structured"]
           j == call[h].journal
<1>1. /\ call[h].at = "changelog" /\ Enlist(h, "DOCUMENT_CHANGELOG.md") /\ Do(h, step)
  BY DEF AppendChangelog, Goto
<1>2. /\ holder = h /\ Publishing(h)
  BY <1>1 DEF IInv, HolderInv, CallInv, Doing, Inside
<1>3. /\ holder' = holder
      /\ UNCHANGED <<run, crashes, pauses, bound, archive, released, prepared>>
      /\ listed' = listed \cup {<<"DOCUMENT_CHANGELOG.md", Entry(h)>>}
  BY <1>1 DEF Enlist
<1>4. step \in Steps /\ step.at = "structured" /\ step.journal = j
  BY RunFacts DEF Steps
<1> HIDE DEF step, j
<1>5. Entry(h) \in [doc : Docs, status : {"CANDIDATE_ARCHIVED", "RELEASED"}]
  BY <1>1, <1>2, EntryFacts DEF Publishing
<1>6. FilesTyped' /\ FileInv' /\ JournalInv' /\ StageInv' /\ CleanInv' /\ listed \subseteq listed'
  BY <1>1, <1>5, EnlistKeeps DEF Lists
<1>7. Doing(h)'
  <2>1. call'[h] = step
    BY <1>1, RunFacts DEF Do
  <2>2. Publishing(h)'
    BY <1>1, <1>2, <1>3, <1>4, <2>1 DEF Publishing, NewDoc, NewTree, FilesMatch, j
  <2>3. Entry(h)' = Entry(h)
    BY <1>3, <1>4, <2>1 DEF Entry, NewDoc, j
  <2>4. Listing(h)'
    BY <1>3, <1>4, <2>1, <2>3 DEF Listing
  <2> QED
    BY <1>4, <2>1, <2>2, <2>4 DEF Doing, Fanning
<1>8. step.at \in Inside
  BY <1>4 DEF Inside
<1> QED
  BY <1>1, <1>2, <1>3, <1>4, <1>6, <1>7, <1>8, FileStepKeepsIInv

LEMMA AppendStructuredChangelogKeepsIInv ==
    ASSUME IInv, NEW h \in Hosts, AppendStructuredChangelog(h), UNCHANGED fanout
    PROVE  IInv'
<1> DEFINE j == call[h].journal
           step == [call[h] EXCEPT !.at = IF j = None THEN "bind" ELSE "manifest"]
<1>1. /\ call[h].at = "structured" /\ Enlist(h, "PRODUCT_DOCUMENT_CHANGELOG.jsonl") /\ Do(h, step)
  BY DEF AppendStructuredChangelog, Goto
<1>2. /\ holder = h /\ Publishing(h) /\ Listing(h)
  BY <1>1 DEF IInv, HolderInv, CallInv, Doing, Inside
<1>3. /\ holder' = holder
      /\ UNCHANGED <<run, crashes, pauses, bound, archive, released, prepared>>
      /\ listed' = listed \cup {<<"PRODUCT_DOCUMENT_CHANGELOG.jsonl", Entry(h)>>}
  BY <1>1 DEF Enlist
<1>4. step \in Steps /\ step.at = (IF j = None THEN "bind" ELSE "manifest") /\ step.journal = j
  BY RunFacts DEF Steps
<1> HIDE DEF step, j
<1>5. Entry(h) \in [doc : Docs, status : {"CANDIDATE_ARCHIVED", "RELEASED"}]
  BY <1>1, <1>2, EntryFacts DEF Publishing
<1>6. FilesTyped' /\ FileInv' /\ JournalInv' /\ StageInv' /\ CleanInv' /\ listed \subseteq listed'
  BY <1>1, <1>5, EnlistKeeps DEF Lists
<1>7. Doing(h)'
  <2>1. call'[h] = step
    BY <1>1, RunFacts DEF Do
  <2>2. Publishing(h)'
    BY <1>1, <1>2, <1>3, <1>4, <2>1 DEF Publishing, NewDoc, NewTree, FilesMatch, j
  <2>3. Entry(h)' = Entry(h)
    BY <1>3, <1>4, <2>1 DEF Entry, NewDoc, j
  <2>4. Listing(h)'
    BY <1>1, <1>2, <1>3, <1>4, <2>1, <2>3 DEF Listing
  <2> QED
    BY <1>4, <2>1, <2>2, <2>4 DEF Doing, Fanning
<1>8. step.at \in Inside
  BY <1>4 DEF Inside
<1> QED
  BY <1>1, <1>2, <1>3, <1>4, <1>6, <1>7, <1>8, FileStepKeepsIInv

LEMMA UpdateManifestKeepsIInv ==
    ASSUME IInv, NEW h \in Hosts, UpdateManifest(h), UNCHANGED fanout
    PROVE  IInv'
<1> DEFINE step == [call[h] EXCEPT !.at = "commit"]
           j == call[h].journal
<1>1. /\ call[h].at = "manifest" /\ Enlist(h, "RELEASE_MANIFEST.json") /\ Do(h, step)
  BY DEF UpdateManifest, Goto
<1>2. /\ holder = h /\ Publishing(h) /\ Listing(h)
  BY <1>1 DEF IInv, HolderInv, CallInv, Doing, Inside
<1>3. /\ holder' = holder
      /\ UNCHANGED <<run, crashes, pauses, bound, archive, released, prepared>>
      /\ listed' = listed \cup {<<"RELEASE_MANIFEST.json", Entry(h)>>}
  BY <1>1 DEF Enlist
<1>4. step \in Steps /\ step.at = "commit" /\ step.journal = j
  BY RunFacts DEF Steps
<1> HIDE DEF step, j
<1>5. Entry(h) \in [doc : Docs, status : {"CANDIDATE_ARCHIVED", "RELEASED"}]
  BY <1>1, <1>2, EntryFacts DEF Publishing
<1>6. FilesTyped' /\ FileInv' /\ JournalInv' /\ StageInv' /\ CleanInv' /\ listed \subseteq listed'
  BY <1>1, <1>5, EnlistKeeps DEF Lists
<1>7. Doing(h)'
  <2>1. call'[h] = step
    BY <1>1, RunFacts DEF Do
  <2>2. Publishing(h)'
    BY <1>1, <1>2, <1>3, <1>4, <2>1 DEF Publishing, j
  <2>3. Entry(h)' = Entry(h)
    BY <1>3, <1>4, <2>1 DEF Entry, NewDoc, j
  <2>4. Listing(h)'
    BY <1>1, <1>2, <1>3, <1>4, <2>1, <2>3 DEF Listing
  <2> QED
    BY <1>4, <2>1, <2>2, <2>4 DEF Doing, Fanning
<1>8. step.at \in Inside
  BY <1>4 DEF Inside
<1> QED
  BY <1>1, <1>2, <1>3, <1>4, <1>6, <1>7, <1>8, FileStepKeepsIInv

----------------------------------------------------------------------------
(* A journal is prepared *)

\* The next version of a state
LEMMA NextFacts ==
    ASSUME IInv, NEW after \in States
    PROVE  /\ Next(after) \in States /\ Next(after).version = run.version + 1
           /\ Next(after).status = after.status /\ Next(after).node = after.node
           /\ Next(after).tree = after.tree /\ Next(after).generation = after.generation
           /\ Next(after).packs = after.packs /\ Next(after).pending = after.pending
           /\ Next(after).release = after.release /\ Next(after).plans = after.plans
           /\ Sound(Next(after)) <=> Sound(after)
<1>1. run.version + 1 \in Nat
  BY RunFacts, StateFacts
<1>2. /\ Next(after) \in States /\ Next(after).version = run.version + 1
      /\ Next(after).status = after.status /\ Next(after).node = after.node
      /\ Next(after).tree = after.tree /\ Next(after).generation = after.generation
      /\ Next(after).packs = after.packs /\ Next(after).pending = after.pending
      /\ Next(after).release = after.release /\ Next(after).plans = after.plans
  BY <1>1 DEF Next, States
<1>3. Sound(Next(after)) <=> Sound(after)
  BY <1>2 DEF Sound
<1> QED
  BY <1>2, <1>3

\* One tree is not earlier than itself; and what is earlier stays so.
LEMMA EarlierFacts ==
    ASSUME NEW t \in Trees, NEW u \in Trees, Earlier(t, u)
    PROVE  t # u /\ \A s \in Trees : Earlier(s, t) => Earlier(s, u)
<1>1. /\ t.evals \in Nat /\ u.evals \in Nat
      /\ t.review \in {"NOT_RUN", "FINALIZED"} /\ u.review \in {"NOT_RUN", "FINALIZED"}
  BY TreeFacts
<1>2. t # u
  BY <1>1 DEF Earlier
<1>3. ASSUME NEW s \in Trees, Earlier(s, t) PROVE Earlier(s, u)
  <2>1. s.evals \in Nat
    BY TreeFacts
  <2> QED
    BY <1>1, <1>3, <2>1 DEF Earlier
<1> QED
  BY <1>2, <1>3

\* What is published is of the document before it.
LEMMA PublishesFacts ==
    ASSUME NEW j \in Journals, Publishes(j)
    PROVE  /\ j.before.tree \in Trees /\ j.after.tree \in Trees
           /\ DocOf(j) \in Docs /\ DocOf(j) = j.before.tree.doc /\ j.after.tree.doc = DocOf(j)
           /\ j.before.generation \in Generations /\ j.before.release = None
           /\ ~IsRelease(j) => /\ j.after.tree # j.before.tree
                               /\ Earlier(j.before.tree, j.after.tree)
<1>1. j.before \in States /\ j.after \in States
  BY JournalFacts
<1>2. j.before.tree \in Trees /\ j.after.tree \in Trees
  BY <1>1, StateFacts DEF Publishes
<1>3. DocOf(j) \in Docs /\ DocOf(j) = j.before.tree.doc /\ j.after.tree.doc = DocOf(j)
  BY <1>2, TreeFacts DEF Publishes, DocOf
<1>4. j.before.generation \in Generations
  <2>1. j.before.generation > 0
    BY DEF Publishes, Sound
  <2> QED
    BY <1>1, <2>1, StateFacts
<1>5. j.before.release = None
  BY DEF Publishes, Sound
<1>6. ~IsRelease(j) => Earlier(j.before.tree, j.after.tree)
  BY DEF Publishes
<1> QED
  BY <1>2, <1>3, <1>4, <1>5, <1>6, EarlierFacts

\* A tree is staged, or was already, and nothing else is changed.
LEMMA StagedFiles ==
    ASSUME IInv, NEW tree \in Trees, run.tree # None, tree.doc = run.tree.doc,
           archive[run.tree.doc] = run.tree, stage[run.tree.doc] \in {None, tree},
           stage' = [stage EXCEPT ![run.tree.doc] = tree],
           UNCHANGED <<run, archive, history, releasing, released, listed, prepared>>,
           run.receipts = 0 /\ run.release = None => Fits(tree)
    PROVE  /\ stage'[run.tree.doc] = tree
           /\ FilesTyped' /\ FileInv' /\ JournalInv' /\ StageInv' /\ CleanInv'
<1> DEFINE d == run.tree.doc
<1>1. /\ archive[d] = run.tree /\ stage[d] \in {None, tree}
      /\ stage' = [stage EXCEPT ![d] = tree]
      /\ UNCHANGED <<run, archive, history, releasing, released, listed, prepared>>
  OBVIOUS
<1>2. run.tree \in Trees /\ d \in Docs /\ tree # None
  BY RunFacts, StateFacts, TreeFacts
<1>3. stage'[d] = tree /\ \A e \in Docs : e # d => stage'[e] = stage[e]
  BY <1>1, <1>2, RunFacts DEF FilesTyped
<1>4. FilesTyped'
  BY <1>1, RunFacts DEF FilesTyped
<1>5. FileInv'
  <2>1. d \in Nat
    BY <1>2, TreeFacts
  <2>2. \A e \in Docs : run.tree.doc < e => stage'[e] = stage[e]
    BY <1>3, <2>1
  <2> QED
    BY <1>1, <2>2 DEF IInv, FileInv
<1>6. JournalInv'
  <2>1. ASSUME NEW k \in prepared PROVE JournalOK(k)'
    <3>1. k \in Journals /\ Publishes(k) /\ JournalOK(k)
      BY JournalVersions
    <3>2. run = k.before => Ready(k)'
      <4>1. CASE run = k.before /\ ~IsRelease(k)
        <5>1. DocOf(k) = d /\ archive[d] = run.tree /\ stage[d] = k.after.tree
          BY <3>1, <4>1, PublishesFacts DEF JournalOK, Ready
        <5>2. stage[d] = tree
          BY <1>1, <3>1, <5>1, PublishesFacts, TreeFacts
        <5> QED
          BY <1>1, <1>3, <4>1, <5>1, <5>2 DEF Ready
      <4>2. CASE run = k.before /\ IsRelease(k)
        BY <1>1, <3>1, <4>2 DEF JournalOK, Ready
      <4> QED
        BY <4>1, <4>2
    <3>3. run = k.after => IsConsistent(k)'
      <4>1. CASE run = k.after /\ ~IsRelease(k)
        <5>1. DocOf(k) = d /\ archive[d] = k.after.tree /\ k.after.tree # k.before.tree
          BY <1>1, <3>1, <4>1, PublishesFacts
        <5>2. history[<<d, k.before.generation>>] = k.before.tree
          BY <1>2, <3>1, <4>1, <5>1 DEF JournalOK, IsConsistent
        <5> QED
          BY <1>1, <4>1, <5>1, <5>2 DEF IsConsistent
      <4>2. CASE run = k.after /\ IsRelease(k)
        BY <1>1, <3>1, <4>2 DEF JournalOK, IsConsistent
      <4> QED
        BY <4>1, <4>2
    <3> QED
      BY <1>1, <3>1, <3>2, <3>3 DEF JournalOK, IsCurrent
  <2> QED
    BY <1>1, <2>1 DEF IInv, JournalInv
<1>7. StageInv'
  BY <1>1, <1>3 DEF StageInv, Fits
<1>8. CleanInv'
  BY <1>1 DEF IInv, CleanInv, IsCurrent, IsListed
<1> QED
  BY <1>3, <1>4, <1>5, <1>6, <1>7, <1>8

LEMMA StageKeepsIInv ==
    ASSUME IInv, NEW h \in Hosts, NEW after \in States, Stage(h, after), Lock!Take(h),
           UNCHANGED fanout,
           run.tree # None, run.status = "ACTIVE", Sound(after),
           after.release = run.release, after.plans = run.plans,
           after.tree \in Trees, after.tree.doc = run.tree.doc,
           after.generation = run.generation + 1, Earlier(run.tree, after.tree),
           after.tree.review = "NOT_RUN" \/ after.tree.evals = run.tree.evals,
           run.receipts = 0 /\ run.release = None => Fits(after.tree)
    PROVE  IInv'
<1> DEFINE d == run.tree.doc
           j == [before |-> run, after |-> Next(after)]
           step == [Idle EXCEPT !.at = "journal", !.journal = j]
<1>1. /\ archive[d] = run.tree /\ stage[d] \in {None, after.tree}
      /\ stage' = [stage EXCEPT ![d] = after.tree] /\ Do(h, step)
      /\ holder = None /\ holder' = h
      /\ UNCHANGED <<run, crashes, pauses, bound, archive, history, releasing, released,
                     listed, prepared>>
  BY DEF Stage, MayStage, Lock!Take
<1>2. /\ j \in Journals /\ j # None /\ j.before = run /\ j.after.tree = after.tree
      /\ j.after.release = after.release
  BY RunFacts, NextFacts, JournalFacts DEF Journals
<1>3. Publishes(j) /\ ~IsRelease(j) /\ DocOf(j) = d
  BY RunFacts, NextFacts, TreeFacts DEF Publishes, IsRelease, DocOf
<1> HIDE DEF j
<1>4. step \in Steps /\ step.at = "journal" /\ step.journal = j
  BY <1>2 DEF Steps, Idle
<1> HIDE DEF step
<1>5. run.tree \in Trees /\ d \in Docs
  BY RunFacts, StateFacts, TreeFacts
<1>6. /\ stage'[d] = after.tree
      /\ FilesTyped' /\ FileInv' /\ JournalInv' /\ StageInv' /\ CleanInv'
  BY <1>1, StagedFiles
<1>7. Doing(h)'
  <2>1. call'[h] = step
    BY <1>1, RunFacts DEF Do
  <2>2. j' = j
    BY <1>1 DEF j, Next
  <2>3. Ready(j)'
    BY <1>1, <1>2, <1>3, <1>6, <2>2 DEF Ready
  <2>4. Publishing(h)'
    BY <1>1, <1>2, <1>3, <1>4, <2>1, <2>2, <2>3 DEF Publishing
  <2> QED
    BY <1>4, <2>1, <2>4 DEF Doing, Listing, Fanning
<1>8. step.at \in Inside
  BY <1>4 DEF Inside
<1> QED
  BY <1>1, <1>4, <1>6, <1>7, <1>8, FileStepKeepsIInv

LEMMA FinalizeKeepsIInv ==
    ASSUME IInv, NEW h \in Hosts, Finalize(h), UNCHANGED fanout
    PROVE  IInv'
<1> DEFINE tree == [run.tree EXCEPT !.review = "FINALIZED"]
           after == [run EXCEPT !.node = "prd.ready.gate", !.tree.review = "FINALIZED",
                                !.generation = run.generation + 1]
<1>1. /\ Lock!Take(h) /\ Stage(h, after) /\ run.status = "ACTIVE"
      /\ run.node = "review.finalize" /\ run.tree.review = "NOT_RUN"
  BY DEF Finalize, MayFinalize, Finalized
<1>2. run.tree # None /\ run.tree \in Trees
  BY <1>1, RunFacts, StateFacts DEF Sound
<1>3. /\ tree \in Trees /\ tree.doc = run.tree.doc /\ tree.evals = run.tree.evals
      /\ tree.review = "FINALIZED"
  BY <1>2 DEF Trees
<1>4. /\ run.generation \in Nat /\ run.tree.doc \in 1 .. MaxDocs /\ run.tree.evals \in 0 .. MaxPacks
      /\ run.generation <= run.tree.doc + 2 * run.tree.evals
  BY <1>1, <1>2, RunFacts, StateFacts, TreeFacts DEF Sound, Docs
<1>5. /\ run.generation + 1 \in Generations /\ run.generation + 1 > 0
      /\ run.generation + 1 <= run.tree.doc + 2 * run.tree.evals + 1
  BY <1>4, DocsAre DEF Generations
<1>6. after = [run EXCEPT !.node = "prd.ready.gate", !.tree = tree,
                          !.generation = run.generation + 1]
  BY <1>2, RunFacts DEF States
<1> HIDE DEF tree
<1>7. /\ after \in States /\ after.status = "ACTIVE" /\ after.node = "prd.ready.gate"
      /\ after.tree = tree /\ after.generation = run.generation + 1
      /\ after.packs = run.packs /\ after.pending = run.pending
      /\ after.release = run.release /\ after.plans = run.plans
  BY <1>1, <1>3, <1>5, <1>6, RunFacts DEF States
<1> HIDE DEF after
<1>8. Sound(after)
  BY <1>1, <1>2, <1>3, <1>5, <1>7, RunFacts, TreeFacts DEF Sound
<1>9. Earlier(run.tree, tree) /\ Fits(tree)
  BY <1>1, <1>3 DEF Earlier, Fits, tree
<1> QED
  BY <1>1, <1>2, <1>3, <1>7, <1>8, <1>9, StageKeepsIInv

\* The tree with the Pack that is bound
LEMMA PackFacts ==
    ASSUME IInv, MayFulfill
    PROVE  LET tree == [doc |-> run.tree.doc, evals |-> PackToBind, review |-> "NOT_RUN"] IN
           /\ PackToBind \in 0 .. MaxPacks /\ run.tree \in Trees
           /\ run.tree.evals \in 0 .. MaxPacks /\ run.tree.evals + 1 <= PackToBind
           /\ tree \in Trees /\ Fits(tree)
<1> DEFINE staged == run.pending /\ run.staged = run.tree.doc
           pack == IF staged THEN run.packs ELSE run.packs + 1
           tree == [doc |-> run.tree.doc, evals |-> pack, review |-> "NOT_RUN"]
<1>1. /\ run.tree # None /\ pack = PackToBind
      /\ staged \/ (run.tree.evals = 0 /\ run.packs < bound.packs)
  BY DEF MayFulfill, PackToBind, PackIsStaged, PackIsMissing
<1>2. run.tree \in Trees /\ run.packs \in 0 .. MaxPacks /\ bound.packs \in 0 .. MaxPacks
  BY <1>1, RunFacts, StateFacts, BoundFacts DEF BoundTyped
<1>3. run.tree.evals \in 0 .. MaxPacks /\ run.tree.evals <= run.packs
  BY <1>1, <1>2, RunFacts, TreeFacts DEF Sound
<1>4. pack \in 0 .. MaxPacks /\ run.tree.evals + 1 <= pack
  <2>1. CASE staged
    <3>1. run.tree.evals < run.packs
      BY <1>1, <2>1, RunFacts DEF Sound
    <3> QED
      BY <1>2, <1>3, <2>1, <3>1, DocsAre
  <2>2. CASE ~staged
    <3>1. run.packs < bound.packs
      BY <1>1, <2>2
    <3>2. pack = run.packs + 1
      BY <2>2
    <3> HIDE DEF pack, staged
    <3> QED
      BY <1>2, <1>3, <3>1, <3>2, DocsAre
  <2> QED
    BY <2>1, <2>2
<1>5. tree \in Trees /\ tree.doc = run.tree.doc /\ tree.evals = pack /\ tree.review = "NOT_RUN"
  BY <1>2, <1>4 DEF Trees
<1>6. Fits(tree)
  BY <1>5 DEF Fits
<1> QED
  BY <1>1, <1>2, <1>3, <1>4, <1>5, <1>6

LEMMA FulfillKeepsIInv ==
    ASSUME IInv, NEW h \in Hosts, Fulfill(h), UNCHANGED fanout
    PROVE  IInv'
<1> DEFINE staged == run.pending /\ run.staged = run.tree.doc
           pack == IF staged THEN run.packs ELSE run.packs + 1
           tree == [doc |-> run.tree.doc, evals |-> pack, review |-> "NOT_RUN"]
           after == [run EXCEPT !.node = "review.parallel", !.generation = run.generation + 1,
                                !.packs = pack, !.pending = FALSE, !.asked = FALSE,
                                !.tree = tree]
<1>1. /\ Lock!Take(h) /\ Stage(h, after) /\ run.status = "ACTIVE" /\ run.tree # None
      /\ run.release = None
      /\ staged \/ (run.tree.evals = 0 /\ run.packs < bound.packs)
  BY DEF Fulfill, MayFulfill, Fulfilled, PackToBind, PackIsStaged, PackIsMissing
<1>2. run.tree \in Trees
  BY PackFacts DEF Fulfill
<1>3. run.tree.evals \in 0 .. MaxPacks
  BY PackFacts DEF Fulfill
<1>4. pack \in 0 .. MaxPacks /\ run.tree.evals + 1 <= pack
  BY PackFacts DEF Fulfill, PackToBind, PackIsStaged
<1>5. tree \in Trees /\ tree.doc = run.tree.doc /\ tree.evals = pack /\ tree.review = "NOT_RUN"
  BY PackFacts DEF Fulfill, PackToBind, PackIsStaged
<1>6. Fits(tree)
  BY PackFacts DEF Fulfill, PackToBind, PackIsStaged
<1> HIDE DEF tree, pack, staged
<1>7. /\ run.generation \in Nat /\ run.tree.doc \in 1 .. MaxDocs
      /\ run.generation <= run.tree.doc + 2 * run.tree.evals + 1
  <2>1. /\ run.generation \in Nat /\ run.tree.doc \in 1 .. MaxDocs
        /\ \/ run.generation <= run.tree.doc + 2 * run.tree.evals + 1
           \/ run.generation <= run.tree.doc + 2 * run.tree.evals + 0
    BY <1>1, <1>2, RunFacts, StateFacts, TreeFacts DEF Sound, Docs
  <2> QED
    BY <1>3, <2>1
<1>8. /\ run.generation + 1 \in Generations /\ run.generation + 1 > 0
      /\ run.generation + 1 <= run.tree.doc + 2 * pack
  <2>1. run.tree.evals \in Nat /\ pack \in Nat /\ MaxPacks \in Nat /\ MaxDocs \in Nat
        /\ pack <= MaxPacks
    BY <1>3, <1>4, DocsAre
  <2>2. 2 * run.tree.evals + 2 <= 2 * pack /\ 2 * pack <= 2 * MaxPacks
    BY <1>4, <2>1
  <2>3. run.generation + 1 <= run.tree.doc + 2 * pack
    BY <1>7, <2>1, <2>2
  <2>4. run.generation + 1 <= MaxDocs + 2 * MaxPacks + 1
    BY <1>7, <2>1, <2>2
  <2> QED
    BY <1>7, <2>1, <2>3, <2>4 DEF Generations
<1>9. /\ after.status = "ACTIVE" /\ after.node = "review.parallel"
      /\ after.tree = tree /\ after.generation = run.generation + 1
      /\ after.packs = pack /\ after.pending = FALSE
      /\ after.release = run.release /\ after.plans = run.plans
  BY <1>1, RunFacts DEF States
<1>10. after \in States
  BY <1>4, <1>5, <1>8, RunFacts DEF States
<1> HIDE DEF after
<1>11. Sound(after)
  <2>1. tree # None /\ pack \in Nat
    BY <1>4, <1>5, TreeFacts, DocsAre
  <2>2. after.generation <= after.tree.doc + 2 * after.tree.evals + 0
    BY <1>5, <1>7, <1>8, <1>9, <2>1
  <2>3. after.tree.evals <= after.packs
    BY <1>5, <1>9, <2>1
  <2> QED
    BY <1>1, <1>5, <1>8, <1>9, <2>1, <2>2, <2>3 DEF Sound
<1>12. Earlier(run.tree, tree)
  <2>1. run.tree.evals < tree.evals
    BY <1>3, <1>4, <1>5, DocsAre
  <2> QED
    BY <2>1 DEF Earlier
<1> QED
  BY <1>1, <1>5, <1>6, <1>9, <1>10, <1>11, <1>12, StageKeepsIInv

\* The tree is left in the stage.
LEMMA RefuseReceiptKeepsIInv ==
    ASSUME IInv, NEW h \in Hosts, RefuseReceipt(h), UNCHANGED fanout
    PROVE  IInv'
<1> DEFINE tree == [doc |-> run.tree.doc, evals |-> PackToBind, review |-> "NOT_RUN"]
<1>1. /\ MayFulfill /\ run.tree # None /\ Return(h) /\ holder = None /\ holder' = None
      /\ UNCHANGED <<run, crashes, pauses, bound, archive, history, releasing, released,
                     listed, prepared>>
  BY DEF RefuseReceipt, MayFulfill
<1>2. Fulfilled(PackToBind).tree = tree
  BY RunFacts DEF Fulfilled, States
<1>3. /\ archive[run.tree.doc] = run.tree /\ stage[run.tree.doc] \in {None, tree}
      /\ stage' = [stage EXCEPT ![run.tree.doc] = tree]
  BY <1>2 DEF RefuseReceipt, MayStage
<1>4. tree \in Trees /\ Fits(tree) /\ tree.doc = run.tree.doc
  BY <1>1, PackFacts
<1> HIDE DEF tree
<1>5. FilesTyped' /\ FileInv' /\ JournalInv' /\ StageInv' /\ CleanInv'
  BY <1>1, <1>3, <1>4, StagedFiles
<1> QED
  BY <1>1, <1>5, ReturnFacts, FileStepKeepsIInv

LEMMA CommitReleaseKeepsIInv ==
    ASSUME IInv, NEW h \in Hosts, CommitRelease(h), UNCHANGED fanout
    PROVE  IInv'
<1> DEFINE d == run.tree.doc
           asserted == [tree |-> run.tree, version |-> run.version]
           after == [run EXCEPT !.status = "RELEASED", !.node = "handoff.prepare",
                                !.release = run.tree]
           j == [before |-> run, after |-> Next(after)]
           step == [Idle EXCEPT !.at = "journal", !.journal = j]
<1>1. /\ holder = None /\ holder' = h
      /\ run.status = "ACTIVE" /\ run.node = "prd.ready.gate"
      /\ EvalsRequired => run.tree.evals # 0
      /\ archive[d] = run.tree
      /\ releasing' = [releasing EXCEPT ![d] = asserted] /\ Do(h, step)
      /\ UNCHANGED <<run, crashes, pauses, bound, archive, history, stage, released,
                     listed, prepared>>
  BY DEF CommitRelease, HasAttempt, AtGate, EvalsAreBound, MayAssert, Asserted, Lock!Take
<1>2. /\ run.tree # None /\ run.tree.review = "FINALIZED"
      /\ EvalsRequired => run.tree.evals # 0
  BY <1>1, RunFacts DEF Sound
<1>3. /\ run.tree \in Trees /\ d \in Docs /\ run.version \in Nat /\ run.release = None
  BY <1>1, <1>2, RunFacts, StateFacts, TreeFacts DEF Sound
<1>4. /\ after \in States /\ after.status = "RELEASED" /\ after.node = "handoff.prepare"
      /\ after.tree = run.tree /\ after.generation = run.generation
      /\ after.packs = run.packs /\ after.pending = run.pending
      /\ after.release = run.tree /\ after.plans = run.plans
  BY <1>3, RunFacts DEF States
<1> HIDE DEF after
<1>5. Sound(after)
  BY <1>2, <1>4, RunFacts DEF Sound
<1>6. /\ j \in Journals /\ j # None /\ j.before = run /\ j.after.tree = run.tree
      /\ j.after.release = run.tree
  BY <1>4, RunFacts, NextFacts, JournalFacts DEF Journals
<1>7. Publishes(j) /\ IsRelease(j) /\ DocOf(j) = d
  BY <1>1, <1>2, <1>3, <1>4, <1>5, RunFacts, NextFacts, TreeFacts DEF Publishes, IsRelease, DocOf
<1>8. j' = j
  BY <1>1 DEF after, Next
<1> HIDE DEF j
<1>9. step \in Steps /\ step.at = "journal" /\ step.journal = j
  BY <1>6 DEF Steps, Idle
<1> HIDE DEF step
<1>10. releasing'[d] = asserted /\ \A e \in Docs : e # d => releasing'[e] = releasing[e]
  BY <1>1, <1>3, RunFacts DEF FilesTyped
<1>11. FilesTyped'
  BY <1>1, <1>3, RunFacts DEF FilesTyped
<1>12. FileInv'
  BY <1>1 DEF IInv, FileInv
<1>13. JournalInv'
  <2>1. ASSUME NEW k \in prepared PROVE JournalOK(k)'
    <3>1. k \in Journals /\ Publishes(k) /\ JournalOK(k)
      BY JournalVersions
    <3>2. run = k.before => Ready(k)'
      <4>1. CASE run = k.before /\ IsRelease(k)
        <5>1. DocOf(k) = d /\ archive[d] = run.tree
          BY <1>1, <3>1, <4>1, PublishesFacts
        <5> QED
          BY <1>1, <1>10, <4>1, <5>1 DEF Ready
      <4>2. CASE run = k.before /\ ~IsRelease(k)
        BY <1>1, <3>1, <4>2 DEF JournalOK, Ready
      <4> QED
        BY <4>1, <4>2
    <3>3. run = k.after => IsConsistent(k)'
      <4>1. CASE run = k.after /\ ~IsRelease(k)
        BY <1>1, <3>1, <4>1 DEF JournalOK, IsConsistent
      <4>2. CASE run = k.after /\ IsRelease(k)
        BY <1>3, <3>1, <4>2, PublishesFacts DEF IsRelease
      <4> QED
        BY <4>1, <4>2
    <3> QED
      BY <1>1, <3>1, <3>2, <3>3 DEF JournalOK, IsCurrent
  <2> QED
    BY <1>1, <2>1 DEF IInv, JournalInv
<1>14. StageInv'
  BY <1>1 DEF IInv, StageInv, Fits
<1>15. CleanInv'
  BY <1>1 DEF IInv, CleanInv, IsCurrent, IsListed
<1>16. Doing(h)'
  <2>1. call'[h] = step
    BY <1>1, RunFacts DEF Do
  <2>2. Ready(j)'
    BY <1>1, <1>6, <1>7, <1>8, <1>10 DEF Ready
  <2>3. Publishing(h)'
    BY <1>1, <1>6, <1>7, <1>8, <1>9, <2>1, <2>2 DEF Publishing
  <2> QED
    BY <1>9, <2>1, <2>3 DEF Doing, Listing, Fanning
<1>17. step.at \in Inside
  BY <1>9 DEF Inside
<1> QED
  BY <1>1, <1>9, <1>11, <1>12, <1>13, <1>14, <1>15, <1>16, <1>17, FileStepKeepsIInv

----------------------------------------------------------------------------
(* From the journal on *)

\* Only one journal leads from a state, and only one to it.
LEMMA OneJournal ==
    ASSUME IInv, NEW j \in prepared, run = j.after, NEW k \in prepared
    PROVE  /\ run = k.after => k = j
           /\ run = k.before => ~IsRelease(j)
<1>1. /\ j \in Journals /\ k \in Journals /\ Publishes(j) /\ Publishes(k)
      /\ j.before.version \in Nat /\ k.before.version \in Nat
      /\ run.version = j.before.version + 1
      /\ run = k.after => run.version = k.before.version + 1
  BY JournalVersions
<1>2. run = k.after => k.before.version = j.before.version
  BY <1>1
<1>3. run = k.after => k.before = j.before
  BY <1>2 DEF IInv, JournalInv
<1>4. run = k.after => k = j
  BY <1>1, <1>3, SameJournal
<1>5. run = k.before => run.release = None
  BY <1>1, PublishesFacts
<1>6. IsRelease(j) => run.release # None
  BY <1>1, PublishesFacts, TreeFacts DEF IsRelease, Publishes
<1> QED
  BY <1>4, <1>5, <1>6

LEMMA WriteJournalKeepsIInv ==
    ASSUME IInv, NEW h \in Hosts, WriteJournal(h), UNCHANGED fanout
    PROVE  IInv'
<1> DEFINE step == [call[h] EXCEPT !.at = "state"]
<1>1. PICK j \in Journals :
        /\ call[h].journal = j /\ holder = h /\ j # None
        /\ Publishes(j) /\ run = j.before /\ Ready(j)
  BY DEF WriteJournal, IInv, HolderInv, CallInv, Doing, Publishing, Inside
<1>2. /\ call[h].at = "journal" /\ prepared' = prepared \cup {j} /\ Do(h, step)
      /\ UNCHANGED <<holder, run, crashes, pauses, bound, archive, history, stage, releasing,
                     released, listed>>
  BY <1>1 DEF WriteJournal, Goto, files
<1>3. step \in Steps /\ step.at = "state" /\ step.journal = j
  BY <1>1, RunFacts DEF Steps
<1> HIDE DEF step
<1>4. FilesTyped'
  BY <1>1, <1>2, RunFacts DEF FilesTyped
<1>5. FileInv' /\ StageInv'
  BY <1>2 DEF IInv, FileInv, StageInv, Fits
<1>6. JournalInv'
  <2>1. JournalOK(j)'
    <3>1. run # j.after
      <4>1. run.version \in Nat /\ j.after.version = run.version + 1
        BY <1>1, RunFacts, StateFacts DEF Publishes
      <4> QED
        BY <4>1
    <3> QED
      BY <1>1, <1>2, <3>1 DEF JournalOK, Ready, IsCurrent
  <2>2. ASSUME NEW k \in prepared PROVE JournalOK(k)'
    BY <1>2, JournalVersions DEF JournalOK, Ready, IsConsistent, IsCurrent
  <2>3. \A k \in prepared : k.before.version = j.before.version => k.before = j.before
    BY <1>1, JournalVersions
  <2> QED
    BY <1>2, <2>1, <2>2, <2>3 DEF IInv, JournalInv
<1>7. CleanInv'
  BY <1>2 DEF IInv, CleanInv, IsCurrent, IsListed
<1>8. Doing(h)'
  <2>1. call'[h] = step
    BY <1>2, RunFacts DEF Do
  <2>2. Publishing(h)'
    BY <1>1, <1>2, <1>3, <2>1 DEF Publishing, Ready
  <2> QED
    BY <1>3, <2>1, <2>2 DEF Doing, Listing, Fanning
<1>9. step.at \in Inside
  BY <1>3 DEF Inside
<1> QED
  BY <1>1, <1>2, <1>3, <1>4, <1>5, <1>6, <1>7, <1>8, <1>9, FileStepKeepsIInv

\* A call that is about to move files
LEMMA MoveFacts ==
    ASSUME IInv, NEW h \in Hosts, call[h].at = "move"
    PROVE  \E j \in prepared :
           /\ call[h].journal = j /\ holder = h /\ j \in Journals /\ j # None
           /\ run = j.after /\ Publishes(j) /\ IsConsistent(j)
           /\ run.tree \in Trees /\ run.tree.doc = DocOf(j) /\ DocOf(j) \in Docs
<1> DEFINE j == call[h].journal
<1>1. holder = h /\ j \in prepared /\ j # None /\ run = j.after
  BY DEF IInv, HolderInv, CallInv, Doing, Publishing, Inside
<1> HIDE DEF j
<1>2. j \in Journals /\ Publishes(j) /\ JournalOK(j)
  BY <1>1, JournalVersions
<1>3. IsConsistent(j)
  BY <1>1, <1>2 DEF JournalOK
<1> QED
  BY <1>1, <1>2, <1>3, PublishesFacts DEF j

LEMMA KeepOldKeepsIInv ==
    ASSUME IInv, NEW h \in Hosts, KeepOld(h), UNCHANGED fanout
    PROVE  IInv'
<1>1. PICK j \in prepared :
        /\ call[h].journal = j /\ holder = h /\ j \in Journals
        /\ run = j.after /\ Publishes(j) /\ IsConsistent(j)
        /\ run.tree \in Trees /\ run.tree.doc = DocOf(j) /\ DocOf(j) \in Docs
  BY MoveFacts DEF KeepOld
<1> DEFINE d == DocOf(j)
           g == j.before.generation
<1>2. /\ call[h].at = "move" /\ ~IsRelease(j) /\ archive[d] \notin {None, j.after.tree}
      /\ history' = [history EXCEPT ![<<d, g>>] = archive[d]]
      /\ archive' = [archive EXCEPT ![d] = None]
      /\ UNCHANGED <<holder, run, call, crashes, pauses, bound, stage, releasing, released,
                     listed, prepared>>
  BY <1>1 DEF KeepOld
<1>3. /\ j.before.tree \in Trees /\ j.before.tree.doc = d /\ g \in Generations
      /\ Earlier(j.before.tree, run.tree) /\ j.before.tree # run.tree
      /\ run.tree # None /\ j.before.tree # None /\ d \in Docs /\ run.tree.doc = d
  BY <1>1, <1>2, PublishesFacts, TreeFacts
<1>4. archive[d] = j.before.tree /\ history[<<d, g>>] = None /\ stage[d] = run.tree
  BY <1>1, <1>2 DEF IsConsistent
<1>5. g < run.generation
  <2>1. run.generation = g + 1 /\ g \in Nat
    BY <1>1, <1>2, JournalFacts, StateFacts DEF Publishes
  <2> QED
    BY <2>1
<1> HIDE DEF d, g
<1>6. <<d, g>> \in Docs \X Generations
  BY <1>3
<1>7. /\ history'[<<d, g>>] = j.before.tree
      /\ \A e \in Docs, i \in Generations :
            history'[<<e, i>>] = IF e = d /\ i = g THEN j.before.tree ELSE history[<<e, i>>]
      /\ archive'[d] = None /\ \A e \in Docs : e # d => archive'[e] = archive[e]
  BY <1>2, <1>3, <1>4, <1>6, RunFacts DEF FilesTyped
<1>8. FilesTyped'
  <2>1. archive' \in [Docs -> Trees \cup {None}]
    BY <1>2, RunFacts DEF FilesTyped
  <2>2. history' \in [Docs \X Generations -> Trees \cup {None}]
    BY <1>2, <1>3, <1>4, RunFacts DEF FilesTyped
  <2> QED
    BY <1>2, <2>1, <2>2, RunFacts DEF FilesTyped
<1>9. FileInv'
  <2>1. \A e \in Docs : archive'[e] # None => archive'[e].doc = e
    BY <1>7 DEF IInv, FileInv
  <2>2. \A e \in Docs, i \in Generations : history'[<<e, i>>] # None => history'[<<e, i>>].doc = e
    BY <1>3, <1>7 DEF IInv, FileInv
  <2>3. ASSUME NEW e \in Docs, run.tree.doc < e
        PROVE  stage[e] = None /\ \A i \in Generations : history'[<<e, i>>] = None
    <3>1. e # d
      BY <1>1, <1>3, <2>3, TreeFacts
    <3> QED
      BY <1>7, <2>3, <3>1 DEF IInv, FileInv
  <2>4. ASSUME NEW i \in Generations, history'[<<d, i>>] # None
        PROVE  i < run.generation /\ Earlier(history'[<<d, i>>], run.tree)
    BY <1>1, <1>3, <1>5, <1>7, <2>4 DEF IInv, FileInv
  <2> QED
    BY <1>1, <1>2, <1>3, <2>1, <2>2, <2>3, <2>4 DEF IInv, FileInv
<1>10. JournalInv'
  <2>1. ASSUME NEW k \in prepared PROVE JournalOK(k)'
    <3>1. k \in Journals /\ Publishes(k) /\ JournalOK(k)
      BY JournalVersions
    <3>2. run # k.before
      <4>1. run = k.before => DocOf(k) = d /\ archive[d] = run.tree
        BY <1>3, <3>1, PublishesFacts DEF JournalOK, Ready
      <4> QED
        BY <1>3, <1>4, <4>1
    <3>3. run = k.after => IsConsistent(k)'
      <4>1. run = k.after => k = j
        BY <1>1, OneJournal
      <4>2. IsConsistent(j)'
        BY <1>1, <1>2, <1>3, <1>4, <1>7 DEF IsConsistent, d, g
      <4> QED
        BY <4>1, <4>2
    <3> QED
      BY <1>2, <3>1, <3>2, <3>3 DEF JournalOK, IsCurrent
  <2> QED
    BY <1>2, <2>1 DEF IInv, JournalInv
<1>11. StageInv'
  BY <1>1, <1>2, <1>3, <1>7 DEF StageInv
<1>12. CleanInv'
  <2>1. run.release = None
    <3>1. run.release = j.before.release
      BY <1>1, <1>2 DEF IsRelease
    <3> QED
      BY <1>1, <3>1, PublishesFacts
  <2> QED
    BY <1>1, <1>2, <2>1 DEF CleanInv
<1>13. Doing(h)'
  BY <1>2 DEF IInv, CallInv, Doing, Publishing, Listing, Fanning
<1>14. call[h] \in Steps /\ Do(h, call[h]) /\ call[h].at \in Inside
  BY <1>2, RunFacts DEF Do, Inside
<1> QED
  BY <1>1, <1>2, <1>8, <1>9, <1>10, <1>11, <1>12, <1>13, <1>14, FileStepKeepsIInv

LEMMA PlaceNewKeepsIInv ==
    ASSUME IInv, NEW h \in Hosts, PlaceNew(h), UNCHANGED fanout
    PROVE  IInv'
<1> DEFINE step == [call[h] EXCEPT !.at = "commit"]
<1>1. PICK j \in prepared :
        /\ call[h].journal = j /\ holder = h /\ j \in Journals /\ j # None
        /\ run = j.after /\ Publishes(j) /\ IsConsistent(j)
        /\ run.tree \in Trees /\ run.tree.doc = DocOf(j) /\ DocOf(j) \in Docs
  BY MoveFacts DEF PlaceNew
<1> DEFINE d == DocOf(j)
<1>2. /\ call[h].at = "move" /\ ~IsRelease(j) /\ Do(h, step)
      /\ \/ /\ archive[d] = None
            /\ archive' = [archive EXCEPT ![d] = stage[d]]
            /\ stage' = [stage EXCEPT ![d] = None]
         \/ archive[d] = j.after.tree /\ UNCHANGED <<archive, stage>>
      /\ UNCHANGED <<holder, run, crashes, pauses, bound, history, releasing, released,
                     listed, prepared>>
  BY <1>1 DEF PlaceNew, Goto
<1>3. /\ j.before.tree \in Trees /\ j.before.tree # None /\ run.tree # None
      /\ j.before.tree # run.tree /\ d \in Docs /\ run.tree.doc = d
  BY <1>1, <1>2, PublishesFacts, TreeFacts
<1>4. step \in Steps /\ step.at = "commit" /\ step.journal = j
  BY <1>1, RunFacts DEF Steps
<1>5. step.at \in Inside /\ call'[h] = step
  BY <1>2, <1>4, RunFacts DEF Inside, Do
<1> HIDE DEF step
<1>6. ASSUME archive'[d] = run.tree PROVE Doing(h)'
  <2>1. Publishing(h)'
    BY <1>1, <1>2, <1>4, <1>5, <1>6 DEF Publishing
  <2> QED
    BY <1>2, <1>4, <1>5, <2>1 DEF Doing, Listing, Fanning
<1>7. CASE archive[d] = j.after.tree /\ UNCHANGED <<archive, stage>>
  <2>1. Doing(h)'
    BY <1>1, <1>6, <1>7
  <2>2. UNCHANGED <<run, bound, crashes, pauses, kept, fanout>>
    BY <1>2, <1>7 DEF kept
  <2> QED
    BY <1>1, <1>2, <1>4, <1>5, <2>1, <2>2, GoesOnKeepsIInv
<1>8. CASE /\ archive[d] = None
           /\ archive' = [archive EXCEPT ![d] = stage[d]]
           /\ stage' = [stage EXCEPT ![d] = None]
  <2>1. history[<<d, j.before.generation>>] = j.before.tree /\ stage[d] = run.tree
    BY <1>1, <1>2, <1>3, <1>8 DEF IsConsistent
  <2> HIDE DEF d
  <2>2. /\ archive'[d] = run.tree /\ stage'[d] = None
        /\ \A e \in Docs : e # d => archive'[e] = archive[e] /\ stage'[e] = stage[e]
    BY <1>3, <1>8, <2>1, RunFacts DEF FilesTyped
  <2>3. FilesTyped'
    BY <1>1, <1>2, <1>8, <2>1, RunFacts DEF FilesTyped
  <2>4. FileInv'
    <3>1. \A e \in Docs : archive'[e] # None => archive'[e].doc = e
      BY <1>3, <2>2 DEF IInv, FileInv
    <3>2. \A e \in Docs : stage[e] = None => stage'[e] = None
      BY <2>2
    <3> QED
      BY <1>2, <3>1, <3>2 DEF IInv, FileInv
  <2>5. JournalInv'
    <3>1. ASSUME NEW k \in prepared PROVE JournalOK(k)'
      <4>1. k \in Journals /\ Publishes(k) /\ JournalOK(k)
        BY JournalVersions
      <4>2. run # k.before
        <5>1. run = k.before => DocOf(k) = d /\ archive[d] = run.tree
          BY <1>3, <4>1, PublishesFacts DEF JournalOK, Ready
        <5> QED
          BY <1>3, <1>8, <5>1
      <4>3. run = k.after => IsConsistent(k)'
        <5>1. run = k.after => k = j
          BY <1>1, OneJournal
        <5>2. IsConsistent(j)'
          BY <1>1, <1>2, <1>3, <2>1, <2>2 DEF IsConsistent, d
        <5> QED
          BY <5>1, <5>2
      <4> QED
        BY <1>2, <4>1, <4>2, <4>3 DEF JournalOK, IsCurrent
    <3> QED
      BY <1>2, <3>1 DEF IInv, JournalInv
  <2>6. StageInv'
    BY <1>2, <1>3, <2>2 DEF StageInv
  <2>7. CleanInv'
    BY <1>2, <1>3, <2>2 DEF IInv, CleanInv, IsCurrent, IsListed
  <2>8. listed \subseteq listed'
    BY <1>2
  <2> QED
    BY <1>1, <1>2, <1>4, <1>5, <1>6, <2>2, <2>3, <2>4, <2>5, <2>6, <2>7, <2>8, FileStepKeepsIInv
<1> QED
  BY <1>2, <1>7, <1>8

LEMMA PlaceReleaseKeepsIInv ==
    ASSUME IInv, NEW h \in Hosts, PlaceRelease(h), UNCHANGED fanout
    PROVE  IInv'
<1> DEFINE step == [call[h] EXCEPT !.at = "changelog"]
<1>1. PICK j \in prepared :
        /\ call[h].journal = j /\ holder = h /\ j \in Journals /\ j # None
        /\ run = j.after /\ Publishes(j) /\ IsConsistent(j)
        /\ run.tree \in Trees /\ run.tree.doc = DocOf(j) /\ DocOf(j) \in Docs
  BY MoveFacts DEF PlaceRelease
<1> DEFINE d == DocOf(j)
<1>2. /\ call[h].at = "move" /\ IsRelease(j) /\ Do(h, step)
      /\ IF released[d] = None
         THEN /\ released' = [released EXCEPT ![d] = releasing[d].tree]
              /\ releasing' = [releasing EXCEPT ![d] = None]
         ELSE UNCHANGED <<released, releasing>>
      /\ UNCHANGED <<holder, run, crashes, pauses, bound, archive, history, stage, listed,
                     prepared>>
  BY <1>1 DEF PlaceRelease, Goto
<1>3. /\ archive[d] = j.before.tree /\ run.release = j.before.tree /\ run.tree = j.before.tree
      /\ run.release # None /\ d \in Docs /\ run.release \in Trees /\ run.release = j.after.release
  BY <1>1, <1>2, PublishesFacts, TreeFacts DEF Publishes, IsConsistent
<1>4. step \in Steps /\ step.at = "changelog" /\ step.journal = j
  BY <1>1, RunFacts DEF Steps
<1>5. step.at \in Inside /\ call'[h] = step
  BY <1>2, <1>4, RunFacts DEF Inside, Do
<1> HIDE DEF step
<1>6. ASSUME released'[d] = run.release PROVE Doing(h)'
  <2>1. Publishing(h)'
    BY <1>1, <1>2, <1>3, <1>4, <1>5, <1>6 DEF Publishing
  <2> QED
    BY <1>2, <1>4, <1>5, <2>1 DEF Doing, Listing, Fanning
<1>7. CASE released[d] # None
  <2>1. released[d] = run.release
    BY <1>1, <1>2, <1>7 DEF IsConsistent
  <2>2. UNCHANGED <<released, releasing>>
    BY <1>2, <1>7
  <2>3. Doing(h)'
    BY <1>6, <2>1, <2>2
  <2>4. UNCHANGED <<run, bound, crashes, pauses, kept, fanout>>
    BY <1>2, <2>2 DEF kept
  <2> QED
    BY <1>1, <1>2, <1>4, <1>5, <2>3, <2>4, GoesOnKeepsIInv
<1>8. CASE released[d] = None
  <2>1. releasing[d].tree = run.release
    <3>1. releasing[d] = [tree |-> j.before.tree, version |-> j.before.version]
      BY <1>1, <1>2, <1>8 DEF IsConsistent
    <3> HIDE DEF d
    <3>2. releasing[d].tree = j.before.tree
      BY <3>1
    <3> QED
      BY <1>3, <3>2
  <2>2. /\ released' = [released EXCEPT ![d] = run.release]
        /\ releasing' = [releasing EXCEPT ![d] = None]
    BY <1>2, <1>8, <2>1
  <2> HIDE DEF d
  <2>3. released'[d] = run.release /\ \A e \in Docs : e # d => released'[e] = released[e]
    BY <1>3, <2>2, RunFacts DEF FilesTyped
  <2>4. FilesTyped'
    BY <1>2, <1>3, <2>2, RunFacts DEF FilesTyped
  <2>5. FileInv'
    BY <1>2, <1>3 DEF IInv, FileInv
  <2>6. JournalInv'
    <3>1. ASSUME NEW k \in prepared PROVE JournalOK(k)'
      <4>1. k \in Journals /\ Publishes(k) /\ JournalOK(k)
        BY JournalVersions
      <4>2. run # k.before
        BY <1>3, <4>1, PublishesFacts
      <4>3. run = k.after => IsConsistent(k)'
        <5>1. run = k.after => k = j
          BY <1>1, OneJournal
        <5>2. IsConsistent(j)'
          BY <1>1, <1>2, <1>3, <2>3 DEF IsConsistent, d
        <5> QED
          BY <5>1, <5>2
      <4> QED
        BY <1>2, <4>1, <4>2, <4>3 DEF JournalOK, IsCurrent
    <3> QED
      BY <1>2, <3>1 DEF IInv, JournalInv
  <2>7. StageInv'
    BY <1>2, <1>3 DEF StageInv
  <2>8. CleanInv'
    BY <1>1, <1>2 DEF IInv, CleanInv, IsCurrent, IsListed
  <2>9. listed \subseteq listed'
    BY <1>2
  <2> QED
    BY <1>1, <1>2, <1>4, <1>5, <1>6, <2>3, <2>4, <2>5, <2>6, <2>7, <2>8, <2>9, FileStepKeepsIInv
<1> QED
  BY <1>7, <1>8

LEMMA MarkCommittedKeepsIInv ==
    ASSUME IInv, NEW h \in Hosts, MarkCommitted(h), UNCHANGED fanout
    PROVE  IInv'
<1>1. call[h].at = "commit" /\ call[h].journal # None
  BY DEF MarkCommitted, IInv, CallInv, Doing, Publishing
<1>2. PICK j \in prepared :
        /\ call[h].journal = j /\ run = j.after
        /\ IF IsRelease(j) THEN released[DocOf(j)] = j.after.release
                           ELSE archive[DocOf(j)] = j.after.tree
  BY <1>1 DEF IInv, CallInv, Doing, Publishing
<1>3. /\ prepared' = prepared \ {j} /\ holder = h /\ holder' = None /\ Return(h)
      /\ UNCHANGED <<run, crashes, pauses, bound, archive, history, stage, releasing, released,
                     listed>>
  BY <1>2 DEF MarkCommitted, Lock!Release, files
<1>4. FilesTyped'
  BY <1>3, RunFacts DEF FilesTyped
<1>5. FileInv' /\ StageInv'
  BY <1>3 DEF IInv, FileInv, StageInv, Fits
<1>6. JournalInv'
  BY <1>3 DEF IInv, JournalInv, JournalOK, Ready, IsConsistent, IsCurrent
<1>7. CleanInv'
  <2> SUFFICES ASSUME \A k \in prepared' : IsCurrent(k)'
               PROVE  /\ run.tree # None =>
                           \/ archive[run.tree.doc] = run.tree
                           \/ \E k \in prepared' : run = k.after /\ ~IsRelease(k)
                      /\ run.release # None =>
                           \/ /\ released[run.release.doc] = run.release
                              /\ IsListed(run.release.doc, "RELEASED", Lists)
                           \/ \E k \in prepared' : run = k.after /\ IsRelease(k)
    BY <1>3 DEF CleanInv, IsListed
  <2>1. \A k \in prepared : IsCurrent(k)
    BY <1>2, <1>3 DEF IsCurrent
  <2>2. DocOf(j) = run.tree.doc /\ Publishes(j)
    BY <1>2, JournalVersions DEF DocOf
  <2>3. ASSUME run.tree # None, archive[run.tree.doc] # run.tree
        PROVE  \E k \in prepared' : run = k.after /\ ~IsRelease(k)
    BY <1>2, <1>3, <2>1, <2>2, <2>3 DEF IInv, CleanInv
  <2>4. ASSUME run.release # None,
               \A k \in prepared' : ~(run = k.after /\ IsRelease(k))
        PROVE  released[run.release.doc] = run.release /\ IsListed(run.release.doc, "RELEASED", Lists)
    <3>1. CASE IsRelease(j)
      <4>1. run.release = run.tree
        BY <2>4, RunFacts DEF Sound
      <4>2. released[run.release.doc] = run.release
        BY <1>2, <2>2, <3>1, <4>1
      <4>3. Entry(h) = [doc |-> run.release.doc, status |-> "RELEASED"]
        BY <1>1, <1>2, <2>2, <4>1 DEF Entry
      <4>4. Listing(h)
        BY DEF IInv, CallInv, Doing
      <4>5. IsListed(run.release.doc, "RELEASED", Lists)
        BY <1>1, <1>2, <3>1, <4>3, <4>4 DEF Listing, IsListed, Lists
      <4> QED
        BY <4>2, <4>5
    <3>2. CASE ~IsRelease(j)
      BY <1>3, <2>1, <2>4, <3>2 DEF IInv, CleanInv
    <3> QED
      BY <3>1, <3>2
  <2> QED
    BY <2>3, <2>4
<1>8. listed \subseteq listed'
  BY <1>3
<1> QED
  BY <1>3, <1>4, <1>5, <1>6, <1>7, <1>8, ReturnFacts, FileStepKeepsIInv

----------------------------------------------------------------------------
(* The state of a Candidate is written *)

LEMMA WriteStateKeepsIInv ==
    ASSUME IInv, NEW h \in Hosts, WriteState(h), UNCHANGED fanout
    PROVE  IInv'
<1> DEFINE step == [call[h] EXCEPT !.at = "move"]
<1>1. PICK j \in prepared :
        /\ call[h].journal = j /\ holder = h /\ j \in Journals /\ j # None
        /\ Publishes(j) /\ run = j.before /\ Ready(j)
  BY DEF WriteState, IInv, HolderInv, CallInv, Doing, Publishing, Inside
<1>2. /\ call[h].at = "state" /\ IsConsistent(j) /\ run' = j.after /\ Do(h, step)
      /\ UNCHANGED <<holder, crashes, pauses, bound, archive, history, stage, releasing, released,
                     listed, prepared>>
  BY <1>1 DEF WriteState, Goto, publication, files
<1>3. /\ step \in Steps /\ step.at = "move" /\ step.journal = j /\ step.at \in Inside
      /\ call'[h] = step
  BY <1>1, <1>2, RunFacts DEF Steps, Inside, Do
<1> HIDE DEF step
<1>4. /\ run.version \in Nat /\ run'.version = run.version + 1 /\ run' \in States
      /\ run'.plans = run.plans /\ Sound(run)'
  BY <1>1, <1>2, JournalVersions DEF Publishes, Sound
<1>5. /\ run.tree \in Trees /\ run'.tree \in Trees /\ run.tree # None /\ run'.tree # None
      /\ run'.tree.doc = run.tree.doc /\ run.release = None /\ run.tree.doc = DocOf(j)
      /\ DocOf(j) \in Docs /\ archive[DocOf(j)] = run.tree
  BY <1>1, <1>2, PublishesFacts, TreeFacts DEF Ready
<1>6. IsRelease(j) => /\ run'.tree = run.tree /\ run'.generation = run.generation
                      /\ run'.release # None
  BY <1>1, <1>2, <1>5 DEF Publishes
<1>7. ~IsRelease(j) => /\ run'.generation = run.generation + 1 /\ run'.release = None
                       /\ Earlier(run.tree, run'.tree) /\ run'.tree # run.tree
  BY <1>1, <1>2, <1>5, PublishesFacts DEF Publishes, IsRelease
<1>8. FilesTyped' /\ BoundTyped'
  BY <1>2, RunFacts DEF FilesTyped, BoundTyped
<1>9. FileInv'
  <2>1. ASSUME NEW g \in Generations, history[<<run.tree.doc, g>>] # None
        PROVE  g < run'.generation /\ Earlier(history[<<run.tree.doc, g>>], run'.tree)
    <3> DEFINE t == history[<<run.tree.doc, g>>]
    <3>1. g < run.generation /\ Earlier(t, run.tree)
      BY <1>5, <2>1 DEF IInv, FileInv
    <3>2. CASE IsRelease(j)
      BY <1>6, <3>1, <3>2
    <3>3. CASE ~IsRelease(j)
      <4>1. g \in Nat /\ run.generation \in Nat
        BY RunFacts, StateFacts, DocsAre DEF Generations
      <4>2. g < run'.generation
        BY <1>7, <3>1, <3>3, <4>1
      <4>3. t \in Trees
        BY <1>5, <2>1, RunFacts DEF FilesTyped
      <4> HIDE DEF t
      <4>4. Earlier(t, run'.tree)
        BY <1>5, <1>7, <3>1, <3>3, <4>3, EarlierFacts
      <4> QED
        BY <4>2, <4>4 DEF t
    <3> QED
      BY <3>2, <3>3
  <2>2. run'.release = None => \A d \in Docs : released[d] = None
    BY <1>5 DEF IInv, FileInv
  <2> QED
    BY <1>2, <1>5, <2>1, <2>2 DEF IInv, FileInv
<1>10. JournalInv'
  <2>1. JournalOK(j)'
    <3>1. run' # j.before
      BY <1>1, <1>4
    <3> QED
      BY <1>1, <1>2, <3>1 DEF JournalOK, IsConsistent, IsCurrent
  <2>2. ASSUME NEW k \in prepared, k # j PROVE JournalOK(k)'
    <3>1. /\ k \in Journals /\ Publishes(k) /\ k.before.version \in Nat
          /\ k.after.version = k.before.version + 1
          /\ k.before.version = run.version => run = k.before
      BY JournalVersions
    <3>2. run' # k.after
      <4>1. run' = k.after => k.before.version = run.version
        BY <1>4, <3>1
      <4> QED
        BY <1>1, <1>2, <2>2, <3>1, <4>1, SameJournal
    <3>3. run' # k.before /\ k.before.version < run'.version
      BY <1>4, <3>2, Overtakes
    <3> QED
      BY <1>2, <3>1, <3>2, <3>3 DEF JournalOK, IsCurrent
  <2> QED
    BY <1>2, <2>1, <2>2 DEF IInv, JournalInv
<1>11. StageInv'
  <2>1. CASE IsRelease(j)
    BY <1>6, <2>1 DEF StageInv
  <2>2. CASE ~IsRelease(j)
    BY <1>2, <1>5, <1>7, <2>2 DEF StageInv
  <2> QED
    BY <2>1, <2>2
<1>12. CleanInv'
  <2>1. CASE IsRelease(j)
    BY <1>2, <1>5, <1>6, <2>1 DEF CleanInv
  <2>2. CASE ~IsRelease(j)
    BY <1>2, <1>5, <1>7, <2>2 DEF CleanInv
  <2> QED
    BY <2>1, <2>2
<1>13. ListInv'
  BY <1>2, <1>4, <1>5, ListsKept
<1>14. PlansTyped' /\ FanoutInv'
  BY PlansKept
<1>15. Doing(h)'
  <2>1. Publishing(h)'
    BY <1>1, <1>2, <1>3 DEF Publishing
  <2> QED
    BY <1>3, <2>1 DEF Doing, Listing, Fanning
<1>16. HolderInv' /\ CallInv' /\ call' \in [Hosts -> Steps] /\ holder' \in Hosts \cup {None}
  BY <1>1, <1>2, <1>3, <1>4, <1>15, CallsKept DEF Do
<1> QED
  BY <1>4, <1>8, <1>9, <1>10, <1>11, <1>12, <1>13, <1>14, <1>16 DEF IInv, Typed

LEMMA BindKeepsIInv ==
    ASSUME IInv, NEW h \in Hosts, Bind(h), UNCHANGED fanout
    PROVE  IInv'
<1> DEFINE next == [run EXCEPT !.node = "review.parallel", !.tree = NewTree, !.generation = NewDoc]
<1>1. /\ call[h].at = "bind" /\ call[h].journal = None /\ holder = h /\ Publishing(h) /\ Listing(h)
      /\ NewDoc \in Docs /\ archive[NewDoc] = NewTree /\ run.status = "ACTIVE"
  BY DEF Bind, IInv, HolderInv, CallInv, Doing, Publishing, Inside
<1>2. /\ Commit(next) /\ holder' = None /\ Return(h)
      /\ UNCHANGED <<crashes, pauses, bound, archive, history, stage, releasing, released,
                     listed, prepared>>
  BY DEF Bind, Lock!Release, publication, files
<1>3. /\ NewTree \in Trees /\ NewTree # None /\ NewTree.doc = NewDoc /\ NewTree.evals = 0
      /\ NewTree.review = "NOT_RUN" /\ NewDoc \in Nat /\ NewDoc > 0
      /\ run.tree # None => run.tree.doc < NewDoc /\ run.tree.doc # NewDoc
  BY <1>1, NewFacts, TreeFacts
<1>4. NewDoc \in Generations
  BY <1>1, DocsAre DEF Generations, Docs
<1>5. /\ next.status = "ACTIVE" /\ next.node = "review.parallel" /\ next.tree = NewTree
      /\ next.generation = NewDoc /\ next.packs = run.packs /\ next.pending = run.pending
      /\ next.release = run.release /\ next.plans = run.plans /\ next.blocked = run.blocked
      /\ next \in States
  <2>1. run \in States /\ NewTree \in Trees \cup {None} /\ NewDoc \in {0} \cup Generations
    BY <1>3, <1>4, RunFacts
  <2> HIDE DEF next
  <2>2. next \in States
    BY <2>1 DEF States, next
  <2> QED
    BY <1>1, <2>1, <2>2 DEF States, next
<1> HIDE DEF next
<1>6. /\ run' \in States /\ run'.version = run.version + 1 /\ run'.status = "ACTIVE"
      /\ run'.node = "review.parallel" /\ run'.tree = NewTree
      /\ run'.generation = NewDoc /\ run'.packs = run.packs /\ run'.pending = run.pending
      /\ run'.release = run.release /\ run'.plans = run.plans
      /\ run'.blocked = run.blocked
  BY <1>2, <1>5, RunFacts, CommitFacts
<1>7. run.release = None
  BY <1>1, RunFacts DEF Sound
<1>8. Sound(run)'
  <2>1. run.packs \in Nat
    BY RunFacts, StateFacts, DocsAre
  <2>2. NewDoc <= NewDoc + 2 * 0 + 0 /\ 0 <= run.packs /\ run.packs > 0 => 0 < run.packs
    BY <1>3, <2>1
  <2> QED
    BY <1>3, <1>6, <1>7, <2>1, <2>2, RunFacts DEF Sound
<1>9. FilesTyped' /\ BoundTyped'
  BY <1>2, RunFacts DEF FilesTyped, BoundTyped
<1>10. \A d \in Docs : NewDoc <= d => run.tree = None \/ run.tree.doc < d
  BY <1>3, RunFacts, StateFacts, TreeFacts, DocsAre
<1>11. FileInv'
  <2>1. \A d \in Docs : NewDoc <= d =>
           stage[d] = None /\ \A g \in Generations : history[<<d, g>>] = None
    BY <1>10 DEF IInv, FileInv
  <2>2. \A d \in Docs : NewDoc < d => NewDoc <= d
    BY <1>3, DocsAre
  <2>3. NewDoc <= NewDoc
    BY <1>3
  <2> QED
    BY <1>1, <1>2, <1>3, <1>6, <1>7, <2>1, <2>2, <2>3 DEF IInv, FileInv
<1>12. stage[NewDoc] = None
  BY <1>1, <1>3, <1>10 DEF IInv, FileInv
<1>13. \A k \in prepared : run' # k.after
  <2> SUFFICES ASSUME NEW k \in prepared, run' = k.after PROVE FALSE
    OBVIOUS
  <2>1. /\ k \in Journals /\ Publishes(k) /\ k.before.version = run.version
        /\ k.before.version = run.version => run = k.before
    <3>1. run'.version = k.before.version + 1 /\ run.version \in Nat /\ k.before.version \in Nat
      BY JournalVersions
    <3> QED
      BY <1>6, <3>1, JournalVersions
  <2>2. run.tree.doc = run'.tree.doc /\ run.tree # None
    BY <2>1, PublishesFacts, TreeFacts
  <2> QED
    BY <1>3, <1>6, <2>2
<1>14. \A k \in prepared : ~IsCurrent(k)' /\ k.before.version < run'.version
  BY <1>6, <1>13, Overtakes DEF IsCurrent
<1>15. JournalInv'
  BY <1>2, <1>14 DEF IInv, JournalInv, JournalOK, IsCurrent
<1>16. StageInv'
  BY <1>2, <1>3, <1>6, <1>12 DEF StageInv
<1>17. CleanInv'
  BY <1>1, <1>2, <1>3, <1>6, <1>7 DEF CleanInv
<1>18. ListInv'
  <2>1. Entry(h) = [doc |-> NewDoc, status |-> "CANDIDATE_ARCHIVED"]
    BY <1>1 DEF Entry
  <2>2. IsListed(NewDoc, "CANDIDATE_ARCHIVED", Lists \ {"RELEASE_MANIFEST.json"})
    BY <1>1, <2>1 DEF Listing, IsListed, Lists
  <2> QED
    BY <1>2, <1>3, <1>6, <2>2 DEF IInv, ListInv, IsListed, fanout
<1>19. PlansTyped' /\ FanoutInv'
  BY PlansKept
<1>20. HolderInv' /\ CallInv' /\ call' \in [Hosts -> Steps] /\ holder' \in Hosts \cup {None}
  BY <1>1, <1>2, <1>6, ReturnFacts, CallsKept DEF Do
<1> QED
  BY <1>6, <1>8, <1>9, <1>11, <1>15, <1>16, <1>17, <1>18, <1>19, <1>20 DEF IInv, Typed

----------------------------------------------------------------------------
(* Every step *)

LEMMA CompleteReleaseKeepsIInv ==
    ASSUME IInv, NEW h \in Hosts, CompleteRelease(h), UNCHANGED fanout PROVE IInv'
<1>1. PICK j \in prepared :
        /\ IsRelease(j) /\ run = j.after /\ IsConsistent(j)
        /\ Do(h, [Idle EXCEPT !.journal = j, !.at = "move"])
  BY DEF CompleteRelease
<1>2. run # j.before
  BY <1>1 DEF IsRelease
<1> QED
  BY <1>1, <1>2, TakeUpKeepsIInv DEF CompleteRelease, IsCurrent

LEMMA StutterKeepsIInv == ASSUME IInv, UNCHANGED vars PROVE IInv'
BY ReadyKeepsIInv DEF vars, publication, files, kept

LEMMA ReadyChangesKeepIInv ==
    ASSUME IInv, NEW h \in Hosts, RecoverResult(h) \/ ExtendChangelog, UNCHANGED fanout
    PROVE  IInv'
BY ReadyKeepsIInv DEF RecoverResult, ExtendChangelog, kept

LEMMA PublicationKeepsIInv ==
    ASSUME IInv, NEW h \in Hosts, PublicationNext(h), UNCHANGED fanout PROVE IInv'
BY RecoverKeepsIInv, EnterKeepsIInv, LeaveKeepsIInv, ArchiveKeepsIInv,
   AppendChangelogKeepsIInv, AppendStructuredChangelogKeepsIInv, UpdateManifestKeepsIInv,
   BindKeepsIInv, AnswerKeepsIInv, PauseKeepsIInv, ResumeKeepsIInv, StagePackKeepsIInv,
   BlockPackKeepsIInv, FinalizeKeepsIInv, FulfillKeepsIInv, RefuseReceiptKeepsIInv,
   AskForPackKeepsIInv, DispatchReadyKeepsIInv, GateStepKeepsIInv, BindEvidenceKeepsIInv,
   IssueReceiptKeepsIInv, CommitReleaseKeepsIInv, CompleteReleaseKeepsIInv,
   HandOffKeepsIInv, WriteJournalKeepsIInv, WriteStateKeepsIInv, KeepOldKeepsIInv,
   PlaceNewKeepsIInv, PlaceReleaseKeepsIInv, MarkCommittedKeepsIInv, ReadyChangesKeepIInv
   DEF PublicationNext, Publish, Barrier

LEMMA FanoutKeepsIInv ==
    ASSUME IInv, NEW h \in Hosts, FanoutNext(h), UNCHANGED publication PROVE IInv'
BY PersistPlanKeepsIInv, PersistStatusKeepsIInv, RegisterKeepsIInv, ExecuteKeepsIInv,
   PersistResultKeepsIInv, ExecutedKeepsIInv, CancelKeepsIInv, JoinKeepsIInv, JoinedKeepsIInv
   DEF FanoutNext, Work

LEMMA NextKeepsIInv == IInv /\ [\E h \in Hosts : Step(h)]_vars => IInv'
<1> SUFFICES ASSUME IInv, [\E h \in Hosts : Step(h)]_vars PROVE IInv'
  OBVIOUS
<1>1. ASSUME NEW h \in Hosts, Step(h) PROVE IInv'
  <2>1. CASE PublicationNext(h) /\ UNCHANGED fanout
    BY <2>1, PublicationKeepsIInv
  <2>2. CASE FanoutNext(h) /\ UNCHANGED publication
    BY <2>2, FanoutKeepsIInv
  <2>3. CASE Die(h) /\ UNCHANGED <<publication, fanout>>
    BY <2>3, DieKeepsIInv
  <2> QED
    BY <1>1, <2>1, <2>2, <2>3 DEF Step
<1>2. CASE UNCHANGED vars
  BY <1>2, StutterKeepsIInv
<1> QED
  BY <1>1, <1>2

\* The invariant holds, for any Hosts, plans, workers and bounds.
THEOREM Invariance == Spec => []IInv
<1> QED
  BY InitIInv, NextKeepsIInv, PTL DEF Spec

\* The steps that change the files of the Ready gate
LEMMA OthersLeaveReady ==
    ASSUME NEW h \in Hosts, Step(h)
    PROVE  \/ ready' = ready
           \/ DispatchReady(h) \/ WriteValidation(h) \/ WriteSnapshots(h) \/ WriteResult(h)
           \/ WriteResultReceipt(h) \/ RecoverResult(h) \/ ExtendChangelog \/ Fulfill(h)
<1>1. UNCHANGED publication => ready' = ready
  BY DEF publication, files
<1>2. PublicationNext(h) =>
           \/ ready' = ready
           \/ DispatchReady(h) \/ WriteValidation(h) \/ WriteSnapshots(h) \/ WriteResult(h)
           \/ WriteResultReceipt(h) \/ RecoverResult(h) \/ ExtendChangelog \/ Fulfill(h)
  BY DEF publication, files, PublicationNext, Barrier, Publish, Recover, Enter, Leave, Archive,
         AppendChangelog, AppendStructuredChangelog, UpdateManifest, Enlist, Bind, WriteJournal,
         WriteState, KeepOld, PlaceNew, PlaceRelease, MarkCommitted, Answer, Pause, Resume,
         StagePack, BlockPack, Finalize, RefuseReceipt, AskForPack, BindEvidence, IssueReceipt,
         TakeResult, CommitRelease, CompleteRelease, HandOff
<1> QED
  BY <1>1, <1>2 DEF Step

LEMMA ReadyStaysTyped ==
    ASSUME IInv, ReadyTyped, NEW h \in Hosts, Step(h) PROVE ReadyTyped'
<1>1. CASE ready' = ready
  BY <1>1 DEF ReadyTyped
<1>2. CASE DispatchReady(h)
  BY <1>2 DEF DispatchReady, ReadyTyped
<1>3. CASE WriteValidation(h)
  <2>1. call[h].saw \in Nat
    BY RunFacts, StepFacts
  <2> QED
    BY <1>3, <2>1 DEF WriteValidation, ReadyTyped
<1>4. CASE WriteSnapshots(h) \/ WriteResult(h) \/ WriteResultReceipt(h)
  BY <1>4 DEF WriteSnapshots, WriteResult, WriteResultReceipt, ReadyTyped
<1>5. CASE RecoverResult(h) \/ ExtendChangelog
  BY <1>5 DEF RecoverResult, ExtendChangelog, ReadyTyped
<1>6. CASE Fulfill(h)
  <2>1. run.tree.doc \in Docs
    BY <1>6, PackFacts, TreeFacts DEF Fulfill
  <2> QED
    BY <1>6, <2>1 DEF Fulfill, WriteReceipt, ReadyTyped
<1> QED
  BY <1>1, <1>2, <1>3, <1>4, <1>5, <1>6, OthersLeaveReady

\* The files, the state and the calls have their types.
THEOREM TypeCorrect == Spec => []TypeOK
<1>1. Init => ReadyTyped
  BY DEF Init, PublicationInit, ReadyTyped
<1>2. IInv /\ ReadyTyped /\ [\E h \in Hosts : Step(h)]_vars => ReadyTyped'
  <2>1. CASE UNCHANGED vars
    BY <2>1 DEF vars, publication, files, ReadyTyped
  <2> QED
    BY <2>1, ReadyStaysTyped
<1>3. IInv /\ ReadyTyped => TypeOK
  BY TypeParts DEF IInv
<1> QED
  BY <1>1, <1>2, <1>3, Invariance, PTL DEF Spec

\* Findings reach a caller once, from workers whose results were persisted and
\* accepted, for the plan's document: whatever is executed, cancelled and joined
\* again, and wherever processes die.
THEOREM FindingsOnce == Spec => []FindingsAreDeliveredOnce
<1>1. IInv => FindingsAreDeliveredOnce
  BY DEF IInv, FanoutInv
<1> QED
  BY <1>1, Invariance, PTL

\* When no journal is PREPARED, the files are what the state says: a barrier has
\* nothing to refuse.
THEOREM FilesAreTheState == Spec => []PublishedAsCommitted
<1>1. IInv => PublishedAsCommitted
  BY DEF IInv, PublishedAsCommitted, CleanInv, ListInv, FilesMatch
<1> QED
  BY <1>1, Invariance, PTL

\* What a call that died has left in the stage is what a retry prepares again,
\* unless another Pack was staged since, or none can be.
THEOREM StagesAreTakenUp == Spec => []StageIsTakenUp
<1>1. IInv => StageIsTakenUp
  <2> SUFFICES ASSUME IInv, Abandoned
               PROVE  LET left == stage[run.tree.doc] IN
                      \/ /\ left = [run.tree EXCEPT !.review = "FINALIZED"]
                         /\ run.node = "review.finalize"
                      \/ /\ left.review = "NOT_RUN"
                         /\ left.evals = IF run.pending /\ run.staged = run.tree.doc
                                         THEN run.packs ELSE run.packs + 1
                      \/ left.evals \in 1 .. run.packs /\ (run.blocked \/ left.evals # run.packs)
    BY DEF StageIsTakenUp, PackToBind, PackIsStaged
  <2>1. archive[run.tree.doc] = run.tree
    BY DEF IInv, CleanInv, Abandoned
  <2>2. Fits(stage[run.tree.doc])
    BY <2>1 DEF IInv, StageInv, Abandoned
  <2> QED
    BY <2>2 DEF Fits
<1> QED
  BY <1>1, Invariance, PTL

----------------------------------------------------------------------------
(* The refinement: what a Run promises about its PRD *)

\* What is found in the archive and in the history, wherever it lies
Found == {archive[d] : d \in Docs} \cup {history[p] : p \in Docs \X Generations}

\* What History is told is kept
Replaced == IF run.tree = None THEN {} ELSE Kept

LEMMA KeptFacts == Kept = {t \in Found \ {None, run.tree} : t.doc <= run.tree.doc}
BY DEF Kept, Found

\* A tree that is found lies where its document says.
LEMMA FoundFacts ==
    ASSUME IInv, NEW t \in Found, t # None
    PROVE  /\ t \in Trees /\ t.doc \in Docs
           /\ archive[t.doc] = t \/ \E g \in Generations : history[<<t.doc, g>>] = t
<1>1. CASE t \in {archive[d] : d \in Docs}
  <2>1. PICK d \in Docs : t = archive[d]
    BY <1>1
  <2>2. t \in Trees /\ t.doc = d
    BY <2>1, RunFacts DEF FilesTyped, IInv, FileInv
  <2> QED
    BY <2>1, <2>2
<1>2. CASE t \in {history[p] : p \in Docs \X Generations}
  <2>1. PICK d \in Docs, g \in Generations : t = history[<<d, g>>]
    BY <1>2
  <2>2. t \in Trees
    BY <2>1, RunFacts DEF FilesTyped
  <2>3. t.doc = d
    BY <2>1 DEF IInv, FileInv
  <2> QED
    BY <2>1, <2>2, <2>3
<1> QED
  BY <1>1, <1>2 DEF Found

LEMMA FoundNow ==
    /\ \A d \in Docs : archive[d] \in Found
    /\ \A d \in Docs, g \in Generations : history[<<d, g>>] \in Found
BY DEF Found

\* Neither the Candidate nor its trees are changed.
LEMMA HistoryStutters ==
    ASSUME UNCHANGED <<archive, history>>, run'.tree = run.tree, run'.release = run.release
    PROVE  UNCHANGED <<run.tree, Replaced, run.release>>
BY DEF Replaced, Kept

\* The archive of a version to come is not one of its trees.
LEMMA ArchiveStutters ==
    ASSUME IInv, NEW h \in Hosts, Archive(h)
    PROVE  UNCHANGED <<run.tree, Replaced, run.release>>
<1>1. /\ archive' = [archive EXCEPT ![NewDoc] = NewTree] /\ archive[NewDoc] \in {None, NewTree}
      /\ NewDoc <= bound.docs /\ UNCHANGED <<run, history>>
  BY DEF Archive, MayArchive
<1>2. CASE run.tree = None
  BY <1>1, <1>2 DEF Replaced
<1>3. CASE run.tree # None
  <2>1. NewDoc \in Docs
    <3>1. bound.docs \in 0 .. MaxDocs
      BY RunFacts, BoundFacts DEF BoundTyped
    <3> QED
      BY <1>1, <3>1, NewFacts, DocsAre DEF Docs
  <2>2. /\ NewTree.doc = NewDoc /\ NewTree # None /\ run.tree.doc \in Nat /\ NewDoc \in Nat
        /\ run.tree.doc < NewDoc
    BY <1>3, <2>1, NewFacts, RunFacts, StateFacts, TreeFacts
  <2>3. ~(NewTree.doc <= run.tree.doc)
    BY <2>2
  <2>4. /\ archive'[NewDoc] = NewTree
        /\ \A d \in Docs : d # NewDoc => archive'[d] = archive[d]
    BY <1>1, <2>1, RunFacts DEF FilesTyped
  <2>5. \A t : t \in Found' \ {None, NewTree} <=> t \in Found \ {None, NewTree}
    BY <1>1, <2>1, <2>4 DEF Found
  <2>6. Kept' = Kept
    BY <1>1, <2>3, <2>5 DEF Kept, Found
  <2> QED
    BY <1>1, <1>3, <2>6 DEF Replaced
<1> QED
  BY <1>2, <1>3

\* The old generation is found in the history, where nothing was.
LEMMA KeepOldStutters ==
    ASSUME IInv, NEW h \in Hosts, KeepOld(h)
    PROVE  UNCHANGED <<run.tree, Replaced, run.release>>
<1>1. PICK j \in prepared :
        /\ call[h].journal = j /\ j \in Journals
        /\ run = j.after /\ Publishes(j) /\ IsConsistent(j)
  BY MoveFacts DEF KeepOld
<1> DEFINE d == DocOf(j)
           g == j.before.generation
<1>2. /\ ~IsRelease(j) /\ archive[d] \notin {None, j.after.tree}
      /\ history' = [history EXCEPT ![<<d, g>>] = archive[d]]
      /\ archive' = [archive EXCEPT ![d] = None]
      /\ UNCHANGED run
  BY <1>1 DEF KeepOld
<1>3. d \in Docs /\ g \in Generations /\ run.tree # None
  BY <1>1, PublishesFacts, TreeFacts
<1>4. history[<<d, g>>] = None
  BY <1>1, <1>2 DEF IsConsistent
<1> HIDE DEF d, g
<1>5. /\ archive'[d] = None /\ \A e \in Docs : e # d => archive'[e] = archive[e]
      /\ \A e \in Docs, i \in Generations :
            history'[<<e, i>>] = IF e = d /\ i = g THEN archive[d] ELSE history[<<e, i>>]
  BY <1>2, <1>3, RunFacts DEF FilesTyped
<1>6. ASSUME NEW t \in Found', t # None PROVE t \in Found
  <2>1. CASE t \in {archive'[e] : e \in Docs}
    BY <1>3, <1>5, <1>6, <2>1, FoundNow
  <2>2. CASE t \in {history'[p] : p \in Docs \X Generations}
    <3>1. PICK e \in Docs, i \in Generations : t = history'[<<e, i>>]
      BY <2>2
    <3> QED
      BY <1>3, <1>5, <3>1, FoundNow
  <2> QED
    BY <1>6, <2>1, <2>2 DEF Found
<1>7. ASSUME NEW t \in Found, t # None PROVE t \in Found'
  <2>1. CASE t \in {archive[e] : e \in Docs}
    <3>1. PICK e \in Docs : t = archive[e]
      BY <2>1
    <3>2. CASE e = d
      <4>1. history'[<<d, g>>] = t /\ <<d, g>> \in Docs \X Generations
        BY <1>3, <1>5, <3>1, <3>2
      <4> QED
        BY <4>1 DEF Found
    <3>3. CASE e # d
      BY <1>5, <3>1, <3>3 DEF Found
    <3> QED
      BY <3>2, <3>3
  <2>2. CASE t \in {history[p] : p \in Docs \X Generations}
    <3>1. PICK e \in Docs, i \in Generations : t = history[<<e, i>>]
      BY <2>2
    <3>2. history'[<<e, i>>] = t /\ <<e, i>> \in Docs \X Generations
      BY <1>4, <1>5, <1>7, <3>1
    <3> QED
      BY <3>2 DEF Found
  <2> QED
    BY <1>7, <2>1, <2>2 DEF Found
<1>8. Kept' = Kept
  BY <1>2, <1>6, <1>7 DEF Kept, Found
<1> QED
  BY <1>2, <1>8 DEF Replaced

\* The new generation is the current one already.
LEMMA PlaceNewStutters ==
    ASSUME IInv, NEW h \in Hosts, PlaceNew(h)
    PROVE  UNCHANGED <<run.tree, Replaced, run.release>>
<1>1. PICK j \in prepared :
        /\ call[h].journal = j /\ j \in Journals
        /\ run = j.after /\ Publishes(j) /\ IsConsistent(j)
  BY MoveFacts DEF PlaceNew
<1> DEFINE d == DocOf(j)
<1>2. /\ ~IsRelease(j)
      /\ \/ archive[d] = None /\ archive' = [archive EXCEPT ![d] = stage[d]]
         \/ archive[d] = run.tree /\ UNCHANGED archive
      /\ UNCHANGED <<run, history>>
  BY <1>1 DEF PlaceNew
<1>3. d \in Docs /\ j.before.tree # None /\ j.after.tree = run.tree /\ run.tree # None
  BY <1>1, PublishesFacts, TreeFacts
<1>4. archive[d] = None => stage[d] = run.tree
  BY <1>1, <1>2, <1>3 DEF IsConsistent
<1> HIDE DEF d
<1>5. /\ archive[d] \in {None, run.tree} /\ archive'[d] = run.tree
      /\ \A e \in Docs : e # d => archive'[e] = archive[e]
  BY <1>2, <1>3, <1>4, RunFacts DEF FilesTyped
<1>6. \A t : t \in Found' \ {None, run.tree} <=> t \in Found \ {None, run.tree}
  BY <1>2, <1>3, <1>5 DEF Found
<1>7. Kept' = Kept
  BY <1>2, <1>6 DEF Kept, Found
<1> QED
  BY <1>2, <1>7 DEF Replaced

\* A new generation: it was never there, and the one it replaces is found.
LEMMA WriteStateRefines ==
    ASSUME IInv, NEW h \in Hosts, WriteState(h)
    PROVE  History!Next
<1>1. PICK j \in prepared :
        /\ call[h].journal = j /\ j \in Journals
        /\ Publishes(j) /\ run = j.before /\ Ready(j)
  BY DEF WriteState, IInv, CallInv, Doing, Publishing
<1>2. run' = j.after /\ UNCHANGED <<archive, history>>
  BY <1>1 DEF WriteState, publication, files
<1> DEFINE d == DocOf(j)
           t == run.tree
           u == j.after.tree
<1>3. /\ t \in Trees /\ u \in Trees /\ t # None /\ u # None /\ t.doc = d /\ u.doc = d
      /\ d \in Docs /\ d \in Nat /\ run.release = None /\ archive[d] = t /\ run'.tree = u
      /\ t.evals \in Nat /\ u.evals \in Nat
      /\ t.review \in {"NOT_RUN", "FINALIZED"} /\ u.review \in {"NOT_RUN", "FINALIZED"}
  BY <1>1, <1>2, PublishesFacts, TreeFacts, DocsAre DEF Ready
<1>4. CASE IsRelease(j)
  <2>1. /\ u = t /\ run'.release = t /\ t.review = "FINALIZED"
        /\ EvalsRequired => t.evals # 0
    BY <1>1, <1>2, <1>4 DEF Publishes
  <2>2. Kept' = Kept
    BY <1>2, <1>3, <2>1 DEF Kept
  <2>3. History!Release
    BY <1>3, <2>1, <2>2 DEF History!Release
  <2> QED
    BY <2>3 DEF History!Next
<1>5. CASE ~IsRelease(j)
  <2>1. /\ Earlier(t, u) /\ u # t /\ run'.release = None
        /\ u.review = "NOT_RUN" \/ u.evals = t.evals
    BY <1>1, <1>2, <1>3, <1>5, PublishesFacts DEF Publishes, IsRelease
  <2>2. IF u.review = "FINALIZED" THEN u.evals = t.evals /\ t.review = "NOT_RUN"
                                  ELSE u.evals \notin {0, t.evals}
    BY <1>3, <2>1 DEF Earlier
  <2>3. u \notin Found
    <3> SUFFICES ASSUME u \in Found PROVE FALSE
      OBVIOUS
    <3>1. archive[d] = u \/ \E g \in Generations : history[<<d, g>>] = u
      BY <1>3, FoundFacts
    <3>2. archive[d] # u
      BY <1>3, <2>1
    <3>3. PICK g \in Generations : history[<<d, g>>] = u
      BY <3>1, <3>2
    <3>4. Earlier(u, t)
      BY <1>3, <3>3 DEF IInv, FileInv
    <3> QED
      BY <1>3, <2>1, <3>4 DEF Earlier
  <2>4. t \in Found
    BY <1>3, FoundNow
  <2>5. Found' = Found
    BY <1>2 DEF Found
  <2>6. Kept = {s \in Found \ {None, t} : s.doc <= d}
    BY <1>3, KeptFacts
  <2>7. Kept' = {s \in Found \ {None, u} : s.doc <= d}
    BY <1>3, <2>5 DEF Kept, Found
  <2>8. d <= d
    BY <1>3
  <2> HIDE DEF d, t, u
  <2>9. Kept' = Kept \cup ({t} \ {None}) /\ u \notin Kept \cup {t}
    BY <1>3, <2>1, <2>3, <2>4, <2>6, <2>7, <2>8
  <2>10. History!Replace(u)
    BY <1>3, <2>1, <2>2, <2>9 DEF History!Replace, t
  <2> QED
    BY <1>3, <2>10 DEF History!Next
<1> QED
  BY <1>4, <1>5

\* A new version: nothing of it was there but its archive.
LEMMA BindRefines ==
    ASSUME IInv, NEW h \in Hosts, Bind(h)
    PROVE  History!Next
<1> DEFINE next == [run EXCEPT !.node = "review.parallel", !.tree = NewTree, !.generation = NewDoc]
           t == run.tree
           u == NewTree
<1>1. /\ call[h].at = "bind" /\ Publishing(h) /\ call[h].journal = None
      /\ NewDoc \in Docs /\ archive[NewDoc] = u /\ run.status = "ACTIVE" /\ FilesMatch
  BY DEF Bind, IInv, CallInv, Doing, Publishing
<1>2. Commit(next) /\ UNCHANGED <<archive, history>>
  BY DEF Bind, publication, files
<1>3. /\ u \in Trees /\ u # None /\ u.doc = NewDoc /\ u.evals = 0
      /\ u.review = "NOT_RUN" /\ NewDoc \in Nat /\ NewDoc > 0
      /\ t # None => t.doc < NewDoc /\ t.doc # NewDoc
  BY <1>1, NewFacts, TreeFacts
<1>4. NewDoc \in Generations
  BY <1>1, DocsAre DEF Generations, Docs
<1>5. next \in States /\ next.tree = u /\ next.release = run.release
  BY <1>3, <1>4, RunFacts DEF States
<1>6. run'.tree = u /\ run'.release = run.release
  BY <1>2, <1>5, RunFacts, CommitFacts
<1>7. run.release = None
  BY <1>1, RunFacts DEF Sound
<1>8. \A d \in Docs : NewDoc <= d => run.tree = None \/ run.tree.doc < d
  BY <1>3, RunFacts, StateFacts, TreeFacts, DocsAre
<1>9. ASSUME NEW s \in Found \ {None, u}
      PROVE  s.doc # NewDoc /\ s.doc \in Nat
  <2>1. s.doc \in Nat
    BY FoundFacts, DocsAre
  <2>2. NewDoc <= NewDoc
    BY <1>3
  <2>3. \A g \in Generations : history[<<NewDoc, g>>] = None
    BY <1>1, <1>8, <2>2 DEF IInv, FileInv
  <2> QED
    BY <1>1, <1>9, <2>1, <2>3, FoundFacts
<1>10. Kept' = {s \in Found \ {None, u} : s.doc <= NewDoc}
  BY <1>2, <1>3, <1>6 DEF Kept, Found
<1>11. CASE t = None
  <2>1. NewDoc = 1
    BY <1>11 DEF NewDoc
  <2>2. ASSUME NEW s \in Kept' PROVE FALSE
    <3>1. s \in Found \ {None, u} /\ s.doc <= 1
      BY <1>10, <2>1, <2>2
    <3>2. s.doc \in Docs
      BY <3>1, FoundFacts
    <3> QED
      BY <1>9, <2>1, <3>1, <3>2, DocsAre
  <2>3. Kept' = {}
    BY <2>2
  <2>4. Replaced' = Replaced \cup ({run.tree} \ {None}) /\ u \notin Replaced \cup {run.tree}
    BY <1>3, <1>6, <1>11, <2>3 DEF Replaced
  <2>5. History!Replace(u)
    BY <1>3, <1>6, <1>7, <1>11, <2>4 DEF History!Replace, Replaced
  <2> QED
    BY <1>3, <2>5 DEF History!Next
<1>12. CASE t # None
  <2>1. t \in Trees /\ t.doc \in Nat /\ t.doc \in Docs /\ NewDoc = t.doc + 1
    BY <1>12, RunFacts, StateFacts, TreeFacts DEF NewDoc
  <2>2. archive[t.doc] = t
    BY <1>1, <1>12 DEF FilesMatch
  <2>3. t \in Found
    BY <2>1, <2>2, FoundNow
  <2>4. Kept = {s \in Found \ {None, t} : s.doc <= t.doc}
    BY <1>12, KeptFacts
  <2>5. \A s \in Found \ {None, u} : s.doc <= NewDoc <=> s.doc <= t.doc
    BY <1>9, <2>1
  <2>6. t # u /\ ~(u.doc <= t.doc) /\ t.doc <= t.doc
    BY <1>3, <1>12, <2>1
  <2> HIDE DEF t, u
  <2>7. Kept' = Kept \cup ({t} \ {None}) /\ u \notin Kept \cup {t}
    BY <1>10, <1>12, <2>3, <2>4, <2>5, <2>6
  <2>8. History!Replace(u)
    BY <1>3, <1>6, <1>7, <1>12, <2>7 DEF History!Replace, t
  <2> QED
    BY <1>3, <2>8 DEF History!Next
<1> QED
  BY <1>11, <1>12

\* A commit that publishes nothing
LEMMA CommitStutters ==
    ASSUME IInv, NEW h \in Hosts,
           \/ Answer(h) \/ Pause(h) \/ Resume(h) \/ StagePack(h) \/ BlockPack(h)
           \/ AskForPack(h) \/ DispatchReady(h) \/ BindEvidence(h) \/ IssueReceipt(h)
           \/ HandOff(h) \/ (Register(h) /\ UNCHANGED publication)
    PROVE  UNCHANGED <<run.tree, Replaced, run.release>>
<1>1. run \in States
  BY RunFacts
<1>2. run'.tree = run.tree /\ run'.release = run.release
  <2>1. CASE Answer(h)
    BY <1>1, <2>1 DEF Answer, Commit, Next, States
  <2>2. CASE Pause(h)
    BY <1>1, <2>2 DEF Pause, Commit, Next, States
  <2>3. CASE Resume(h)
    BY <1>1, <2>3 DEF Resume, Commit, Next, States
  <2>4. CASE StagePack(h)
    BY <1>1, <2>4 DEF StagePack, Commit, Next, States
  <2>5. CASE BlockPack(h) \/ AskForPack(h) \/ DispatchReady(h)
    BY <1>1, <2>5 DEF BlockPack, AskForPack, DispatchReady, Commit, Next, States
  <2>8. CASE BindEvidence(h) \/ IssueReceipt(h)
    BY <1>1, <2>8 DEF BindEvidence, IssueReceipt, Reauthorised, Commit, Next, States
  <2>6. CASE HandOff(h)
    BY <1>1, <2>6 DEF HandOff, Commit, Next, States
  <2>7. CASE Register(h)
    BY <1>1, <2>7 DEF Register, Commit, Next, States
  <2> QED
    BY <2>1, <2>2, <2>3, <2>4, <2>5, <2>6, <2>7, <2>8
<1>3. UNCHANGED <<archive, history>>
  BY DEF Answer, Pause, Resume, StagePack, BlockPack, AskForPack, DispatchReady, BindEvidence,
         IssueReceipt, HandOff, publication, files
<1> QED
  BY <1>2, <1>3, HistoryStutters

\* A step that leaves state, archive and history as they are
LEMMA OtherStutters ==
    ASSUME UNCHANGED <<run, archive, history>>
    PROVE  UNCHANGED <<run.tree, Replaced, run.release>>
BY HistoryStutters

LEMMA PublicationRefines ==
    ASSUME IInv, NEW h \in Hosts, PublicationNext(h)
    PROVE  History!Next \/ UNCHANGED <<run.tree, Replaced, run.release>>
<1>1. CASE Archive(h) \/ KeepOld(h) \/ PlaceNew(h)
  BY <1>1, ArchiveStutters, KeepOldStutters, PlaceNewStutters
<1>2. CASE WriteState(h) \/ Bind(h)
  BY <1>2, WriteStateRefines, BindRefines
<1>3. CASE \/ Answer(h) \/ Pause(h) \/ Resume(h) \/ StagePack(h) \/ BlockPack(h)
           \/ AskForPack(h) \/ DispatchReady(h) \/ BindEvidence(h) \/ IssueReceipt(h)
           \/ HandOff(h)
  BY <1>3, CommitStutters
<1>4. CASE Recover(h) \/ Enter(h) \/ Leave(h) \/ WriteJournal(h) \/ MarkCommitted(h)
  <2>1. UNCHANGED <<run, archive, history>>
    BY <1>4 DEF Recover, Enter, Leave, WriteJournal, MarkCommitted, publication, files
  <2> QED
    BY <2>1, OtherStutters
<1>5. CASE AppendChangelog(h) \/ AppendStructuredChangelog(h) \/ UpdateManifest(h) \/ PlaceRelease(h)
  <2>1. UNCHANGED <<run, archive, history>>
    BY <1>5 DEF AppendChangelog, AppendStructuredChangelog, UpdateManifest, Enlist, PlaceRelease
  <2> QED
    BY <2>1, OtherStutters
<1>6. CASE Finalize(h) \/ Fulfill(h) \/ RefuseReceipt(h) \/ CommitRelease(h) \/ CompleteRelease(h)
  <2>1. UNCHANGED <<run, archive, history>>
    BY <1>6 DEF Finalize, Fulfill, RefuseReceipt, CommitRelease, CompleteRelease, Stage,
                publication, files
  <2> QED
    BY <2>1, OtherStutters
<1>7. CASE \/ WriteValidation(h) \/ WriteSnapshots(h) \/ WriteResult(h)
           \/ WriteResultReceipt(h) \/ TakeResult(h) \/ RecoverResult(h) \/ ExtendChangelog
  <2>1. UNCHANGED <<run, archive, history>>
    BY <1>7 DEF WriteValidation, WriteSnapshots, WriteResult, WriteResultReceipt, TakeResult,
                RecoverResult, ExtendChangelog, publication, files
  <2> QED
    BY <2>1, OtherStutters
<1> QED
  BY <1>1, <1>2, <1>3, <1>4, <1>5, <1>6, <1>7 DEF PublicationNext, Publish, Barrier

LEMMA StepRefines ==
    IInv /\ [\E h \in Hosts : Step(h)]_vars => [History!Next]_<<run.tree, Replaced, run.release>>
<1> SUFFICES ASSUME IInv, [\E h \in Hosts : Step(h)]_vars
             PROVE  History!Next \/ UNCHANGED <<run.tree, Replaced, run.release>>
  OBVIOUS
<1>1. CASE UNCHANGED vars
  BY <1>1, OtherStutters DEF vars, publication, files
<1>2. ASSUME NEW h \in Hosts, Step(h)
      PROVE  History!Next \/ UNCHANGED <<run.tree, Replaced, run.release>>
  <2>1. CASE PublicationNext(h)
    BY <2>1, PublicationRefines
  <2>2. CASE Register(h) /\ UNCHANGED publication
    BY <2>2, CommitStutters
  <2>3. CASE FanoutNext(h) /\ ~Register(h) /\ UNCHANGED publication
    <3>1. UNCHANGED run
      BY <2>3 DEF FanoutNext, Work, PersistStatus, Executed, Joined, PersistResult, PersistPlan,
                  Execute, Cancel, Join
    <3> QED
      BY <2>3, <3>1, OtherStutters DEF publication, files
  <2>4. CASE Die(h) /\ UNCHANGED publication
    BY <2>4, OtherStutters DEF Die, publication, files
  <2> QED
    BY <1>2, <2>1, <2>2, <2>3, <2>4 DEF Step
<1> QED
  BY <1>1, <1>2

\* Every publication is one step of the Run's Candidate: seen from its readers,
\* the PRD is replaced as a whole, what it was is kept, and what is released is
\* the current Candidate with its review finished.
THEOREM Refinement == Spec => ImplementsHistory
<1>1. Init => History!Init
  BY DEF Init, RunInit, History!Init
<1>2. IInv /\ [\E h \in Hosts : Step(h)]_vars => [History!Next]_<<run.tree, Replaced, run.release>>
  BY StepRefines
<1>3. Spec => [][History!Next]_<<run.tree, Replaced, run.release>>
  BY <1>2, Invariance, PTL DEF Spec
<1> QED
  BY <1>1, <1>3, PTL DEF Spec, ImplementsHistory, History!Spec, History!vars, Replaced
====
