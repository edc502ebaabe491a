---------------------------- MODULE CandidateRun ----------------------------
(***************************************************************************)
(* What the publication of a Candidate and its review fan-out share: the   *)
(* Run's state.json, its mutation_lock, the calls of the Hosts and the     *)
(* processes that die.  (src/src/bpg: state_controller.py, fanout.py)      *)
(***************************************************************************)
EXTENDS Naturals, FiniteSets

CONSTANTS
    Hosts,
    Plans,          \* fan-out plans
    Workers,        \* the roles of a plan
    MaxDocs,        \* bound: versions of the PRD
    MaxPacks,       \* bound: Eval Packs that are staged or bound
    Kinds,          \* how many receipts the Ready gate asks for; four in the code
    Bounds,         \* what a behaviour may have at most of each
    EvalsRequired,  \* the PRD's Evals are REQUIRED, else RECOMMENDED
    None            \* an absent value

ASSUME HostAssumption == None \notin Hosts
ASSUME BoundAssumption ==
    /\ MaxDocs \in Nat /\ MaxPacks \in Nat
    /\ Bounds \subseteq [docs : 0 .. MaxDocs, packs : 0 .. MaxPacks, crashes : Nat,
                         pauses : Nat, dispatches : Nat, others : BOOLEAN,
                         plans : SUBSET Plans]
ASSUME EvalsAssumption == EvalsRequired \in BOOLEAN
ASSUME KindsAssumption == Kinds \in Nat \ {0}

Docs == 1 .. MaxDocs

\* A Candidate's tree: the document, the Pack its metadata binds (0 for
\* none), the status of its review companion.
Trees == [doc : Docs, evals : 0 .. MaxPacks, review : {"NOT_RUN", "FINALIZED"}]
ASSUME NoneAssumption == None \notin Trees

VARIABLES
    holder,     \* of the Run's mutation_lock
    run,        \* state.json
    call,       \* what each Host's call is about to do
    crashes, pauses,
    bound       \* the member of Bounds this behaviour keeps to

Lock == INSTANCE Mutex WITH Threads <- Hosts

\* journal: of the publication in progress; saw: the version the caller read, and
\* then, at the Ready gate, its attempt
Idle == [at |-> "idle", journal |-> None, saw |-> 0, plan |-> None, workers |-> {}]

\* The newest dispatch of the Ready gate: its number, the version of the state it
\* is authorised for, and whether its evidence is bound to the state
NoDispatch == [attempt |-> 0, authorised |-> 0, evidence |-> FALSE]

\* A Run whose plan is ready, and no Candidate yet.
RunInit ==
    /\ holder = None
    /\ run = [version |-> 1, status |-> "ACTIVE", node |-> "prd.generate",
              tree |-> None, generation |-> 0, packs |-> 0, staged |-> 0,
              pending |-> FALSE, blocked |-> FALSE, asked |-> FALSE,
              dispatch |-> NoDispatch, receipts |-> 0, release |-> None, plans |-> {}]
    /\ call = [h \in Hosts |-> Idle]
    /\ crashes = 0 /\ pauses = 0 /\ bound \in Bounds

Next(next) == [next EXCEPT !.version = run.version + 1]
Commit(next) == run' = Next(next)

Do(h, step) == call' = [call EXCEPT ![h] = step]
Goto(h, where) == Do(h, [call[h] EXCEPT !.at = where])
Return(h) == Do(h, Idle)

\* The process dies; the kernel gives the lock back.
Die(h) ==
    /\ call[h].at # "idle" /\ crashes < bound.crashes
    /\ crashes' = crashes + 1
    /\ Return(h)
    /\ holder' = IF holder = h THEN None ELSE holder
    /\ UNCHANGED <<run, pauses, bound>>

====
