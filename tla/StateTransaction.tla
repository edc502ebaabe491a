-------------------------- MODULE StateTransaction --------------------------
(***************************************************************************)
(* The write-ahead transactions of a legacy Run (StateController,          *)
(* src/src/bpg/state_controller.py): every mutation writes a journal       *)
(* (PREPARED), appends an event to events.jsonl, replaces state.json and   *)
(* marks the journal COMMITTED; a process may die between any two of these *)
(* writes; authoritative_read_barrier finishes what it finds PREPARED and  *)
(* then refuses a state.json that the events do not authorise.             *)
(*                                                                         *)
(* A state is abstracted to the sequence of mutations that made it: its    *)
(* state_version is the length, its hash the sequence itself.  Which       *)
(* mutations a node admits and what they change is left out.               *)
(*                                                                         *)
(* A Host calls the controller in one of three ways.                       *)
(*   "create"  : create_run, without the barrier;                          *)
(*   "guarded" : barrier and mutation under one lock                       *)
(*               (host_runtime: submit_and_advance, apply_owner_choice);   *)
(*   "split"   : the barrier under the lock, then load_state without it,   *)
(*               then the mutation under the lock again, which checks the  *)
(*               version (engine.handle: pause, resume).                   *)
(***************************************************************************)
EXTENDS Naturals, Sequences

CONSTANTS
    Hosts,
    Creations,  \* what create_run can be asked for; one transaction id
    Actions,    \* the other mutations; their transaction ids tell the version
    RunCreated, \* the transaction id of every creation
    MaxVersion, \* bound: state_version
    MaxCrashes, \* bound: processes that die
    None        \* an absent value

ASSUME HostAssumption == None \notin Hosts
ASSUME BoundAssumption == MaxVersion \in Nat \ {0} /\ MaxCrashes \in Nat
ASSUME MutationAssumption ==
    Creations \cap Actions = {} /\ RunCreated \notin Actions

VARIABLES
    holder,     \* of the Run's mutation_lock
    file,       \* state.json; <<>> when there is none
    journals,   \* transactions/<id>.json
    events,     \* the state-commit events of events.jsonl
    torn,       \* events.jsonl ends in a broken line
    stage,      \* where each Host's call is
    mode,       \* how it calls
    own,        \* the transaction at hand is the call's own, not a recovered one
    tx,         \* the transaction at hand
    seen,       \* the state the call decided on
    answered,   \* the states callers were given as the result of a mutation
    crashes,
    overtaken   \* history: a mutation was prepared beside an unfinished one

files == <<file, journals, events, torn>>
call == <<stage, mode, own, tx, seen>>
history == <<answered, crashes, overtaken>>
vars == <<holder, files, call, history>>

Lock == INSTANCE Mutex WITH Threads <- Hosts

Mutations == Creations \cup Actions
Contents == Seq(Mutations)
TxIds == (Actions \cup {RunCreated}) \X (1 .. MaxVersion)
Journals == [status : {"PREPARED", "COMMITTED"}, before : Contents, after : Contents]
Events == [id : TxIds, before : Contents, after : Contents]
Stages == {"idle", "recovering", "passed", "looked", "mutating", "prepared",
    "logged", "written", "done", "blocked"}
Modes == {"create", "guarded", "split"}
NoTx == <<RunCreated, 1>>

ASSUME NoneAssumption == None \notin Journals

Init ==
    /\ holder = None
    /\ file = <<>>
    /\ journals = [k \in TxIds |-> None]
    /\ events = <<>>
    /\ torn = FALSE
    /\ stage = [h \in Hosts |-> "idle"]
    /\ mode = [h \in Hosts |-> "guarded"]
    /\ own = [h \in Hosts |-> FALSE]
    /\ tx = [h \in Hosts |-> NoTx]
    /\ seen = [h \in Hosts |-> <<>>]
    /\ answered = {}
    /\ crashes = 0
    /\ overtaken = FALSE

Goto(h, next) == stage' = [stage EXCEPT ![h] = next]

\* The call ends, by its return, an exception or the death of its process.
End(h, next) ==
    /\ Goto(h, next)
    /\ mode' = [mode EXCEPT ![h] = "guarded"]
    /\ own' = [own EXCEPT ![h] = FALSE]
    /\ tx' = [tx EXCEPT ![h] = NoTx]
    /\ seen' = [seen EXCEPT ![h] = <<>>]

Prepared(k) == journals[k] # None /\ journals[k].status = "PREPARED"

----------------------------------------------------------------------------
(* authoritative_read_barrier and recover_transactions *)

\* A Host calls for a Run that is on disk.
CallBarrier(h, m) ==
    /\ stage[h] = "idle" /\ m \in {"guarded", "split"}
    /\ file # <<>> \/ \E k \in TxIds : Prepared(k)
    /\ Lock!Take(h)
    /\ mode' = [mode EXCEPT ![h] = m]
    /\ Goto(h, "recovering")
    /\ UNCHANGED <<files, own, tx, seen, history>>

PickRegardless(h, k) ==
    /\ stage[h] = "recovering" /\ Prepared(k)
    /\ tx' = [tx EXCEPT ![h] = k]
    /\ own' = [own EXCEPT ![h] = FALSE]
    /\ Goto(h, "prepared")
    /\ UNCHANGED <<holder, files, mode, seen, history>>

PickSkipsTheEvent(h, k) ==
    /\ stage[h] = "recovering" /\ Prepared(k)
    /\ file \in {journals[k].before, journals[k].after}
    /\ tx' = [tx EXCEPT ![h] = k]
    /\ own' = [own EXCEPT ![h] = FALSE]
    /\ Goto(h, IF file = journals[k].before THEN "logged" ELSE "written")
    /\ UNCHANGED <<holder, files, mode, seen, history>>

\* A PREPARED journal is finished from where the state file says it stopped.
Pick(h, k) ==
    /\ stage[h] = "recovering" /\ Prepared(k)
    /\ file \in {journals[k].before, journals[k].after}
    /\ tx' = [tx EXCEPT ![h] = k]
    /\ own' = [own EXCEPT ![h] = FALSE]
    /\ Goto(h, IF file = journals[k].before THEN "prepared" ELSE "written")
    /\ UNCHANGED <<holder, files, mode, seen, history>>

Unreconcilable(k) ==
    Prepared(k) /\ file \notin {journals[k].before, journals[k].after}

\* _full_state_commitment_blockers: one unbroken chain from the creation to
\* the state file.
IsAuthorised ==
    /\ ~torn /\ events # <<>>
    /\ events[1].before = <<>>
    /\ \A i \in 1 .. Len(events) - 1 : events[i + 1].before = events[i].after
    /\ events[Len(events)].after = file

Block(h) ==
    /\ stage[h] = "recovering"
    /\ \/ \E k \in TxIds : Unreconcilable(k)
       \/ (\A k \in TxIds : ~Prepared(k)) /\ ~IsAuthorised
    /\ Lock!Release(h) /\ End(h, "blocked")
    /\ UNCHANGED <<files, history>>

\* The barrier returns the state, to the call that still holds the lock or
\* to one that has given it back.
Pass(h) ==
    /\ stage[h] = "recovering"
    /\ \A k \in TxIds : ~Prepared(k)
    /\ IsAuthorised
    /\ seen' = [seen EXCEPT ![h] = file]
    /\ \/ mode[h] = "guarded" /\ Goto(h, "mutating") /\ UNCHANGED holder
       \/ mode[h] = "split" /\ Goto(h, "passed") /\ Lock!Release(h)
    /\ UNCHANGED <<files, mode, own, tx, history>>

----------------------------------------------------------------------------
(* The mutations *)

\* load_state without the lock: state.json is replaced by rename.
Look(h) ==
    /\ stage[h] = "passed"
    /\ seen' = [seen EXCEPT ![h] = file]
    /\ Goto(h, "looked")
    /\ UNCHANGED <<holder, files, mode, own, tx, history>>

\* serialized_run_mutation; nothing is recovered here.
Relock(h) ==
    /\ stage[h] = "looked"
    /\ Lock!Take(h)
    /\ Goto(h, "mutating")
    /\ UNCHANGED <<files, mode, own, tx, seen, history>>

\* create_run, which refuses a Run that has a state file.
CallCreate(h) ==
    /\ stage[h] = "idle" /\ file = <<>>
    /\ Lock!Take(h)
    /\ mode' = [mode EXCEPT ![h] = "create"]
    /\ seen' = [seen EXCEPT ![h] = <<>>]
    /\ Goto(h, "mutating")
    /\ UNCHANGED <<files, own, tx, history>>

Choices(h) == IF mode[h] = "create" THEN Creations ELSE Actions

TxId(m) == <<IF m \in Creations THEN RunCreated ELSE m, Len(file) + 1>>

Journal(m) ==
    [status |-> "PREPARED", before |-> file, after |-> Append(file, m)]

PrepareRegardless(h, m) ==
    /\ stage[h] = "mutating" /\ m \in Choices(h)
    /\ Len(file) < MaxVersion
    /\ journals[TxId(m)] \in {None, Journal(m)}
    /\ journals' = [journals EXCEPT ![TxId(m)] = Journal(m)]
    /\ tx' = [tx EXCEPT ![h] = TxId(m)]
    /\ own' = [own EXCEPT ![h] = TRUE]
    /\ overtaken' = (overtaken \/ \E k \in TxIds \ {TxId(m)} : Prepared(k))
    /\ Goto(h, "prepared")
    /\ UNCHANGED <<holder, file, events, torn, mode, seen, answered, crashes>>

\* The version is compared, then the journal is written; one that is there
\* must be the same (a COMMITTED one is of an earlier version).
Prepare(h, m) ==
    /\ stage[h] = "mutating" /\ m \in Choices(h)
    /\ Len(file) < MaxVersion
    /\ Len(seen[h]) = Len(file)
    /\ journals[TxId(m)] \in {None, Journal(m)}
    /\ journals' = [journals EXCEPT ![TxId(m)] = Journal(m)]
    /\ tx' = [tx EXCEPT ![h] = TxId(m)]
    /\ own' = [own EXCEPT ![h] = TRUE]
    /\ overtaken' = (overtaken \/ \E k \in TxIds \ {TxId(m)} : Prepared(k))
    /\ Goto(h, "prepared")
    /\ UNCHANGED <<holder, file, events, torn, mode, seen, answered, crashes>>

\* StateConflict, TransitionRejected, a plain read, or a caller that stops.
GiveUp(h) ==
    /\ \/ stage[h] = "mutating" /\ Lock!Release(h)
       \/ stage[h] \in {"passed", "looked"} /\ UNCHANGED holder
    /\ End(h, "idle")
    /\ UNCHANGED <<files, history>>

----------------------------------------------------------------------------
(* _commit_state_event, and the same writes made by the recovery *)

EventWithoutCommitment(k) ==
    [id |-> k, before |-> journals[k].before, after |-> None]

EventOf(k) ==
    [id |-> k, before |-> journals[k].before, after |-> journals[k].after]

IsLogged(k) == \E i \in 1 .. Len(events) : events[i] = EventOf(k)

\* append_event adds nothing when the event is there: its id is that of the
\* transaction, and the journal has fixed the rest of it.
AppendEvent(h) ==
    /\ stage[h] = "prepared" /\ ~torn
    /\ events' = IF IsLogged(tx[h]) THEN events ELSE Append(events, EventOf(tx[h]))
    /\ Goto(h, "logged")
    /\ UNCHANGED <<holder, file, journals, torn, mode, own, tx, seen, history>>

\* verify_event_chain raises on the broken line.
FindTorn(h) ==
    /\ stage[h] = "prepared" /\ torn
    /\ Lock!Release(h) /\ End(h, "blocked")
    /\ UNCHANGED <<files, history>>

WriteState(h) ==
    /\ stage[h] = "logged"
    /\ file' = journals[tx[h]].after
    /\ Goto(h, "written")
    /\ UNCHANGED <<holder, journals, events, torn, mode, own, tx, seen, history>>

LeavePrepared(h) ==
    /\ stage[h] = "written"
    /\ Goto(h, IF own[h] THEN "done" ELSE "recovering")
    /\ UNCHANGED <<holder, files, mode, own, tx, seen, history>>

MarkCommitted(h) ==
    /\ stage[h] = "written"
    /\ journals' = [journals EXCEPT ![tx[h]].status = "COMMITTED"]
    /\ Goto(h, IF own[h] THEN "done" ELSE "recovering")
    /\ UNCHANGED <<holder, file, events, torn, mode, own, tx, seen, history>>

Return(h) ==
    /\ stage[h] = "done"
    /\ Lock!Release(h) /\ End(h, "idle")
    /\ answered' = answered \cup {journals[tx[h]].after}
    /\ UNCHANGED <<files, crashes, overtaken>>

\* The caller has shown what blocks the Run.
Dismiss(h) ==
    /\ stage[h] = "blocked"
    /\ Goto(h, "idle")
    /\ UNCHANGED <<holder, files, mode, own, tx, seen, history>>

----------------------------------------------------------------------------
(* The process dies with the lock, which the kernel gives back: between    *)
(* two writes, or in the middle of the append to events.jsonl, the one     *)
(* write that is not made to another file and renamed.                     *)
Crash(h) ==
    /\ holder = h /\ crashes < MaxCrashes
    /\ crashes' = crashes + 1
    /\ Lock!Release(h) /\ End(h, "idle")
    /\ UNCHANGED <<files, answered, overtaken>>

Tear(h) ==
    /\ stage[h] = "prepared" /\ ~torn /\ ~IsLogged(tx[h])
    /\ crashes < MaxCrashes
    /\ crashes' = crashes + 1
    /\ torn' = TRUE
    /\ Lock!Release(h) /\ End(h, "idle")
    /\ UNCHANGED <<file, journals, events, answered, overtaken>>

Recover(h) == (\E k \in TxIds : Pick(h, k)) \/ Block(h) \/ Pass(h)

Decide(h) == (\E m \in Mutations : Prepare(h, m)) \/ GiveUp(h)

Commit(h) ==
    AppendEvent(h) \/ FindTorn(h) \/ WriteState(h) \/ MarkCommitted(h) \/ Return(h)

Next == \E h \in Hosts :
    \/ \E m \in Modes : CallBarrier(h, m)
    \/ CallCreate(h) \/ Look(h) \/ Relock(h)
    \/ Recover(h) \/ Decide(h) \/ Commit(h) \/ Dismiss(h)
    \/ Crash(h) \/ Tear(h)

Spec == Init /\ [][Next]_vars

\* A call that is in progress goes on, and some Host's barrier gets the lock
\* again and again: people come back to a Run that is not finished.
Fairness ==
    /\ \A h \in Hosts : WF_vars(Recover(h) \/ Decide(h) \/ Commit(h) \/ Dismiss(h))
    /\ SF_vars(\E h \in Hosts, m \in Modes : CallBarrier(h, m))

FairSpec == Spec /\ Fairness

----------------------------------------------------------------------------
(* Properties *)

\* Types of the files and of the calls: every journal and every event tells
\* a whole state before and after, and only the process that holds the lock
\* is inside the controller.
TypeOK ==
    /\ file \in Contents
    /\ journals \in [TxIds -> Journals \cup {None}]
    /\ events \in Seq(Events)
    /\ torn \in BOOLEAN /\ overtaken \in BOOLEAN
    /\ stage \in [Hosts -> Stages]
    /\ mode \in [Hosts -> Modes]
    /\ own \in [Hosts -> BOOLEAN]
    /\ tx \in [Hosts -> TxIds]
    /\ seen \in [Hosts -> Contents]
    /\ answered \subseteq Contents
    /\ crashes \in 0 .. MaxCrashes
    /\ holder \in Hosts \cup {None}

\* The barrier refuses a Run only when its event log is torn or when a
\* mutation was prepared beside an unfinished one: whatever is interrupted
\* between two writes of _commit_state_event or of recover_transactions, the
\* journals, the events and the state file can be brought together again.
BarrierBlocksOnlyForACause ==
    \A h \in Hosts : stage[h] = "blocked" => overtaken \/ torn

\* A call prepares its mutation of the very state it decided on: equal
\* versions mean equal states, also for a call that read the state before
\* it took the lock (engine.handle, set_run_activity).
BuiltOnWhatWasSeen ==
    \A h \in Hosts :
        stage[h] = "prepared" /\ own[h] => journals[tx[h]].before = seen[h]

\* The state file only grows by one mutation at a time and what a caller was
\* told of is never taken back, also when recovery finishes the mutation and
\* when the event log is beyond repair.
History == INSTANCE StateHistory WITH content <- file
ImplementsHistory == History!Spec

\* Every prepared mutation is finished, by its own call or by a later
\* barrier, unless the Run is blocked for one of the two causes.
TransactionIsFinished ==
    \A k \in TxIds : Prepared(k) ~> (~Prepared(k) \/ overtaken \/ torn)

\* "A Run continues after an interruption" (README.md:66): processes that
\* die between two writes leave nothing that makes the barrier refuse.
InterruptedRunContinues ==
    \A h \in Hosts : stage[h] = "blocked" => torn

====
