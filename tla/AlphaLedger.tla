---------------------------- MODULE AlphaLedger ----------------------------
(***************************************************************************)
(* Hosts that call operations on one BPG 2.0 Run at the same time, crash   *)
(* and call again: _mutate of BPG2AlphaController                          *)
(* (src/src/bpg/alpha_runtime.py), which every public operation but        *)
(* start_run goes through.                                                 *)
(*                                                                         *)
(* The Run's lock is module Mutex, which module FileLock is shown to       *)
(* implement.  What an operation does to run.json is abstracted to one     *)
(* entry of run.log (module AlphaRun says what it is).  A call runs in a   *)
(* process of its own, which may die at any point; the Host then calls     *)
(* again with the same operation id, payload and expected version, or      *)
(* reads the status and goes on.                                           *)
(***************************************************************************)
EXTENDS Naturals, Sequences, FiniteSets

CONSTANTS
    Hosts,
    Ids,        \* operation ids
    Payloads,   \* what their hashes tell apart
    MaxVersion, \* bound: a Host that has read it calls nothing more
    MaxCrashes, \* bound: processes that die
    None        \* an absent value

ASSUME HostAssumption == None \notin Hosts
ASSUME PayloadAssumption == None \notin Payloads
ASSUME BoundAssumption == MaxVersion \in Nat \ {0} /\ MaxCrashes \in Nat

VARIABLES
    holder,         \* of the Run's lock
    run,            \* run.json: its version, operations and effects
    stage,          \* where each Host's call is
    request,        \* what it asks for
    copy,           \* run.json as the call has loaded it
    reply,          \* the outcome of the call
    seen,           \* the state_version the Host last read
    acknowledged,   \* <<id, payload>> of the calls answered as applied
    crashes

host == <<stage, request, copy, reply, seen>>
vars == <<holder, run, host, acknowledged, crashes>>

Lock == INSTANCE Mutex WITH Threads <- Hosts

Versions == 1 .. MaxVersion
Calls == [id : Ids, payload : Payloads, expected : Versions]
Stages == {"idle", "called", "locked", "loaded", "answered", "dead"}
Refusals == {"IDENTITY_CONFLICT", "STATE_CONFLICT", "REJECTED"}

Runs == [version : Versions, operations : [Ids -> Payloads \cup {None}],
    log : Seq(Calls)]

ASSUME NoneAssumption == None \notin Calls \cup Refusals \cup {"APPLIED"}

Init ==
    /\ holder = None
    /\ run = [version |-> 1, operations |-> [i \in Ids |-> None], log |-> <<>>]
    /\ stage = [h \in Hosts |-> "idle"]
    /\ request = [h \in Hosts |-> None]
    /\ copy = [h \in Hosts |-> None]
    /\ reply = [h \in Hosts |-> None]
    /\ seen = [h \in Hosts |-> 1]
    /\ acknowledged = {}
    /\ crashes = 0

Goto(h, next) == stage' = [stage EXCEPT ![h] = next]

----------------------------------------------------------------------------
(* The Host *)

\* status reads run.json without the lock; it is replaced by rename.
ReadStatus(h) ==
    /\ stage[h] = "idle" /\ seen[h] # run.version
    /\ seen' = [seen EXCEPT ![h] = run.version]
    /\ UNCHANGED <<holder, run, stage, request, copy, reply, acknowledged,
                   crashes>>

Call(h, id, payload) ==
    /\ stage[h] = "idle" /\ seen[h] < MaxVersion
    /\ request' = [request EXCEPT
         ![h] = [id |-> id, payload |-> payload, expected |-> seen[h]]]
    /\ Goto(h, "called")
    /\ UNCHANGED <<holder, run, copy, reply, seen, acknowledged, crashes>>

\* An answer that was lost is asked for again, with the same operation id.
CallAgain(h) ==
    /\ stage[h] = "dead"
    /\ Goto(h, "called")
    /\ UNCHANGED <<holder, run, request, copy, reply, seen, acknowledged,
                   crashes>>

\* The process dies; the kernel gives its lock back.
Crash(h) ==
    /\ stage[h] \in {"called", "locked", "loaded", "answered"}
    /\ crashes < MaxCrashes
    /\ crashes' = crashes + 1
    /\ Goto(h, "dead")
    /\ copy' = [copy EXCEPT ![h] = None]
    /\ reply' = [reply EXCEPT ![h] = None]
    /\ IF holder = h THEN Lock!Release(h) ELSE UNCHANGED holder
    /\ UNCHANGED <<run, request, seen, acknowledged>>

----------------------------------------------------------------------------
(* _mutate *)

EnterRegardless(h) ==
    /\ stage[h] = "called"
    /\ holder' = h
    /\ Goto(h, "locked")
    /\ UNCHANGED <<run, request, copy, reply, seen, acknowledged, crashes>>

\* with exclusive_file_lock
Enter(h) ==
    /\ stage[h] = "called"
    /\ Lock!Take(h)
    /\ Goto(h, "locked")
    /\ UNCHANGED <<run, request, copy, reply, seen, acknowledged, crashes>>

\* load_run
Load(h) ==
    /\ stage[h] = "locked"
    /\ copy' = [copy EXCEPT ![h] = run]
    /\ Goto(h, "loaded")
    /\ UNCHANGED <<holder, run, request, reply, seen, acknowledged, crashes>>

Recorded(h) == copy[h].operations[request[h].id]

IsReplay(h) == Recorded(h) = request[h].payload
IsConflict(h) == Recorded(h) \notin {None, request[h].payload}
StaleFirst(h) == copy[h].version # request[h].expected
IsStale(h) == Recorded(h) = None /\ copy[h].version # request[h].expected
CurrentAtAnyVersion(h) == Recorded(h) = None
IsCurrent(h) == Recorded(h) = None /\ copy[h].version = request[h].expected

AnswerWith(h, answer) ==
    /\ stage[h] = "loaded"
    /\ reply' = [reply EXCEPT ![h] = answer]
    /\ Goto(h, "answered")
    /\ UNCHANGED <<holder, request, seen, acknowledged, crashes>>

Replay(h) ==
    /\ AnswerWith(h, "APPLIED")
    /\ IsReplay(h)
    /\ UNCHANGED <<run, copy>>

Refuse(h) ==
    /\ \/ AnswerWith(h, "IDENTITY_CONFLICT") /\ IsConflict(h)
       \/ AnswerWith(h, "STATE_CONFLICT") /\ IsStale(h)
       \/ AnswerWith(h, "REJECTED") /\ IsCurrent(h)     \* mutate raises
    /\ UNCHANGED <<run, copy>>

WithoutRecord(r, call) ==
    [r EXCEPT !.version = call.expected + 1, !.log = Append(@, call)]

UpdatedTwice(r, call) ==
    [r EXCEPT !.version = call.expected + 2,
              !.operations[call.id] = call.payload,
              !.log = Append(@, call)]

\* mutate, the new version and the record of the operation.
Updated(r, call) ==
    [r EXCEPT !.version = call.expected + 1,
              !.operations[call.id] = call.payload,
              !.log = Append(@, call)]

\* atomic_write_json replaces run.json by what was made of the copy.
Apply(h) ==
    /\ AnswerWith(h, "APPLIED")
    /\ IsCurrent(h)
    /\ run' = Updated(copy[h], request[h])
    /\ copy' = [copy EXCEPT ![h] = Updated(copy[h], request[h])]

KeepLockOnError(h) ==
    /\ stage[h] = "answered" /\ holder = h
    /\ holder' = IF reply[h] = "APPLIED" THEN None ELSE h
    /\ Goto(h, "idle")
    /\ UNCHANGED <<run, request, copy, reply, seen, acknowledged, crashes>>

\* The block ends and the Host reads the answer: the state, or an error.
Return(h) ==
    /\ stage[h] = "answered"
    /\ Lock!Release(h)
    /\ IF reply[h] = "APPLIED"
       THEN /\ seen' = [seen EXCEPT ![h] = copy[h].version]
            /\ acknowledged' =
                 acknowledged \cup {<<request[h].id, request[h].payload>>}
       ELSE UNCHANGED <<seen, acknowledged>>
    /\ Goto(h, "idle")
    /\ request' = [request EXCEPT ![h] = None]
    /\ copy' = [copy EXCEPT ![h] = None]
    /\ reply' = [reply EXCEPT ![h] = None]
    /\ UNCHANGED <<run, crashes>>

Mutate(h) == Enter(h) \/ Load(h) \/ Replay(h) \/ Refuse(h) \/ Apply(h) \/ Return(h)

Step(h) ==
    \/ ReadStatus(h)
    \/ \E id \in Ids, payload \in Payloads : Call(h, id, payload)
    \/ CallAgain(h)
    \/ Mutate(h)

Next == \E h \in Hosts : Step(h) \/ Crash(h)

Spec == Init /\ [][Next]_vars

\* A Host that lost an answer asks again, and the lock serves its waiters in
\* turn (WaiterIsServed of FileLock).
FairSpec ==
    Spec /\ \A h \in Hosts :
              WF_vars(Mutate(h)) /\ SF_vars(Enter(h)) /\ WF_vars(CallAgain(h))

----------------------------------------------------------------------------
(* Properties *)

TypeOK ==
    /\ holder \in Hosts \cup {None}
    /\ run \in Runs
    /\ stage \in [Hosts -> Stages]
    /\ request \in [Hosts -> Calls \cup {None}]
    /\ copy \in [Hosts -> Runs \cup {None}]
    /\ reply \in [Hosts -> Refusals \cup {"APPLIED", None}]
    /\ seen \in [Hosts -> Versions]
    /\ acknowledged \subseteq Ids \X Payloads
    /\ crashes \in 0 .. MaxCrashes

Identity(call) == <<call.id, call.payload>>

InEffect(call) == \E i \in 1 .. Len(run.log) : Identity(run.log[i]) = Identity(call)

\* run.json is consistent: each recorded operation took effect exactly once, each
\* effect is recorded with its payload, and each was applied to the version that
\* its Host had seen.
EffectsAreRecorded ==
    /\ run.version = Len(run.log) + 1
    /\ \A i \in 1 .. Len(run.log) :
         /\ run.log[i].expected = i
         /\ run.operations[run.log[i].id] = run.log[i].payload
    /\ \A i, j \in 1 .. Len(run.log) : run.log[i].id = run.log[j].id => i = j
    /\ \A id \in Ids : run.operations[id] # None =>
         \E i \in 1 .. Len(run.log) : run.log[i].id = id

\* What a Host was told is applied stays applied, and no Host has read a version
\* that run.json never reached.
AnswersAreKept ==
    /\ \A a \in acknowledged : \E i \in 1 .. Len(run.log) : Identity(run.log[i]) = a
    /\ \A h \in Hosts : seen[h] <= run.version

\* A call that has taken effect is never refused, although its Host died before
\* the answer, repeats it with the version of that time and other Hosts have
\* moved the Run on.
EffectIsNeverRefused ==
    \A h \in Hosts : reply[h] \in Refusals => ~InEffect(request[h])

Register == INSTANCE OperationRegister WITH log <- run.log

\* Together the lock, the copy, the version and the operation records implement
\* a register in which each call takes effect at once and at most once.
ImplementsRegister == Register!Spec

\* Every call is answered, if need be after it was repeated.
CallIsAnswered == \A h \in Hosts : stage[h] = "called" ~> stage[h] = "idle"
====
