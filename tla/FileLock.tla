------------------------------ MODULE FileLock ------------------------------
(***************************************************************************)
(* exclusive_file_lock (src/src/bpg/locking.py) on one path: a re-entrant  *)
(* lock between the threads of a process, an flock between the open files  *)
(* of all processes, and a count in thread-local storage that lets a       *)
(* nested block enter without opening the file again.                      *)
(*                                                                         *)
(* A thread goes out -> opening -> in -> closing -> closed -> out.  The    *)
(* process may die in any of these states: the threads start afresh and    *)
(* the kernel drops the flock.                                             *)
(***************************************************************************)
EXTENDS Naturals

CONSTANTS
    Threads, Processes,
    ProcessOf,      \* ProcessOf[t]: the process thread t runs in
    MaxNesting,     \* bound: nested blocks of one thread
    MaxCrashes,     \* bound: dying processes in one behaviour
    None            \* nobody

ASSUME ThreadAssumption == ProcessOf \in [Threads -> Processes] /\ None \notin Threads
ASSUME NestingAssumption == MaxNesting \in Nat \ {0} /\ MaxCrashes \in Nat

VARIABLES
    pc,
    nesting,    \* blocks the thread is in
    held,       \* its count in _held.locks; 0: no entry
    local,      \* local[p]: owner of the process's RLock and its recursion
    flock,      \* the thread whose open file has the flock
    crashes

vars == <<pc, nesting, held, local, flock, crashes>>

Stages == {"out", "opening", "in", "closing", "closed"}

Free == [owner |-> None, count |-> 0]

Init ==
    /\ pc = [t \in Threads |-> "out"]
    /\ nesting = [t \in Threads |-> 0]
    /\ held = [t \in Threads |-> 0]
    /\ local = [p \in Processes |-> Free]
    /\ flock = None
    /\ crashes = 0

Local(t) == local[ProcessOf[t]]

Goto(t, stage) == pc' = [pc EXCEPT ![t] = stage]

SetLocal(t, value) == local' = [local EXCEPT ![ProcessOf[t]] = value]

\* with local_lock: the first block of a thread waits for the RLock.
EnterLocal(t) ==
    /\ pc[t] = "out"
    /\ Local(t) = Free
    /\ SetLocal(t, [owner |-> t, count |-> 1])
    /\ Goto(t, "opening")
    /\ UNCHANGED <<nesting, held, flock, crashes>>

\* The file cannot be opened, or does not exist and must not be created.
OpenFails(t) ==
    /\ pc[t] = "opening"
    /\ Goto(t, "closed")
    /\ UNCHANGED <<nesting, held, local, flock, crashes>>

\* flock(LOCK_EX) returns and the block is entered.
Lock(t) ==
    /\ pc[t] = "opening"
    /\ flock = None
    /\ flock' = t
    /\ held' = [held EXCEPT ![t] = 1]
    /\ nesting' = [nesting EXCEPT ![t] = 1]
    /\ Goto(t, "in")
    /\ UNCHANGED <<local, crashes>>

\* flock(LOCK_EX) raises: the finally clause runs without the lock.
LockFails(t) ==
    /\ pc[t] = "opening"
    /\ Goto(t, "closing")
    /\ UNCHANGED <<nesting, held, local, flock, crashes>>

\* A nested block finds the thread's entry and counts.
ReEnter(t) ==
    /\ pc[t] = "in" /\ nesting[t] < MaxNesting
    /\ held[t] > 0
    /\ SetLocal(t, [Local(t) EXCEPT !.count = @ + 1])
    /\ held' = [held EXCEPT ![t] = @ + 1]
    /\ nesting' = [nesting EXCEPT ![t] = @ + 1]
    /\ UNCHANGED <<pc, flock, crashes>>

LeaveUncounted(t) ==
    /\ pc[t] = "in" /\ nesting[t] > 1
    /\ SetLocal(t, [Local(t) EXCEPT !.count = @ - 1])
    /\ nesting' = [nesting EXCEPT ![t] = @ - 1]
    /\ UNCHANGED <<pc, held, flock, crashes>>

\* It leaves the count it found, one less than its own depth.
LeaveNested(t) ==
    /\ pc[t] = "in" /\ nesting[t] > 1
    /\ SetLocal(t, [Local(t) EXCEPT !.count = @ - 1])
    /\ held' = [held EXCEPT ![t] = nesting[t] - 1]
    /\ nesting' = [nesting EXCEPT ![t] = @ - 1]
    /\ UNCHANGED <<pc, flock, crashes>>

\* The inner block closes the file: what a lock without the count would do.
ForgetNested(t) ==
    /\ pc[t] = "in"
    /\ held' = [held EXCEPT ![t] = 0]
    /\ nesting' = [nesting EXCEPT ![t] = @ - 1]
    /\ flock' = None
    /\ IF nesting[t] = 1 THEN Goto(t, "closing") ELSE UNCHANGED pc
    /\ UNCHANGED <<local, crashes>>

\* The outermost block ends: held.pop.
Forget(t) ==
    /\ pc[t] = "in" /\ nesting[t] = 1
    /\ held' = [held EXCEPT ![t] = 0]
    /\ nesting' = [nesting EXCEPT ![t] = 0]
    /\ Goto(t, "closing")
    /\ UNCHANGED <<local, flock, crashes>>

UnlockOnSuccess(t) ==
    /\ pc[t] = "closing"
    /\ Goto(t, "closed")
    /\ UNCHANGED <<nesting, held, local, flock, crashes>>

\* flock(LOCK_UN) and close release what this open file has.
Unlock(t) ==
    /\ pc[t] = "closing"
    /\ flock' = IF flock = t THEN None ELSE flock
    /\ Goto(t, "closed")
    /\ UNCHANGED <<nesting, held, local, crashes>>

\* The RLock is released last.
ReleaseLocal(t) ==
    /\ pc[t] = "closed"
    /\ SetLocal(t, Free)
    /\ Goto(t, "out")
    /\ UNCHANGED <<nesting, held, flock, crashes>>

Of(p) == {t \in Threads : ProcessOf[t] = p}

Crash(p) ==
    /\ crashes < MaxCrashes
    /\ \E t \in Of(p) : pc[t] # "out"
    /\ crashes' = crashes + 1
    /\ pc' = [t \in Threads |-> IF t \in Of(p) THEN "out" ELSE pc[t]]
    /\ nesting' = [t \in Threads |-> IF t \in Of(p) THEN 0 ELSE nesting[t]]
    /\ held' = [t \in Threads |-> IF t \in Of(p) THEN 0 ELSE held[t]]
    /\ local' = [local EXCEPT ![p] = Free]
    /\ flock' = IF flock \in Of(p) THEN None ELSE flock

Enter(t) == EnterLocal(t) \/ OpenFails(t) \/ Lock(t) \/ LockFails(t) \/ ReEnter(t)
Leave(t) == LeaveNested(t) \/ Forget(t) \/ Unlock(t) \/ ReleaseLocal(t)

Next ==
    \/ \E t \in Threads : Enter(t) \/ Leave(t)
    \/ \E p \in Processes : Crash(p)

Spec == Init /\ [][Next]_vars

\* A block ends, at whatever depth it is, although nested blocks come and go;
\* and the kernel serves the waiters of an flock in turn.
Fairness ==
    \A t \in Threads :
        /\ \A depth \in 0 .. MaxNesting : SF_vars(nesting[t] = depth /\ Leave(t))
        /\ SF_vars(Lock(t))

FairSpec == Spec /\ Fairness

----------------------------------------------------------------------------
(* Properties *)

TypeOK ==
    /\ pc \in [Threads -> Stages]
    /\ nesting \in [Threads -> 0 .. MaxNesting]
    /\ held \in [Threads -> 0 .. MaxNesting]
    /\ local \in [Processes -> [owner : Threads \cup {None}, count : 0 .. MaxNesting]]
    /\ flock \in Threads \cup {None}
    /\ crashes \in 0 .. MaxCrashes

\* No two threads, of one process or of two, are inside a block of the same
\* lock, however deep they nest and wherever a process died.
MutualExclusion ==
    \A t, u \in Threads : nesting[t] > 0 /\ nesting[u] > 0 => t = u

\* A thread inside a block finds its count, so that a nested block never opens
\* the file again and waits for its own flock; a thread outside finds none, so
\* that it never enters without one.
NestedEntryFindsTheCount ==
    \A t \in Threads :
        /\ held[t] = nesting[t]
        /\ held[t] > 0 => flock = t /\ Local(t) = [owner |-> t, count |-> held[t]]

\* The lock as its users see it.
holder == IF \E t \in Threads : nesting[t] > 0
          THEN CHOOSE t \in Threads : nesting[t] > 0
          ELSE None

Abstract == INSTANCE Mutex

\* The two locks and the count together implement one lock.
ImplementsMutex == Abstract!Spec

\* A thread that waits for the flock gets it: nobody leaves it locked.
WaiterIsServed == \A t \in Threads : pc[t] = "opening" ~> pc[t] # "opening"
====
