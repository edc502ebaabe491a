-------------------------- MODULE FileLockProofs --------------------------
(* The proofs about FileLock, for any threads, processes and nesting. *)
EXTENDS FileLock, TLAPS

\* The count in thread-local storage is the depth, a thread inside has the
\* flock, and a thread anywhere but outside owns the RLock of its process as
\* many times as it has entered.
LockInv ==
    \A t \in Threads :
        /\ held[t] = nesting[t]
        /\ nesting[t] > 0 <=> pc[t] = "in"
        /\ pc[t] = "in" => flock = t
        /\ pc[t] # "out" => Local(t).owner = t
        /\ pc[t] = "opening" => Local(t).count = 1
        /\ pc[t] = "in" => Local(t).count = nesting[t]

IInv == TypeOK /\ LockInv

LEMMA InitIInv == Init => IInv
<1> USE ThreadAssumption, NestingAssumption
<1>1. Init => TypeOK
  BY DEF Init, TypeOK, Stages, Free
<1>2. Init => LockInv
  <2> SUFFICES ASSUME Init PROVE LockInv
    OBVIOUS
  <2>1. \A t \in Threads : held[t] = 0 /\ nesting[t] = 0 /\ pc[t] = "out"
    BY DEF Init
  <2>2. ASSUME NEW t \in Threads PROVE ~ (nesting[t] > 0)
    <3>1. nesting[t] = 0
      BY <2>1
    <3> QED
      BY <3>1, SMT
  <2> QED
    BY <2>1, <2>2 DEF LockInv
<1> QED
  BY <1>1, <1>2 DEF IInv

LEMMA EnterKeepsIInv == ASSUME IInv, NEW t \in Threads, Enter(t) PROVE IInv'
<1> USE ThreadAssumption, NestingAssumption
<1>1. CASE EnterLocal(t)
  BY <1>1 DEF IInv, TypeOK, LockInv, EnterLocal, Goto, SetLocal, Local, Free, Stages
<1>2. CASE OpenFails(t)
  BY <1>2 DEF IInv, TypeOK, LockInv, OpenFails, Goto, Local, Stages
<1>3. CASE Lock(t)
  BY <1>3 DEF IInv, TypeOK, LockInv, Lock, Goto, Local, Stages
<1>4. CASE LockFails(t)
  BY <1>4 DEF IInv, TypeOK, LockInv, LockFails, Goto, Local, Stages
<1>5. CASE ReEnter(t)
  <2>1. TypeOK'
    BY <1>5 DEF IInv, TypeOK, LockInv, ReEnter, SetLocal, Local
  <2>2. LockInv'
    BY <1>5 DEF IInv, TypeOK, LockInv, ReEnter, SetLocal, Local
  <2> QED
    BY <2>1, <2>2 DEF IInv
<1> QED
  BY <1>1, <1>2, <1>3, <1>4, <1>5 DEF Enter

LEMMA LeaveKeepsIInv == ASSUME IInv, NEW t \in Threads, Leave(t) PROVE IInv'
<1> USE ThreadAssumption, NestingAssumption
<1>1. CASE LeaveNested(t)
  BY <1>1 DEF IInv, TypeOK, LockInv, LeaveNested, SetLocal, Local, Stages
<1>2. CASE Forget(t)
  BY <1>2 DEF IInv, TypeOK, LockInv, Forget, Goto, Local, Stages
<1>3. CASE Unlock(t)
  BY <1>3 DEF IInv, TypeOK, LockInv, Unlock, Goto, Local, Stages
<1>4. CASE ReleaseLocal(t)
  BY <1>4 DEF IInv, TypeOK, LockInv, ReleaseLocal, Goto, SetLocal, Local, Free, Stages
<1> QED
  BY <1>1, <1>2, <1>3, <1>4 DEF Leave

LEMMA CrashKeepsIInv == ASSUME IInv, NEW p \in Processes, Crash(p) PROVE IInv'
<1> USE ThreadAssumption, NestingAssumption
<1>1. TypeOK'
  BY DEF IInv, TypeOK, Crash, Of, Free, Stages
<1>2. LockInv'
  BY DEF IInv, TypeOK, LockInv, Crash, Of, Local, Free, Stages
<1> QED
  BY <1>1, <1>2 DEF IInv

LEMMA NextKeepsIInv == IInv /\ [Next]_vars => IInv'
<1>1. CASE UNCHANGED vars
  BY <1>1 DEF IInv, TypeOK, LockInv, Local, vars
<1>2. CASE Next
  BY <1>2, EnterKeepsIInv, LeaveKeepsIInv, CrashKeepsIInv DEF Next
<1> QED
  BY <1>1, <1>2

THEOREM Invariance == Spec => []IInv
<1> QED
  BY InitIInv, NextKeepsIInv, PTL DEF Spec

----------------------------------------------------------------------------
\* The variables of exclusive_file_lock keep their types: no count runs past the
\* nesting of the thread.
THEOREM TypeCorrect == Spec => []TypeOK
<1>1. IInv => TypeOK
  BY DEF IInv
<1> QED
  BY <1>1, Invariance, PTL

\* At most one thread of all processes is inside a block of the lock.
THEOREM AtMostOneInside == Spec => []MutualExclusion
<1>1. IInv => MutualExclusion
  BY DEF IInv, LockInv, MutualExclusion
<1> QED
  BY <1>1, Invariance, PTL

\* A nested block always finds the count of its thread, and nobody else does.
THEOREM NestingIsCounted == Spec => []NestedEntryFindsTheCount
<1>1. IInv => NestedEntryFindsTheCount
  <2> SUFFICES ASSUME IInv, NEW t \in Threads
               PROVE  /\ held[t] = nesting[t]
                      /\ held[t] > 0 =>
                           flock = t /\ Local(t) = [owner |-> t, count |-> held[t]]
    BY DEF NestedEntryFindsTheCount
  <2>1. held[t] = nesting[t]
    BY DEF IInv, LockInv
  <2>2. ASSUME held[t] > 0
        PROVE  flock = t /\ Local(t).owner = t /\ Local(t).count = held[t]
    BY <2>1, <2>2 DEF IInv, LockInv
  <2>3. Local(t) \in [owner : Threads \cup {None}, count : 0 .. MaxNesting]
    BY ThreadAssumption DEF IInv, TypeOK, Local
  <2> QED
    BY <2>1, <2>2, <2>3
<1> QED
  BY <1>1, Invariance, PTL

----------------------------------------------------------------------------
(* exclusive_file_lock implements Mutex *)

\* The holder is the thread inside a block, or nobody.
HolderInv ==
    /\ holder \in Threads \cup {None}
    /\ \A t \in Threads : nesting[t] > 0 <=> holder = t

LEMMA HolderIsInside == IInv => HolderInv
<1> SUFFICES ASSUME IInv PROVE HolderInv
  OBVIOUS
<1>1. \A u, v \in Threads : nesting[u] > 0 /\ nesting[v] > 0 => u = v
  BY DEF IInv, LockInv
<1>2. CASE \E u \in Threads : nesting[u] > 0
  <2>1. PICK u \in Threads : nesting[u] > 0
    BY <1>2
  <2>2. holder = u
    BY <1>1, <2>1 DEF holder
  <2> QED
    BY <1>1, <2>1, <2>2 DEF HolderInv
<1>3. CASE ~ \E u \in Threads : nesting[u] > 0
  BY <1>3, ThreadAssumption DEF holder, HolderInv
<1> QED
  BY <1>2, <1>3

\* Only entering the outermost block takes the abstract lock; only leaving it, or
\* dying in it, gives it back.
LEMMA StepRefines ==
    IInv /\ HolderInv /\ HolderInv' /\ [Next]_vars => [Abstract!Next]_holder
<1> SUFFICES ASSUME IInv, HolderInv, HolderInv', [Next]_vars
             PROVE  Abstract!Next \/ UNCHANGED holder
  OBVIOUS
<1> USE ThreadAssumption, NestingAssumption
<1>1. ASSUME \A t \in Threads : nesting'[t] > 0 <=> nesting[t] > 0
      PROVE  UNCHANGED holder
  BY <1>1 DEF HolderInv
<1>2. ASSUME NEW t \in Threads, Lock(t)
      PROVE  Abstract!Next
  <2>1. \A u \in Threads : ~ (nesting[u] > 0)
    BY <1>2 DEF IInv, LockInv, Lock
  <2>2. holder = None
    BY <2>1 DEF HolderInv
  <2>3. holder' = t
    <3>1. nesting'[t] > 0
      BY <1>2 DEF Lock, IInv, TypeOK
    <3> QED
      BY <3>1 DEF HolderInv
  <2> QED
    BY <2>2, <2>3 DEF Abstract!Next, Abstract!Take
<1>3. ASSUME NEW t \in Threads, nesting[t] > 0, ~ (nesting'[t] > 0),
             \A u \in Threads : nesting'[u] > 0 => nesting[u] > 0
      PROVE  Abstract!Next
  <2>1. holder = t
    BY <1>3 DEF HolderInv
  <2>2. holder' = None
    BY <1>3, <2>1 DEF HolderInv
  <2> QED
    BY <2>1, <2>2 DEF Abstract!Next, Abstract!Release
<1>4. ASSUME NEW t \in Threads, Enter(t), ~ Lock(t)
      PROVE  UNCHANGED holder
  <2>1. CASE UNCHANGED nesting
    BY <1>1, <2>1
  <2>2. CASE ReEnter(t)
    BY <1>1, <2>2 DEF ReEnter, IInv, TypeOK, LockInv
  <2> QED
    BY <1>4, <2>1, <2>2 DEF Enter, EnterLocal, OpenFails, LockFails
<1>5. ASSUME NEW t \in Threads, Leave(t)
      PROVE  Abstract!Next \/ UNCHANGED holder
  <2>1. CASE UNCHANGED nesting
    BY <1>1, <2>1
  <2>2. CASE LeaveNested(t)
    BY <1>1, <2>2 DEF LeaveNested, IInv, TypeOK
  <2>3. CASE Forget(t)
    BY <1>3, <2>3 DEF Forget, IInv, TypeOK
  <2> QED
    BY <1>5, <2>1, <2>2, <2>3 DEF Leave, Unlock, ReleaseLocal
<1>6. ASSUME NEW p \in Processes, Crash(p)
      PROVE  Abstract!Next \/ UNCHANGED holder
  <2>1. \A u \in Threads : nesting'[u] > 0 => nesting[u] > 0
    BY <1>6 DEF Crash, Of, IInv, TypeOK
  <2> QED
    BY <1>1, <1>3, <2>1
<1>7. CASE UNCHANGED vars
  BY <1>1, <1>7 DEF vars
<1> QED
  BY <1>2, <1>4, <1>5, <1>6, <1>7 DEF Next

\* exclusive_file_lock implements a plain lock: seen from the blocks it guards,
\* one thread takes it, and gives it back on leaving or dying.
THEOREM FileLockImplementsMutex == Spec => ImplementsMutex
<1>1. Init => Abstract!Init
  BY DEF Init, Abstract!Init, holder
<1>2. Spec => []HolderInv
  BY Invariance, HolderIsInside, PTL
<1>3. Spec => [][Abstract!Next]_holder
  BY <1>2, Invariance, StepRefines, PTL DEF Spec
<1> QED
  BY <1>1, <1>3, PTL DEF Spec, ImplementsMutex, Abstract!Spec
====
