----------------------- MODULE StateTransactionProofs -----------------------
(* The proofs about StateTransaction, for any Hosts and mutations. *)
EXTENDS StateTransaction, SequenceTheorems, TLAPS

Inside == {"recovering", "mutating", "prepared", "logged", "written", "done"}

\* The call that is inside holds the lock, and its transaction stands where
\* its stage says.
CallInv ==
    \A h \in Hosts :
        /\ stage[h] \in Inside => holder = h
        /\ stage[h] = "recovering" => file # <<>> \/ \E k \in TxIds : Prepared(k)
        /\ stage[h] \in {"prepared", "logged"} =>
             Prepared(tx[h]) /\ journals[tx[h]].before = file
        /\ stage[h] = "logged" => IsLogged(tx[h])
        /\ stage[h] = "written" => Prepared(tx[h])
        /\ stage[h] \in {"written", "done"} =>
             journals[tx[h]] # None /\ journals[tx[h]].after = file

\* A journal adds one mutation, and an event says what its journal says.
JournalInv ==
    /\ \A k \in TxIds : journals[k] # None =>
         \E m \in Mutations : journals[k].after = Append(journals[k].before, m)
    /\ \A i \in 1 .. Len(events) :
         /\ journals[events[i].id] # None
         /\ events[i] = EventOf(events[i].id)

\* What a call has seen is how the state file began.
SeenInv ==
    \A h \in Hosts :
        /\ Len(seen[h]) <= Len(file)
        /\ \A i \in 1 .. Len(seen[h]) : seen[h][i] = file[i]

LastAfter == IF events = <<>> THEN <<>> ELSE events[Len(events)].after

\* The event of k is there and its state is not.
IsAhead(k) == Prepared(k) /\ journals[k].before = file /\ IsLogged(k)

\* The events are one chain from the creation, which ends at the state file or
\* one step ahead of it, in the one transaction that is not finished.
Reconcilable ==
    /\ \A j, k \in TxIds : Prepared(j) /\ Prepared(k) => j = k
    /\ \A k \in TxIds : ~Unreconcilable(k)
    /\ events # <<>> => events[1].before = <<>>
    /\ \A i \in 1 .. Len(events) - 1 : events[i + 1].before = events[i].after
    /\ \A k \in TxIds : IsAhead(k) => LastAfter = journals[k].after
    /\ (\A k \in TxIds : ~IsAhead(k)) => LastAfter = file

CleanInv == overtaken \/ torn \/ Reconcilable

IInv ==
    /\ TypeOK /\ CallInv /\ JournalInv /\ SeenInv /\ CleanInv
    /\ BuiltOnWhatWasSeen /\ BarrierBlocksOnlyForACause

USE HostAssumption, BoundAssumption, MutationAssumption, NoneAssumption

LEMMA InitIInv == Init => IInv
<1> SUFFICES ASSUME Init PROVE IInv
  OBVIOUS
<1>1. /\ file = <<>> /\ events = <<>> /\ Len(events) = 0
      /\ \A k \in TxIds : journals[k] = None
      /\ \A h \in Hosts : stage[h] = "idle" /\ seen[h] = <<>>
  BY DEF Init
<1>2. TypeOK
  <2>1. NoTx \in TxIds
    BY DEF NoTx, TxIds
  <2>2. <<>> \in Contents /\ <<>> \in Seq(Events)
    BY DEF Contents
  <2>3. "idle" \in Stages /\ "guarded" \in Modes /\ 0 \in 0 .. MaxCrashes
    BY DEF Stages, Modes
  <2> QED
    BY <2>1, <2>2, <2>3 DEF Init, TypeOK
<1>3. CallInv
  BY <1>1 DEF CallInv, Inside
<1>4. JournalInv
  BY <1>1 DEF JournalInv
<1>5. SeenInv
  <2>1. ASSUME NEW h \in Hosts
        PROVE  Len(seen[h]) = 0 /\ Len(file) = 0
    BY <1>1
  <2>2. ASSUME NEW h \in Hosts
        PROVE  Len(seen[h]) <= Len(file) /\ 1 .. Len(seen[h]) = {}
    BY <2>1
  <2> QED
    BY <2>2 DEF SeenInv
<1>6. CleanInv
  BY <1>1 DEF CleanInv, Reconcilable, Prepared, Unreconcilable, IsAhead, LastAfter
<1>7. BuiltOnWhatWasSeen /\ BarrierBlocksOnlyForACause
  BY <1>1 DEF BuiltOnWhatWasSeen, BarrierBlocksOnlyForACause
<1> QED
  BY <1>2, <1>3, <1>4, <1>5, <1>6, <1>7 DEF IInv

\* Adding a mutation makes a state that differs, and that began the same.
LEMMA AppendFacts ==
    ASSUME NEW c \in Contents, NEW m \in Mutations
    PROVE  /\ Append(c, m) \in Contents /\ Append(c, m) # c /\ Append(c, m) # <<>>
           /\ Len(Append(c, m)) = Len(c) + 1
           /\ \A i \in 1 .. Len(c) : Append(c, m)[i] = c[i]
<1>1. Append(c, m) \in Contents /\ Len(Append(c, m)) = Len(c) + 1 /\ Len(c) \in Nat
  BY DEF Contents
<1>2. \A i \in 1 .. Len(c) : Append(c, m)[i] = c[i]
  BY DEF Contents
<1>3. Append(c, m) # c
  BY <1>1
<1>4. Append(c, m) # <<>>
  BY <1>1
<1> QED
  BY <1>1, <1>2, <1>3, <1>4

LEMMA ReconcilableUnchanged ==
    ASSUME Reconcilable, UNCHANGED <<file, journals, events>>
    PROVE  Reconcilable'
<1> QED
  BY DEF Reconcilable, Prepared, Unreconcilable, IsAhead, IsLogged, EventOf, LastAfter

\* While no file changes, what is said of the files stays true.
LEMMA FilesUnchanged ==
    ASSUME IInv, UNCHANGED files, UNCHANGED overtaken
    PROVE  JournalInv' /\ CleanInv'
<1>1. UNCHANGED <<file, journals, events, torn>>
  BY DEF files
<1>2. JournalInv'
  BY <1>1 DEF IInv, JournalInv, EventOf
<1>3. CleanInv'
  BY <1>1, ReconcilableUnchanged DEF IInv, CleanInv
<1> QED
  BY <1>2, <1>3

\* A call that ends leaves nothing behind but its stage.
LEMMA EndKeeps ==
    ASSUME IInv, NEW h \in Hosts, NEW next \in {"idle", "blocked"}, End(h, next),
           UNCHANGED files, UNCHANGED overtaken,
           holder' = holder \/ Lock!Release(h),
           next = "blocked" => overtaken \/ torn
    PROVE  /\ stage' \in [Hosts -> Stages] /\ mode' \in [Hosts -> Modes]
           /\ own' \in [Hosts -> BOOLEAN] /\ tx' \in [Hosts -> TxIds]
           /\ seen' \in [Hosts -> Contents] /\ holder' \in Hosts \cup {None}
           /\ CallInv' /\ JournalInv' /\ SeenInv' /\ CleanInv'
           /\ BuiltOnWhatWasSeen' /\ BarrierBlocksOnlyForACause'
<1>1. UNCHANGED <<file, journals, events, torn>>
  BY DEF files
<1>2. /\ stage' = [stage EXCEPT ![h] = next]
      /\ tx' = [tx EXCEPT ![h] = NoTx]
      /\ seen' = [seen EXCEPT ![h] = <<>>]
      /\ mode' = [mode EXCEPT ![h] = "guarded"]
      /\ own' = [own EXCEPT ![h] = FALSE]
  BY DEF End, Goto
<1>3. NoTx \in TxIds /\ <<>> \in Contents /\ next \in Stages /\ "guarded" \in Modes
  BY DEF NoTx, TxIds, Contents, Stages, Modes
<1>4. /\ stage' \in [Hosts -> Stages] /\ mode' \in [Hosts -> Modes]
      /\ own' \in [Hosts -> BOOLEAN] /\ tx' \in [Hosts -> TxIds]
      /\ seen' \in [Hosts -> Contents] /\ holder' \in Hosts \cup {None}
  BY <1>2, <1>3 DEF IInv, TypeOK, Lock!Release
<1>5. CallInv'
  BY <1>1, <1>2 DEF IInv, TypeOK, CallInv, Inside, Prepared, IsLogged, EventOf,
                    Lock!Release
<1>6. SeenInv'
  BY <1>1, <1>2 DEF IInv, TypeOK, SeenInv, Contents
<1>7. BuiltOnWhatWasSeen' /\ BarrierBlocksOnlyForACause'
  BY <1>1, <1>2 DEF IInv, TypeOK, BuiltOnWhatWasSeen, BarrierBlocksOnlyForACause
<1> QED
  BY <1>4, <1>5, <1>6, <1>7, FilesUnchanged

----------------------------------------------------------------------------
(* authoritative_read_barrier and recover_transactions *)

LEMMA CallBarrierKeepsIInv ==
    ASSUME IInv, NEW h \in Hosts, NEW m \in Modes, CallBarrier(h, m)
    PROVE  IInv'
<1>1. UNCHANGED <<file, journals, events, torn, own, tx, seen, answered, crashes, overtaken>>
  BY DEF CallBarrier, files, history
<1>2. TypeOK'
  BY <1>1 DEF IInv, TypeOK, CallBarrier, Goto, Stages, Lock!Take
<1>3. CallInv'
  BY <1>1 DEF IInv, TypeOK, CallInv, CallBarrier, Goto, Inside, Prepared, IsLogged,
              EventOf, Lock!Take
<1>4. SeenInv' /\ BuiltOnWhatWasSeen' /\ BarrierBlocksOnlyForACause'
  BY <1>1 DEF IInv, TypeOK, SeenInv, BuiltOnWhatWasSeen, BarrierBlocksOnlyForACause,
              CallBarrier, Goto
<1> QED
  BY <1>1, <1>2, <1>3, <1>4, FilesUnchanged DEF IInv, files

LEMMA PickKeepsIInv ==
    ASSUME IInv, NEW h \in Hosts, NEW k \in TxIds, Pick(h, k)
    PROVE  IInv'
<1>1. UNCHANGED <<holder, file, journals, events, torn, mode, seen, answered, crashes, overtaken>>
  BY DEF Pick, files, history
<1>2. TypeOK'
  BY <1>1 DEF IInv, TypeOK, Pick, Goto, Stages
<1>3. CallInv'
  BY <1>1 DEF IInv, TypeOK, CallInv, Pick, Goto, Inside, Prepared, IsLogged, EventOf
<1>4. SeenInv' /\ BuiltOnWhatWasSeen' /\ BarrierBlocksOnlyForACause'
  BY <1>1 DEF IInv, TypeOK, SeenInv, BuiltOnWhatWasSeen, BarrierBlocksOnlyForACause,
              Pick, Goto
<1> QED
  BY <1>1, <1>2, <1>3, <1>4, FilesUnchanged DEF IInv, files

\* A Run that can be reconciled is not refused.
LEMMA BlockHasCause ==
    ASSUME IInv, NEW h \in Hosts, Block(h)
    PROVE  overtaken \/ torn
<1> SUFFICES ASSUME Reconcilable, ~torn PROVE FALSE
  BY DEF IInv, CleanInv
<1>1. /\ \A k \in TxIds : ~Prepared(k)
      /\ ~IsAuthorised
  BY DEF Block, Reconcilable
<1>2. LastAfter = file
  BY <1>1 DEF Reconcilable, IsAhead
<1>3. file # <<>>
  BY <1>1 DEF IInv, CallInv, Block
<1> QED
  BY <1>1, <1>2, <1>3 DEF Reconcilable, IsAuthorised, LastAfter

LEMMA BlockKeepsIInv ==
    ASSUME IInv, NEW h \in Hosts, Block(h) PROVE IInv'
<1>1. /\ Lock!Release(h) /\ End(h, "blocked")
      /\ UNCHANGED <<files, answered, crashes, overtaken>>
  BY DEF Block, history
<1>2. overtaken \/ torn
  BY BlockHasCause
<1> QED
  BY <1>1, <1>2, EndKeeps DEF IInv, TypeOK, files

LEMMA PassKeepsIInv ==
    ASSUME IInv, NEW h \in Hosts, Pass(h) PROVE IInv'
<1>1. UNCHANGED <<file, journals, events, torn, mode, own, tx, answered, crashes, overtaken>>
  BY DEF Pass, files, history
<1>2. /\ seen' = [seen EXCEPT ![h] = file]
      /\ \/ stage' = [stage EXCEPT ![h] = "mutating"] /\ holder' = holder
         \/ stage' = [stage EXCEPT ![h] = "passed"] /\ holder = h /\ holder' = None
  BY DEF Pass, Goto, Lock!Release
<1>3. TypeOK'
  BY <1>1, <1>2 DEF IInv, TypeOK, Stages
<1>4. CallInv'
  BY <1>1, <1>2 DEF IInv, TypeOK, CallInv, Pass, Inside, Prepared, IsLogged, EventOf
<1>5. SeenInv' /\ BuiltOnWhatWasSeen' /\ BarrierBlocksOnlyForACause'
  BY <1>1, <1>2 DEF IInv, TypeOK, SeenInv, BuiltOnWhatWasSeen,
                    BarrierBlocksOnlyForACause, Contents
<1> QED
  BY <1>1, <1>3, <1>4, <1>5, FilesUnchanged DEF IInv, files

----------------------------------------------------------------------------
(* The mutations *)

LEMMA LookKeepsIInv ==
    ASSUME IInv, NEW h \in Hosts, Look(h) PROVE IInv'
<1>1. UNCHANGED <<holder, file, journals, events, torn, mode, own, tx,
                answered, crashes, overtaken>>
  BY DEF Look, files, history
<1>2. TypeOK'
  BY <1>1 DEF IInv, TypeOK, Look, Goto, Stages, Modes, Contents, Lock!Take
<1>3. CallInv'
  BY <1>1 DEF IInv, TypeOK, CallInv, Look, Goto, Inside, Prepared, IsLogged, EventOf,
              Lock!Take
<1>4. SeenInv' /\ BuiltOnWhatWasSeen' /\ BarrierBlocksOnlyForACause'
  BY <1>1 DEF IInv, TypeOK, SeenInv, BuiltOnWhatWasSeen, BarrierBlocksOnlyForACause,
              Look, Goto, Contents
<1> QED
  BY <1>1, <1>2, <1>3, <1>4, FilesUnchanged DEF IInv, files

LEMMA RelockKeepsIInv ==
    ASSUME IInv, NEW h \in Hosts, Relock(h) PROVE IInv'
<1>1. UNCHANGED <<file, journals, events, torn, mode, own, tx, seen,
                answered, crashes, overtaken>>
  BY DEF Relock, files, history
<1>2. TypeOK'
  BY <1>1 DEF IInv, TypeOK, Relock, Goto, Stages, Modes, Contents, Lock!Take
<1>3. CallInv'
  BY <1>1 DEF IInv, TypeOK, CallInv, Relock, Goto, Inside, Prepared, IsLogged, EventOf,
              Lock!Take
<1>4. SeenInv' /\ BuiltOnWhatWasSeen' /\ BarrierBlocksOnlyForACause'
  BY <1>1 DEF IInv, TypeOK, SeenInv, BuiltOnWhatWasSeen, BarrierBlocksOnlyForACause,
              Relock, Goto, Contents
<1> QED
  BY <1>1, <1>2, <1>3, <1>4, FilesUnchanged DEF IInv, files

LEMMA CallCreateKeepsIInv ==
    ASSUME IInv, NEW h \in Hosts, CallCreate(h) PROVE IInv'
<1>1. UNCHANGED <<file, journals, events, torn, own, tx,
                answered, crashes, overtaken>>
  BY DEF CallCreate, files, history
<1>2. TypeOK'
  BY <1>1 DEF IInv, TypeOK, CallCreate, Goto, Stages, Modes, Contents, Lock!Take
<1>3. CallInv'
  BY <1>1 DEF IInv, TypeOK, CallInv, CallCreate, Goto, Inside, Prepared, IsLogged, EventOf,
              Lock!Take
<1>4. SeenInv' /\ BuiltOnWhatWasSeen' /\ BarrierBlocksOnlyForACause'
  BY <1>1 DEF IInv, TypeOK, SeenInv, BuiltOnWhatWasSeen, BarrierBlocksOnlyForACause,
              CallCreate, Goto, Contents
<1> QED
  BY <1>1, <1>2, <1>3, <1>4, FilesUnchanged DEF IInv, files

LEMMA DismissKeepsIInv ==
    ASSUME IInv, NEW h \in Hosts, Dismiss(h) PROVE IInv'
<1>1. UNCHANGED <<holder, file, journals, events, torn, mode, own, tx, seen,
                answered, crashes, overtaken>>
  BY DEF Dismiss, files, history
<1>2. TypeOK'
  BY <1>1 DEF IInv, TypeOK, Dismiss, Goto, Stages, Modes, Contents, Lock!Take
<1>3. CallInv'
  BY <1>1 DEF IInv, TypeOK, CallInv, Dismiss, Goto, Inside, Prepared, IsLogged, EventOf,
              Lock!Take
<1>4. SeenInv' /\ BuiltOnWhatWasSeen' /\ BarrierBlocksOnlyForACause'
  BY <1>1 DEF IInv, TypeOK, SeenInv, BuiltOnWhatWasSeen, BarrierBlocksOnlyForACause,
              Dismiss, Goto, Contents
<1> QED
  BY <1>1, <1>2, <1>3, <1>4, FilesUnchanged DEF IInv, files

LEMMA GiveUpKeepsIInv ==
    ASSUME IInv, NEW h \in Hosts, GiveUp(h) PROVE IInv'
<1>1. /\ holder' = holder \/ Lock!Release(h)
      /\ End(h, "idle")
      /\ UNCHANGED <<files, answered, crashes, overtaken>>
  BY DEF GiveUp, history
<1> QED
  BY <1>1, EndKeeps DEF IInv, TypeOK, files

LEMMA FindTornKeepsIInv ==
    ASSUME IInv, NEW h \in Hosts, FindTorn(h) PROVE IInv'
<1>1. /\ torn /\ Lock!Release(h) /\ End(h, "blocked")
      /\ UNCHANGED <<files, answered, crashes, overtaken>>
  BY DEF FindTorn, history
<1> QED
  BY <1>1, EndKeeps DEF IInv, TypeOK, files

LEMMA ReturnKeepsIInv ==
    ASSUME IInv, NEW h \in Hosts, Return(h) PROVE IInv'
<1>1. /\ Lock!Release(h) /\ End(h, "idle")
      /\ answered' = answered \cup {file}
      /\ UNCHANGED <<files, crashes, overtaken>>
  BY DEF Return, IInv, CallInv
<1> QED
  BY <1>1, EndKeeps DEF IInv, TypeOK, files

LEMMA CrashKeepsIInv ==
    ASSUME IInv, NEW h \in Hosts, Crash(h) PROVE IInv'
<1>1. /\ Lock!Release(h) /\ End(h, "idle")
      /\ crashes < MaxCrashes /\ crashes' = crashes + 1
      /\ UNCHANGED <<files, answered, overtaken>>
  BY DEF Crash
<1>2. crashes' \in 0 .. MaxCrashes
  BY <1>1 DEF IInv, TypeOK
<1> QED
  BY <1>1, <1>2, EndKeeps DEF IInv, TypeOK, files

----------------------------------------------------------------------------
(* The writes *)

LEMMA PrepareFacts ==
    ASSUME IInv, NEW h \in Hosts, NEW m \in Mutations, Prepare(h, m)
    PROVE  /\ TxId(m) \in TxIds /\ Journal(m) \in Journals
           /\ \A j \in TxIds : journals'[j] = IF j = TxId(m) THEN Journal(m) ELSE journals[j]
           /\ \A j \in TxIds : journals[j] # None => journals'[j] = journals[j]
           /\ \A j \in TxIds : Prepared(j)' <=> Prepared(j) \/ j = TxId(m)
           /\ journals[TxId(m)] = None \/ journals[TxId(m)] = Journal(m)
           /\ Journal(m).before = file /\ Journal(m).after = Append(file, m)
           /\ Append(file, m) \in Contents /\ Append(file, m) # file
<1>1. file \in Contents /\ Len(file) \in Nat /\ Len(file) < MaxVersion
  BY DEF IInv, TypeOK, Contents, Prepare
<1>2. Append(file, m) \in Contents /\ Append(file, m) # file
  BY <1>1, AppendFacts
<1>3. Journal(m) \in Journals
  BY <1>1, <1>2 DEF Journal, Journals
<1>4. TxId(m) \in TxIds
  <2>1. Len(file) + 1 \in 1 .. MaxVersion
    BY <1>1
  <2>2. (IF m \in Creations THEN RunCreated ELSE m) \in Actions \cup {RunCreated}
    BY DEF Mutations
  <2> QED
    BY <2>1, <2>2 DEF TxId, TxIds
<1>5. /\ journals' = [journals EXCEPT ![TxId(m)] = Journal(m)]
      /\ journals[TxId(m)] = None \/ journals[TxId(m)] = Journal(m)
  BY DEF Prepare
<1>6. \A j \in TxIds : journals'[j] = IF j = TxId(m) THEN Journal(m) ELSE journals[j]
  BY <1>4, <1>5 DEF IInv, TypeOK
<1>7. \A j \in TxIds : Prepared(j)' <=> Prepared(j) \/ j = TxId(m)
  <2>1. Journal(m) # None /\ Journal(m).status = "PREPARED"
    BY <1>3 DEF Journal
  <2> QED
    BY <1>4, <1>6, <2>1 DEF Prepared
<1> QED
  BY <1>2, <1>3, <1>4, <1>5, <1>6, <1>7 DEF Journal

\* A mutation that was never prepared is not in the event log.
LEMMA NewIsNotLogged ==
    ASSUME IInv, NEW k \in TxIds, journals[k] = None, NEW x
    PROVE  \A i \in 1 .. Len(events) : events[i] # [id |-> k, before |-> x.before, after |-> x.after]
<1>1. \A i \in 1 .. Len(events) : journals[events[i].id] # None
  BY DEF IInv, JournalInv
<1> QED
  BY <1>1

LEMMA PrepareKeepsClean ==
    ASSUME IInv, NEW h \in Hosts, NEW m \in Mutations, Prepare(h, m)
    PROVE  CleanInv'
<1> PICK k \in TxIds : k = TxId(m)
  BY PrepareFacts
<1> SUFFICES ASSUME ~overtaken', ~torn' PROVE Reconcilable'
  BY DEF CleanInv
<1>1. UNCHANGED <<file, events, torn>> /\ ~overtaken /\ ~torn
  BY DEF Prepare
<1>2. Reconcilable
  BY <1>1 DEF IInv, CleanInv
<1>3. \A j \in TxIds : j # k => ~Prepared(j)
  BY DEF Prepare
<1>4. /\ k \in TxIds /\ journals'[k] = Journal(m)
      /\ \A j \in TxIds : Prepared(j)' <=> j = k
      /\ journals[k] = None \/ journals[k] = Journal(m)
      /\ Journal(m).before = file /\ Journal(m).after = Append(file, m)
  BY <1>3, PrepareFacts
<1>5. CASE journals[k] = None
  <2>1. \A j \in TxIds : ~IsAhead(j)
    BY <1>3, <1>5 DEF IsAhead, Prepared
  <2>2. ~IsLogged(k)'
    BY <1>1, <1>4, <1>5, NewIsNotLogged DEF IsLogged, EventOf
  <2>3. \A j \in TxIds : ~IsAhead(j)'
    BY <1>4, <2>2 DEF IsAhead
  <2> QED
    BY <1>1, <1>2, <1>4, <2>1, <2>3 DEF Reconcilable, Unreconcilable, LastAfter
<1>6. CASE journals[k] = Journal(m)
  <2>1. journals' = journals
    BY <1>6 DEF Prepare, IInv, TypeOK
  <2> QED
    BY <1>1, <1>2, <2>1, ReconcilableUnchanged
<1> QED
  BY <1>4, <1>5, <1>6

LEMMA PrepareKeepsIInv ==
    ASSUME IInv, NEW h \in Hosts, NEW m \in Mutations, Prepare(h, m)
    PROVE  IInv'
<1> PICK k \in TxIds : k = TxId(m)
  BY PrepareFacts
<1>1. /\ UNCHANGED <<holder, file, events, torn, mode, seen, answered, crashes>>
      /\ stage[h] = "mutating" /\ stage' = [stage EXCEPT ![h] = "prepared"]
      /\ tx' = [tx EXCEPT ![h] = k] /\ own' = [own EXCEPT ![h] = TRUE]
      /\ overtaken' \in BOOLEAN /\ (overtaken => overtaken')
      /\ Len(seen[h]) = Len(file)
  BY DEF Prepare, Goto, IInv, TypeOK
<1>2. TypeOK'
  <2>1. journals' = [journals EXCEPT ![k] = Journal(m)]
    BY DEF Prepare
  <2> QED
    BY <1>1, <2>1, PrepareFacts DEF IInv, TypeOK, Stages
<1>3. /\ k \in TxIds /\ Prepared(k)' /\ journals'[k].before = file
      /\ \A j \in TxIds : Prepared(j) => Prepared(j)'
      /\ \A j \in TxIds : journals[j] # None => journals'[j] = journals[j]
  BY PrepareFacts
<1>4. CallInv'
  <2>1. \A u \in Hosts : u # h => stage'[u] = stage[u] /\ stage[u] \notin Inside
    BY <1>1 DEF IInv, TypeOK, CallInv, Inside
  <2>2. holder' = h /\ stage'[h] = "prepared" /\ tx'[h] = k
    BY <1>1 DEF IInv, TypeOK, CallInv, Inside
  <2> QED
    BY <1>1, <1>3, <2>1, <2>2 DEF CallInv, Inside
<1>5. JournalInv'
  <2>1. \A j \in TxIds : journals'[j] # None =>
          \E n \in Mutations : journals'[j].after = Append(journals'[j].before, n)
    BY PrepareFacts DEF IInv, JournalInv
  <2>2. \A i \in 1 .. Len(events) : events[i].id \in TxIds
    <3>1. \A i \in 1 .. Len(events) : events[i] \in Events
      BY DEF IInv, TypeOK
    <3> QED
      BY <3>1 DEF Events
  <2>3. \A i \in 1 .. Len(events) :
          /\ journals'[events[i].id] = journals[events[i].id]
          /\ journals[events[i].id] # None
    BY <1>3, <2>2 DEF IInv, JournalInv
  <2> QED
    BY <1>1, <2>1, <2>3 DEF IInv, JournalInv, EventOf
<1>6. BuiltOnWhatWasSeen'
  <2>1. seen[h] = file
    <3>1. seen[h] \in Seq(Mutations) /\ file \in Seq(Mutations)
      BY DEF IInv, TypeOK, Contents
    <3>2. \A i \in 1 .. Len(seen[h]) : seen[h][i] = file[i]
      BY DEF IInv, SeenInv
    <3> QED
      BY <1>1, <3>1, <3>2, SeqEqual
  <2>2. \A u \in Hosts : u # h => stage'[u] = stage[u] /\ stage[u] # "prepared"
    BY <1>1 DEF IInv, TypeOK, CallInv, Inside
  <2> QED
    BY <1>1, <1>3, <2>1, <2>2 DEF IInv, TypeOK, BuiltOnWhatWasSeen
<1>7. SeenInv' /\ BarrierBlocksOnlyForACause'
  BY <1>1 DEF IInv, TypeOK, SeenInv, BarrierBlocksOnlyForACause
<1> QED
  BY <1>2, <1>4, <1>5, <1>6, <1>7, PrepareKeepsClean DEF IInv

LEMMA AppendEventKeepsIInv ==
    ASSUME IInv, NEW h \in Hosts, AppendEvent(h) PROVE IInv'
<1> PICK k \in TxIds : k = tx[h]
  BY DEF IInv, TypeOK
<1> DEFINE n == Len(events)
<1>1. /\ UNCHANGED <<holder, file, journals, torn, mode, own, tx, seen, answered,
                     crashes, overtaken>>
      /\ stage[h] = "prepared" /\ stage' = [stage EXCEPT ![h] = "logged"]
      /\ events' = IF IsLogged(k) THEN events ELSE Append(events, EventOf(k))
      /\ Prepared(k) /\ journals[k].before = file /\ ~torn
  BY DEF AppendEvent, Goto, history, IInv, TypeOK, CallInv
<1>2. events \in Seq(Events) /\ EventOf(k) \in Events /\ n \in Nat
  BY <1>1 DEF IInv, TypeOK, Events, EventOf, Journals, Prepared
<1>3. TypeOK'
  BY <1>1, <1>2 DEF IInv, TypeOK, Stages
<1>4. /\ Len(events') = IF IsLogged(k) THEN n ELSE n + 1
      /\ \A i \in 1 .. n : events'[i] = events[i]
      /\ ~IsLogged(k) => events'[n + 1] = EventOf(k)
  BY <1>1, <1>2
<1>5. IsLogged(k)'
  <2>1. \E i \in 1 .. Len(events') : events'[i] = EventOf(k)
    BY <1>2, <1>4 DEF IsLogged
  <2> QED
    BY <1>1, <2>1 DEF IsLogged, EventOf
<1>6. CallInv'
  <2>1. \A u \in Hosts : u # h => stage'[u] = stage[u] /\ stage[u] \notin Inside
    BY <1>1 DEF IInv, TypeOK, CallInv, Inside
  <2>2. holder' = h /\ stage'[h] = "logged" /\ tx'[h] = k
    BY <1>1 DEF IInv, TypeOK, CallInv, Inside
  <2> QED
    BY <1>1, <1>5, <2>1, <2>2 DEF CallInv, Inside, Prepared
<1>7. JournalInv'
  <2>1. EventOf(k).id = k /\ journals[k] # None
    BY <1>1 DEF EventOf, Prepared
  <2>2. ASSUME NEW i \in 1 .. Len(events')
        PROVE  journals[events'[i].id] # None /\ events'[i] = EventOf(events'[i].id)
    BY <1>2, <1>4, <2>1 DEF IInv, JournalInv
  <2> QED
    BY <1>1, <2>2 DEF IInv, JournalInv, EventOf
<1>8. CleanInv'
  <2> SUFFICES ASSUME ~overtaken, ~torn PROVE Reconcilable'
    BY <1>1 DEF CleanInv
  <2>1. Reconcilable
    BY DEF IInv, CleanInv
  <2>2. \A j \in TxIds : Prepared(j)' <=> j = k
    BY <1>1, <2>1 DEF Reconcilable, Prepared
  <2>3. IsAhead(k)'
    BY <1>1, <1>5, <2>2 DEF IsAhead
  <2>4. CASE IsLogged(k)
    <3>1. UNCHANGED events
      BY <1>1, <2>4
    <3> QED
      BY <1>1, <2>1, <3>1, ReconcilableUnchanged
  <2>5. CASE ~IsLogged(k)
    <3>1. LastAfter = file
      BY <2>1, <2>2, <2>5, <1>1 DEF Reconcilable, IsAhead, Prepared
    <3>2. EventOf(k).before = file /\ EventOf(k).after = journals[k].after
      BY <1>1 DEF EventOf
    <3>3. LastAfter' = journals'[k].after
      BY <1>1, <1>2, <1>4, <2>5, <3>2 DEF LastAfter
    <3>4. events' # <<>> => events'[1].before = <<>>
      BY <1>2, <1>4, <2>1, <2>5, <3>1, <3>2 DEF Reconcilable, LastAfter
    <3>5. \A i \in 1 .. Len(events') - 1 : events'[i + 1].before = events'[i].after
      BY <1>2, <1>4, <2>1, <2>5, <3>1, <3>2 DEF Reconcilable, LastAfter
    <3>6. \A j \in TxIds : ~Unreconcilable(j)'
      BY <1>1, <2>1 DEF Reconcilable, Unreconcilable, Prepared
    <3>7. \A j \in TxIds : IsAhead(j)' => j = k
      BY <2>2 DEF IsAhead
    <3>8. \A i, j \in TxIds : Prepared(i)' /\ Prepared(j)' => i = j
      BY <2>2
    <3>9. \A j \in TxIds : IsAhead(j)' => LastAfter' = journals'[j].after
      BY <3>3, <3>7
    <3>10. ~ \A j \in TxIds : ~IsAhead(j)'
      BY <2>3
    <3> QED
      BY <3>4, <3>5, <3>6, <3>8, <3>9, <3>10 DEF Reconcilable
  <2> QED
    BY <2>4, <2>5
<1>9. SeenInv' /\ BuiltOnWhatWasSeen' /\ BarrierBlocksOnlyForACause'
  BY <1>1 DEF IInv, TypeOK, SeenInv, BuiltOnWhatWasSeen, BarrierBlocksOnlyForACause
<1> QED
  BY <1>3, <1>6, <1>7, <1>8, <1>9 DEF IInv

\* The state file gets the one mutation its journal adds to it.
LEMMA WriteFacts ==
    ASSUME IInv, NEW h \in Hosts, WriteState(h)
    PROVE  /\ tx[h] \in TxIds /\ Prepared(tx[h]) /\ IsLogged(tx[h])
           /\ journals[tx[h]].before = file
           /\ file \in Contents /\ file' \in Contents
           /\ file' = journals[tx[h]].after /\ file' # file /\ file' # <<>>
           /\ Len(file') = Len(file) + 1 /\ Len(file) \in Nat
           /\ \A i \in 1 .. Len(file) : file'[i] = file[i]
           /\ \E m \in Mutations : file' = Append(file, m)
<1>1. /\ tx[h] \in TxIds /\ Prepared(tx[h]) /\ IsLogged(tx[h])
      /\ journals[tx[h]].before = file /\ file \in Contents /\ Len(file) \in Nat
      /\ file' = journals[tx[h]].after
  BY DEF IInv, TypeOK, CallInv, WriteState, Contents
<1>2. PICK m \in Mutations : file' = Append(file, m)
  BY <1>1 DEF IInv, JournalInv, Prepared
<1> QED
  BY <1>1, <1>2, AppendFacts

LEMMA WriteStateKeepsIInv ==
    ASSUME IInv, NEW h \in Hosts, WriteState(h) PROVE IInv'
<1> PICK k \in TxIds : k = tx[h]
  BY DEF IInv, TypeOK
<1>1. /\ UNCHANGED <<holder, journals, events, torn, mode, own, tx, seen, answered,
                     crashes, overtaken>>
      /\ stage[h] = "logged" /\ stage' = [stage EXCEPT ![h] = "written"]
      /\ Prepared(k) /\ IsLogged(k) /\ journals[k].before = file
      /\ file' = journals[k].after /\ file' # file /\ file' \in Contents
  BY WriteFacts DEF WriteState, Goto, history
<1>2. TypeOK'
  BY <1>1 DEF IInv, TypeOK, Stages
<1>3. \A u \in Hosts : u # h => stage'[u] = stage[u] /\ stage[u] \notin Inside
  BY <1>1 DEF IInv, TypeOK, CallInv, Inside
<1>4. CallInv'
  <2>1. holder' = h /\ stage'[h] = "written" /\ tx'[h] = k
    BY <1>1 DEF IInv, TypeOK, CallInv, Inside
  <2> QED
    BY <1>1, <1>3, <2>1 DEF CallInv, Inside, Prepared
<1>5. JournalInv'
  BY <1>1 DEF IInv, JournalInv, EventOf
<1>6. SeenInv'
  <2>1. ASSUME NEW u \in Hosts, NEW i \in 1 .. Len(seen[u])
        PROVE  file'[i] = seen[u][i]
    <3>1. seen[u] \in Contents /\ Len(seen[u]) <= Len(file) /\ seen[u][i] = file[i]
      BY <2>1 DEF IInv, TypeOK, SeenInv
    <3>2. i \in 1 .. Len(file)
      BY <3>1, WriteFacts DEF Contents
    <3> QED
      BY <3>1, <3>2, WriteFacts
  <2>2. ASSUME NEW u \in Hosts PROVE Len(seen[u]) <= Len(file')
    <3>1. Len(seen[u]) <= Len(file) /\ Len(seen[u]) \in Nat
      BY <2>2 DEF IInv, TypeOK, SeenInv, Contents
    <3> QED
      BY <3>1, WriteFacts
  <2> QED
    BY <1>1, <2>1, <2>2 DEF SeenInv
<1>7. CleanInv'
  <2> SUFFICES ASSUME ~overtaken, ~torn PROVE Reconcilable'
    BY <1>1 DEF CleanInv
  <2>1. Reconcilable
    BY DEF IInv, CleanInv
  <2>2. \A j \in TxIds : Prepared(j)' <=> j = k
    BY <1>1, <2>1 DEF Reconcilable, Prepared
  <2>3. LastAfter' = file'
    BY <1>1, <2>1 DEF Reconcilable, IsAhead, LastAfter
  <2>4. \A j \in TxIds : ~IsAhead(j)' /\ ~Unreconcilable(j)'
    BY <1>1, <2>2 DEF IsAhead, Unreconcilable
  <2> QED
    BY <1>1, <2>1, <2>2, <2>3, <2>4 DEF Reconcilable
<1>8. BuiltOnWhatWasSeen' /\ BarrierBlocksOnlyForACause'
  BY <1>1, <1>3 DEF IInv, TypeOK, BuiltOnWhatWasSeen, BarrierBlocksOnlyForACause, Inside
<1> QED
  BY <1>2, <1>4, <1>5, <1>6, <1>7, <1>8 DEF IInv

LEMMA MarkCommittedKeepsIInv ==
    ASSUME IInv, NEW h \in Hosts, MarkCommitted(h) PROVE IInv'
<1> PICK k \in TxIds : k = tx[h]
  BY DEF IInv, TypeOK
<1>1. /\ UNCHANGED <<holder, file, events, torn, mode, own, tx, seen, answered,
                     crashes, overtaken>>
      /\ stage[h] = "written"
      /\ stage' = [stage EXCEPT ![h] = IF own[h] THEN "done" ELSE "recovering"]
      /\ journals' = [journals EXCEPT ![k].status = "COMMITTED"]
      /\ Prepared(k) /\ journals[k] \in Journals /\ journals[k].after = file
  <2>1. Prepared(k) /\ journals[k].after = file
    BY DEF MarkCommitted, IInv, CallInv
  <2>2. journals[k] \in Journals
    BY <2>1 DEF IInv, TypeOK, Prepared
  <2>3. UNCHANGED <<holder, file, events, torn, mode, own, tx, seen, answered,
                    crashes, overtaken>>
    BY DEF MarkCommitted, history
  <2> QED
    BY <2>1, <2>2, <2>3 DEF MarkCommitted, Goto
<1>2. /\ journals'[k] \in Journals
      /\ journals'[k].before = journals[k].before /\ journals'[k].after = journals[k].after
      /\ journals'[k].status = "COMMITTED"
      /\ \A j \in TxIds : j # k => journals'[j] = journals[j]
  <2>1. journals'[k] = [journals[k] EXCEPT !.status = "COMMITTED"]
    BY <1>1 DEF IInv, TypeOK
  <2>2. \A j \in TxIds : j # k => journals'[j] = journals[j]
    BY <1>1 DEF IInv, TypeOK
  <2> QED
    BY <1>1, <2>1, <2>2 DEF Journals
<1>3. /\ journals'[k] # None
      /\ \A j \in TxIds : Prepared(j)' <=> Prepared(j) /\ j # k
      /\ \A j \in TxIds : EventOf(j)' = EventOf(j)
      /\ \A j \in TxIds : journals[j] # None => journals'[j] # None
  BY <1>2 DEF Prepared, EventOf
<1>4. TypeOK'
  <2>1. stage' \in [Hosts -> Stages]
    BY <1>1 DEF IInv, TypeOK, Stages
  <2>2. journals' \in [TxIds -> Journals \cup {None}]
    BY <1>1, <1>2 DEF IInv, TypeOK
  <2> QED
    BY <1>1, <2>1, <2>2 DEF IInv, TypeOK
<1>5. PICK m \in Mutations : file = Append(journals[k].before, m)
  BY <1>1 DEF IInv, JournalInv, Prepared
<1>6. file # <<>> /\ file # journals[k].before
  <2>1. journals[k].before \in Contents
    BY <1>1 DEF Journals
  <2> QED
    BY <1>5, <2>1, AppendFacts
<1>7. \A u \in Hosts : u # h => stage'[u] = stage[u] /\ stage[u] \notin Inside
  BY <1>1 DEF IInv, TypeOK, CallInv, Inside
<1>8. CallInv'
  <2>1. holder' = h /\ stage'[h] \in {"done", "recovering"} /\ tx'[h] = k
    BY <1>1 DEF IInv, TypeOK, CallInv, Inside
  <2> QED
    BY <1>1, <1>2, <1>3, <1>6, <1>7, <2>1 DEF CallInv, Inside
<1>9. JournalInv'
  <2>1. \A i \in 1 .. Len(events) : events[i].id \in TxIds
    <3>1. \A i \in 1 .. Len(events) : events[i] \in Events
      BY DEF IInv, TypeOK
    <3> QED
      BY <3>1 DEF Events
  <2>2. \A j \in TxIds : journals'[j] # None => journals[j] # None
    BY <1>1, <1>2 DEF Prepared
  <2>3. \A j \in TxIds : journals'[j].before = journals[j].before
                         /\ journals'[j].after = journals[j].after
    BY <1>2
  <2>4. \A j \in TxIds : journals'[j] # None =>
          \E n \in Mutations : journals'[j].after = Append(journals'[j].before, n)
    BY <2>2, <2>3 DEF IInv, JournalInv
  <2>5. \A i \in 1 .. Len(events) :
          /\ journals'[events[i].id] # None
          /\ events[i] = EventOf(events[i].id)'
    BY <1>1, <1>3, <2>1 DEF IInv, JournalInv, EventOf
  <2> QED
    BY <1>1, <2>4, <2>5 DEF JournalInv
<1>10. CleanInv'
  <2> SUFFICES ASSUME ~overtaken, ~torn PROVE Reconcilable'
    BY <1>1 DEF CleanInv
  <2>1. Reconcilable
    BY DEF IInv, CleanInv
  <2>2. \A j \in TxIds : ~Prepared(j)'
    BY <1>1, <1>3, <2>1 DEF Reconcilable
  <2>3. \A j \in TxIds : ~IsAhead(j)
    BY <1>1, <1>6, <2>1 DEF Reconcilable, IsAhead
  <2>4. LastAfter' = file'
    BY <1>1, <2>1, <2>3 DEF Reconcilable, LastAfter
  <2>5. \A j \in TxIds : ~IsAhead(j)' /\ ~Unreconcilable(j)'
    BY <2>2 DEF IsAhead, Unreconcilable
  <2> QED
    BY <1>1, <2>1, <2>2, <2>4, <2>5 DEF Reconcilable
<1>11. SeenInv' /\ BuiltOnWhatWasSeen' /\ BarrierBlocksOnlyForACause'
  BY <1>1, <1>7 DEF IInv, TypeOK, SeenInv, BuiltOnWhatWasSeen, BarrierBlocksOnlyForACause,
                    Inside
<1> QED
  BY <1>4, <1>8, <1>9, <1>10, <1>11 DEF IInv

LEMMA TearKeepsIInv ==
    ASSUME IInv, NEW h \in Hosts, Tear(h) PROVE IInv'
<1>1. /\ UNCHANGED <<file, journals, events, answered, overtaken>>
      /\ torn' = TRUE /\ crashes < MaxCrashes /\ crashes' = crashes + 1
      /\ Lock!Release(h)
      /\ stage' = [stage EXCEPT ![h] = "idle"]
      /\ tx' = [tx EXCEPT ![h] = NoTx]
      /\ seen' = [seen EXCEPT ![h] = <<>>]
      /\ mode' = [mode EXCEPT ![h] = "guarded"]
      /\ own' = [own EXCEPT ![h] = FALSE]
  BY DEF Tear, End, Goto
<1>2. TypeOK'
  <2>1. NoTx \in TxIds /\ <<>> \in Contents /\ "idle" \in Stages /\ "guarded" \in Modes
    BY DEF NoTx, TxIds, Contents, Stages, Modes
  <2>2. crashes' \in 0 .. MaxCrashes
    BY <1>1 DEF IInv, TypeOK
  <2> QED
    BY <1>1, <2>1, <2>2 DEF IInv, TypeOK, Lock!Release
<1>3. CallInv'
  BY <1>1 DEF IInv, TypeOK, CallInv, Inside, Prepared, IsLogged, EventOf, Lock!Release
<1>4. JournalInv' /\ CleanInv'
  BY <1>1 DEF IInv, JournalInv, EventOf, CleanInv
<1>5. SeenInv'
  BY <1>1 DEF IInv, TypeOK, SeenInv, Contents
<1>6. BuiltOnWhatWasSeen' /\ BarrierBlocksOnlyForACause'
  BY <1>1 DEF IInv, TypeOK, BuiltOnWhatWasSeen, BarrierBlocksOnlyForACause
<1> QED
  BY <1>2, <1>3, <1>4, <1>5, <1>6 DEF IInv

----------------------------------------------------------------------------
LEMMA NextKeepsIInv == IInv /\ [Next]_vars => IInv'
<1> SUFFICES ASSUME IInv, [Next]_vars PROVE IInv'
  OBVIOUS
<1>1. CASE UNCHANGED vars
  <2>1. /\ UNCHANGED <<holder, file, journals, events, torn, stage, mode, own, tx, seen,
                       answered, crashes, overtaken>>
        /\ UNCHANGED files
    BY <1>1 DEF vars, files, call, history
  <2>2. TypeOK' /\ SeenInv' /\ BuiltOnWhatWasSeen' /\ BarrierBlocksOnlyForACause'
    BY <2>1 DEF IInv, TypeOK, SeenInv, BuiltOnWhatWasSeen, BarrierBlocksOnlyForACause
  <2>3. CallInv'
    BY <2>1 DEF IInv, CallInv, Prepared, IsLogged, EventOf
  <2> QED
    BY <2>1, <2>2, <2>3, FilesUnchanged DEF IInv
<1>2. ASSUME NEW h \in Hosts, Recover(h) PROVE IInv'
  BY <1>2, PickKeepsIInv, BlockKeepsIInv, PassKeepsIInv DEF Recover
<1>3. ASSUME NEW h \in Hosts, Decide(h) PROVE IInv'
  BY <1>3, PrepareKeepsIInv, GiveUpKeepsIInv DEF Decide
<1>4. ASSUME NEW h \in Hosts, Commit(h) PROVE IInv'
  BY <1>4, AppendEventKeepsIInv, FindTornKeepsIInv, WriteStateKeepsIInv,
     MarkCommittedKeepsIInv, ReturnKeepsIInv DEF Commit
<1>5. CASE Next
  BY <1>2, <1>3, <1>4, <1>5, CallBarrierKeepsIInv, CallCreateKeepsIInv, LookKeepsIInv,
     RelockKeepsIInv, DismissKeepsIInv, CrashKeepsIInv, TearKeepsIInv DEF Next
<1> QED
  BY <1>1, <1>5

THEOREM Invariance == Spec => []IInv
<1> QED
  BY InitIInv, NextKeepsIInv, PTL DEF Spec

\* The files of a Run and the calls on it keep their types.
THEOREM TypeCorrect == Spec => []TypeOK
<1>1. IInv => TypeOK
  BY DEF IInv
<1> QED
  BY <1>1, Invariance, PTL

\* Wherever a process dies, the barrier brings journals, events and state file
\* together again; only a torn log or an overtaken mutation makes it refuse.
THEOREM RecoveryIsComplete == Spec => []BarrierBlocksOnlyForACause
<1>1. IInv => BarrierBlocksOnlyForACause
  BY DEF IInv
<1> QED
  BY <1>1, Invariance, PTL

\* The version check lets no mutation through that was decided on another state.
THEOREM DecisionsAreCurrent == Spec => []BuiltOnWhatWasSeen
<1>1. IInv => BuiltOnWhatWasSeen
  BY DEF IInv
<1> QED
  BY <1>1, Invariance, PTL

----------------------------------------------------------------------------
(* StateTransaction implements StateHistory *)

LEMMA NextRefines == IInv /\ [Next]_vars => [History!Next]_<<file, answered>>
<1> SUFFICES ASSUME IInv, [Next]_vars
             PROVE  History!Next \/ UNCHANGED <<file, answered>>
  OBVIOUS
<1>1. CASE UNCHANGED vars
  BY <1>1 DEF vars, files, history
<1>2. ASSUME NEW h \in Hosts, WriteState(h) PROVE History!Next
  <2>1. PICK m \in Mutations : file' = Append(file, m)
    BY <1>2, WriteFacts
  <2>2. answered' = answered
    BY <1>2 DEF WriteState, history
  <2> QED
    BY <2>1, <2>2 DEF History!Next, History!Mutate
<1>3. ASSUME NEW h \in Hosts, Return(h) PROVE History!Next
  <2>1. answered' = answered \cup {file} /\ file' = file
    BY <1>3 DEF Return, IInv, CallInv, files
  <2> QED
    BY <2>1 DEF History!Next, History!Answer
<1>4. ASSUME NEW h \in Hosts,
             \/ \E m \in Modes : CallBarrier(h, m)
             \/ CallCreate(h) \/ Look(h) \/ Relock(h) \/ Recover(h) \/ Decide(h)
             \/ AppendEvent(h) \/ FindTorn(h) \/ MarkCommitted(h) \/ Dismiss(h)
             \/ Crash(h) \/ Tear(h)
      PROVE  UNCHANGED <<file, answered>>
  BY <1>4 DEF CallBarrier, CallCreate, Look, Relock, Recover, Pick, Block, Pass, Decide,
              Prepare, GiveUp, AppendEvent, FindTorn, MarkCommitted, Dismiss, Crash, Tear,
              files, history
<1>5. CASE Next
  BY <1>2, <1>3, <1>4, <1>5 DEF Next, Commit
<1> QED
  BY <1>1, <1>5

\* The state file only grows by one mutation at a time, and what callers were
\* told of is never taken back.
THEOREM Refinement == Spec => ImplementsHistory
<1>1. Init => History!Init
  BY DEF Init, History!Init
<1>2. IInv /\ [Next]_vars => [History!Next]_<<file, answered>>
  BY NextRefines
<1> QED
  BY <1>1, <1>2, Invariance, PTL DEF Spec, ImplementsHistory, History!Spec, History!vars
====
