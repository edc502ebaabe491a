------------------------- MODULE AlphaLedgerProofs -------------------------
(* The proofs about AlphaLedger, for any Hosts, operations and payloads. *)
EXTENDS AlphaLedger, TLAPS

Holding == {"locked", "loaded", "answered"}

\* A call holds the lock from Enter to Return; what it has loaded is still what
\* run.json holds; and its answer says whether it has taken effect.
HostInv ==
    \A h \in Hosts :
        /\ stage[h] \in Holding <=> holder = h
        /\ stage[h] # "idle" => request[h] \in Calls
        /\ request[h] # None => request[h].expected < MaxVersion
        /\ stage[h] \in {"loaded", "answered"} => copy[h] = run
        /\ reply[h] # None => stage[h] = "answered"
        /\ reply[h] = "APPLIED" => InEffect(request[h])
        /\ reply[h] \in Refusals => ~ InEffect(request[h])

IInv == TypeOK /\ EffectsAreRecorded /\ AnswersAreKept /\ HostInv

USE HostAssumption, PayloadAssumption, BoundAssumption, NoneAssumption

LEMMA InitIInv == Init => IInv
<1> SUFFICES ASSUME Init PROVE IInv
  OBVIOUS
<1>1. run.version = 1 /\ run.log = <<>> /\ Len(run.log) = 0
  BY DEF Init
<1>2. TypeOK
  BY DEF Init, TypeOK, Runs, Versions, Stages
<1>3. EffectsAreRecorded
  BY <1>1 DEF Init, EffectsAreRecorded
<1>4. AnswersAreKept
  BY <1>1 DEF Init, AnswersAreKept
<1>5. HostInv
  BY DEF Init, HostInv, Holding, Refusals
<1> QED
  BY <1>2, <1>3, <1>4, <1>5 DEF IInv

\* While run.json stays as it is, so do its effects.
LEMMA RunUnchanged ==
    ASSUME IInv, UNCHANGED run, UNCHANGED <<seen, acknowledged>>
    PROVE  EffectsAreRecorded' /\ AnswersAreKept'
<1> QED
  BY DEF IInv, EffectsAreRecorded, AnswersAreKept, Identity

----------------------------------------------------------------------------
(* The Host's own steps *)

LEMMA HostKeepsIInv ==
    ASSUME IInv, NEW h \in Hosts,
           ReadStatus(h) \/ (\E id \in Ids, payload \in Payloads : Call(h, id, payload))
             \/ CallAgain(h) \/ Crash(h)
    PROVE  IInv'
<1>1. CASE ReadStatus(h)
  <2>1. TypeOK'
    BY <1>1 DEF IInv, TypeOK, ReadStatus, Runs
  <2>2. EffectsAreRecorded' /\ AnswersAreKept'
    BY <1>1 DEF IInv, TypeOK, Runs, Versions, ReadStatus, EffectsAreRecorded,
                AnswersAreKept, Identity
  <2>3. HostInv'
    BY <1>1 DEF IInv, HostInv, ReadStatus, InEffect, Identity
  <2> QED
    BY <2>1, <2>2, <2>3 DEF IInv
<1>2. ASSUME NEW id \in Ids, NEW payload \in Payloads, Call(h, id, payload)
      PROVE  IInv'
  <2>1. TypeOK'
    BY <1>2 DEF IInv, TypeOK, Call, Goto, Calls, Stages
  <2>2. EffectsAreRecorded' /\ AnswersAreKept'
    BY <1>2, RunUnchanged DEF Call
  <2>3. HostInv'
    BY <1>2 DEF IInv, TypeOK, HostInv, Call, Goto, Calls, InEffect, Identity, Holding
  <2> QED
    BY <2>1, <2>2, <2>3 DEF IInv
<1>3. CASE CallAgain(h)
  <2>1. TypeOK'
    BY <1>3 DEF IInv, TypeOK, CallAgain, Goto, Stages
  <2>2. EffectsAreRecorded' /\ AnswersAreKept'
    BY <1>3, RunUnchanged DEF CallAgain
  <2>3. HostInv'
    BY <1>3 DEF IInv, TypeOK, HostInv, CallAgain, Goto, InEffect, Identity, Holding
  <2> QED
    BY <2>1, <2>2, <2>3 DEF IInv
<1>4. CASE Crash(h)
  <2>1. TypeOK'
    BY <1>4 DEF IInv, TypeOK, Crash, Goto, Stages, Lock!Release
  <2>2. EffectsAreRecorded' /\ AnswersAreKept'
    BY <1>4, RunUnchanged DEF Crash
  <2>3. HostInv'
    BY <1>4 DEF IInv, TypeOK, HostInv, Crash, Goto, InEffect, Identity, Holding,
                Lock!Release, Refusals
  <2> QED
    BY <2>1, <2>2, <2>3 DEF IInv
<1> QED
  BY <1>1, <1>2, <1>3, <1>4

----------------------------------------------------------------------------
(* _mutate *)

LEMMA EnterKeepsIInv == ASSUME IInv, NEW h \in Hosts, Enter(h) PROVE IInv'
<1>1. TypeOK'
  BY DEF IInv, TypeOK, Enter, Goto, Stages, Lock!Take
<1>2. EffectsAreRecorded' /\ AnswersAreKept'
  BY RunUnchanged DEF Enter
<1>3. HostInv'
  BY DEF IInv, TypeOK, HostInv, Enter, Goto, InEffect, Identity, Holding, Lock!Take
<1> QED
  BY <1>1, <1>2, <1>3 DEF IInv

LEMMA LoadKeepsIInv == ASSUME IInv, NEW h \in Hosts, Load(h) PROVE IInv'
<1>1. TypeOK'
  BY DEF IInv, TypeOK, Load, Goto, Stages
<1>2. EffectsAreRecorded' /\ AnswersAreKept'
  BY RunUnchanged DEF Load
<1>3. HostInv'
  BY DEF IInv, TypeOK, HostInv, Load, Goto, InEffect, Identity, Holding
<1> QED
  BY <1>1, <1>2, <1>3 DEF IInv

LEMMA ReturnKeepsIInv == ASSUME IInv, NEW h \in Hosts, Return(h) PROVE IInv'
<1>1. copy[h] = run /\ run.version \in Versions /\ request[h] \in Calls
  BY DEF IInv, TypeOK, HostInv, Return, Runs
<1>2. TypeOK'
  BY <1>1 DEF IInv, TypeOK, Return, Goto, Stages, Lock!Release, Calls
<1>3. EffectsAreRecorded'
  BY DEF IInv, EffectsAreRecorded, Return
<1>4. AnswersAreKept'
  <2>1. CASE reply[h] = "APPLIED"
    <3>1. InEffect(request[h])
      BY <2>1 DEF IInv, HostInv
    <3>2. acknowledged' = acknowledged \cup {Identity(request[h])}
      BY <2>1 DEF Return, Identity
    <3>3. seen' = [seen EXCEPT ![h] = run.version]
      BY <1>1, <2>1 DEF Return
    <3> QED
      BY <1>1, <3>1, <3>2, <3>3 DEF IInv, TypeOK, AnswersAreKept, InEffect, Return,
                                    Identity, Versions
  <2>2. CASE reply[h] # "APPLIED"
    BY <2>2 DEF IInv, AnswersAreKept, Return, Identity
  <2> QED
    BY <2>1, <2>2
<1>5. HostInv'
  BY DEF IInv, TypeOK, HostInv, Return, Goto, InEffect, Identity, Holding,
         Lock!Release, Refusals
<1> QED
  BY <1>2, <1>3, <1>4, <1>5 DEF IInv

\* The record of the operation tells whether the call has taken effect, and a
\* recorded operation has the payload of its effect.
LEMMA RecordTellsEffect ==
    ASSUME IInv, NEW h \in Hosts, stage[h] = "loaded"
    PROVE  /\ copy[h] = run
           /\ request[h] \in Calls /\ request[h].id \in Ids
           /\ Recorded(h) = run.operations[request[h].id]
           /\ IsReplay(h) <=> InEffect(request[h])
<1>1. copy[h] = run /\ request[h] \in Calls
  BY DEF IInv, HostInv
<1>2. request[h].id \in Ids /\ request[h].payload \in Payloads
  BY <1>1 DEF Calls
<1>3. Recorded(h) = run.operations[request[h].id]
  BY <1>1 DEF Recorded
<1>4. ASSUME IsReplay(h) PROVE InEffect(request[h])
  <2>1. run.operations[request[h].id] # None
    BY <1>2, <1>3, <1>4 DEF IsReplay
  <2>2. PICK i \in 1 .. Len(run.log) : run.log[i].id = request[h].id
    BY <1>2, <2>1 DEF IInv, EffectsAreRecorded
  <2>3. run.log[i].payload = request[h].payload
    BY <1>3, <1>4, <2>2 DEF IInv, EffectsAreRecorded, IsReplay
  <2> QED
    BY <2>2, <2>3 DEF InEffect, Identity
<1>5. ASSUME InEffect(request[h]) PROVE IsReplay(h)
  <2>1. PICK i \in 1 .. Len(run.log) : Identity(run.log[i]) = Identity(request[h])
    BY <1>5 DEF InEffect
  <2>2. run.log[i].id = request[h].id /\ run.log[i].payload = request[h].payload
    BY <2>1 DEF Identity
  <2> QED
    BY <1>3, <2>2 DEF IInv, EffectsAreRecorded, IsReplay
<1> QED
  BY <1>1, <1>2, <1>3, <1>4, <1>5

LEMMA ReplayKeepsIInv == ASSUME IInv, NEW h \in Hosts, Replay(h) PROVE IInv'
<1>1. TypeOK'
  BY DEF IInv, TypeOK, Replay, AnswerWith, Goto, Stages
<1>2. EffectsAreRecorded' /\ AnswersAreKept'
  BY RunUnchanged DEF Replay, AnswerWith
<1>3. InEffect(request[h])
  BY RecordTellsEffect DEF Replay, AnswerWith
<1>4. HostInv'
  BY <1>3 DEF IInv, TypeOK, HostInv, Replay, AnswerWith, Goto, InEffect, Identity,
              Holding, Refusals
<1> QED
  BY <1>1, <1>2, <1>4 DEF IInv

LEMMA RefuseKeepsIInv == ASSUME IInv, NEW h \in Hosts, Refuse(h) PROVE IInv'
<1>1. TypeOK'
  BY DEF IInv, TypeOK, Refuse, AnswerWith, Goto, Stages, Refusals
<1>2. EffectsAreRecorded' /\ AnswersAreKept'
  BY RunUnchanged DEF Refuse, AnswerWith
<1>3. ~ InEffect(request[h])
  <2>1. stage[h] = "loaded"
    BY DEF Refuse, AnswerWith
  <2>2. request[h].payload \in Payloads
    BY <2>1, RecordTellsEffect DEF Calls
  <2>3. ~ IsReplay(h)
    BY <2>2 DEF Refuse, IsConflict, IsStale, IsCurrent, IsReplay
  <2> QED
    BY <2>1, <2>3, RecordTellsEffect
<1>4. HostInv'
  BY <1>3 DEF IInv, TypeOK, HostInv, Refuse, AnswerWith, Goto, InEffect, Identity,
              Holding, Refusals
<1> QED
  BY <1>1, <1>2, <1>4 DEF IInv

\* What Apply writes: one more effect, at the next version, under its record.
LEMMA ApplyWrites ==
    ASSUME IInv, NEW h \in Hosts, Apply(h)
    PROVE  /\ stage[h] = "loaded" /\ holder = h
           /\ request[h] \in Calls /\ request[h].id \in Ids
           /\ request[h].payload \in Payloads
           /\ request[h].expected = Len(run.log) + 1
           /\ request[h].expected < MaxVersion
           /\ run.operations[request[h].id] = None
           /\ run' = [version |-> Len(run.log) + 2,
                      operations |-> [run.operations EXCEPT
                                        ![request[h].id] = request[h].payload],
                      log |-> Append(run.log, request[h])]
<1>1. stage[h] = "loaded"
  BY DEF Apply, AnswerWith
<1>2. /\ copy[h] = run /\ request[h] \in Calls
      /\ Recorded(h) = run.operations[request[h].id]
  BY <1>1, RecordTellsEffect
<1>3. run.operations[request[h].id] = None /\ run.version = request[h].expected
  BY <1>2 DEF Apply, IsCurrent
<1>4. run.version = Len(run.log) + 1
  BY DEF IInv, EffectsAreRecorded
<1>5. run \in Runs
  BY DEF IInv, TypeOK
<1>6. run' = [run EXCEPT !.version = request[h].expected + 1,
                         !.operations[request[h].id] = request[h].payload,
                         !.log = Append(@, request[h])]
  BY <1>2 DEF Apply, Updated
<1>7. Len(run.log) \in Nat
  BY <1>5 DEF Runs
<1>8. run' = [version |-> Len(run.log) + 2,
              operations |-> [run.operations EXCEPT
                                ![request[h].id] = request[h].payload],
              log |-> Append(run.log, request[h])]
  <2>1. request[h].expected + 1 = Len(run.log) + 2
    BY <1>3, <1>4, <1>7
  <2>2. /\ run'.version = Len(run.log) + 2
        /\ run'.operations = [run.operations EXCEPT
                                ![request[h].id] = request[h].payload]
        /\ run'.log = Append(run.log, request[h])
    BY <1>5, <1>6, <2>1 DEF Runs
  <2>3. run' = [version |-> run'.version, operations |-> run'.operations,
                log |-> run'.log]
    BY <1>5, <1>6 DEF Runs
  <2> QED
    BY <2>2, <2>3
<1>9. holder = h /\ request[h].expected < MaxVersion
  BY <1>1, <1>2 DEF IInv, HostInv, Holding
<1> QED
  BY <1>1, <1>2, <1>3, <1>4, <1>8, <1>9 DEF Calls

LEMMA ApplyKeepsIInv == ASSUME IInv, NEW h \in Hosts, Apply(h) PROVE IInv'
<1> DEFINE call == request[h]
           n == Len(run.log)
<1>1. /\ stage[h] = "loaded" /\ holder = h
      /\ call \in Calls /\ call.id \in Ids /\ call.payload \in Payloads
      /\ call.expected = n + 1 /\ call.expected < MaxVersion
      /\ run.operations[call.id] = None
      /\ run' = [version |-> n + 2,
                 operations |-> [run.operations EXCEPT ![call.id] = call.payload],
                 log |-> Append(run.log, call)]
  BY ApplyWrites
<1>2. run \in Runs /\ run.log \in Seq(Calls) /\ n \in Nat
  BY DEF IInv, TypeOK, Runs
<1>3. /\ Len(run'.log) = n + 1
      /\ \A i \in 1 .. n : run'.log[i] = run.log[i]
      /\ run'.log[n + 1] = call
  BY <1>1, <1>2
<1>old. /\ \A i \in 1 .. n : /\ run.log[i].id \in Ids /\ run.log[i].id # call.id
                            /\ run.log[i].payload \in Payloads
                            /\ run.log[i].expected = i
                            /\ run.operations[run.log[i].id] = run.log[i].payload
      /\ \A i, j \in 1 .. n : run.log[i].id = run.log[j].id => i = j
  <2>1. ASSUME NEW i \in 1 .. n
        PROVE  run.log[i].id \in Ids /\ run.log[i].payload \in Payloads
    <3>1. run.log[i] \in Calls
      BY <1>2
    <3> QED
      BY <3>1 DEF Calls
  <2>2. EffectsAreRecorded
    BY DEF IInv
  <2>3. \A i \in 1 .. n : run.operations[run.log[i].id] # None
    BY <2>1, <2>2 DEF EffectsAreRecorded
  <2>4. \A i \in 1 .. n : run.log[i].id # call.id
    BY <1>1, <2>3
  <2> QED
    BY <2>1, <2>2, <2>4 DEF EffectsAreRecorded
<1>recorded. ASSUME NEW id \in Ids, run.operations[id] # None
             PROVE  \E i \in 1 .. n : run.log[i].id = id
  BY <1>recorded DEF IInv, EffectsAreRecorded
<1>4. run' \in Runs
  <2>1. n + 2 \in Versions
    BY <1>1, <1>2 DEF Versions
  <2>2. Append(run.log, call) \in Seq(Calls)
    BY <1>1, <1>2
  <2>3. [run.operations EXCEPT ![call.id] = call.payload] \in [Ids -> Payloads \cup {None}]
    BY <1>1, <1>2 DEF Runs
  <2> QED
    BY <1>1, <2>1, <2>2, <2>3 DEF Runs
<1>5. copy' = [copy EXCEPT ![h] = run']
  BY <1>1, RecordTellsEffect DEF Apply
<1>6. TypeOK'
  BY <1>4, <1>5 DEF IInv, TypeOK, Apply, AnswerWith, Goto, Stages
<1>7. EffectsAreRecorded'
  <2>1. run'.version = Len(run'.log) + 1
    BY <1>1, <1>2, <1>3
  <2>2. \A i \in 1 .. n + 1 :
          /\ run'.log[i].expected = i
          /\ run'.operations[run'.log[i].id] = run'.log[i].payload
    <3>1. ASSUME NEW i \in 1 .. n
          PROVE  /\ run'.log[i].expected = i
                 /\ run'.operations[run'.log[i].id] = run'.log[i].payload
      BY <1>1, <1>2, <1>3, <1>old DEF Runs
    <3>2. /\ run'.log[n + 1].expected = n + 1
          /\ run'.operations[run'.log[n + 1].id] = run'.log[n + 1].payload
      BY <1>1, <1>2, <1>3 DEF Runs
    <3> QED
      BY <1>2, <3>1, <3>2
  <2>3. \A i, j \in 1 .. n + 1 : run'.log[i].id = run'.log[j].id => i = j
    <3>1. SUFFICES ASSUME NEW i \in 1 .. n + 1, NEW j \in 1 .. n + 1,
                          run'.log[i].id = run'.log[j].id
                   PROVE  i = j
      OBVIOUS
    <3> HIDE DEF call, n
    <3>2. CASE i \in 1 .. n /\ j \in 1 .. n
      BY <1>3, <1>old, <3>1, <3>2
    <3>3. CASE i = n + 1 /\ j \in 1 .. n
      BY <1>3, <1>old, <3>1, <3>3
    <3>4. CASE i \in 1 .. n /\ j = n + 1
      BY <1>3, <1>old, <3>1, <3>4
    <3> QED
      BY <1>2, <3>2, <3>3, <3>4
  <2>4. \A id \in Ids : run'.operations[id] # None =>
           \E i \in 1 .. n + 1 : run'.log[i].id = id
    <3>1. SUFFICES ASSUME NEW id \in Ids, run'.operations[id] # None
                   PROVE  \E i \in 1 .. n + 1 : run'.log[i].id = id
      OBVIOUS
    <3>2. CASE id = call.id
      BY <1>2, <1>3, <3>2
    <3>3. CASE id # call.id
      <4>1. run.operations[id] # None
        BY <1>1, <1>2, <3>1, <3>3 DEF Runs
      <4>2. PICK i \in 1 .. n : run.log[i].id = id
        BY <1>recorded, <4>1
      <4>3. run'.log[i].id = id
        BY <1>3, <4>2
      <4> QED
        BY <1>2, <4>2, <4>3
    <3> QED
      BY <3>2, <3>3
  <2> QED
    BY <1>3, <2>1, <2>2, <2>3, <2>4 DEF EffectsAreRecorded
<1>8. AnswersAreKept'
  <2>1. AnswersAreKept /\ run.version = n + 1 /\ UNCHANGED <<seen, acknowledged>>
    BY DEF IInv, EffectsAreRecorded, Apply, AnswerWith
  <2>2. ASSUME NEW a \in acknowledged
        PROVE  \E i \in 1 .. n + 1 : Identity(run'.log[i]) = a
    <3>1. PICK i \in 1 .. n : Identity(run.log[i]) = a
      BY <2>1, <2>2 DEF AnswersAreKept
    <3> QED
      BY <1>2, <1>3, <3>1
  <2>3. ASSUME NEW u \in Hosts PROVE seen[u] <= run'.version
    <3>1. seen[u] <= n + 1 /\ seen[u] \in Nat
      BY <2>1, <2>3 DEF AnswersAreKept, IInv, TypeOK, Versions
    <3> QED
      BY <1>1, <1>2, <3>1
  <2> QED
    BY <1>3, <2>1, <2>2, <2>3 DEF AnswersAreKept, Identity
<1>9. HostInv'
  <2>1. InEffect(call)'
    <3>1. request' = request
      BY DEF Apply, AnswerWith
    <3>2. n + 1 \in 1 .. Len(run'.log)
      BY <1>2, <1>3
    <3>3. run'.log[n + 1] = request'[h]
      BY <1>3, <3>1
    <3>4. \E i \in 1 .. Len(run'.log) :
            <<run'.log[i].id, run'.log[i].payload>> = <<request'[h].id, request'[h].payload>>
      BY <3>2, <3>3
    <3> QED
      BY <3>4 DEF InEffect, Identity
  <2>2. \A u \in Hosts : u # h => stage[u] \notin Holding /\ reply[u] = None
    BY <1>1 DEF IInv, HostInv, Holding
  <2>3. /\ stage' = [stage EXCEPT ![h] = "answered"]
        /\ reply' = [reply EXCEPT ![h] = "APPLIED"]
        /\ request' = request /\ holder' = holder
    BY DEF Apply, AnswerWith, Goto
  <2> QED
    BY <1>1, <1>5, <2>1, <2>2, <2>3 DEF IInv, TypeOK, HostInv, Holding, Refusals
<1> QED
  BY <1>6, <1>7, <1>8, <1>9 DEF IInv

----------------------------------------------------------------------------
LEMMA NextKeepsIInv == IInv /\ [Next]_vars => IInv'
<1> SUFFICES ASSUME IInv, [Next]_vars PROVE IInv'
  OBVIOUS
<1>1. CASE UNCHANGED vars
  <2>1. UNCHANGED <<holder, run, stage, request, copy, reply, seen, acknowledged, crashes>>
    BY <1>1 DEF vars, host
  <2>2. TypeOK'
    BY <2>1 DEF IInv, TypeOK
  <2>3. HostInv'
    BY <2>1 DEF IInv, HostInv, InEffect, Identity
  <2>4. ASSUME IInv PROVE EffectsAreRecorded' /\ AnswersAreKept'
    BY <2>1, <2>4, RunUnchanged
  <2> QED
    BY <2>2, <2>3, <2>4 DEF IInv
<1>2. CASE Next
  BY <1>2, HostKeepsIInv, EnterKeepsIInv, LoadKeepsIInv, ReplayKeepsIInv,
     RefuseKeepsIInv, ApplyKeepsIInv, ReturnKeepsIInv DEF Next, Step, Mutate
<1> QED
  BY <1>1, <1>2

THEOREM Invariance == Spec => []IInv
<1> QED
  BY InitIInv, NextKeepsIInv, PTL DEF Spec

\* run.json and the calls of the Hosts keep their types.
THEOREM TypeCorrect == Spec => []TypeOK
<1>1. IInv => TypeOK
  BY DEF IInv
<1> QED
  BY <1>1, Invariance, PTL

\* Whatever the Hosts call, repeat and lose, each recorded operation took effect
\* once, on the version its Host had seen.
THEOREM EffectsAreExactlyOnce == Spec => []EffectsAreRecorded
<1>1. IInv => EffectsAreRecorded
  BY DEF IInv
<1> QED
  BY <1>1, Invariance, PTL

\* An answer that a Host has read stays true.
THEOREM AnswersAreDurable == Spec => []AnswersAreKept
<1>1. IInv => AnswersAreKept
  BY DEF IInv
<1> QED
  BY <1>1, Invariance, PTL

\* A repeated call that took effect before its answer was lost is not refused.
THEOREM RetriesAreRecognised == Spec => []EffectIsNeverRefused
<1>1. IInv => EffectIsNeverRefused
  BY DEF IInv, HostInv, EffectIsNeverRefused
<1> QED
  BY <1>1, Invariance, PTL

----------------------------------------------------------------------------
(* _mutate implements OperationRegister *)

LEMMA ApplyRefines == ASSUME IInv, NEW h \in Hosts, Apply(h) PROVE Register!Next
<1>1. /\ request[h] \in Calls
      /\ request[h].payload \in Payloads
      /\ request[h].expected = Len(run.log) + 1
      /\ run.operations[request[h].id] = None
      /\ run'.log = Append(run.log, request[h])
  BY ApplyWrites
<1>2. ASSUME NEW i \in 1 .. Len(run.log) PROVE run.log[i].id # request[h].id
  <2>1. run.log[i] \in Calls
    BY DEF IInv, TypeOK, Runs
  <2>2. run.operations[run.log[i].id] \in Payloads
    BY <2>1 DEF IInv, EffectsAreRecorded, Calls
  <2> QED
    BY <1>1, <2>2
<1>3. UNCHANGED acknowledged
  BY DEF Apply, AnswerWith
<1>4. Register!Perform(request[h])
  BY <1>1, <1>2, <1>3 DEF Register!Perform
<1> QED
  BY <1>1, <1>4 DEF Register!Next

LEMMA ReturnRefines ==
    ASSUME IInv, NEW h \in Hosts, Return(h)
    PROVE  Register!Next \/ UNCHANGED <<run.log, acknowledged>>
<1>1. UNCHANGED run /\ request[h] \in Calls
  BY DEF IInv, HostInv, Return
<1>2. CASE reply[h] = "APPLIED"
  <2>1. InEffect(request[h])
    BY <1>2 DEF IInv, HostInv
  <2>2. acknowledged' = acknowledged \cup {<<request[h].id, request[h].payload>>}
    BY <1>2 DEF Return
  <2>3. Register!Acknowledge(request[h])
    BY <1>1, <2>1, <2>2 DEF Register!Acknowledge, Register!Identity, InEffect, Identity
  <2> QED
    BY <1>1, <2>3 DEF Register!Next
<1>3. CASE reply[h] # "APPLIED"
  BY <1>1, <1>3 DEF Return
<1> QED
  BY <1>2, <1>3

LEMMA StepRefines == IInv /\ [Next]_vars => [Register!Next]_<<run.log, acknowledged>>
<1> SUFFICES ASSUME IInv, [Next]_vars
             PROVE  Register!Next \/ UNCHANGED <<run.log, acknowledged>>
  OBVIOUS
<1>1. CASE UNCHANGED vars
  BY <1>1 DEF vars
<1>2. ASSUME NEW h \in Hosts, Step(h) \/ Crash(h), ~ Apply(h), ~ Return(h)
      PROVE  UNCHANGED <<run, acknowledged>>
  BY <1>2 DEF Step, Mutate, ReadStatus, Call, CallAgain, Crash, Enter, Load, Replay,
              Refuse, AnswerWith
<1> QED
  BY <1>1, <1>2, ApplyRefines, ReturnRefines DEF Next

\* Seen from outside, concurrent calls with crashes and retries are calls that
\* take effect one after the other, each at most once and on the state its Host
\* had seen, and that are answered only afterwards.
THEOREM LedgerImplementsRegister == Spec => ImplementsRegister
<1>1. Init => Register!Init
  BY DEF Init, Register!Init
<1>2. Spec => [][Register!Next]_<<run.log, acknowledged>>
  BY Invariance, StepRefines, PTL DEF Spec
<1> QED
  BY <1>1, <1>2, PTL DEF Spec, ImplementsRegister, Register!Spec
====
