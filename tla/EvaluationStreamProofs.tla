------------------------ MODULE EvaluationStreamProofs ------------------------
(***************************************************************************)
(* Proofs about EvaluationStream, for any number of workers, operators and  *)
(* windows: types, the atomic, ordered and exact history of the stream, and *)
(* the refinement of EvaluationLedger.                                      *)
(***************************************************************************)
EXTENDS EvaluationStream, TLAPS

-------------------------------------------------------------------------------
(* Types *)

\* TypeOK in three groups, so that an action is checked on what it changes.
TableTypes ==
    /\ metricState \in StateRecord
    /\ observations \subseteq Windows
    /\ DOMAIN evaluations \subseteq Windows
    /\ evaluations \in [DOMAIN evaluations -> EvaluationRecord]

ClaimTypes ==
    /\ claims \in [Windows -> Workers \cup {Nil}]
    /\ expired \subseteq Windows
    /\ streamLock \in Workers \cup {Nil}

\* ... with the strengthening that a call under way works on a window.
CallTypes ==
    /\ pc \in [Workers -> PCs]
    /\ job \in [Workers -> Windows \cup {Nil}]
    /\ outcome \in [Workers -> Outcomes]
    /\ \A p \in Workers : pc[p] # "idle" => job[p] \in Windows

LocalTypes ==
    /\ attempts \in [Workers -> Nat]
    /\ hasData \in [Workers -> BOOLEAN]
    /\ snapshot \in [Workers -> StateRecord]
    /\ history \in [Workers -> SUBSET Windows]
    /\ lateClaim \in [Workers -> BOOLEAN]

OperatorTypes ==
    /\ operatorPc \in [Operators -> {"idle", "write"}]
    /\ operatorView \in [Operators -> StateRecord]

TypeInv ==
    TableTypes /\ ClaimTypes /\ CallTypes /\ LocalTypes /\ OperatorTypes

LEMMA TypeInvImpliesTypeOK == TypeInv => TypeOK
  BY DEF TypeInv, TableTypes, ClaimTypes, CallTypes, LocalTypes,
         OperatorTypes, TypeOK

LEMMA NoRowType == NoRow \in StateRecord
  BY DEF NoRow, StateRecord

\* The three ways a worker moves on leave well-typed variables behind.
LEMMA ReturnTypes ==
  ASSUME TypeInv, NEW p \in Workers, Return(p)
  PROVE  CallTypes' /\ LocalTypes'
<1>1. CallTypes'
  BY DEF TypeInv, CallTypes, Return, PCs, Outcomes
<1>2. LocalTypes'
  BY NoRowType DEF TypeInv, LocalTypes, Return, ResetLocals, DropReads
<1>. QED
  BY <1>1, <1>2

LEMMA FinishTypes ==
  ASSUME TypeInv, NEW p \in Workers, NEW how \in Outcomes, Finish(p, how),
         pc[p] # "idle", job' = job
  PROVE  CallTypes' /\ LocalTypes'
<1>1. CallTypes'
  BY DEF TypeInv, CallTypes, Finish, PCs
<1>2. LocalTypes'
  BY NoRowType DEF TypeInv, LocalTypes, Finish, ResetLocals, DropReads
<1>. QED
  BY <1>1, <1>2

LEMMA ConflictTypes ==
  ASSUME TypeInv, NEW p \in Workers, Conflict(p), pc[p] # "idle", job' = job
  PROVE  CallTypes' /\ LocalTypes'
<1>1. CASE attempts[p] + 1 >= CommitAttempts
  BY <1>1, FinishTypes DEF Conflict, Outcomes
<1>2. CASE ~ (attempts[p] + 1 >= CommitAttempts)
  <2>1. CallTypes'
    BY <1>2 DEF TypeInv, CallTypes, Conflict, PCs
  <2>2. LocalTypes'
    BY <1>2, NoRowType DEF TypeInv, LocalTypes, Conflict, DropReads
  <2>. QED
    BY <2>1, <2>2
<1>. QED
  BY <1>1, <1>2

LEMMA InitType == Init => TypeInv
<1> SUFFICES ASSUME Init PROVE TypeInv
  OBVIOUS
<1> USE NoRowType DEF Init
<1>1. TableTypes
  BY DEF TableTypes
<1>2. ClaimTypes
  BY DEF ClaimTypes
<1>3. CallTypes
  BY DEF CallTypes, PCs, Outcomes
<1>4. LocalTypes
  BY DEF LocalTypes
<1>5. OperatorTypes
  BY DEF OperatorTypes
<1>. QED
  BY <1>1, <1>2, <1>3, <1>4, <1>5 DEF TypeInv

LEMMA NextType == TypeInv /\ [Next]_vars => TypeInv'
<1> SUFFICES ASSUME TypeInv, [Next]_vars PROVE TypeInv'
  OBVIOUS
<1> USE DEF TypeInv, TableTypes, ClaimTypes, OperatorTypes,
            tables, claimVars, locals, operators
<1>1. ASSUME NEW p \in Workers, NEW w \in Windows, Process(p, w)
      PROVE  TypeInv'
  BY <1>1 DEF Process, CallTypes, LocalTypes, PCs
<1>2. ASSUME NEW p \in Workers, Proceed(p)
      PROVE  TypeInv'
  <2>1. CASE ClaimCheck(p)
    <3>1. CASE Committed(job[p])
      BY <2>1, <3>1, ReturnTypes DEF ClaimCheck
    <3>2. CASE ~ Committed(job[p])
      BY <2>1, <3>2 DEF ClaimCheck, CallTypes, LocalTypes, PCs
    <3>. QED
      BY <3>1, <3>2
  <2>2. CASE ClaimRefused(p)
    BY <2>2, ReturnTypes DEF ClaimRefused
  <2>3. CASE InsertClaim(p)
    <3>1. job[p] \in Windows
      BY <2>3 DEF InsertClaim, CallTypes
    <3>2. CASE Committed(job[p])
      BY <2>3, <3>1, <3>2, ReturnTypes DEF InsertClaim
    <3>3. CASE ~ Committed(job[p])
      <4>1. LaterIsAhead(job[p]) \in BOOLEAN
        BY DEF LaterIsAhead
      <4>2. CallTypes' /\ LocalTypes'
        BY <2>3, <3>3, <4>1 DEF InsertClaim, CallTypes, LocalTypes, PCs
      <4>. QED
        BY <2>3, <3>1, <3>3, <4>2 DEF InsertClaim
    <3>. QED
      BY <3>2, <3>3
  <2>4. CASE \E value \in BOOLEAN : Evaluate(p, value)
    BY <2>4 DEF Evaluate, CallTypes, LocalTypes, PCs
  <2>5. CASE OrderedStreamCommit(p)
    <3>1. CASE StaleFor(metricState, job[p])
      BY <2>5, <3>1, FinishTypes DEF OrderedStreamCommit, Outcomes
    <3>2. CASE ~ StaleFor(metricState, job[p])
      BY <2>5, <3>2 DEF OrderedStreamCommit, CallTypes, LocalTypes, PCs
    <3>. QED
      BY <3>1, <3>2
  <2>6. CASE WaitTimeout(p)
    BY <2>6, FinishTypes DEF WaitTimeout, Outcomes
  <2>7. CASE ReadState(p)
    <3>1. CASE StaleFor(metricState, job[p])
      BY <2>7, <3>1, FinishTypes DEF ReadState, Outcomes
    <3>2. CASE ~ StaleFor(metricState, job[p])
      BY <2>7, <3>2 DEF ReadState, CallTypes, LocalTypes, PCs
    <3>. QED
      BY <3>1, <3>2
  <2>8. CASE ReadHistory(p)
    BY <2>8 DEF ReadHistory, CallTypes, LocalTypes, PCs
  <2>9. CASE VersionConflict(p)
    BY <2>9, ConflictTypes DEF VersionConflict
  <2>10. CASE Apply(p)
    <3>1. job[p] \in Windows
      BY <2>10 DEF Apply, CallTypes
    <3>2. StagedRecord(p) \in StateRecord
      <4> DEFINE seen == snapshot[p]
                 list == Append(seen.applied, job[p])
      <4>1. seen \in StateRecord
        BY DEF LocalTypes
      <4>2. seen.version + 1 \in Nat /\ seen.applied \in Seq(Windows \cup {Ack})
        BY <4>1 DEF StateRecord
      <4>3. list \in Seq(Windows \cup {Ack})
        BY <3>1, <4>2
      <4>4. EffectiveAt[job[p]] \in Nat
        BY <3>1, StreamAssumption
      <4> HIDE DEF list
      <4>5. [version |-> seen.version + 1, lastAt |-> EffectiveAt[job[p]],
             applied |-> list] \in StateRecord
        BY <4>2, <4>3, <4>4 DEF StateRecord
      <4>. QED
        BY <4>5 DEF list, StagedRecord
    <3>3. StagedEvaluation(p) \in EvaluationRecord
      BY DEF LocalTypes, StagedEvaluation, EvaluationRecord
    <3>4. TableTypes'
      BY <2>10, <3>1, <3>2, <3>3 DEF Apply, WriteTables
    <3>5. CallTypes' /\ LocalTypes'
      BY <2>10, FinishTypes DEF Apply, Outcomes
    <3>. QED
      BY <2>10, <3>4, <3>5 DEF Apply, WriteTables
  <2>11. CASE ReleaseEvaluationClaim(p)
    <3>1. CallTypes' /\ LocalTypes'
      BY <2>11, ReturnTypes DEF ReleaseEvaluationClaim
    <3>. QED
      BY <2>11, <3>1 DEF ReleaseEvaluationClaim
  <2>. QED
    BY <1>2, <2>1, <2>2, <2>3, <2>4, <2>5, <2>6, <2>7, <2>8, <2>9, <2>10,
       <2>11 DEF Proceed
<1>3. ASSUME NEW p \in Workers, TakeLock(p)
      PROVE  TypeInv'
  <2>1. CASE RecheckFails(p)
    BY <2>1, FinishTypes DEF RecheckFails, Outcomes
  <2>2. CASE RecheckConflict(p)
    BY <2>2, ConflictTypes DEF RecheckConflict
  <2>3. CASE RecheckUnderLock(p)
    BY <2>3 DEF RecheckUnderLock, CallTypes, LocalTypes, PCs
  <2>. QED
    BY <1>3, <2>1, <2>2, <2>3 DEF TakeLock
<1>4. ASSUME NEW p \in Workers, Fail(p)
      PROVE  TypeInv'
  <2>1. CallTypes' /\ LocalTypes'
    BY <1>4, FinishTypes DEF Fail, Outcomes
  <2>. QED
    BY <1>4, <2>1 DEF Fail
<1>5. ASSUME NEW p \in Workers, Crash(p)
      PROVE  TypeInv'
  <2>1. CallTypes' /\ LocalTypes'
    BY <1>5, ReturnTypes DEF Crash
  <2>. QED
    BY <1>5, <2>1 DEF Crash
<1>6. ASSUME NEW w \in Windows, ExpireClaim(w)
      PROVE  TypeInv'
  BY <1>6 DEF ExpireClaim, CallTypes, LocalTypes
<1>7. ASSUME NEW o \in Operators, AcknowledgeRead(o)
      PROVE  TypeInv'
  BY <1>7 DEF AcknowledgeRead, CallTypes, LocalTypes
<1>8. ASSUME NEW o \in Operators, AcknowledgeWrite(o)
      PROVE  TypeInv'
  <2>1. AcknowledgedRecord(o) \in StateRecord
    BY DEF AcknowledgedRecord, StateRecord
  <2>2. metricState' \in StateRecord
    BY <1>8, <2>1 DEF AcknowledgeWrite
  <2>. QED
    BY <1>8, <2>2, NoRowType DEF AcknowledgeWrite, CallTypes, LocalTypes
<1>9. CASE UNCHANGED vars
  BY <1>9 DEF vars, CallTypes, LocalTypes
<1>. QED
  BY <1>1, <1>2, <1>3, <1>4, <1>5, <1>6, <1>7, <1>8, <1>9 DEF Next

\* Every variable keeps its type, whatever the workers, windows and bounds.
THEOREM TypeCorrect == Spec => []TypeOK
  BY InitType, NextType, TypeInvImpliesTypeOK, PTL DEF Spec

-------------------------------------------------------------------------------
(* What a step does to a worker and to the tables *)

Stays(q) ==
    /\ pc'[q] = pc[q]
    /\ job'[q] = job[q]
    /\ hasData'[q] = hasData[q]
    /\ snapshot'[q] = snapshot[q]
    /\ history'[q] = history[q]
    /\ outcome'[q] = outcome[q]
    /\ lateClaim'[q] = lateClaim[q]

WorkerStep(q) ==
    \/ \E w \in Windows : Process(q, w)
    \/ Proceed(q)
    \/ TakeLock(q)
    \/ Fail(q)
    \/ Crash(q)

OtherStep ==
    \/ \E w \in Windows : ExpireClaim(w)
    \/ \E o \in Operators : AcknowledgeRead(o) \/ AcknowledgeWrite(o)
    \/ UNCHANGED vars

LEMMA StepCases ==
  [Next]_vars => OtherStep \/ \E p \in Workers : WorkerStep(p)
  BY DEF Next, OtherStep, WorkerStep

\* A worker's variables change in its own steps only.
LEMMA OnlyOwnSteps ==
  ASSUME TypeInv, [Next]_vars, NEW q \in Workers
  PROVE  Stays(q) \/ WorkerStep(q)
<1> USE DEF Stays, locals
<1>1. CASE OtherStep
  BY <1>1 DEF OtherStep, ExpireClaim, AcknowledgeRead, AcknowledgeWrite, vars
<1>2. ASSUME NEW p \in Workers, WorkerStep(p), p # q
      PROVE  Stays(q)
  <2> USE <1>2 DEF TypeInv, CallTypes, LocalTypes
  <2>1. ASSUME Return(p) PROVE Stays(q)
    BY <2>1 DEF Return, ResetLocals, DropReads
  <2>2. ASSUME NEW how, Finish(p, how), job' = job PROVE Stays(q)
    BY <2>2 DEF Finish, ResetLocals, DropReads
  <2>3. ASSUME Conflict(p), job' = job PROVE Stays(q)
    BY <2>2, <2>3 DEF Conflict, DropReads
  <2>4. ASSUME NEW w \in Windows, Process(p, w) PROVE Stays(q)
    BY <2>4 DEF Process
  <2>5. ASSUME Proceed(p) PROVE Stays(q)
    <3>1. CASE ClaimCheck(p)
      BY <3>1, <2>1 DEF ClaimCheck
    <3>2. CASE ClaimRefused(p)
      BY <3>2, <2>1 DEF ClaimRefused
    <3>3. CASE InsertClaim(p)
      BY <3>3, <2>1 DEF InsertClaim
    <3>4. CASE \E value \in BOOLEAN : Evaluate(p, value)
      BY <3>4 DEF Evaluate
    <3>5. CASE OrderedStreamCommit(p)
      BY <3>5, <2>2 DEF OrderedStreamCommit
    <3>6. CASE WaitTimeout(p)
      BY <3>6, <2>2 DEF WaitTimeout
    <3>7. CASE ReadState(p)
      BY <3>7, <2>2 DEF ReadState
    <3>8. CASE ReadHistory(p)
      BY <3>8 DEF ReadHistory
    <3>9. CASE VersionConflict(p)
      BY <3>9, <2>3 DEF VersionConflict
    <3>10. CASE Apply(p)
      BY <3>10, <2>2 DEF Apply
    <3>11. CASE ReleaseEvaluationClaim(p)
      BY <3>11, <2>1 DEF ReleaseEvaluationClaim
    <3>. QED
      BY <2>5, <3>1, <3>2, <3>3, <3>4, <3>5, <3>6, <3>7, <3>8, <3>9, <3>10,
         <3>11 DEF Proceed
  <2>6. ASSUME TakeLock(p) PROVE Stays(q)
    BY <2>6, <2>2, <2>3
    DEF TakeLock, RecheckFails, RecheckConflict, RecheckUnderLock
  <2>7. ASSUME Fail(p) PROVE Stays(q)
    BY <2>7, <2>2 DEF Fail
  <2>8. ASSUME Crash(p) PROVE Stays(q)
    BY <2>8, <2>1 DEF Crash
  <2>. QED
    BY <2>4, <2>5, <2>6, <2>7, <2>8 DEF WorkerStep
<1>. QED
  BY <1>1, <1>2, StepCases

\* The two steps that write the tables, seen from the tables: the state grows
\* by one write that is derived from the current record.
AckEffect ==
    /\ metricState' = [version |-> metricState.version + 1,
                       lastAt  |-> metricState.lastAt,
                       applied |-> Append(metricState.applied, Ack)]
    /\ UNCHANGED <<observations, evaluations>>

CommitEffect(p) ==
    /\ pc[p] = "write"
    /\ job[p] \in Windows
    /\ job[p] \notin DOMAIN evaluations
    /\ metricState.lastAt < EffectiveAt[job[p]]
    /\ metricState' = [version |-> metricState.version + 1,
                       lastAt  |-> EffectiveAt[job[p]],
                       applied |-> Append(metricState.applied, job[p])]
    /\ observations' = observations \cup {job[p]}
    /\ evaluations' = [w \in DOMAIN evaluations \cup {job[p]} |->
                         IF w = job[p] THEN StagedEvaluation(p)
                                       ELSE evaluations[w]]
    /\ hasData[p] => history[p] = observations

\* The version guard accepts exactly what is derived from the current record.
LEMMA GuardMeansCurrent ==
  ASSUME TypeInv, NEW record \in StateRecord, NEW staged,
         UpToDate(record), staged.version = record.version + 1,
         VersionGuard(staged)
  PROVE  record = metricState
  BY DEF TypeInv, TableTypes, StateRecord, UpToDate, VersionGuard

LEMMA ApplyEffect ==
  ASSUME TypeInv, IInv, NEW p \in Workers, Apply(p)
  PROVE  CommitEffect(p)
<1>1. pc[p] = "write" /\ job[p] \in Windows
  BY DEF Apply, TypeInv, CallTypes
<1>2. job[p] \notin DOMAIN evaluations /\ metricState.lastAt < EffectiveAt[job[p]]
  BY <1>1, StreamAssumption
  DEF IInv, RecheckHolds, Committed, StaleFor, TypeInv, TableTypes, StateRecord
<1>3. snapshot[p] = metricState
  <2>1. UpToDate(snapshot[p]) /\ snapshot[p] \in StateRecord
    BY <1>1 DEF IInv, SnapshotFresh, TypeInv, LocalTypes
  <2>2. /\ StagedRecord(p).version = snapshot[p].version + 1
        /\ VersionGuard(StagedRecord(p))
    BY DEF StagedRecord, Apply, WriteTables
  <2>. QED
    BY <2>1, <2>2, GuardMeansCurrent
<1>4. hasData[p] => history[p] = observations
  BY <1>1, <1>3 DEF IInv, HistoryFresh
<1>. QED
  BY <1>1, <1>2, <1>3, <1>4 DEF Apply, WriteTables, StagedRecord, CommitEffect

LEMMA AcknowledgeEffect ==
  ASSUME TypeInv, IInv, NEW o \in Operators, AcknowledgeWrite(o)
  PROVE  UNCHANGED tables \/ AckEffect
<1>1. CASE VersionGuard(AcknowledgedRecord(o))
  <2>1. UpToDate(operatorView[o]) /\ operatorView[o] \in StateRecord
    BY DEF AcknowledgeWrite, IInv, ViewFresh, TypeInv, OperatorTypes
  <2>2. AcknowledgedRecord(o).version = operatorView[o].version + 1
    BY DEF AcknowledgedRecord
  <2>3. operatorView[o] = metricState
    BY <1>1, <2>1, <2>2, GuardMeansCurrent
  <2>. QED
    BY <1>1, <2>3 DEF AcknowledgeWrite, AcknowledgedRecord, AckEffect
<1>2. CASE ~ VersionGuard(AcknowledgedRecord(o))
  BY <1>2 DEF AcknowledgeWrite, tables
<1>. QED
  BY <1>1, <1>2

LEMMA TableSteps ==
  ASSUME TypeInv, IInv, [Next]_vars
  PROVE  \/ UNCHANGED tables
         \/ AckEffect
         \/ \E p \in Workers : Apply(p) /\ CommitEffect(p)
<1>1. CASE OtherStep
  BY <1>1, AcknowledgeEffect
  DEF OtherStep, ExpireClaim, AcknowledgeRead, vars, tables
<1>2. ASSUME NEW p \in Workers, WorkerStep(p), ~ Apply(p)
      PROVE  UNCHANGED tables
  BY <1>2
  DEF WorkerStep, Process, Proceed, TakeLock, Fail, Crash, ClaimCheck,
      ClaimRefused, InsertClaim, Evaluate, OrderedStreamCommit, WaitTimeout,
      ReadState, ReadHistory, VersionConflict, ReleaseEvaluationClaim,
      RecheckFails, RecheckConflict, RecheckUnderLock
<1>. QED
  BY <1>1, <1>2, StepCases, ApplyEffect

-------------------------------------------------------------------------------
(* The inductive invariant *)

LEMMA InitIInv == Init => IInv
<1> SUFFICES ASSUME Init PROVE IInv
  OBVIOUS
<1> USE DEF Init, NoRow
<1>1. LockOwner
  BY StreamAssumption DEF LockOwner
<1>2. AtomicCommit
  BY DEF AtomicCommit, AppliedWindows
<1>3. /\ SnapshotFresh /\ ViewFresh /\ HistoryFresh /\ RecheckHolds
      /\ NotYetStored /\ OrderedState /\ HistoryIsExact /\ OneWinner /\ NoOvertaking
  BY DEF SnapshotFresh, ViewFresh, HistoryFresh, RecheckHolds, NotYetStored,
         OrderedState, HistoryIsExact, OneWinner, NoOvertaking
<1>. QED
  BY <1>1, <1>2, <1>3 DEF IInv

LEMMA NextLockOwner ==
  ASSUME TypeInv, IInv, [Next]_vars
  PROVE  LockOwner'
<1> SUFFICES ASSUME NEW q \in Workers
             PROVE  pc'[q] = "write" <=> streamLock' = q
  BY DEF LockOwner
<1> USE StreamAssumption DEF IInv, LockOwner, TypeInv, CallTypes, ClaimTypes
<1>1. CASE OtherStep
  BY <1>1 DEF OtherStep, ExpireClaim, AcknowledgeRead, AcknowledgeWrite, vars
<1>2. ASSUME NEW p \in Workers, WorkerStep(p)
      PROVE  pc'[q] = "write" <=> streamLock' = q
  <2> USE <1>2
  <2>1. ASSUME Return(p) PROVE pc' = [pc EXCEPT ![p] = "idle"]
    BY <2>1 DEF Return
  <2>2. ASSUME NEW how, Finish(p, how) PROVE pc' = [pc EXCEPT ![p] = "release"]
    BY <2>2 DEF Finish
  <2>3. ASSUME Conflict(p)
        PROVE  \/ pc' = [pc EXCEPT ![p] = "release"]
               \/ pc' = [pc EXCEPT ![p] = "wait"]
    BY <2>2, <2>3 DEF Conflict
  <2>4. ASSUME NEW w \in Windows, Process(p, w)
        PROVE  pc'[q] = "write" <=> streamLock' = q
    BY <2>4 DEF Process
  <2>5. ASSUME Proceed(p) PROVE pc'[q] = "write" <=> streamLock' = q
    <3>1. CASE ClaimCheck(p) \/ ClaimRefused(p) \/ InsertClaim(p)
      BY <3>1, <2>1 DEF ClaimCheck, ClaimRefused, InsertClaim
    <3>2. CASE \E value \in BOOLEAN : Evaluate(p, value)
      BY <3>2 DEF Evaluate
    <3>3. CASE OrderedStreamCommit(p) \/ WaitTimeout(p)
      BY <3>3, <2>2 DEF OrderedStreamCommit, WaitTimeout
    <3>4. CASE ReadState(p) \/ ReadHistory(p)
      BY <3>4, <2>2 DEF ReadState, ReadHistory
    <3>5. CASE VersionConflict(p)
      BY <3>5, <2>3 DEF VersionConflict
    <3>6. CASE Apply(p)
      BY <3>6, <2>2 DEF Apply, WriteTables
    <3>7. CASE ReleaseEvaluationClaim(p)
      BY <3>7, <2>1 DEF ReleaseEvaluationClaim
    <3>. QED
      BY <2>5, <3>1, <3>2, <3>3, <3>4, <3>5, <3>6, <3>7 DEF Proceed
  <2>6. ASSUME TakeLock(p) PROVE pc'[q] = "write" <=> streamLock' = q
    <3>1. CASE RecheckFails(p)
      BY <3>1, <2>2 DEF RecheckFails
    <3>2. CASE RecheckConflict(p)
      BY <3>2, <2>3 DEF RecheckConflict
    <3>3. CASE RecheckUnderLock(p)
      BY <3>3 DEF RecheckUnderLock, RecheckPasses
    <3>. QED
      BY <2>6, <3>1, <3>2, <3>3 DEF TakeLock
  <2>7. ASSUME Fail(p) \/ Crash(p) PROVE pc'[q] = "write" <=> streamLock' = q
    BY <2>7, <2>1, <2>2 DEF Fail, Crash
  <2>. QED
    BY <2>4, <2>5, <2>6, <2>7 DEF WorkerStep
<1>. QED
  BY <1>1, <1>2, StepCases

\* The version grows with every write, so what was read once can only become
\* old, never wrong.
LEMMA UpToDateStable ==
  ASSUME TypeInv, IInv, [Next]_vars, NEW record \in StateRecord,
         UpToDate(record)
  PROVE  UpToDate(record)'
<1> USE DEF UpToDate, TypeInv, TableTypes, StateRecord
<1>1. CASE UNCHANGED tables
  BY <1>1 DEF tables
<1>2. CASE AckEffect
  BY <1>2 DEF AckEffect
<1>3. CASE \E p \in Workers : CommitEffect(p)
  BY <1>3 DEF CommitEffect
<1>. QED
  BY <1>1, <1>2, <1>3, TableSteps

LEMMA NextSnapshotFresh ==
  ASSUME TypeInv, IInv, [Next]_vars
  PROVE  SnapshotFresh'
<1> SUFFICES ASSUME NEW q \in Workers,
                    pc'[q] \in {"history", "commit", "write"}
             PROVE  UpToDate(snapshot[q])'
  BY DEF SnapshotFresh
<1>1. CASE Stays(q)
  <2>1. UpToDate(snapshot[q]) /\ snapshot[q] \in StateRecord
    BY <1>1 DEF Stays, IInv, SnapshotFresh, TypeInv, LocalTypes
  <2>. QED
    BY <1>1, <2>1, UpToDateStable DEF Stays, UpToDate
<1>2. CASE WorkerStep(q)
  <2> USE DEF TypeInv, CallTypes, LocalTypes
  <2>1. CASE ReadState(q)
    BY <2>1 DEF ReadState, Finish, tables, UpToDate, TableTypes, StateRecord
  <2>2. CASE ReadHistory(q)
    BY <2>2 DEF ReadHistory, tables, UpToDate, IInv, SnapshotFresh
  <2>3. CASE RecheckUnderLock(q)
    BY <2>3 DEF RecheckUnderLock, locals, tables, UpToDate, IInv, SnapshotFresh
  <2>4. CASE ~ ReadState(q) /\ ~ ReadHistory(q) /\ ~ RecheckUnderLock(q)
    <3>1. pc' # [pc EXCEPT ![q] = "idle"] /\ pc' # [pc EXCEPT ![q] = "release"]
          /\ pc' # [pc EXCEPT ![q] = "wait"]
      OBVIOUS
    <3>. QED
      BY <1>2, <2>4, <3>1
      DEF WorkerStep, Process, Proceed, TakeLock, Fail, Crash, ClaimCheck,
          ClaimRefused, InsertClaim, Evaluate, OrderedStreamCommit,
          WaitTimeout, VersionConflict, Apply, ReleaseEvaluationClaim,
          RecheckFails, RecheckConflict, Return, Finish, Conflict
  <2>. QED
    BY <2>1, <2>2, <2>3, <2>4
<1>. QED
  BY <1>1, <1>2, OnlyOwnSteps

LEMMA NextViewFresh ==
  ASSUME TypeInv, IInv, [Next]_vars
  PROVE  ViewFresh'
<1> SUFFICES ASSUME NEW o \in Operators, operatorPc'[o] = "write"
             PROVE  UpToDate(operatorView[o])'
  BY DEF ViewFresh
<1>1. CASE operatorPc[o] = "write" /\ operatorView'[o] = operatorView[o]
  <2>1. UpToDate(operatorView[o]) /\ operatorView[o] \in StateRecord
    BY <1>1 DEF IInv, ViewFresh, TypeInv, OperatorTypes
  <2>. QED
    BY <1>1, <2>1, UpToDateStable DEF UpToDate
<1>2. CASE AcknowledgeRead(o)
  BY <1>2 DEF AcknowledgeRead, tables, UpToDate, TypeInv, OperatorTypes,
              TableTypes, StateRecord
<1>3. CASE OtherStep /\ ~ AcknowledgeRead(o)
  BY <1>1, <1>3 DEF OtherStep, ExpireClaim, AcknowledgeRead, AcknowledgeWrite,
                    vars, operators, TypeInv, OperatorTypes
<1>4. ASSUME NEW p \in Workers, WorkerStep(p)
      PROVE  UNCHANGED operators
  BY <1>4
  DEF WorkerStep, Process, Proceed, TakeLock, Fail, Crash, ClaimCheck,
      ClaimRefused, InsertClaim, Evaluate, OrderedStreamCommit, WaitTimeout,
      ReadState, ReadHistory, VersionConflict, ReleaseEvaluationClaim, Apply,
      RecheckFails, RecheckConflict, RecheckUnderLock
<1>. QED
  BY <1>1, <1>2, <1>3, <1>4, StepCases DEF operators

\* Every write of the tables moves the version.
LEMMA VersionMoves ==
  ASSUME TypeInv, IInv, [Next]_vars
  PROVE  UNCHANGED tables \/ metricState'.version = metricState.version + 1
<1>1. CASE UNCHANGED tables
  BY <1>1
<1>2. CASE AckEffect
  BY <1>2 DEF AckEffect
<1>3. ASSUME NEW p \in Workers, CommitEffect(p)
      PROVE  metricState'.version = metricState.version + 1
  BY <1>3 DEF CommitEffect
<1>. QED
  BY <1>1, <1>2, <1>3, TableSteps

LEMMA NextHistoryFresh ==
  ASSUME TypeInv, IInv, [Next]_vars
  PROVE  HistoryFresh'
<1> SUFFICES ASSUME NEW q \in Workers,
                    pc'[q] \in {"commit", "write"},
                    hasData'[q],
                    snapshot'[q].version = metricState'.version
             PROVE  history'[q] = observations'
  BY DEF HistoryFresh
<1> USE DEF TypeInv, CallTypes, LocalTypes
<1>1. ASSUME pc[q] \in {"commit", "write"}, hasData'[q] = hasData[q],
             snapshot'[q] = snapshot[q], history'[q] = history[q]
      PROVE  history'[q] = observations'
  <2>1. snapshot[q].version <= metricState.version
    BY <1>1 DEF IInv, SnapshotFresh, UpToDate
  <2>2. UNCHANGED tables
    BY <1>1, <2>1, VersionMoves DEF StateRecord, TableTypes
  <2>. QED
    BY <1>1, <2>2 DEF IInv, HistoryFresh, tables
<1>2. CASE Stays(q)
  BY <1>1, <1>2 DEF Stays
<1>3. CASE WorkerStep(q)
  <2>1. CASE ReadState(q)
    BY <2>1 DEF ReadState, Finish
  <2>2. CASE ReadHistory(q)
    BY <2>2 DEF ReadHistory, tables
  <2>3. CASE RecheckUnderLock(q)
    BY <2>3, <1>1 DEF RecheckUnderLock, locals
  <2>4. CASE ~ ReadState(q) /\ ~ ReadHistory(q) /\ ~ RecheckUnderLock(q)
    BY <1>3, <2>4
    DEF WorkerStep, Process, Proceed, TakeLock, Fail, Crash, ClaimCheck,
        ClaimRefused, InsertClaim, Evaluate, OrderedStreamCommit,
        WaitTimeout, VersionConflict, Apply, ReleaseEvaluationClaim,
        RecheckFails, RecheckConflict, Return, Finish, Conflict
  <2>. QED
    BY <2>1, <2>2, <2>3, <2>4
<1>. QED
  BY <1>2, <1>3, OnlyOwnSteps

\* While a worker holds the lock, the tables stay as its recheck found them.
LEMMA LockProtectsTables ==
  ASSUME TypeInv, IInv, [Next]_vars, NEW q \in Workers,
         pc[q] = "write", ~ Apply(q)
  PROVE  UNCHANGED tables
<1>1. streamLock = q /\ streamLock # Nil
  BY StreamAssumption DEF IInv, LockOwner
<1>2. \A p \in Workers : pc[p] = "write" => p = q
  BY <1>1 DEF IInv, LockOwner
<1>3. \A p \in Workers : ~ Apply(p)
  BY <1>2 DEF Apply
<1>4. \A o \in Operators : ~ AcknowledgeWrite(o)
  BY <1>1 DEF AcknowledgeWrite
<1>5. CASE OtherStep
  BY <1>4, <1>5 DEF OtherStep, ExpireClaim, AcknowledgeRead, vars, tables
<1>6. ASSUME NEW p \in Workers, WorkerStep(p) PROVE UNCHANGED tables
  BY <1>3, <1>6
  DEF WorkerStep, Process, Proceed, TakeLock, Fail, Crash, ClaimCheck,
      ClaimRefused, InsertClaim, Evaluate, OrderedStreamCommit, WaitTimeout,
      ReadState, ReadHistory, VersionConflict, ReleaseEvaluationClaim,
      RecheckFails, RecheckConflict, RecheckUnderLock
<1>. QED
  BY <1>5, <1>6, StepCases

LEMMA NextRecheckHolds ==
  ASSUME TypeInv, IInv, [Next]_vars
  PROVE  RecheckHolds'
<1> SUFFICES ASSUME NEW q \in Workers, pc'[q] = "write"
             PROVE  (~ Committed(job[q]) /\ ~ StaleFor(metricState, job[q]))'
  BY DEF RecheckHolds
<1> USE DEF TypeInv, CallTypes, Committed, StaleFor
<1>1. CASE Stays(q)
  <2>1. ~ Apply(q)
    BY DEF Apply, Finish
  <2>. QED
    BY <1>1, <2>1, LockProtectsTables DEF Stays, tables, IInv, RecheckHolds
<1>2. CASE WorkerStep(q)
  <2>1. CASE RecheckUnderLock(q)
    BY <2>1 DEF RecheckUnderLock, RecheckPasses, tables
  <2>2. CASE ~ RecheckUnderLock(q)
    BY <1>2, <2>2
    DEF WorkerStep, Process, Proceed, TakeLock, Fail, Crash, ClaimCheck,
        ClaimRefused, InsertClaim, Evaluate, OrderedStreamCommit, ReadState,
        ReadHistory, WaitTimeout, VersionConflict, Apply, RecheckFails,
        ReleaseEvaluationClaim, RecheckConflict, Return, Finish, Conflict
  <2>. QED
    BY <2>1, <2>2
<1>. QED
  BY <1>1, <1>2, OnlyOwnSteps

-------------------------------------------------------------------------------
(* The tables: atomic, ordered and exact *)

\* What appending one write does to the sequence of writes.
LEMMA AppendLemma ==
  ASSUME NEW S, NEW s \in Seq(S), NEW e \in S
  PROVE  /\ Append(s, e) \in Seq(S)
         /\ Len(s) \in Nat
         /\ Len(Append(s, e)) = Len(s) + 1
         /\ \A i \in 1 .. Len(s) : Append(s, e)[i] = s[i]
         /\ Append(s, e)[Len(s) + 1] = e
  OBVIOUS

LEMMA AppendPrefix ==
  ASSUME NEW S, NEW s \in Seq(S), NEW e \in S, NEW n \in 0 .. Len(s)
  PROVE  {Append(s, e)[j] : j \in 1 .. n} = {s[j] : j \in 1 .. n}
<1>1. \A j \in 1 .. n : Append(s, e)[j] = s[j]
  BY AppendLemma
<1>. QED
  BY <1>1

LEMMA AppendElements ==
  ASSUME NEW S, NEW s \in Seq(S), NEW e \in S
  PROVE  {Append(s, e)[j] : j \in 1 .. Len(Append(s, e))}
            = {s[j] : j \in 1 .. Len(s)} \cup {e}
<1> DEFINE t == Append(s, e)
<1>1. /\ Len(s) \in Nat
      /\ Len(t) = Len(s) + 1
      /\ \A i \in 1 .. Len(s) : t[i] = s[i]
      /\ t[Len(s) + 1] = e
  BY AppendLemma
<1> HIDE DEF t
<1>2. 1 .. Len(t) = (1 .. Len(s)) \cup {Len(s) + 1}
  BY <1>1
<1>3. {t[j] : j \in 1 .. Len(t)} = {t[j] : j \in 1 .. Len(s)} \cup {t[Len(s) + 1]}
  BY <1>2
<1>4. {t[j] : j \in 1 .. Len(s)} = {s[j] : j \in 1 .. Len(s)}
  BY <1>1
<1>5. {t[j] : j \in 1 .. Len(t)} = {s[j] : j \in 1 .. Len(s)} \cup {e}
  BY <1>1, <1>3, <1>4
<1>. QED
  BY <1>5 DEF t

LEMMA NextAtomicCommit ==
  ASSUME TypeInv, IInv, [Next]_vars
  PROVE  AtomicCommit'
<1> DEFINE A == metricState.applied
           W == Windows \cup {Ack}
<1>1. A \in Seq(W)
  BY DEF TypeInv, TableTypes, StateRecord
<1>2. AtomicCommit
  BY DEF IInv
<1>3. CASE UNCHANGED tables
  BY <1>2, <1>3 DEF tables, AtomicCommit, AppliedWindows
<1>4. CASE AckEffect
  <2>1. A' = Append(A, Ack)
    BY <1>4 DEF AckEffect
  <2>2. AppliedWindows' = AppliedWindows
    BY <1>1, <2>1, AppendElements DEF AppliedWindows
  <2>3. ASSUME NEW i \in 1 .. Len(A'), NEW j \in 1 .. Len(A'),
               A'[i] = A'[j], A'[i] # Ack
        PROVE  i = j
    <3>1. i \in 1 .. Len(A) /\ j \in 1 .. Len(A) /\ A[i] = A'[i] /\ A[j] = A'[j]
      BY <1>1, <2>1, <2>3, AppendLemma
    <3>. QED
      BY <1>2, <2>3, <3>1 DEF AtomicCommit
  <2>. QED
    BY <1>2, <1>4, <2>2, <2>3 DEF AtomicCommit, AckEffect
<1>5. ASSUME NEW p \in Workers, CommitEffect(p)
      PROVE  AtomicCommit'
  <2>1. A' = Append(A, job[p]) /\ job[p] \in Windows /\ job[p] # Ack
    BY <1>5, StreamAssumption DEF CommitEffect
  <2>2. AppliedWindows' = AppliedWindows \cup {job[p]}
    BY <1>1, <2>1, AppendElements DEF AppliedWindows
  <2>3. /\ observations' = observations \cup {job[p]}
        /\ DOMAIN evaluations' = DOMAIN evaluations \cup {job[p]}
        /\ job[p] \notin AppliedWindows
    BY <1>2, <1>5 DEF CommitEffect, AtomicCommit
  <2>4. \A i \in 1 .. Len(A) : A[i] # job[p]
    BY <2>1, <2>3 DEF AppliedWindows
  <2>5. ASSUME NEW i \in 1 .. Len(A'), NEW j \in 1 .. Len(A'),
               A'[i] = A'[j], A'[i] # Ack
        PROVE  i = j
    <3>1. /\ Len(A') = Len(A) + 1 /\ Len(A) \in Nat
          /\ \A k \in 1 .. Len(A) : A'[k] = A[k]
          /\ A'[Len(A) + 1] = job[p]
      BY <1>1, <2>1, AppendLemma
    <3>2. CASE i \in 1 .. Len(A) /\ j \in 1 .. Len(A)
      BY <1>2, <2>5, <3>1, <3>2 DEF AtomicCommit
    <3>3. CASE ~ (i \in 1 .. Len(A) /\ j \in 1 .. Len(A))
      BY <2>4, <2>5, <3>1, <3>3
    <3>. QED
      BY <3>2, <3>3
  <2>. QED
    BY <1>2, <2>2, <2>3, <2>5 DEF AtomicCommit
<1>. QED
  BY <1>3, <1>4, <1>5, TableSteps

LEMMA NextOrderedState ==
  ASSUME TypeInv, IInv, [Next]_vars
  PROVE  OrderedState'
<1> DEFINE A == metricState.applied
           W == Windows \cup {Ack}
<1>1. /\ A \in Seq(W) /\ metricState.lastAt \in Nat
      /\ DOMAIN evaluations \subseteq Windows
  BY DEF TypeInv, TableTypes, StateRecord
<1>2. OrderedState /\ AtomicCommit
  BY DEF IInv
<1>3. CASE UNCHANGED tables
  BY <1>2, <1>3 DEF tables, OrderedState
<1>4. CASE AckEffect
  <2>1. /\ A' = Append(A, Ack) /\ metricState'.lastAt = metricState.lastAt
        /\ evaluations' = evaluations
    BY <1>4 DEF AckEffect
  <2>2. ASSUME NEW i \in 1 .. Len(A'), NEW j \in 1 .. Len(A'),
               i < j, A'[i] # Ack, A'[j] # Ack
        PROVE  EffectiveAt[A'[i]] < EffectiveAt[A'[j]]
    <3>1. i \in 1 .. Len(A) /\ j \in 1 .. Len(A) /\ A[i] = A'[i] /\ A[j] = A'[j]
      BY <1>1, <2>1, <2>2, AppendLemma
    <3>. QED
      BY <1>2, <2>2, <3>1 DEF OrderedState
  <2>. QED
    BY <1>2, <2>1, <2>2 DEF OrderedState
<1>5. ASSUME NEW p \in Workers, CommitEffect(p)
      PROVE  OrderedState'
  <2>1. /\ A' = Append(A, job[p]) /\ job[p] \in Windows /\ job[p] # Ack
        /\ metricState'.lastAt = EffectiveAt[job[p]]
        /\ metricState.lastAt < EffectiveAt[job[p]]
        /\ DOMAIN evaluations' = DOMAIN evaluations \cup {job[p]}
    BY <1>5, StreamAssumption DEF CommitEffect
  <2>2. /\ Len(A') = Len(A) + 1 /\ Len(A) \in Nat
        /\ \A k \in 1 .. Len(A) : A'[k] = A[k]
        /\ A'[Len(A) + 1] = job[p]
    BY <1>1, <2>1, AppendLemma
  <2>3. ASSUME NEW i \in 1 .. Len(A'), NEW j \in 1 .. Len(A'),
               i < j, A'[i] # Ack, A'[j] # Ack
        PROVE  EffectiveAt[A'[i]] < EffectiveAt[A'[j]]
    <3>1. i \in 1 .. Len(A) /\ A'[i] = A[i]
      BY <2>2, <2>3
    <3>2. CASE j \in 1 .. Len(A)
      BY <1>2, <2>2, <2>3, <3>1, <3>2 DEF OrderedState
    <3>3. CASE j = Len(A) + 1
      <4>1. A[i] \in DOMAIN evaluations
        BY <1>2, <2>3, <3>1 DEF AtomicCommit, AppliedWindows
      <4>2. EffectiveAt[A[i]] <= metricState.lastAt
        BY <1>2, <4>1 DEF OrderedState
      <4>3. EffectiveAt[A[i]] \in Nat /\ EffectiveAt[job[p]] \in Nat
        BY <1>1, <2>1, <4>1, StreamAssumption
      <4>. QED
        BY <1>1, <2>1, <2>2, <3>1, <3>3, <4>2, <4>3
    <3>. QED
      BY <2>2, <3>2, <3>3
  <2>4. ASSUME NEW w \in DOMAIN evaluations'
        PROVE  EffectiveAt[w] <= metricState'.lastAt
    <3>1. CASE w \in DOMAIN evaluations
      <4>1. EffectiveAt[w] <= metricState.lastAt
        BY <1>2, <3>1 DEF OrderedState
      <4>2. EffectiveAt[w] \in Nat /\ EffectiveAt[job[p]] \in Nat
        BY <1>1, <2>1, <3>1, StreamAssumption
      <4>. QED
        BY <1>1, <2>1, <4>1, <4>2
    <3>2. CASE w = job[p]
      BY <2>1, <3>2, StreamAssumption
    <3>. QED
      BY <2>1, <2>4, <3>1, <3>2
  <2>. QED
    BY <2>3, <2>4 DEF OrderedState
<1>. QED
  BY <1>3, <1>4, <1>5, TableSteps

LEMMA NextHistoryIsExact ==
  ASSUME TypeInv, IInv, [Next]_vars
  PROVE  HistoryIsExact'
<1> DEFINE A == metricState.applied
           W == Windows \cup {Ack}
           Before(i) == {A[j] : j \in 1 .. i - 1} \ {Ack}
<1>1. A \in Seq(W)
  BY DEF TypeInv, TableTypes, StateRecord
<1>2. HistoryIsExact /\ AtomicCommit
  BY DEF IInv
<1>3. CASE UNCHANGED tables
  BY <1>2, <1>3 DEF tables, HistoryIsExact
<1>4. ASSUME NEW e \in W, A' = Append(A, e), NEW i \in 1 .. Len(A)
      PROVE  A'[i] = A[i] /\ Before(i)' = Before(i)
  <2>1. A'[i] = A[i]
    BY <1>1, <1>4, AppendLemma
  <2>2. i - 1 \in 0 .. Len(A)
    BY <1>1, AppendLemma
  <2>3. {Append(A, e)[j] : j \in 1 .. i - 1} = {A[j] : j \in 1 .. i - 1}
    BY <1>1, <2>2, AppendPrefix
  <2>. QED
    BY <1>4, <2>1, <2>3
<1>5. CASE AckEffect
  <2>1. A' = Append(A, Ack) /\ evaluations' = evaluations
    BY <1>5 DEF AckEffect
  <2>2. ASSUME NEW i \in 1 .. Len(A'), A'[i] # Ack, evaluations'[A'[i]].value
        PROVE  evaluations'[A'[i]].basis = Before(i)'
    <3>1. i \in 1 .. Len(A)
      BY <1>1, <2>1, <2>2, AppendLemma
    <3>2. A'[i] = A[i] /\ Before(i)' = Before(i)
      BY <1>4, <2>1, <3>1
    <3>. QED
      BY <1>2, <2>1, <2>2, <3>1, <3>2 DEF HistoryIsExact
  <2>. QED
    BY <2>2 DEF HistoryIsExact
<1>6. ASSUME NEW p \in Workers, CommitEffect(p)
      PROVE  HistoryIsExact'
  <2>1. /\ A' = Append(A, job[p]) /\ job[p] \in Windows /\ job[p] # Ack
        /\ job[p] \notin DOMAIN evaluations
        /\ evaluations' = [w \in DOMAIN evaluations \cup {job[p]} |->
                             IF w = job[p] THEN StagedEvaluation(p)
                                           ELSE evaluations[w]]
        /\ hasData[p] => history[p] = observations
    BY <1>6, StreamAssumption DEF CommitEffect
  <2>2. /\ Len(A') = Len(A) + 1 /\ Len(A) \in Nat
        /\ A'[Len(A) + 1] = job[p]
    BY <1>1, <2>1, AppendLemma
  <2>3. ASSUME NEW i \in 1 .. Len(A'), A'[i] # Ack, evaluations'[A'[i]].value
        PROVE  evaluations'[A'[i]].basis = Before(i)'
    <3>1. CASE i \in 1 .. Len(A)
      <4>1. A'[i] = A[i] /\ Before(i)' = Before(i)
        BY <1>4, <2>1, <3>1
      <4>2. A[i] \in DOMAIN evaluations
        BY <1>2, <2>3, <3>1, <4>1 DEF AtomicCommit, AppliedWindows
      <4>3. evaluations'[A[i]] = evaluations[A[i]]
        BY <2>1, <4>2
      <4>4. A[i] # Ack /\ evaluations[A[i]].value
        BY <2>3, <4>1, <4>3
      <4>5. evaluations[A[i]].basis = Before(i)
        BY <1>2, <3>1, <4>4 DEF HistoryIsExact
      <4>. QED
        BY <4>1, <4>3, <4>5
    <3>2. CASE i = Len(A) + 1
      <4>1. A'[i] = job[p] /\ evaluations'[job[p]] = StagedEvaluation(p)
        BY <2>1, <2>2, <3>2
      <4>2. evaluations'[A'[i]].basis = observations
        BY <2>1, <2>3, <4>1 DEF StagedEvaluation
      <4>3. Len(A) \in 0 .. Len(A)
        BY <2>2
      <4>4. {A'[j] : j \in 1 .. Len(A)} = {A[j] : j \in 1 .. Len(A)}
        BY <1>1, <2>1, <4>3, AppendPrefix
      <4>5. i - 1 = Len(A)
        BY <2>2, <3>2
      <4>6. {A'[j] : j \in 1 .. i - 1} = {A[j] : j \in 1 .. Len(A)}
        BY <4>4, <4>5
      <4>7. Before(i)' = AppliedWindows
        BY <4>6 DEF AppliedWindows
      <4>. QED
        BY <1>2, <4>2, <4>7 DEF AtomicCommit
    <3>. QED
      BY <2>2, <3>1, <3>2
  <2>. QED
    BY <2>3 DEF HistoryIsExact
<1>. QED
  BY <1>3, <1>5, <1>6, TableSteps

\* Nobody stores a result in another call's name, or in place of one.
LEMMA StoredStays ==
  ASSUME TypeInv, IInv, [Next]_vars, NEW q \in Workers, ~ Apply(q),
         NEW w \in Windows
  PROVE  StoredBy(w, q)' <=> StoredBy(w, q)
<1>1. ASSUME NEW p \in Workers, p # q, CommitEffect(p)
      PROVE  StoredBy(w, q)' <=> StoredBy(w, q)
  BY <1>1 DEF CommitEffect, StagedEvaluation, StoredBy, Committed
<1>. QED
  BY <1>1, TableSteps DEF tables, AckEffect, StoredBy, Committed

Active == {"evaluate", "wait", "read", "history", "commit", "write"}

\* A call is active from its claim to its transaction.
LEMMA ActiveSteps ==
  ASSUME TypeInv, NEW q \in Workers, WorkerStep(q), pc'[q] \in Active
  PROVE  /\ ~ Apply(q)
         /\ job'[q] = job[q]
         /\ \/ InsertClaim(q) /\ ~ Committed(job[q]) /\ UNCHANGED tables
            \/ pc[q] \in Active
<1> USE DEF TypeInv, CallTypes, Active
<1>1. ~ (\E w \in Windows : Process(q, w)) /\ ~ Crash(q) /\ ~ Fail(q)
  BY DEF Process, Crash, Fail, Return, Finish
<1>2. ~ ClaimCheck(q) /\ ~ ClaimRefused(q) /\ ~ ReleaseEvaluationClaim(q)
  BY DEF ClaimCheck, ClaimRefused, ReleaseEvaluationClaim, Return
<1>3. ~ Apply(q) /\ ~ WaitTimeout(q) /\ ~ RecheckFails(q)
  BY DEF Apply, WaitTimeout, RecheckFails, Finish
<1>4. InsertClaim(q) => ~ Committed(job[q]) /\ UNCHANGED <<tables, job>>
  BY DEF InsertClaim, Return, tables
<1>5. ASSUME NEW value \in BOOLEAN, Evaluate(q, value)
      PROVE  pc[q] \in Active /\ job' = job
  BY <1>5 DEF Evaluate
<1>6. OrderedStreamCommit(q) \/ ReadState(q) \/ ReadHistory(q)
        => pc[q] \in Active /\ job' = job
  BY DEF OrderedStreamCommit, ReadState, ReadHistory
<1>7. VersionConflict(q) \/ RecheckConflict(q) \/ RecheckUnderLock(q)
        => pc[q] \in Active /\ job' = job
  BY DEF VersionConflict, RecheckConflict, RecheckUnderLock
<1>8. CASE InsertClaim(q)
  BY <1>3, <1>4, <1>8
<1>9. CASE ~ InsertClaim(q)
  <2>1. pc[q] \in Active /\ job' = job
    BY <1>1, <1>2, <1>3, <1>5, <1>6, <1>7, <1>9 DEF WorkerStep, Proceed, TakeLock
  <2>. QED
    BY <1>3, <2>1
<1>. QED
  BY <1>8, <1>9

LEMMA NextNotYetStored ==
  ASSUME TypeInv, IInv, [Next]_vars
  PROVE  NotYetStored'
<1> SUFFICES ASSUME NEW q \in Workers, pc'[q] \in Active
             PROVE  ~ StoredBy(job[q], q)'
  BY DEF NotYetStored, Active
<1>1. CASE ~ Apply(q) /\ pc[q] \in Active /\ job'[q] = job[q]
  <2>1. PICK w \in Windows : w = job[q]
    BY <1>1 DEF TypeInv, CallTypes, Active
  <2>2. ~ StoredBy(w, q)'
    BY <1>1, <2>1, StoredStays DEF IInv, NotYetStored, Active
  <2>. QED
    BY <1>1, <2>1, <2>2 DEF StoredBy, Committed
<1>2. CASE InsertClaim(q) /\ ~ Committed(job[q]) /\ UNCHANGED tables /\ job'[q] = job[q]
  BY <1>2 DEF StoredBy, Committed, tables
<1>3. Stays(q) => ~ Apply(q)
  BY DEF Stays, Apply, Finish, TypeInv, CallTypes
<1>. QED
  BY <1>1, <1>2, <1>3, ActiveSteps, OnlyOwnSteps DEF Stays

\* A call that has come to its end has done so in a step of its own.
LEMMA DecidedSteps ==
  ASSUME TypeInv, NEW q \in Workers, WorkerStep(q), pc'[q] = "release"
  PROVE  /\ job' = job /\ pc[q] \in Active
         /\ \/ Apply(q) /\ outcome'[q] \in {"committed", "failed"}
            \/ ~ Apply(q) /\ outcome'[q] \in {"stale", "in_progress", "failed"}
<1> USE DEF TypeInv, CallTypes, Active, Finish
<1>1. ~ (\E w \in Windows : Process(q, w)) /\ ~ Crash(q)
  BY DEF Process, Crash, Return
<1>2. ~ ClaimCheck(q) /\ ~ ClaimRefused(q) /\ ~ ReleaseEvaluationClaim(q)
  BY DEF ClaimCheck, ClaimRefused, ReleaseEvaluationClaim, Return
<1>3. ~ InsertClaim(q) /\ ~ (\E value \in BOOLEAN : Evaluate(q, value))
  BY DEF InsertClaim, Return, Evaluate
<1>4. ~ ReadHistory(q) /\ ~ RecheckUnderLock(q)
  BY DEF ReadHistory, RecheckUnderLock
<1>5. CASE Apply(q)
  BY <1>5 DEF Apply
<1>6. CASE OrderedStreamCommit(q) \/ ReadState(q) \/ WaitTimeout(q)
  BY <1>6 DEF OrderedStreamCommit, ReadState, WaitTimeout, Apply
<1>7. CASE VersionConflict(q)
  BY <1>7 DEF VersionConflict, Conflict, Apply, WriteTables
<1>8. CASE RecheckFails(q) \/ RecheckConflict(q)
  BY <1>8 DEF RecheckFails, RecheckConflict, Conflict, Apply
<1>9. CASE Fail(q)
  <2>1. ~ Apply(q) \/ outcome'[q] = "failed"
    BY <1>9 DEF Fail
  <2>. QED
    BY <1>9, <2>1 DEF Fail, Apply
<1>. QED
  BY <1>1, <1>2, <1>3, <1>4, <1>5, <1>6, <1>7, <1>8, <1>9
  DEF WorkerStep, Proceed, TakeLock

LEMMA NextOneWinner ==
  ASSUME TypeInv, IInv, [Next]_vars
  PROVE  OneWinner'
<1> DEFINE Told(q) ==
             /\ outcome[q] = "committed" => StoredBy(job[q], q)
             /\ outcome[q] \in {"stale", "in_progress"} => ~ StoredBy(job[q], q)
<1> SUFFICES ASSUME NEW q \in Workers, pc'[q] = "release"
             PROVE  Told(q)'
  BY DEF OneWinner
<1>1. CASE Apply(q)
  <2>1. job' = job /\ outcome'[q] \in {"committed", "failed"}
    BY <1>1 DEF Apply, Finish, TypeInv, CallTypes
  <2>2. StoredBy(job[q], q)'
    <3>1. CommitEffect(q)
      BY <1>1, ApplyEffect
    <3>2. /\ job[q] \in DOMAIN evaluations'
          /\ evaluations'[job[q]] = StagedEvaluation(q)
      BY <3>1 DEF CommitEffect
    <3>. QED
      BY <2>1, <3>2 DEF StagedEvaluation, StoredBy, Committed
  <2>. QED
    BY <2>1, <2>2 DEF StoredBy, Committed
<1>2. CASE WorkerStep(q) /\ ~ Apply(q)
  <2>1. /\ job' = job /\ pc[q] \in Active
        /\ outcome'[q] \in {"stale", "in_progress", "failed"}
    BY <1>2, DecidedSteps
  <2>2. PICK w \in Windows : w = job[q]
    BY <2>1 DEF TypeInv, CallTypes, Active
  <2>3. ~ StoredBy(w, q)'
    BY <1>2, <2>1, <2>2, StoredStays DEF IInv, NotYetStored, Active
  <2>. QED
    BY <2>1, <2>2, <2>3 DEF StoredBy, Committed
<1>3. CASE Stays(q)
  <2>1. ~ Apply(q) /\ job'[q] = job[q] /\ outcome'[q] = outcome[q] /\ Told(q)
    BY <1>3 DEF Stays, Apply, IInv, OneWinner
  <2>2. PICK w \in Windows : w = job[q]
    BY <1>3 DEF Stays, TypeInv, CallTypes
  <2>3. StoredBy(w, q)' <=> StoredBy(w, q)
    BY <2>1, StoredStays
  <2>. QED
    BY <2>1, <2>2, <2>3 DEF StoredBy, Committed
<1>. QED
  BY <1>1, <1>2, <1>3, OnlyOwnSteps

-------------------------------------------------------------------------------
(* Claims: a later window does not overtake *)

\* A later window gets ahead only by passing its recheck.
LEMMA LaterSteps ==
  ASSUME TypeInv, IInv, [Next]_vars, NEW w \in Windows, LaterIsAhead(w)'
  PROVE  \/ LaterIsAhead(w)
         \/ \E p \in Workers : /\ RecheckUnderLock(p)
                               /\ EffectiveAt[job[p]] > EffectiveAt[w]
<1>1. LockOwner /\ LockOwner'
  BY NextLockOwner DEF IInv
<1>2. ASSUME NEW v \in DOMAIN evaluations', EffectiveAt[v] > EffectiveAt[w]
      PROVE  LaterIsAhead(w)
  <2>1. CASE v \in DOMAIN evaluations
    BY <1>2, <2>1 DEF LaterIsAhead
  <2>2. CASE v \notin DOMAIN evaluations
    <3>1. PICK p \in Workers : CommitEffect(p)
      BY <1>2, <2>2, TableSteps DEF tables, AckEffect
    <3>2. v = job[p] /\ streamLock = p
      BY <1>1, <1>2, <2>2, <3>1 DEF CommitEffect, LockOwner
    <3>. QED
      BY <1>2, <3>2 DEF LaterIsAhead
  <2>. QED
    BY <2>1, <2>2
<1>3. ASSUME NEW p \in Workers, streamLock' = p,
             EffectiveAt[job'[p]] > EffectiveAt[w]
      PROVE  LaterIsAhead(w) \/ (RecheckUnderLock(p) /\ job'[p] = job[p])
  <2>1. pc'[p] = "write"
    BY <1>1, <1>3 DEF LockOwner
  <2>2. CASE Stays(p)
    BY <1>1, <1>3, <2>1, <2>2 DEF Stays, LockOwner, LaterIsAhead
  <2>3. CASE WorkerStep(p)
    BY <2>1, <2>3
    DEF WorkerStep, Process, Proceed, TakeLock, Fail, Crash, ClaimCheck,
        ClaimRefused, InsertClaim, Evaluate, OrderedStreamCommit, ReadState,
        ReadHistory, WaitTimeout, VersionConflict, RecheckFails, Apply,
        RecheckConflict, RecheckUnderLock, ReleaseEvaluationClaim, Return,
        Finish, Conflict, TypeInv, CallTypes
  <2>. QED
    BY <2>2, <2>3, OnlyOwnSteps
<1>. QED
  BY <1>2, <1>3 DEF LaterIsAhead

\* A live claim of q is an old one, or the one q inserts in this step.
LEMMA ClaimSteps ==
  ASSUME TypeInv, [Next]_vars, NEW q \in Workers, NEW w \in Windows,
         claims'[w] = q, w \notin expired'
  PROVE  (claims[w] = q /\ w \notin expired) \/ InsertClaim(q)
<1> USE StreamAssumption DEF TypeInv, ClaimTypes, claimVars
<1>1. CASE OtherStep
  BY <1>1 DEF OtherStep, ExpireClaim, AcknowledgeRead, AcknowledgeWrite, vars
<1>2. ASSUME NEW p \in Workers, WorkerStep(p)
      PROVE  (claims[w] = q /\ w \notin expired) \/ InsertClaim(q)
  <2>1. CASE InsertClaim(p)
    BY <2>1 DEF InsertClaim
  <2>2. CASE ReleaseEvaluationClaim(p)
    BY <2>2 DEF ReleaseEvaluationClaim
  <2>3. CASE ~ InsertClaim(p) /\ ~ ReleaseEvaluationClaim(p)
    BY <1>2, <2>3
    DEF WorkerStep, Process, Proceed, TakeLock, Fail, Crash, ClaimCheck,
        ClaimRefused, Evaluate, OrderedStreamCommit, ReadState, ReadHistory,
        WaitTimeout, VersionConflict, RecheckFails, Apply, RecheckConflict,
        RecheckUnderLock
  <2>. QED
    BY <2>1, <2>2, <2>3
<1>. QED
  BY <1>1, <1>2, StepCases

LEMMA NextNoOvertaking ==
  ASSUME TypeInv, IInv, [Next]_vars
  PROVE  NoOvertaking'
<1> SUFFICES ASSUME NEW q \in Workers, pc'[q] \in Active,
                    claims'[job'[q]] = q, job'[q] \notin expired',
                    ~ lateClaim'[q], LaterIsAhead(job[q])'
             PROVE  FALSE
  BY DEF NoOvertaking, Active
<1> USE DEF TypeInv, CallTypes
<1>1. CASE InsertClaim(q)
  BY <1>1 DEF InsertClaim, Return, LaterIsAhead, tables, Active, LocalTypes
<1>2. CASE ~ InsertClaim(q)
  <2>1. pc[q] \in Active /\ job'[q] = job[q] /\ lateClaim'[q] = lateClaim[q]
    <3>1. CASE Stays(q)
      BY <3>1 DEF Stays
    <3>2. CASE WorkerStep(q)
      BY <1>2, <3>2
      DEF WorkerStep, Process, Proceed, TakeLock, Fail, Crash, ClaimCheck,
          ClaimRefused, Evaluate, OrderedStreamCommit, ReadState, ReadHistory,
          WaitTimeout, VersionConflict, RecheckFails, Apply, RecheckConflict,
          RecheckUnderLock, ReleaseEvaluationClaim, Return, Finish, Conflict,
          locals, Active
    <3>. QED
      BY <3>1, <3>2, OnlyOwnSteps
  <2>2. PICK w \in Windows : w = job[q]
    BY <2>1 DEF Active
  <2>3. claims[w] = q /\ w \notin expired
    BY <1>2, <2>1, <2>2, ClaimSteps
  <2>4. ~ LaterIsAhead(w)
    BY <2>1, <2>2, <2>3 DEF IInv, NoOvertaking, Active
  <2>5. LaterIsAhead(w)'
    BY <2>1, <2>2 DEF LaterIsAhead
  <2>6. PICK p \in Workers :
          RecheckUnderLock(p) /\ EffectiveAt[job[p]] > EffectiveAt[w]
    BY <2>4, <2>5, LaterSteps
  <2>7. w \in EarlierLiveClaims(job[p])
    <3>1. job[p] \in Windows
      BY <2>6 DEF RecheckUnderLock
    <3>. QED
      BY <2>3, <2>6, <3>1, StreamAssumption DEF EarlierLiveClaims, EarlierClaims
  <2>. QED
    BY <2>6, <2>7 DEF RecheckUnderLock
<1>. QED
  BY <1>1, <1>2

-------------------------------------------------------------------------------
(* The theorems *)

LEMMA NextIInv == TypeInv /\ IInv /\ [Next]_vars => IInv'
  BY NextLockOwner, NextSnapshotFresh, NextViewFresh, NextHistoryFresh,
     NextRecheckHolds, NextNotYetStored, NextAtomicCommit, NextOrderedState,
     NextHistoryIsExact, NextOneWinner, NextNoOvertaking DEF IInv

LEMMA Inductive == Spec => [](TypeInv /\ IInv)
  BY InitType, NextType, InitIInv, NextIInv, PTL DEF Spec

\* Observations, evaluation records and metric state of a stream always agree,
\* and the state saw each window once.
THEOREM CommitsAreAtomic == Spec => []AtomicCommit
<1>1. IInv => AtomicCommit
  BY DEF IInv
<1>. QED
  BY <1>1, Inductive, PTL

\* The state saw the windows in the order of their effective time.
THEOREM StateIsOrdered == Spec => []OrderedState
<1>1. IInv => OrderedState
  BY DEF IInv
<1>. QED
  BY <1>1, Inductive, PTL

\* Every state is computed from exactly the windows that are in the state
\* before it, although nothing is locked while they are read.
THEOREM HistoryIsAlwaysExact == Spec => []HistoryIsExact
<1>1. IInv => HistoryIsExact
  BY DEF IInv
<1>. QED
  BY <1>1, Inductive, PTL

\* A call that reports a new result has stored that result itself, and one that
\* says stale or in progress has stored none.
THEOREM OneWinnerPerWindow == Spec => []OneWinner
<1>1. IInv => OneWinner
  BY DEF IInv
<1>. QED
  BY <1>1, Inductive, PTL

\* A window with a live claim is not overtaken by a later one that was not
\* already ahead when the claim was made.
THEOREM LaterWindowsWait == Spec => []NoOvertaking
<1>1. IInv => NoOvertaking
  BY DEF IInv
<1>. QED
  BY <1>1, Inductive, PTL

\* The workers, claims, polls, retries and crashes of the stream implement
\* the ledger, in which a commit and an acknowledgement are one step each.
THEOREM StreamImplementsLedger == Spec => ImplementsLedger
<1>1. Init => Ledger!Init
  BY DEF Init, NoRow, Ledger!Init
<1>2. TypeInv /\ IInv /\ [Next]_vars => [Ledger!Next]_(Ledger!vars)
  <2> SUFFICES ASSUME TypeInv, IInv, [Next]_vars
               PROVE  [Ledger!Next]_(Ledger!vars)
    OBVIOUS
  <2>1. CASE UNCHANGED tables
    BY <2>1 DEF tables, Ledger!vars
  <2>2. CASE AckEffect
    BY <2>2 DEF AckEffect, Ledger!Next, Ledger!Acknowledge
  <2>3. ASSUME NEW p \in Workers, CommitEffect(p)
        PROVE  Ledger!Commit(job[p]) /\ job[p] \in Windows
    BY <2>3 DEF CommitEffect, Ledger!Commit
  <2>. QED
    BY <2>1, <2>2, <2>3, TableSteps DEF Ledger!Next
<1>. QED
  BY <1>1, <1>2, Inductive, PTL DEF Spec, Ledger!Spec, ImplementsLedger

===============================================================================
