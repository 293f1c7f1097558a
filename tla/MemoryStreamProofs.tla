-------------------------- MODULE MemoryStreamProofs --------------------------
(***************************************************************************)
(* Proofs about MemoryStream, for any number of threads, operators and      *)
(* windows: types, one call in the ordered section, the ordered state, no   *)
(* overtaking, no lost wake-up, and the refinement of EvaluationLedger.     *)
(***************************************************************************)
EXTENDS MemoryStream, WellFoundedInduction, TLAPS

-------------------------------------------------------------------------------
(* Types *)

\* TypeOK in two groups, so that an action is checked on what it changes.
SharedTypes ==
    /\ record \in StateRecord
    /\ observations \subseteq Windows
    /\ DOMAIN evaluations \subseteq Windows
    /\ evaluations \in [DOMAIN evaluations -> Workers]
    /\ claims \in [Windows -> Workers \cup {Nil}]
    /\ expired \subseteq Windows
    /\ busy \in Windows \cup {Nil}
    /\ notified \subseteq Workers
    /\ operatorPc \in [Operators -> {"idle", "write"}]
    /\ operatorView \in [Operators -> StateRecord]

CallTypes ==
    /\ pc \in [Workers -> PCs]
    /\ job \in [Workers -> Windows \cup {Nil}]
    /\ snapshot \in [Workers -> StateRecord]
    /\ outcome \in [Workers -> Outcomes]
    /\ lateClaim \in [Workers -> BOOLEAN]

TypeInv == SharedTypes /\ CallTypes /\ CallHasJob

LEMMA TypeInvImpliesTypeOK == TypeInv => TypeOK
  BY DEF TypeInv, SharedTypes, CallTypes, TypeOK

LEMMA NoRowType == NoRow \in StateRecord
  BY DEF NoRow, StateRecord

\* The state after a write: one version on, one write more.
LEMMA NextRecordType ==
  ASSUME NEW old \in StateRecord, NEW lastAt \in Nat, NEW write \in Windows \cup {Ack}
  PROVE  [version |-> old.version + 1, lastAt |-> lastAt,
          applied |-> Append(old.applied, write)] \in StateRecord
<1>1. Append(old.applied, write) \in Seq(Windows \cup {Ack})
  BY DEF StateRecord
<1>. QED
  BY <1>1 DEF StateRecord

LEMMA StagedType ==
  ASSUME TypeInv, NEW p \in Workers, pc[p] # "idle"
  PROVE  StagedRecord(p) \in StateRecord
<1>1. /\ snapshot[p] \in StateRecord /\ job[p] \in Windows
      /\ EffectiveAt[job[p]] \in Nat
  BY MemoryAssumption DEF TypeInv, CallTypes, CallHasJob
<1>. QED
  BY <1>1, NextRecordType DEF StagedRecord

LEMMA AcknowledgedType ==
  ASSUME TypeInv, NEW o \in Operators
  PROVE  AcknowledgedRecord(o) \in StateRecord
<1>1. operatorView[o] \in StateRecord /\ operatorView[o].lastAt \in Nat
  BY DEF TypeInv, SharedTypes, StateRecord
<1>. QED
  BY <1>1, NextRecordType DEF AcknowledgedRecord

LEMMA ReturnTypes ==
  ASSUME TypeInv, NEW p \in Workers, Return(p)
  PROVE  CallTypes' /\ CallHasJob'
  BY NoRowType DEF TypeInv, CallTypes, CallHasJob, Return, PCs, Outcomes

\* A call that goes on with the same window.
LEMMA GoOnTypes ==
  ASSUME TypeInv, NEW p \in Workers, pc[p] # "idle", job' = job,
         lateClaim' = lateClaim, snapshot' = snapshot,
         NEW place \in PCs, pc' = [pc EXCEPT ![p] = place],
         NEW how \in Outcomes, outcome' = [outcome EXCEPT ![p] = how]
  PROVE  CallTypes' /\ CallHasJob'
  BY DEF TypeInv, CallTypes, CallHasJob

LEMMA SameOutcome ==
  ASSUME TypeInv, NEW p \in Workers, outcome' = outcome
  PROVE  outcome[p] \in Outcomes /\ outcome' = [outcome EXCEPT ![p] = outcome[p]]
  BY DEF TypeInv, CallTypes

LEMMA InitType == Init => TypeInv
<1> SUFFICES ASSUME Init PROVE TypeInv
  OBVIOUS
<1>1. SharedTypes
  BY NoRowType DEF Init, SharedTypes
<1>2. CallTypes /\ CallHasJob
  BY NoRowType DEF Init, CallTypes, CallHasJob, PCs, Outcomes
<1>. QED
  BY <1>1, <1>2 DEF TypeInv

LEMMA ProceedType ==
  ASSUME TypeInv, NEW p \in Workers, Proceed(p)
  PROVE  TypeInv'
<1> USE DEF tables, claimVars, section, locals, operators
<1>0. \A q : notified \cup Waiting \subseteq Workers /\ notified \ {q} \subseteq Workers
  BY DEF TypeInv, SharedTypes, Waiting
<1>1. CASE ClaimRefused(p)
  <2>1. CallTypes' /\ CallHasJob'
    BY <1>1, ReturnTypes DEF ClaimRefused
  <2>. QED
    BY <1>1, <2>1 DEF ClaimRefused, TypeInv, SharedTypes
<1>2. CASE ClaimEvaluation(p)
  <2>1. job[p] \in Windows /\ LaterIsAhead(job[p]) \in BOOLEAN
    BY <1>2 DEF ClaimEvaluation, TypeInv, CallHasJob, LaterIsAhead
  <2>2. SharedTypes'
    BY <1>0, <1>2, <2>1 DEF ClaimEvaluation, NotifyAll, TypeInv, SharedTypes
  <2>3. CallTypes' /\ CallHasJob'
    BY <1>2, <2>1 DEF ClaimEvaluation, TypeInv, CallTypes, CallHasJob, PCs
  <2>. QED
    BY <2>2, <2>3 DEF TypeInv
<1>3. CASE Evaluate(p)
  BY <1>3, SameOutcome, GoOnTypes DEF Evaluate, TypeInv, SharedTypes, PCs
<1>4. CASE EnterSection(p)
  <2>1. pc[p] # "idle" /\ job[p] \in Windows
    BY <1>4 DEF EnterSection, TypeInv, CallHasJob
  <2>2. SharedTypes'
    BY <1>0, <1>4, <2>1 DEF EnterSection, TypeInv, SharedTypes
  <2>3. CallTypes' /\ CallHasJob'
    BY <1>4, <2>1, GoOnTypes, SameOutcome DEF EnterSection, Finish, PCs, Outcomes
  <2>. QED
    BY <2>2, <2>3 DEF TypeInv
<1>5. CASE ReadState(p)
  <2>1. SharedTypes'
    BY <1>5 DEF ReadState, TypeInv, SharedTypes
  <2>2. CallTypes' /\ CallHasJob'
    BY <1>5 DEF ReadState, Leave, TypeInv, SharedTypes, CallTypes, CallHasJob, PCs, Outcomes
  <2>. QED
    BY <2>1, <2>2 DEF TypeInv
<1>6. CASE CommitRefused(p)
  BY <1>6, GoOnTypes DEF CommitRefused, Leave, TypeInv, SharedTypes, PCs, Outcomes
<1>7. CASE CommitConflict(p)
  <2>1. SharedTypes'
    BY <1>7 DEF CommitConflict, TypeInv, SharedTypes, CallHasJob
  <2>. QED
    BY <1>7, <2>1, GoOnTypes DEF CommitConflict, Leave, TypeInv, PCs, Outcomes
<1>8. CASE Commit(p)
  <2>1. StagedRecord(p) \in StateRecord /\ job[p] \in Windows
    BY <1>8, StagedType DEF Commit, TypeInv, CallHasJob
  <2>2. SharedTypes'
    BY <1>8, <2>1 DEF Commit, TypeInv, SharedTypes
  <2>. QED
    BY <1>8, <2>2, GoOnTypes DEF Commit, Leave, TypeInv, PCs, Outcomes
<1>9. CASE LeaveSection(p)
  <2>1. SharedTypes'
    BY <1>0, <1>9 DEF LeaveSection, NotifyAll, TypeInv, SharedTypes
  <2>. QED
    BY <1>9, <2>1, SameOutcome, GoOnTypes DEF LeaveSection, TypeInv, PCs
<1>10. CASE ReleaseEvaluationClaim(p)
  <2>1. SharedTypes'
    BY <1>0, <1>10 DEF ReleaseEvaluationClaim, NotifyAll, TypeInv, SharedTypes
  <2>. QED
    BY <1>10, <2>1, ReturnTypes DEF ReleaseEvaluationClaim, TypeInv
<1>. QED
  BY <1>1, <1>2, <1>3, <1>4, <1>5, <1>6, <1>7, <1>8, <1>9, <1>10 DEF Proceed

LEMMA NextType == TypeInv /\ [Next]_vars => TypeInv'
<1> SUFFICES ASSUME TypeInv, [Next]_vars PROVE TypeInv'
  OBVIOUS
<1> USE DEF tables, claimVars, section, locals, operators
<1>1. ASSUME NEW p \in Workers, NEW w \in Windows, Process(p, w)
      PROVE  TypeInv'
  <2>1. SharedTypes'
    BY <1>1 DEF Process, TypeInv, SharedTypes
  <2>2. CallTypes' /\ CallHasJob'
    BY <1>1 DEF Process, TypeInv, CallTypes, CallHasJob, PCs
  <2>. QED
    BY <2>1, <2>2 DEF TypeInv
<1>2. ASSUME NEW p \in Workers, WaitTimeout(p) \/ Fail(p)
      PROVE  TypeInv'
  <2>1. SharedTypes'
    BY <1>2 DEF WaitTimeout, Fail, TypeInv, SharedTypes
  <2>. QED
    BY <1>2, <2>1, GoOnTypes DEF WaitTimeout, Fail, Finish, Leave, TypeInv, PCs, Outcomes
<1>3. ASSUME NEW w \in Windows, ExpireClaim(w)
      PROVE  TypeInv'
  BY <1>3 DEF ExpireClaim, TypeInv, SharedTypes, CallTypes, CallHasJob
<1>4. ASSUME NEW o \in Operators, AcknowledgeRead(o)
      PROVE  TypeInv'
  BY <1>4 DEF AcknowledgeRead, TypeInv, SharedTypes, CallTypes, CallHasJob
<1>5. ASSUME NEW o \in Operators, AcknowledgeWrite(o)
      PROVE  TypeInv'
  BY <1>5, AcknowledgedType, NoRowType
  DEF AcknowledgeWrite, TypeInv, SharedTypes, CallTypes, CallHasJob
<1>6. CASE UNCHANGED vars
  BY <1>6 DEF vars, TypeInv, SharedTypes, CallTypes, CallHasJob
<1>. QED
  BY <1>1, <1>2, <1>3, <1>4, <1>5, <1>6, ProceedType DEF Next

\* Types: every reachable state of the store and of the calls is well typed.
THEOREM TypeCorrect == Spec => []TypeOK
<1>1. Spec => []TypeInv
  BY InitType, NextType, PTL DEF Spec
<1>. QED
  BY <1>1, TypeInvImpliesTypeOK, PTL

-------------------------------------------------------------------------------
(* What a step does *)

WorkerStep(q) ==
    \/ \E w \in Windows : Process(q, w)
    \/ Proceed(q)
    \/ WaitTimeout(q)
    \/ Fail(q)

OtherStep ==
    \/ \E w \in Windows : ExpireClaim(w)
    \/ \E o \in Operators : AcknowledgeRead(o) \/ AcknowledgeWrite(o)
    \/ UNCHANGED vars

LEMMA StepCases ==
  [Next]_vars => OtherStep \/ \E p \in Workers : WorkerStep(p)
  BY DEF Next, OtherStep, WorkerStep

\* What a step leaves alone of a call that does not take it.
Stays(q) ==
    /\ pc'[q] = pc[q]
    /\ job'[q] = job[q]
    /\ snapshot'[q] = snapshot[q]
    /\ outcome'[q] = outcome[q]
    /\ lateClaim'[q] = lateClaim[q]

LEMMA OtherStepStays ==
  ASSUME OtherStep, NEW q \in Workers
  PROVE  Stays(q)
  BY DEF OtherStep, ExpireClaim, AcknowledgeRead, AcknowledgeWrite, vars,
         locals, Stays

\* A worker's variables change in its own steps only.
LEMMA OthersStay ==
  ASSUME TypeInv, NEW p \in Workers, WorkerStep(p), NEW q \in Workers, q # p
  PROVE  Stays(q)
<1> USE DEF Stays, locals, TypeInv, CallTypes
<1>1. CASE \E w \in Windows : Process(p, w)
  BY <1>1 DEF Process
<1>2. CASE Proceed(p)
  <2>1. CASE ClaimRefused(p) \/ ClaimEvaluation(p) \/ ReleaseEvaluationClaim(p)
    BY <2>1 DEF ClaimRefused, ClaimEvaluation, ReleaseEvaluationClaim, Return
  <2>2. CASE Evaluate(p) \/ EnterSection(p)
    BY <2>2 DEF Evaluate, EnterSection, Finish
  <2>3. CASE ReadState(p) \/ LeaveSection(p)
    BY <2>3 DEF ReadState, LeaveSection, Leave
  <2>4. CASE CommitRefused(p) \/ CommitConflict(p) \/ Commit(p)
    BY <2>4 DEF CommitRefused, CommitConflict, Commit, Leave
  <2>. QED
    BY <1>2, <2>1, <2>2, <2>3, <2>4 DEF Proceed
<1>3. CASE WaitTimeout(p) \/ Fail(p)
  BY <1>3 DEF WaitTimeout, Fail, Finish, Leave
<1>. QED
  BY <1>1, <1>2, <1>3 DEF WorkerStep

\* The steps of a call, by what they do to the section and to the claims.
LEMMA WorkerSteps ==
  ASSUME TypeInv, NEW p \in Workers, WorkerStep(p)
  PROVE  \/ Commit(p)
         \/ EnterSection(p)
         \/ LeaveSection(p)
         \/ ClaimEvaluation(p)
         \/ ReleaseEvaluationClaim(p)
         \/ /\ UNCHANGED <<record, evaluations, claimVars, section, operators>>
            /\ InSection(p)' <=> InSection(p)
            /\ InSection(p) => job'[p] = job[p]
<1> USE DEF TypeInv, CallTypes, claimVars, section, locals, operators, InSection, tables
<1>1. CASE \E w \in Windows : Process(p, w)
  BY <1>1 DEF Process
<1>2. CASE Proceed(p)
  <2>1. CASE ClaimRefused(p)
    BY <2>1 DEF ClaimRefused, Return
  <2>2. CASE Evaluate(p)
    BY <2>2 DEF Evaluate
  <2>3. CASE ReadState(p)
    BY <2>3 DEF ReadState, Leave
  <2>4. CASE CommitRefused(p) \/ CommitConflict(p)
    BY <2>4 DEF CommitRefused, CommitConflict, Leave
  <2>. QED
    BY <1>2, <2>1, <2>2, <2>3, <2>4 DEF Proceed
<1>3. CASE WaitTimeout(p) \/ Fail(p)
  BY <1>3 DEF WaitTimeout, Fail, Finish, Leave
<1>. QED
  BY <1>1, <1>2, <1>3 DEF WorkerStep

-------------------------------------------------------------------------------
(* The section and the claims *)

LEMMA InitIInv == Init => IInv
<1> SUFFICES ASSUME Init PROVE IInv
  OBVIOUS
<1> USE DEF Init, NoRow
<1>1. OneInSection /\ CopiesAreVersioned /\ StillNewer /\ OnlyAcknowledgedSince
  BY DEF OneInSection, InSection, CopiesAreVersioned, StillNewer, OnlyAcknowledgedSince
<1>2. ClaimHasCall
  BY MemoryAssumption DEF ClaimHasCall
<1>3. OrderedState
  BY DEF OrderedState, AppliedWindows
<1>4. OneWinner /\ NotYetStored /\ NoOvertaking /\ WaitsForSomething
  BY DEF OneWinner, NotYetStored, NoOvertaking, WaitsForSomething, Asleep
<1>5. AtomicUnlessAcknowledged
  BY DEF AtomicUnlessAcknowledged, AtomicCommit
<1>. QED
  BY <1>1, <1>2, <1>3, <1>4, <1>5 DEF IInv

LEMMA NextOneInSection ==
  ASSUME TypeInv, IInv, [Next]_vars
  PROVE  OneInSection'
<1>1. OneInSection
  BY DEF IInv
<1>2. CASE OtherStep
  <2>1. busy' = busy
    BY <1>2 DEF OtherStep, ExpireClaim, AcknowledgeRead, AcknowledgeWrite, vars, section
  <2>. QED
    BY <1>1, <1>2, <2>1, OtherStepStays DEF OneInSection, InSection, Stays
<1>3. ASSUME NEW p \in Workers, WorkerStep(p)
      PROVE  OneInSection'
  <2>1. \A q \in Workers : q # p =>
            (InSection(q)' <=> InSection(q)) /\ job'[q] = job[q]
    BY <1>3, OthersStay DEF InSection, Stays
  <2>2. CASE /\ UNCHANGED busy
             /\ InSection(p)' <=> InSection(p)
             /\ InSection(p)' => job'[p] = job[p]
    <3>1. \A q \in Workers : InSection(q)' <=> InSection(q)
      BY <2>1, <2>2
    <3>2. \A q \in Workers : InSection(q)' => job'[q] = job[q]
      BY <2>1, <2>2
    <3>. QED
      BY <1>1, <2>2, <3>1, <3>2 DEF OneInSection
  <2>3. CASE EnterSection(p) /\ busy' # busy
    <3>1. busy = Nil /\ busy' = job[p] /\ job' = job
      BY <2>3 DEF EnterSection
    <3>2. \A q \in Workers : ~ InSection(q)
      <4>1. \A q \in Workers : InSection(q) => busy = job[q] /\ job[q] \in Windows
        BY <1>1 DEF OneInSection, TypeInv, CallHasJob, InSection
      <4>. QED
        BY <3>1, <4>1, MemoryAssumption
    <3>3. InSection(p)'
      BY <2>3 DEF EnterSection, Finish, InSection, TypeInv, CallTypes
    <3>. QED
      BY <2>1, <3>1, <3>2, <3>3 DEF OneInSection
  <2>4. CASE EnterSection(p) /\ busy' = busy
    <3>1. pc'[p] \in {"release", "waiting", "read"}
      BY <2>4 DEF EnterSection, Finish, TypeInv, CallTypes
    <3>2. pc'[p] = "read" => busy = Nil /\ busy' = job[p]
      BY <2>4 DEF EnterSection, Finish, TypeInv, CallTypes
    <3>3. job[p] # Nil
      BY <2>4, MemoryAssumption DEF EnterSection, TypeInv, CallHasJob
    <3>4. ~ InSection(p)
      BY <2>4 DEF EnterSection, InSection
    <3>. QED
      BY <2>1, <2>2, <2>4, <3>1, <3>2, <3>3, <3>4 DEF InSection
  <2>5. CASE LeaveSection(p)
    <3>1. InSection(p) /\ ~ InSection(p)'
      BY <2>5 DEF LeaveSection, InSection, TypeInv, CallTypes
    <3>2. \A q \in Workers : ~ InSection(q)'
      BY <1>1, <2>1, <3>1 DEF OneInSection
    <3>3. busy' = Nil
      BY <1>1, <2>5, <3>1 DEF OneInSection, LeaveSection
    <3>. QED
      BY <3>2, <3>3 DEF OneInSection
  <2>6. CASE Commit(p)
    BY <2>2, <2>6 DEF Commit, Leave, section, InSection, TypeInv, CallTypes
  <2>7. CASE ClaimEvaluation(p) \/ ReleaseEvaluationClaim(p)
    BY <2>2, <2>7 DEF ClaimEvaluation, ReleaseEvaluationClaim, Return, InSection,
                      TypeInv, CallTypes
  <2>. QED
    BY <1>3, <2>2, <2>3, <2>4, <2>5, <2>6, <2>7, WorkerSteps DEF section
<1>. QED
  BY <1>2, <1>3, StepCases

LEMMA NextClaimHasCall ==
  ASSUME TypeInv, IInv, [Next]_vars
  PROVE  ClaimHasCall'
<1>1. ClaimHasCall
  BY DEF IInv
<1>2. CASE OtherStep
  <2>1. claims' = claims
    BY <1>2 DEF OtherStep, ExpireClaim, AcknowledgeRead, AcknowledgeWrite, vars, claimVars
  <2>. QED
    BY <1>1, <1>2, <2>1, OtherStepStays DEF ClaimHasCall, Stays
<1>3. ASSUME NEW p \in Workers, WorkerStep(p)
      PROVE  ClaimHasCall'
  <2>1. \A q \in Workers : q # p => pc'[q] = pc[q] /\ job'[q] = job[q]
    BY <1>3, OthersStay DEF Stays
  <2> USE DEF TypeInv, SharedTypes, CallTypes, ClaimHasCall
  <2>2. CASE ClaimEvaluation(p)
    BY <1>1, <2>1, <2>2 DEF ClaimEvaluation
  <2>3. CASE ReleaseEvaluationClaim(p)
    BY <1>1, <2>1, <2>3, MemoryAssumption DEF ReleaseEvaluationClaim, CallHasJob, Return
  <2>4. CASE \E w \in Windows : Process(p, w)
    BY <1>1, <2>1, <2>4 DEF Process, claimVars
  <2>5. CASE claims' = claims /\ (pc[p] \notin {"idle", "claim"} =>
                                    pc'[p] \notin {"idle", "claim"} /\ job'[p] = job[p])
    BY <1>1, <2>1, <2>5
  <2> USE <2>5 DEF claimVars
  <2>6. CASE ClaimRefused(p) \/ Evaluate(p) \/ EnterSection(p)
    BY <2>6 DEF ClaimRefused, Evaluate, EnterSection, Return, Finish
  <2>7. CASE ReadState(p) \/ LeaveSection(p)
    BY <2>7 DEF ReadState, LeaveSection, Leave
  <2>8. CASE CommitRefused(p) \/ CommitConflict(p) \/ Commit(p)
    BY <2>8 DEF CommitRefused, CommitConflict, Commit, Leave
  <2>9. CASE WaitTimeout(p) \/ Fail(p)
    BY <2>9 DEF WaitTimeout, Fail, Finish, Leave
  <2>. QED
    BY <1>3, <2>2, <2>3, <2>4, <2>6, <2>7, <2>8, <2>9 DEF WorkerStep, Proceed
<1>. QED
  BY <1>2, <1>3, StepCases

-------------------------------------------------------------------------------
(* The writes of the stream *)

CommitEffect(p) ==
    /\ InSection(p)
    /\ job[p] \in Windows
    /\ job[p] \notin DOMAIN evaluations
    /\ record.lastAt < EffectiveAt[job[p]]
    /\ record' = [version |-> record.version + 1,
                  lastAt  |-> EffectiveAt[job[p]],
                  applied |-> Append(record.applied, job[p])]
    /\ evaluations' = [w \in DOMAIN evaluations \cup {job[p]} |->
                         IF w = job[p] THEN p ELSE evaluations[w]]

AckEffect ==
    /\ record' = [version |-> record.version + 1,
                  lastAt  |-> record.lastAt,
                  applied |-> Append(record.applied, Ack)]
    /\ evaluations' = evaluations

LEMMA NoConflictMeansCurrent ==
  ASSUME TypeInv, NEW copy \in StateRecord, NEW staged,
         UpToDate(copy), staged.version = copy.version + 1,
         ~ VersionConflict(staged)
  PROVE  copy = record
  BY DEF TypeInv, SharedTypes, StateRecord, UpToDate, VersionConflict

LEMMA CommitHasEffect ==
  ASSUME TypeInv, IInv, NEW p \in Workers, Commit(p)
  PROVE  CommitEffect(p)
<1>1. pc[p] = "commit" /\ job[p] \in Windows /\ InSection(p)
  BY DEF Commit, TypeInv, CallHasJob, InSection
<1>2. record.lastAt < EffectiveAt[job[p]]
  BY <1>1, MemoryAssumption
  DEF IInv, StillNewer, Stale, TypeInv, SharedTypes, StateRecord
<1>3. job[p] \notin DOMAIN evaluations
  <2>1. EffectiveAt[job[p]] \in Nat /\ record.lastAt \in Nat
    BY <1>1, MemoryAssumption DEF TypeInv, SharedTypes, StateRecord
  <2>. QED
    BY <1>2, <2>1 DEF IInv, OrderedState
<1>4. snapshot[p] = record
  <2>1. UpToDate(snapshot[p]) /\ snapshot[p] \in StateRecord
    BY <1>1 DEF IInv, CopiesAreVersioned, TypeInv, CallTypes
  <2>2. /\ StagedRecord(p).version = snapshot[p].version + 1
        /\ ~ VersionConflict(StagedRecord(p))
    BY DEF StagedRecord, Commit
  <2>. QED
    BY <2>1, <2>2, NoConflictMeansCurrent
<1>. QED
  BY <1>1, <1>2, <1>3, <1>4 DEF Commit, StagedRecord, CommitEffect

LEMMA AcknowledgeHasEffect ==
  ASSUME TypeInv, IInv, NEW o \in Operators, AcknowledgeWrite(o)
  PROVE  UNCHANGED <<record, evaluations>> \/ AckEffect
<1>1. CASE ~ VersionConflict(AcknowledgedRecord(o))
  <2>1. UpToDate(operatorView[o]) /\ operatorView[o] \in StateRecord
    BY DEF AcknowledgeWrite, IInv, CopiesAreVersioned, TypeInv, SharedTypes
  <2>2. AcknowledgedRecord(o).version = operatorView[o].version + 1
    BY DEF AcknowledgedRecord
  <2>3. operatorView[o] = record
    BY <1>1, <2>1, <2>2, NoConflictMeansCurrent
  <2>. QED
    BY <1>1, <2>3 DEF AcknowledgeWrite, AcknowledgedRecord, AckEffect
<1>2. CASE VersionConflict(AcknowledgedRecord(o))
  BY <1>2 DEF AcknowledgeWrite
<1>. QED
  BY <1>1, <1>2

LEMMA TableSteps ==
  ASSUME TypeInv, IInv, [Next]_vars
  PROVE  \/ UNCHANGED <<record, evaluations>>
         \/ AckEffect
         \/ \E p \in Workers : Commit(p) /\ CommitEffect(p)
<1>1. CASE OtherStep
  BY <1>1, AcknowledgeHasEffect
  DEF OtherStep, ExpireClaim, AcknowledgeRead, vars, tables
<1>2. ASSUME NEW p \in Workers, WorkerStep(p), ~ Commit(p)
      PROVE  UNCHANGED <<record, evaluations>>
  BY <1>2, WorkerSteps
  DEF EnterSection, LeaveSection, ClaimEvaluation, ReleaseEvaluationClaim, tables
<1>. QED
  BY <1>1, <1>2, StepCases, CommitHasEffect

\* The version tells apart the records there have been: a copy that was up to
\* date still is.
LEMMA UpToDateStable ==
  ASSUME TypeInv, IInv, [Next]_vars, NEW copy \in StateRecord, UpToDate(copy)
  PROVE  UpToDate(copy)'
<1>1. record.version \in Nat /\ copy.version \in Nat
  BY DEF TypeInv, SharedTypes, StateRecord
<1>2. CASE record' = record
  BY <1>2 DEF UpToDate
<1>3. CASE record'.version = record.version + 1
  BY <1>1, <1>3 DEF UpToDate
<1>4. AckEffect => record'.version = record.version + 1
  BY DEF AckEffect
<1>5. \A p \in Workers : CommitEffect(p) => record'.version = record.version + 1
  BY DEF CommitEffect
<1>. QED
  BY <1>2, <1>3, <1>4, <1>5, TableSteps

\* A call is about to commit since it has read the state.
LEMMA AtCommit ==
  ASSUME TypeInv, [Next]_vars, NEW p \in Workers, pc'[p] = "commit"
  PROVE  (Stays(p) /\ pc[p] = "commit") \/ ReadState(p)
<1> USE DEF TypeInv, CallTypes
<1>1. ASSUME WorkerStep(p), ~ ReadState(p)
      PROVE  FALSE
  <2>1. ~ (\E w \in Windows : Process(p, w))
    BY DEF Process
  <2>2. ~ (ClaimRefused(p) \/ ClaimEvaluation(p) \/ ReleaseEvaluationClaim(p))
    BY DEF ClaimRefused, ClaimEvaluation, ReleaseEvaluationClaim, Return
  <2>3. ~ (Evaluate(p) \/ EnterSection(p) \/ LeaveSection(p))
    BY DEF Evaluate, EnterSection, Finish, LeaveSection
  <2>4. ~ (CommitRefused(p) \/ CommitConflict(p) \/ Commit(p))
    BY DEF CommitRefused, CommitConflict, Commit, Leave
  <2>5. ~ (WaitTimeout(p) \/ Fail(p))
    BY DEF WaitTimeout, Fail, Finish, Leave
  <2>. QED
    BY <1>1, <2>1, <2>2, <2>3, <2>4, <2>5 DEF WorkerStep, Proceed
<1>2. Stays(p) => pc[p] = "commit"
  BY DEF Stays
<1>. QED
  BY <1>1, <1>2, StepCases, OthersStay, OtherStepStays

LEMMA NextCopiesAreVersioned ==
  ASSUME TypeInv, IInv, [Next]_vars
  PROVE  CopiesAreVersioned'
<1>0. CopiesAreVersioned
  BY DEF IInv
<1>1. ASSUME NEW p \in Workers, pc'[p] = "commit"
      PROVE  UpToDate(snapshot[p])'
  <2>1. CASE pc[p] = "commit" /\ snapshot'[p] = snapshot[p]
    <3>1. snapshot[p] \in StateRecord /\ UpToDate(snapshot[p])
      BY <1>0, <2>1 DEF TypeInv, CallTypes, CopiesAreVersioned
    <3>2. PICK copy \in StateRecord : copy = snapshot[p]
      BY <3>1
    <3>3. UpToDate(copy)'
      BY <3>1, <3>2, UpToDateStable
    <3>. QED
      BY <2>1, <3>2, <3>3 DEF UpToDate
  <2>2. CASE ReadState(p)
    <3>1. snapshot'[p] = record /\ record' = record
      BY <1>1, <2>2 DEF ReadState, Leave, tables, TypeInv, CallTypes
    <3>. QED
      BY <3>1, <1>0 DEF UpToDate, TypeInv, SharedTypes, StateRecord
  <2>. QED
    BY <1>1, <2>1, <2>2, AtCommit DEF Stays
<1>2. ASSUME NEW o \in Operators, operatorPc'[o] = "write"
      PROVE  UpToDate(operatorView[o])'
  <2>1. CASE operatorPc[o] = "write" /\ operatorView'[o] = operatorView[o]
    <3>1. operatorView[o] \in StateRecord /\ UpToDate(operatorView[o])
      BY <1>0, <2>1 DEF TypeInv, SharedTypes, CopiesAreVersioned
    <3>2. PICK copy \in StateRecord : copy = operatorView[o]
      BY <3>1
    <3>3. UpToDate(copy)'
      BY <3>1, <3>2, UpToDateStable
    <3>. QED
      BY <2>1, <3>2, <3>3 DEF UpToDate
  <2>2. CASE AcknowledgeRead(o)
    <3>1. operatorView'[o] = record /\ record' = record
      BY <2>2 DEF AcknowledgeRead, tables, TypeInv, SharedTypes
    <3>. QED
      BY <3>1 DEF UpToDate, TypeInv, SharedTypes, StateRecord
  <2>3. ASSUME NEW u \in Operators, u # o, AcknowledgeRead(u) \/ AcknowledgeWrite(u)
        PROVE  operatorPc'[o] = operatorPc[o] /\ operatorView'[o] = operatorView[o]
    BY <2>3 DEF AcknowledgeRead, AcknowledgeWrite, TypeInv, SharedTypes
  <2>4. ~ AcknowledgeWrite(o)
    BY <1>2 DEF AcknowledgeWrite, TypeInv, SharedTypes
  <2>5. ASSUME NEW p \in Workers, WorkerStep(p)
        PROVE  operatorPc' = operatorPc /\ operatorView' = operatorView
    BY <2>5, WorkerSteps
    DEF Commit, EnterSection, LeaveSection, ClaimEvaluation,
        ReleaseEvaluationClaim, operators
  <2>6. CASE operatorPc' = operatorPc /\ operatorView' = operatorView
    BY <1>2, <2>1, <2>6
  <2>. QED
    BY <1>2, <2>1, <2>2, <2>3, <2>4, <2>5, <2>6, StepCases
    DEF OtherStep, ExpireClaim, vars, operators
<1>. QED
  BY <1>1, <1>2 DEF CopiesAreVersioned

\* The section keeps every other call from committing in between.
LEMMA NextStillNewer ==
  ASSUME TypeInv, IInv, [Next]_vars
  PROVE  StillNewer'
<1> SUFFICES ASSUME NEW p \in Workers, pc'[p] = "commit"
             PROVE  ~ Stale(job[p])'
  BY DEF StillNewer
<1> USE DEF TypeInv, CallTypes
<1>1. (Stays(p) /\ pc[p] = "commit") \/ ReadState(p)
  BY AtCommit
<1>2. CASE ReadState(p)
  <2>1. ~ Stale(job[p]) /\ record' = record /\ job' = job
    BY <1>2 DEF ReadState, Leave, tables
  <2>. QED
    BY <2>1 DEF Stale
<1>3. CASE Stays(p) /\ pc[p] = "commit"
  <2>1. ~ Stale(job[p]) /\ job'[p] = job[p] /\ InSection(p)
    BY <1>3 DEF IInv, StillNewer, Stays, InSection
  <2>2. record'.lastAt = record.lastAt
    <3>1. ASSUME NEW q \in Workers, Commit(q)
          PROVE  FALSE
      <4>1. InSection(q)
        BY <3>1 DEF Commit, InSection
      <4>2. q = p
        BY <2>1, <4>1 DEF IInv, OneInSection
      <4>. QED
        BY <1>3, <3>1, <4>2 DEF Commit, Leave, Stays
    <3>. QED
      BY <3>1, TableSteps DEF AckEffect
  <2>. QED
    BY <2>1, <2>2 DEF Stale
<1>. QED
  BY <1>1, <1>2, <1>3

-------------------------------------------------------------------------------
(* The ordered state *)

LEMMA AppendLemma ==
  ASSUME NEW S, NEW s \in Seq(S), NEW e \in S
  PROVE  /\ Append(s, e) \in Seq(S)
         /\ Len(s) \in Nat
         /\ Len(Append(s, e)) = Len(s) + 1
         /\ \A i \in 1 .. Len(s) : Append(s, e)[i] = s[i]
         /\ Append(s, e)[Len(s) + 1] = e
  OBVIOUS

LEMMA AppendElements ==
  ASSUME NEW S, NEW s \in Seq(S), NEW e \in S
  PROVE  {Append(s, e)[j] : j \in 1 .. Len(Append(s, e))}
            = {s[j] : j \in 1 .. Len(s)} \cup {e}
<1> DEFINE t == Append(s, e)
<1>1. /\ Len(s) \in Nat
      /\ Len(t) = Len(s) + 1
      /\ \A i \in 1 .. Len(s) : t[i] = s[i]
      /\ t[Len(s) + 1] = e
  BY AppendLemma
<1> HIDE DEF t
<1>2. 1 .. Len(t) = (1 .. Len(s)) \cup {Len(s) + 1}
  BY <1>1
<1>3. {t[j] : j \in 1 .. Len(t)} = {t[j] : j \in 1 .. Len(s)} \cup {t[Len(s) + 1]}
  BY <1>2
<1>4. {t[j] : j \in 1 .. Len(s)} = {s[j] : j \in 1 .. Len(s)}
  BY <1>1
<1>5. {t[j] : j \in 1 .. Len(t)} = {s[j] : j \in 1 .. Len(s)} \cup {e}
  BY <1>1, <1>3, <1>4
<1>. QED
  BY <1>5 DEF t

LEMMA NextOrderedState ==
  ASSUME TypeInv, IInv, [Next]_vars
  PROVE  OrderedState'
<1> DEFINE A == record.applied
           W == Windows \cup {Ack}
<1>1. /\ A \in Seq(W) /\ record.lastAt \in Nat
      /\ DOMAIN evaluations \subseteq Windows
  BY DEF TypeInv, SharedTypes, StateRecord
<1>2. OrderedState
  BY DEF IInv
<1>3. CASE UNCHANGED <<record, evaluations>>
  BY <1>2, <1>3 DEF OrderedState, AppliedWindows
<1>4. CASE AckEffect
  <2>1. /\ A' = Append(A, Ack) /\ record'.lastAt = record.lastAt
        /\ evaluations' = evaluations
    BY <1>4 DEF AckEffect
  <2>2. AppliedWindows' = AppliedWindows
    BY <1>1, <2>1, AppendElements DEF AppliedWindows
  <2>3. ASSUME NEW i \in 1 .. Len(A'), NEW j \in 1 .. Len(A'),
               i < j, A'[i] # Ack, A'[j] # Ack
        PROVE  EffectiveAt[A'[i]] < EffectiveAt[A'[j]]
    <3>1. i \in 1 .. Len(A) /\ j \in 1 .. Len(A) /\ A[i] = A'[i] /\ A[j] = A'[j]
      BY <1>1, <2>1, <2>3, AppendLemma
    <3>. QED
      BY <1>2, <2>3, <3>1 DEF OrderedState
  <2>. QED
    BY <1>2, <2>1, <2>2, <2>3 DEF OrderedState
<1>5. ASSUME NEW p \in Workers, CommitEffect(p)
      PROVE  OrderedState'
  <2>1. /\ A' = Append(A, job[p]) /\ job[p] \in Windows /\ job[p] # Ack
        /\ record'.lastAt = EffectiveAt[job[p]]
        /\ record.lastAt < EffectiveAt[job[p]]
        /\ DOMAIN evaluations' = DOMAIN evaluations \cup {job[p]}
    BY <1>5, MemoryAssumption DEF CommitEffect
  <2>2. AppliedWindows' = AppliedWindows \cup {job[p]}
    BY <1>1, <2>1, AppendElements DEF AppliedWindows
  <2>3. /\ Len(A') = Len(A) + 1 /\ Len(A) \in Nat
        /\ \A k \in 1 .. Len(A) : A'[k] = A[k]
        /\ A'[Len(A) + 1] = job[p]
    BY <1>1, <2>1, AppendLemma
  <2>4. ASSUME NEW i \in 1 .. Len(A'), NEW j \in 1 .. Len(A'),
               i < j, A'[i] # Ack, A'[j] # Ack
        PROVE  EffectiveAt[A'[i]] < EffectiveAt[A'[j]]
    <3>1. i \in 1 .. Len(A) /\ A'[i] = A[i]
      BY <2>3, <2>4
    <3>2. CASE j \in 1 .. Len(A)
      BY <1>2, <2>3, <2>4, <3>1, <3>2 DEF OrderedState
    <3>3. CASE j = Len(A) + 1
      <4>1. A[i] \in DOMAIN evaluations
        BY <1>2, <2>4, <3>1 DEF OrderedState, AppliedWindows
      <4>2. EffectiveAt[A[i]] <= record.lastAt
        BY <1>2, <4>1 DEF OrderedState
      <4>3. EffectiveAt[A[i]] \in Nat /\ EffectiveAt[job[p]] \in Nat
        BY <1>1, <2>1, <4>1, MemoryAssumption
      <4>. QED
        BY <1>1, <2>1, <2>3, <3>1, <3>3, <4>2, <4>3
    <3>. QED
      BY <2>3, <3>2, <3>3
  <2>5. ASSUME NEW w \in DOMAIN evaluations'
        PROVE  EffectiveAt[w] <= record'.lastAt
    <3>1. CASE w \in DOMAIN evaluations
      <4>1. EffectiveAt[w] <= record.lastAt
        BY <1>2, <3>1 DEF OrderedState
      <4>2. EffectiveAt[w] \in Nat /\ EffectiveAt[job[p]] \in Nat
        BY <1>1, <2>1, <3>1, MemoryAssumption
      <4>. QED
        BY <1>1, <2>1, <4>1, <4>2
    <3>2. CASE w = job[p]
      BY <2>1, <3>2, MemoryAssumption
    <3>. QED
      BY <2>1, <2>5, <3>1, <3>2
  <2>6. AppliedWindows' = DOMAIN evaluations'
    BY <1>2, <2>1, <2>2 DEF OrderedState
  <2>. QED
    BY <2>4, <2>5, <2>6 DEF OrderedState
<1>. QED
  BY <1>3, <1>4, <1>5, TableSteps

-------------------------------------------------------------------------------
(* One result per call *)

\* Nobody stores a result in another call's name, or in place of one.
LEMMA StoredStays ==
  ASSUME TypeInv, IInv, [Next]_vars, NEW p \in Workers, ~ Commit(p),
         NEW w \in Windows
  PROVE  StoredBy(w, p)' <=> StoredBy(w, p)
<1>1. ASSUME NEW q \in Workers, q # p, CommitEffect(q)
      PROVE  StoredBy(w, p)' <=> StoredBy(w, p)
  BY <1>1 DEF CommitEffect, StoredBy, Committed
<1>. QED
  BY <1>1, TableSteps DEF AckEffect, StoredBy, Committed

Undecided == {"evaluate", "enter", "waiting", "read", "commit"}

\* A call is undecided from its claim to its commit.
LEMMA UndecidedSteps ==
  ASSUME TypeInv, NEW p \in Workers, WorkerStep(p), pc'[p] \in Undecided
  PROVE  ClaimEvaluation(p) \/ (pc[p] \in Undecided /\ job'[p] = job[p])
<1> USE DEF TypeInv, CallTypes, Undecided
<1>1. ~ (\E w \in Windows : Process(p, w))
  BY DEF Process
<1>2. ~ (ClaimRefused(p) \/ ReleaseEvaluationClaim(p) \/ LeaveSection(p))
  BY DEF ClaimRefused, ReleaseEvaluationClaim, Return, LeaveSection
<1>3. CASE Evaluate(p) \/ EnterSection(p) \/ ReadState(p)
  BY <1>3 DEF Evaluate, EnterSection, ReadState
<1>4. ~ (CommitRefused(p) \/ CommitConflict(p) \/ Commit(p))
  BY DEF CommitRefused, CommitConflict, Commit, Leave
<1>5. ~ (WaitTimeout(p) \/ Fail(p))
  BY DEF WaitTimeout, Fail, Finish, Leave
<1>. QED
  BY <1>1, <1>2, <1>3, <1>4, <1>5 DEF WorkerStep, Proceed

LEMMA NextNotYetStored ==
  ASSUME TypeInv, IInv, [Next]_vars
  PROVE  NotYetStored'
<1> SUFFICES ASSUME NEW p \in Workers, pc'[p] \in Undecided
             PROVE  ~ StoredBy(job[p], p)'
  BY DEF NotYetStored, Undecided
<1> USE DEF TypeInv, CallTypes
<1>1. ~ Commit(p)
  BY DEF Commit, Leave, Undecided
<1>2. CASE pc[p] \in Undecided /\ job'[p] = job[p]
  <2>1. PICK w \in Windows : w = job[p]
    BY <1>2 DEF CallHasJob, Undecided
  <2>2. ~ StoredBy(w, p)'
    BY <1>1, <1>2, <2>1, StoredStays DEF IInv, NotYetStored, Undecided
  <2>. QED
    BY <1>2, <2>1, <2>2 DEF StoredBy, Committed
<1>3. CASE ClaimEvaluation(p)
  BY <1>3 DEF ClaimEvaluation, StoredBy, Committed, tables
<1>. QED
  BY <1>2, <1>3, UndecidedSteps, StepCases, OthersStay, OtherStepStays DEF Stays

\* A call that has decided has done so in a step of its own.
LEMMA DecidedSteps ==
  ASSUME TypeInv, NEW p \in Workers, WorkerStep(p), pc'[p] \in {"leave", "release"}
  PROVE  /\ job' = job
         /\ \/ Commit(p) /\ outcome'[p] = "committed"
            \/ pc[p] \in Undecided /\ outcome'[p] # "committed" /\ ~ Commit(p)
            \/ pc[p] = "leave" /\ outcome' = outcome /\ ~ Commit(p)
<1> USE DEF TypeInv, CallTypes, Undecided
<1>1. ~ (\E w \in Windows : Process(p, w))
  BY DEF Process
<1>2. ~ (ClaimRefused(p) \/ ClaimEvaluation(p) \/ ReleaseEvaluationClaim(p))
  BY DEF ClaimRefused, ClaimEvaluation, ReleaseEvaluationClaim, Return
<1>3. CASE EnterSection(p) \/ ReadState(p)
  BY <1>3 DEF EnterSection, ReadState, Finish, Leave, Commit
<1>4. CASE CommitRefused(p) \/ CommitConflict(p)
  BY <1>4 DEF CommitRefused, CommitConflict, Commit, Leave
<1>5. CASE Commit(p)
  BY <1>5 DEF Commit, Leave
<1>6. CASE WaitTimeout(p) \/ Fail(p)
  BY <1>6 DEF WaitTimeout, Fail, Finish, Leave, Commit
<1>7. CASE LeaveSection(p)
  BY <1>7 DEF LeaveSection, Commit
<1>8. ~ Evaluate(p)
  BY DEF Evaluate
<1>. QED
  BY <1>1, <1>2, <1>3, <1>4, <1>5, <1>6, <1>7, <1>8 DEF WorkerStep, Proceed

LEMMA NextOneWinner ==
  ASSUME TypeInv, IInv, [Next]_vars
  PROVE  OneWinner'
<1> SUFFICES ASSUME NEW p \in Workers, pc'[p] \in {"leave", "release"}
             PROVE  outcome'[p] = "committed" <=> StoredBy(job[p], p)'
  BY DEF OneWinner
<1>1. CASE Commit(p)
  <2>1. CommitEffect(p) /\ job' = job /\ outcome'[p] = "committed"
    BY <1>1, CommitHasEffect DEF Commit, Leave, TypeInv, CallTypes
  <2>. QED
    BY <2>1 DEF CommitEffect, StoredBy, Committed
<1>2. CASE /\ ~ Commit(p) /\ pc[p] # "idle" /\ job'[p] = job[p]
           /\ outcome'[p] = "committed" <=> StoredBy(job[p], p)
  <2>1. PICK w \in Windows : w = job[p]
    BY <1>2 DEF TypeInv, CallHasJob
  <2>2. StoredBy(w, p)' <=> StoredBy(w, p)
    BY <1>2, StoredStays
  <2>. QED
    BY <1>2, <2>1, <2>2 DEF StoredBy, Committed
<1>3. CASE WorkerStep(p)
  BY <1>1, <1>2, <1>3, DecidedSteps DEF IInv, OneWinner, NotYetStored, Undecided
<1>4. CASE Stays(p)
  BY <1>2, <1>4 DEF Stays, Commit, IInv, OneWinner
<1>. QED
  BY <1>3, <1>4, StepCases, OthersStay, OtherStepStays

-------------------------------------------------------------------------------
(* Results and their observations *)

LEMMA AcknowledgedStays ==
  ASSUME TypeInv, IInv, [Next]_vars
  PROVE  /\ Acknowledged => Acknowledged'
         /\ AckEffect => Acknowledged'
<1> DEFINE A == record.applied
<1>1. A \in Seq(Windows \cup {Ack})
  BY DEF TypeInv, SharedTypes, StateRecord
<1>2. ASSUME NEW e \in Windows \cup {Ack}, A' = Append(A, e)
      PROVE  (Acknowledged => Acknowledged') /\ (e = Ack => Acknowledged')
  BY <1>1, <1>2, AppendLemma DEF Acknowledged
<1>3. AckEffect => A' = Append(A, Ack)
  BY DEF AckEffect
<1>4. \A p \in Workers : CommitEffect(p) => job[p] \in Windows /\ A' = Append(A, job[p])
  BY DEF CommitEffect
<1>5. UNCHANGED record => (Acknowledged => Acknowledged')
  BY DEF Acknowledged
<1>. QED
  BY <1>2, <1>3, <1>4, <1>5, TableSteps

LEMMA NextOnlyAcknowledgedSince ==
  ASSUME TypeInv, IInv, [Next]_vars
  PROVE  OnlyAcknowledgedSince'
<1> SUFFICES ASSUME NEW p \in Workers, pc'[p] = "commit"
             PROVE  snapshot'[p] = record' \/ Acknowledged'
  BY DEF OnlyAcknowledgedSince
<1>1. CASE ReadState(p)
  BY <1>1 DEF ReadState, Leave, tables, TypeInv, CallTypes
<1>2. CASE Stays(p) /\ pc[p] = "commit"
  <2>1. snapshot[p] = record \/ Acknowledged
    BY <1>2 DEF IInv, OnlyAcknowledgedSince
  <2>2. ASSUME NEW q \in Workers, Commit(q)
        PROVE  FALSE
    <3>1. q = p
      BY <1>2, <2>2 DEF IInv, OneInSection, InSection, Commit
    <3>. QED
      BY <1>2, <2>2, <3>1 DEF Commit, Leave, Stays, TypeInv, CallTypes
  <2>. QED
    BY <1>2, <2>1, <2>2, TableSteps, AcknowledgedStays DEF Stays
<1>. QED
  BY <1>1, <1>2, AtCommit

LEMMA ObservationSteps ==
  ASSUME TypeInv, [Next]_vars
  PROVE  \/ observations' = observations
         \/ \E p \in Workers : Commit(p) \/ CommitConflict(p)
<1> USE DEF tables
<1>1. CASE OtherStep
  BY <1>1 DEF OtherStep, ExpireClaim, AcknowledgeRead, AcknowledgeWrite, vars
<1>2. ASSUME NEW p \in Workers, WorkerStep(p), ~ Commit(p), ~ CommitConflict(p)
      PROVE  observations' = observations
  <2>1. CASE (\E w \in Windows : Process(p, w)) \/ WaitTimeout(p) \/ Fail(p)
    BY <2>1 DEF Process, WaitTimeout, Fail
  <2>2. CASE ClaimRefused(p) \/ ClaimEvaluation(p) \/ ReleaseEvaluationClaim(p)
    BY <2>2 DEF ClaimRefused, ClaimEvaluation, ReleaseEvaluationClaim
  <2>3. CASE Evaluate(p) \/ EnterSection(p) \/ LeaveSection(p)
    BY <2>3 DEF Evaluate, EnterSection, LeaveSection
  <2>4. CASE ReadState(p) \/ CommitRefused(p)
    BY <2>4 DEF ReadState, CommitRefused
  <2>. QED
    BY <1>2, <2>1, <2>2, <2>3, <2>4 DEF WorkerStep, Proceed
<1>. QED
  BY <1>1, <1>2, StepCases

\* The copy was read in the section: only an acknowledgement can outdate it.
LEMMA ConflictMeansAcknowledged ==
  ASSUME TypeInv, IInv, NEW p \in Workers, CommitConflict(p)
  PROVE  Acknowledged
<1>1. snapshot[p] # record
  BY DEF CommitConflict, VersionConflict, StagedRecord
<1>. QED
  BY <1>1 DEF CommitConflict, IInv, OnlyAcknowledgedSince

LEMMA NextAtomicUnlessAcknowledged ==
  ASSUME TypeInv, IInv, [Next]_vars
  PROVE  AtomicUnlessAcknowledged'
<1> USE DEF AtomicUnlessAcknowledged, AtomicCommit
<1>1. AtomicUnlessAcknowledged
  BY DEF IInv
<1>2. ASSUME NEW p \in Workers, Commit(p)
      PROVE  AtomicUnlessAcknowledged'
  <2>1. /\ observations' = observations \cup {job[p]}
        /\ DOMAIN evaluations' = DOMAIN evaluations \cup {job[p]}
    BY <1>2 DEF Commit
  <2>. QED
    BY <1>1, <2>1, AcknowledgedStays
<1>3. ASSUME NEW p \in Workers, CommitConflict(p)
      PROVE  AtomicUnlessAcknowledged'
  <2>1. Acknowledged'
    BY <1>3, ConflictMeansAcknowledged, AcknowledgedStays
  <2>2. observations' = observations \cup {job[p]} /\ evaluations' = evaluations
    BY <1>3 DEF CommitConflict
  <2>. QED
    BY <1>1, <2>1, <2>2
<1>4. CASE /\ observations' = observations
           /\ \A p \in Workers : ~ Commit(p)
  <2>1. UNCHANGED <<record, evaluations>> \/ AckEffect
    BY <1>4, TableSteps
  <2>2. evaluations' = evaluations
    BY <2>1 DEF AckEffect
  <2>. QED
    BY <1>1, <1>4, <2>2, AcknowledgedStays
<1>. QED
  BY <1>2, <1>3, <1>4, ObservationSteps

-------------------------------------------------------------------------------
(* Windows in flight and waiting threads *)

\* Only a thread that enters the section gets ahead of a window, and only if
\* nobody has an earlier one in flight.
LEMMA LaterSteps ==
  ASSUME TypeInv, IInv, [Next]_vars, NEW w \in Windows,
         LaterIsAhead(w)', ~ LaterIsAhead(w)
  PROVE  claims[w] = Nil
<1>1. ASSUME NEW v \in DOMAIN evaluations', EffectiveAt[v] > EffectiveAt[w]
      PROVE  FALSE
  <2>1. v \notin DOMAIN evaluations
    BY <1>1 DEF LaterIsAhead
  <2>2. PICK p \in Workers : CommitEffect(p)
    BY <1>1, <2>1, TableSteps DEF AckEffect
  <2>3. v = job[p]
    BY <1>1, <2>1, <2>2 DEF CommitEffect
  <2>. QED
    BY <1>1, <2>2, <2>3 DEF LaterIsAhead, CommitEffect
<1>2. PICK p \in Workers : InSection(p)' /\ EffectiveAt[job'[p]] > EffectiveAt[w]
  BY <1>1 DEF LaterIsAhead
<1>3. ~ (InSection(p) /\ job'[p] = job[p])
  BY <1>2 DEF LaterIsAhead
<1>4. WorkerStep(p)
  BY <1>2, <1>3, StepCases, OthersStay, OtherStepStays DEF Stays, InSection
<1>5. EnterSection(p)
  BY <1>2, <1>3, <1>4, WorkerSteps
  DEF Commit, LeaveSection, ClaimEvaluation, ReleaseEvaluationClaim, Return,
      InSection, TypeInv, CallTypes
<1>6. EarlierInFlight(job[p]) = {} /\ job' = job
  BY <1>2, <1>5 DEF EnterSection, Finish, InSection, TypeInv, CallTypes
<1>7. EffectiveAt[w] < EffectiveAt[job[p]]
  <2>1. job[p] \in Windows
    BY <1>5 DEF EnterSection, TypeInv, CallHasJob
  <2>. QED
    BY <1>2, <1>6, <2>1, MemoryAssumption
<1>. QED
  BY <1>6, <1>7 DEF EarlierInFlight

LEMMA NextNoOvertaking ==
  ASSUME TypeInv, IInv, [Next]_vars
  PROVE  NoOvertaking'
<1> SUFFICES ASSUME NEW p \in Workers, pc'[p] # "idle", claims'[job'[p]] = p,
                    ~ lateClaim'[p]
             PROVE  ~ LaterIsAhead(job[p])'
  BY DEF NoOvertaking
<1> USE DEF TypeInv, SharedTypes, CallTypes
<1>0. job'[p] \in Windows
  BY NextType DEF CallHasJob
<1>1. CASE /\ pc[p] # "idle" /\ claims[job[p]] = p /\ ~ lateClaim[p]
           /\ job'[p] = job[p]
  <2>1. job[p] \in Windows /\ ~ LaterIsAhead(job[p])
    BY <1>1 DEF IInv, NoOvertaking, CallHasJob
  <2>2. PICK w \in Windows : w = job[p]
    BY <2>1
  <2>3. ~ LaterIsAhead(w)'
    BY <1>1, <2>1, <2>2, LaterSteps, MemoryAssumption
  <2>. QED
    BY <1>1, <2>2, <2>3 DEF LaterIsAhead
<1>2. CASE ClaimEvaluation(p)
  <2>1. /\ job' = job /\ evaluations' = evaluations /\ ~ LaterIsAhead(job[p])
    BY <1>2 DEF ClaimEvaluation, tables
  <2>2. \A q \in Workers : InSection(q)' => InSection(q)
    BY <1>2 DEF ClaimEvaluation, InSection
  <2>. QED
    BY <2>1, <2>2 DEF LaterIsAhead
<1>3. CASE claims' = claims /\ Stays(p)
  BY <1>1, <1>3 DEF Stays
<1>4. CASE OtherStep
  BY <1>3, <1>4, OtherStepStays
  DEF OtherStep, ExpireClaim, AcknowledgeRead, AcknowledgeWrite, vars, claimVars
<1>5. ASSUME NEW q \in Workers, q # p, WorkerStep(q)
      PROVE  claims[job[p]] = p
  <2>1. Stays(p)
    BY <1>5, OthersStay
  <2>2. claims[job[p]] = claims'[job[p]] \/ claims'[job[p]] \in {q, Nil}
    <3>1. CASE claims' = claims
      BY <3>1
    <3>2. CASE ClaimEvaluation(q)
      BY <3>2, <2>1, <1>0 DEF ClaimEvaluation, Stays
    <3>3. CASE ReleaseEvaluationClaim(q)
      BY <3>3, <2>1, <1>0 DEF ReleaseEvaluationClaim, Stays
    <3>. QED
      BY <1>5, <3>1, <3>2, <3>3, WorkerSteps
      DEF Commit, EnterSection, LeaveSection, claimVars
  <2>. QED
    BY <1>5, <2>1, <2>2, MemoryAssumption DEF Stays
<1>6. ASSUME NEW q \in Workers, q # p, WorkerStep(q)
      PROVE  ~ LaterIsAhead(job[p])'
  BY <1>1, <1>5, <1>6, OthersStay DEF Stays
<1>7. CASE WorkerStep(p) /\ ~ ClaimEvaluation(p)
  <2>1. ~ (ClaimRefused(p) \/ ReleaseEvaluationClaim(p))
    BY DEF ClaimRefused, ReleaseEvaluationClaim, Return
  <2>2. CASE \E w \in Windows : Process(p, w)
    <3>1. PICK w \in Windows : Process(p, w)
      BY <2>2
    <3>2. claims[w] = p /\ pc[p] = "idle"
      BY <3>1 DEF Process, claimVars
    <3>. QED
      BY <3>2 DEF IInv, ClaimHasCall
  <2>3. CASE pc[p] # "idle" /\ claims' = claims /\ job' = job /\ lateClaim' = lateClaim
    BY <1>1, <2>3
  <2>4. CASE Evaluate(p) \/ EnterSection(p) \/ ReadState(p) \/ LeaveSection(p)
    BY <2>3, <2>4 DEF Evaluate, EnterSection, ReadState, LeaveSection, claimVars, locals
  <2>5. CASE CommitRefused(p) \/ CommitConflict(p) \/ Commit(p)
    BY <2>3, <2>5 DEF CommitRefused, CommitConflict, Commit, claimVars, locals
  <2>6. CASE WaitTimeout(p) \/ Fail(p)
    BY <2>3, <2>6 DEF WaitTimeout, Fail, claimVars, locals
  <2>. QED
    BY <1>7, <2>1, <2>2, <2>4, <2>5, <2>6 DEF WorkerStep, Proceed
<1>. QED
  BY <1>2, <1>4, <1>6, <1>7, StepCases

\* Whoever ends what a thread waits for wakes it.
LEMMA NextWaitsForSomething ==
  ASSUME TypeInv, IInv, [Next]_vars
  PROVE  WaitsForSomething'
<1> SUFFICES ASSUME NEW p \in Workers, pc'[p] = "waiting", p \notin notified', busy' = Nil
             PROVE  EarlierInFlight(job[p])' # {}
  BY DEF WaitsForSomething, Asleep
<1> USE DEF TypeInv, SharedTypes, CallTypes
<1>1. CASE EnterSection(p)
  BY <1>1 DEF EnterSection, Finish, EarlierInFlight, claimVars
<1>2. CASE /\ pc[p] = "waiting" /\ p \notin notified /\ busy = Nil /\ job'[p] = job[p]
           /\ \A w \in Windows : claims[w] # Nil => claims'[w] # Nil
  <2>1. EarlierInFlight(job[p]) # {}
    BY <1>2 DEF IInv, WaitsForSomething, Asleep
  <2>. QED
    BY <1>2, <2>1 DEF EarlierInFlight
<1>3. CASE OtherStep
  BY <1>2, <1>3, OtherStepStays
  DEF OtherStep, ExpireClaim, AcknowledgeRead, AcknowledgeWrite, vars, claimVars,
      section, Stays
<1>4. ASSUME NEW q \in Workers, q # p, WorkerStep(q)
      PROVE  EarlierInFlight(job[p])' # {}
  <2>1. pc[p] = "waiting" /\ job'[p] = job[p]
    BY <1>4, OthersStay DEF Stays
  <2>2. CASE EnterSection(q)
    BY <1>2, <1>4, <2>1, <2>2 DEF EnterSection, Finish, claimVars
  <2>3. CASE LeaveSection(q)
    BY <2>1, <2>3 DEF LeaveSection, NotifyAll, Waiting
  <2>4. CASE ClaimEvaluation(q)
    BY <2>1, <2>4 DEF ClaimEvaluation, NotifyAll, Waiting
  <2>5. CASE ReleaseEvaluationClaim(q)
    BY <1>2, <2>1, <2>5 DEF ReleaseEvaluationClaim, NotifyAll, Waiting
  <2>6. CASE Commit(q)
    BY <1>2, <2>1, <2>6 DEF Commit, claimVars, section
  <2>. QED
    BY <1>2, <1>4, <2>1, <2>2, <2>3, <2>4, <2>5, <2>6, WorkerSteps DEF claimVars, section
<1>5. CASE WorkerStep(p) /\ ~ EnterSection(p)
  <2>1. ~ (\E w \in Windows : Process(p, w))
    BY DEF Process
  <2>2. ~ (ClaimRefused(p) \/ ClaimEvaluation(p) \/ ReleaseEvaluationClaim(p))
    BY DEF ClaimRefused, ClaimEvaluation, ReleaseEvaluationClaim, Return
  <2>3. ~ (Evaluate(p) \/ ReadState(p) \/ LeaveSection(p))
    BY DEF Evaluate, ReadState, Leave, LeaveSection
  <2>4. ~ (CommitRefused(p) \/ CommitConflict(p) \/ Commit(p))
    BY DEF CommitRefused, CommitConflict, Commit, Leave
  <2>5. ~ (WaitTimeout(p) \/ Fail(p))
    BY DEF WaitTimeout, Fail, Finish, Leave
  <2>. QED
    BY <1>5, <2>1, <2>2, <2>3, <2>4, <2>5 DEF WorkerStep, Proceed
<1>. QED
  BY <1>1, <1>3, <1>4, <1>5, StepCases

LEMMA LeastNatural ==
  ASSUME NEW S \in SUBSET Nat, S # {}
  PROVE  \E n \in S : \A m \in S : n <= m
<1> DEFINE R == OpToRel(<, Nat)
<1>1. IsWellFoundedOn(R, Nat)
  BY NatLessThanWellFounded
<1>2. \A m, n \in Nat : m < n => <<m, n>> \in R
  BY DEF OpToRel
<1> HIDE DEF R
<1>3. PICK n \in S : \A m \in S : ~ (<<m, n>> \in R)
  BY <1>1, WFMin
<1>4. \A m \in S : m \in Nat /\ n \in Nat /\ ~ (m < n)
  BY <1>2, <1>3
<1>. QED
  BY <1>4

\* The earliest window in flight is held up by nothing but the section.
LEMMA SomebodyRuns == TypeInv /\ IInv => NoLostWakeup
<1> SUFFICES ASSUME TypeInv, IInv, NEW p \in Workers, Asleep(p)
             PROVE  \E q \in Workers : HeldUpBy(p, q)
  BY DEF NoLostWakeup
<1> DEFINE E == EarlierInFlight(job[p])
           Times == {EffectiveAt[v] : v \in E}
<1>1. CASE busy # Nil
  <2>1. PICK q \in Workers : InSection(q)
    BY <1>1 DEF IInv, OneInSection
  <2>. QED
    BY <2>1 DEF InSection, Asleep, HeldUpBy
<1>2. CASE busy = Nil
  <2>1. E # {} /\ Times \in SUBSET Nat
    BY <1>2, MemoryAssumption DEF IInv, WaitsForSomething, EarlierInFlight
  <2>2. PICK v \in E : \A u \in E : EffectiveAt[v] <= EffectiveAt[u]
    <3> HIDE DEF E
    <3>1. PICK n \in Times : \A m \in Times : n <= m
      <4>1. Times # {}
        BY <2>1
      <4> HIDE DEF Times
      <4>. QED
        BY <2>1, <4>1, LeastNatural
    <3>. QED
      BY <3>1
  <2>3. /\ v \in Windows /\ claims[v] \in Workers
        /\ EffectiveAt[v] < EffectiveAt[job[p]]
    BY <2>2 DEF EarlierInFlight, TypeInv, SharedTypes
  <2>4. PICK q \in Workers : claims[v] = q
    BY <2>3
  <2>5. job[q] = v /\ pc[q] # "idle"
    BY <2>3, <2>4 DEF IInv, ClaimHasCall
  <2>6. ASSUME Asleep(q)
        PROVE  FALSE
    <3>1. EarlierInFlight(v) # {}
      BY <1>2, <2>5, <2>6 DEF IInv, WaitsForSomething
    <3>2. PICK u \in Windows : claims[u] # Nil /\ EffectiveAt[u] < EffectiveAt[v]
      BY <3>1 DEF EarlierInFlight
    <3>3. job[p] \in Windows
      BY DEF Asleep, TypeInv, CallHasJob
    <3>4. /\ EffectiveAt[u] \in Nat /\ EffectiveAt[v] \in Nat
          /\ EffectiveAt[job[p]] \in Nat
      BY <2>3, <3>2, <3>3, MemoryAssumption
    <3>5. u \in E
      BY <2>3, <3>2, <3>4 DEF EarlierInFlight
    <3>. QED
      BY <2>2, <3>2, <3>4, <3>5
  <2>. QED
    BY <2>3, <2>4, <2>5, <2>6 DEF HeldUpBy
<1>. QED
  BY <1>1, <1>2

-------------------------------------------------------------------------------
(* What the runs check *)

LEMMA NextIInv == TypeInv /\ IInv /\ [Next]_vars => IInv'
  BY NextOneInSection, NextClaimHasCall, NextCopiesAreVersioned, NextStillNewer,
     NextNotYetStored, NextWaitsForSomething, NextOnlyAcknowledgedSince,
     NextAtomicUnlessAcknowledged, NextOrderedState, NextOneWinner,
     NextNoOvertaking DEF IInv

LEMMA Inductive == Spec => [](TypeInv /\ IInv)
  BY InitType, NextType, InitIInv, NextIInv, PTL DEF Spec

\* Although only a flag and a condition variable order the threads, the state
\* of a stream derives from its committed windows in the order of their time.
THEOREM StateIsOrdered == Spec => []OrderedState
<1>1. IInv => OrderedState
  BY DEF IInv
<1>. QED
  BY <1>1, Inductive, PTL

\* A call reports a new result if and only if it has stored that result itself:
\* a call that says stale, in progress or failed has left none behind.
THEOREM OneWinnerPerWindow == Spec => []OneWinner
<1>1. IInv => OneWinner
  BY DEF IInv
<1>. QED
  BY <1>1, Inductive, PTL

\* A window in flight is not overtaken by a later one that was not already
\* ahead when it was claimed.
THEOREM LaterWindowsWait == Spec => []NoOvertaking
<1>1. IInv => NoOvertaking
  BY DEF IInv
<1>. QED
  BY <1>1, Inductive, PTL

\* No wake-up is lost and no circle of waiting threads closes: behind every
\* thread asleep there is one that runs, in the section or with an earlier
\* window, whose next notification comes without any timeout.
THEOREM NoWakeupIsLost == Spec => []NoLostWakeup
  BY Inductive, SomebodyRuns, PTL

\* Guarantee 4 as the in-memory store keeps it: no result lacks its observation,
\* and without an acknowledgement both are committed together or not at all.
THEOREM OnlyAcknowledgementsSplitCommits == Spec => []AtomicUnlessAcknowledged
<1>1. IInv => AtomicUnlessAcknowledged
  BY DEF IInv
<1>. QED
  BY <1>1, Inductive, PTL

\* The threads, claims, waits and acknowledgements of the in-memory store
\* implement the same ledger as the Postgres store.
THEOREM MemoryImplementsLedger == Spec => ImplementsLedger
<1>1. Init => Ledger!Init
  BY DEF Init, NoRow, Ledger!Init
<1>2. TypeInv /\ IInv /\ [Next]_vars => [Ledger!Next]_(Ledger!vars)
  <2> SUFFICES ASSUME TypeInv, IInv, [Next]_vars
               PROVE  [Ledger!Next]_(Ledger!vars)
    OBVIOUS
  <2>1. CASE UNCHANGED <<record, evaluations>>
    BY <2>1 DEF Ledger!vars
  <2>2. CASE AckEffect
    BY <2>2 DEF AckEffect, Ledger!Next, Ledger!Acknowledge
  <2>3. ASSUME NEW p \in Workers, CommitEffect(p)
        PROVE  Ledger!Commit(job[p]) /\ job[p] \in Windows
    BY <2>3 DEF CommitEffect, Ledger!Commit
  <2>. QED
    BY <2>1, <2>2, <2>3, TableSteps DEF Ledger!Next
<1>. QED
  BY <1>1, <1>2, Inductive, PTL DEF Spec, Ledger!Spec, ImplementsLedger

===============================================================================
