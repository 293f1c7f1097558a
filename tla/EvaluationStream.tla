--------------------------- MODULE EvaluationStream ---------------------------
(***************************************************************************)
(* KPIEngine.process over the Postgres runtime store, for one              *)
(* (metric, scope) stream: several workers claim evaluation windows,        *)
(* evaluate them out of order, wait for earlier claims without a lock and   *)
(* commit under the transaction-scoped advisory lock of the stream.  A      *)
(* person may acknowledge the metric at any time.                           *)
(*                                                                         *)
(* A claim row is (worker, expired or not): the worker stands for the       *)
(* row's random token.  A worker runs one call at a time and a claim row    *)
(* of its own that it no longer knows of (after a crash) has to be deleted  *)
(* before it can claim the window again, so the two never mix.              *)
(***************************************************************************)
EXTENDS Integers, Sequences

CONSTANTS
    Workers,         \* processes that call KPIEngine.process
    Operators,       \* people that call KPIEngine.acknowledge
    Windows,         \* EvaluationKeys of the stream
    EffectiveAt,     \* EvaluationKey.eval_at; two keys may share it
    CommitAttempts,  \* KPIEngine.commit_attempts
    MaxVersion,      \* bound: no acknowledgement starts at this version
    Nil,             \* no claim, no lock holder, no job
    Ack              \* mark of an acknowledgement in metricState.applied

ASSUME StreamAssumption ==
    /\ Nil \notin Workers
    /\ Nil \notin Windows
    /\ Ack \notin Windows
    /\ EffectiveAt \in [Windows -> Nat \ {0}]
    /\ CommitAttempts \in Nat \ {0}
    /\ MaxVersion \in Nat

VARIABLES
    metricState,   \* row of metric_state: version, last_evaluation_at, payload
    observations,  \* keys of the table observations
    evaluations,   \* table evaluations: key -> record
    claims,        \* table evaluation_claims: window -> owner or Nil
    expired,       \* windows whose claim row has expires_at <= now()
    streamLock,    \* pg_advisory_xact_lock of the stream
    pc,            \* where each worker is in process()
    job,           \* the window it works on
    attempts,      \* StreamCommitConflicts seen so far
    hasData,       \* the evaluation gave a value (FALSE: NO_DATA)
    snapshot,      \* previous_record, as read by _commit_ordered
    history,       \* get_history, as read by _commit_ordered
    outcome,       \* how the call will end
    lateClaim,     \* auxiliary: a later window was ahead already at the claim
    operatorPc,    \* where each operator is in acknowledge()
    operatorView   \* the record acknowledge() read

tables    == <<metricState, observations, evaluations>>
claimVars == <<claims, expired>>
locals    == <<attempts, hasData, snapshot, history, lateClaim>>
operators == <<operatorPc, operatorView>>
vars == <<metricState, observations, evaluations, claims, expired, streamLock,
          pc, job, attempts, hasData, snapshot, history, outcome, lateClaim,
          operatorPc, operatorView>>

-------------------------------------------------------------------------------
(* Types *)

\* "applied" stands for the payload of the record: the writes it derives from.
StateRecord == [version : Nat, lastAt : Nat, applied : Seq(Windows \cup {Ack})]

\* EvaluationRecord: was there a value, which history was the state computed
\* from, and (auxiliary) which worker's call committed it.
EvaluationRecord ==
    [value : BOOLEAN, basis : SUBSET Windows, winner : Workers]

NoRow == [version |-> 0, lastAt |-> 0, applied |-> << >>]

PCs == {"idle", "claim", "insert", "evaluate", "wait", "read", "history",
        "commit", "write", "release"}

Outcomes == {"none", "committed", "stale", "in_progress", "failed"}

TypeOK ==
    /\ metricState \in StateRecord
    /\ observations \subseteq Windows
    /\ DOMAIN evaluations \subseteq Windows
    /\ evaluations \in [DOMAIN evaluations -> EvaluationRecord]
    /\ claims \in [Windows -> Workers \cup {Nil}]
    /\ expired \subseteq Windows
    /\ streamLock \in Workers \cup {Nil}
    /\ pc \in [Workers -> PCs]
    /\ job \in [Workers -> Windows \cup {Nil}]
    /\ attempts \in [Workers -> Nat]
    /\ hasData \in [Workers -> BOOLEAN]
    /\ snapshot \in [Workers -> StateRecord]
    /\ history \in [Workers -> SUBSET Windows]
    /\ outcome \in [Workers -> Outcomes]
    /\ lateClaim \in [Workers -> BOOLEAN]
    /\ operatorPc \in [Operators -> {"idle", "write"}]
    /\ operatorView \in [Operators -> StateRecord]

-------------------------------------------------------------------------------
(* Helpers *)

Committed(w) == w \in DOMAIN evaluations

\* Mutant: a window at last_evaluation_at itself is not stale.
MutStaleIsStrict(record, w) == record.lastAt > EffectiveAt[w]

\* last_evaluation_at is at or after the window: StaleEvaluationError.
StaleFor(record, w) == record.lastAt >= EffectiveAt[w]

\* Windows whose claim row a query for earlier claims returns.
EarlierClaims(w) ==
    {v \in Windows : claims[v] # Nil /\ EffectiveAt[v] < EffectiveAt[w]}

\* Their expires_at is after now().
EarlierLiveClaims(w) == EarlierClaims(w) \ expired

\* A window with a later effective time is committed, or its commit holds the
\* stream lock and has rechecked the claims.
LaterIsAhead(w) ==
    \/ \E v \in DOMAIN evaluations : EffectiveAt[v] > EffectiveAt[w]
    \/ \E p \in Workers : streamLock = p /\ EffectiveAt[job[p]] > EffectiveAt[w]

\* The upsert of _write_state inserts when there is no row, and otherwise
\* only replaces the version just before the staged one.
VersionGuard(record) ==
    metricState.version = 0 \/ metricState.version = record.version - 1

\* What _commit_ordered read is dropped when it is left.
DropReads(p) ==
    /\ snapshot' = [snapshot EXCEPT ![p] = NoRow]
    /\ history' = [history EXCEPT ![p] = {}]

ResetLocals(p) ==
    /\ attempts' = [attempts EXCEPT ![p] = 0]
    /\ hasData' = [hasData EXCEPT ![p] = FALSE]
    /\ lateClaim' = [lateClaim EXCEPT ![p] = FALSE]
    /\ DropReads(p)

\* Leave process(): the finally clause releases the claim.
Finish(p, how) ==
    /\ pc' = [pc EXCEPT ![p] = "release"]
    /\ outcome' = [outcome EXCEPT ![p] = how]
    /\ ResetLocals(p)

\* except StreamCommitConflict: run the ordered section again, or give up.
Conflict(p) ==
    IF attempts[p] + 1 >= CommitAttempts
      THEN Finish(p, "in_progress")
      ELSE /\ attempts' = [attempts EXCEPT ![p] = @ + 1]
           /\ pc' = [pc EXCEPT ![p] = "wait"]
           /\ DropReads(p)
           /\ UNCHANGED <<hasData, outcome, lateClaim>>

\* The call ends: a worker keeps nothing between two calls.
Return(p) ==
    /\ pc' = [pc EXCEPT ![p] = "idle"]
    /\ job' = [job EXCEPT ![p] = Nil]
    /\ outcome' = [outcome EXCEPT ![p] = "none"]
    /\ ResetLocals(p)

-------------------------------------------------------------------------------
(* KPIEngine.process, up to the ordered section *)

Process(p, w) ==
    /\ pc[p] = "idle"
    /\ pc' = [pc EXCEPT ![p] = "claim"]
    /\ job' = [job EXCEPT ![p] = w]
    /\ UNCHANGED <<tables, claimVars, streamLock, locals, outcome, operators>>

\* claim_evaluation, first read: a committed key returns its stored record.
ClaimCheck(p) ==
    /\ pc[p] = "claim"
    /\ IF Committed(job[p])
         THEN Return(p)
         ELSE /\ pc' = [pc EXCEPT ![p] = "insert"]
              /\ UNCHANGED <<job, locals, outcome>>
    /\ UNCHANGED <<tables, claimVars, streamLock, operators>>

\* claim_evaluation, the rest of its transaction.  A live row: in progress.
ClaimRefused(p) ==
    /\ pc[p] = "insert"
    /\ claims[job[p]] # Nil
    /\ job[p] \notin expired
    /\ Return(p)
    /\ UNCHANGED <<tables, claimVars, streamLock, operators>>

\* No row, or an expired one that is deleted: insert, then look again for a
\* result that another worker committed since the first read.
InsertClaim(p) ==
    LET w == job[p] IN
    /\ pc[p] = "insert"
    /\ claims[w] = Nil \/ w \in expired
    /\ expired' = expired \ {w}
    /\ IF Committed(w)
         THEN /\ claims' = [claims EXCEPT ![w] = Nil]
              /\ Return(p)
         ELSE /\ claims' = [claims EXCEPT ![w] = p]
              /\ pc' = [pc EXCEPT ![p] = "evaluate"]
              /\ lateClaim' = [lateClaim EXCEPT ![p] = LaterIsAhead(w)]
              /\ UNCHANGED <<job, attempts, hasData, snapshot, history, outcome>>
    /\ UNCHANGED <<tables, streamLock, operators>>

\* evaluate(): a value, or NoDataError, which process() turns into NO_DATA.
Evaluate(p, value) ==
    /\ pc[p] = "evaluate"
    /\ hasData' = [hasData EXCEPT ![p] = value]
    /\ pc' = [pc EXCEPT ![p] = "wait"]
    /\ UNCHANGED <<tables, claimVars, streamLock, job, attempts, snapshot,
                   history, lateClaim, outcome, operators>>

-------------------------------------------------------------------------------
(* _commit_ordered: ordered_stream_commit, then reads, then one transaction *)

\* One poll of ordered_stream_commit that does not go round again.
OrderedStreamCommit(p) ==
    /\ pc[p] = "wait"
    /\ IF StaleFor(metricState, job[p])
         THEN Finish(p, "stale")
         ELSE /\ EarlierLiveClaims(job[p]) = {}
              /\ pc' = [pc EXCEPT ![p] = "read"]
              /\ UNCHANGED <<locals, outcome>>
    /\ UNCHANGED <<tables, claimVars, streamLock, job, operators>>

\* Mutant: timeout=None, the wait has no deadline.
MutNoDeadline(p) ==
    /\ pc[p] = "wait"
    /\ FALSE
    /\ Finish(p, "in_progress")
    /\ UNCHANGED <<tables, claimVars, streamLock, job, operators>>

\* The 30 second deadline passes while an earlier claim is in flight.
WaitTimeout(p) ==
    /\ pc[p] = "wait"
    /\ EarlierLiveClaims(job[p]) # {}
    /\ Finish(p, "in_progress")
    /\ UNCHANGED <<tables, claimVars, streamLock, job, operators>>

\* get_state_record and the engine's own staleness check.  NO_DATA carries
\* the record forward and reads no history.
ReadState(p) ==
    /\ pc[p] = "read"
    /\ IF StaleFor(metricState, job[p])
         THEN Finish(p, "stale")
         ELSE /\ snapshot' = [snapshot EXCEPT ![p] = metricState]
              /\ pc' = [pc EXCEPT ![p] = IF hasData[p] THEN "history"
                                                       ELSE "commit"]
              /\ UNCHANGED <<attempts, hasData, history, lateClaim, outcome>>
    /\ UNCHANGED <<tables, claimVars, streamLock, job, operators>>

ReadHistory(p) ==
    /\ pc[p] = "history"
    /\ history' = [history EXCEPT ![p] = observations]
    /\ pc' = [pc EXCEPT ![p] = "commit"]
    /\ UNCHANGED <<tables, claimVars, streamLock, job, attempts, hasData,
                   snapshot, lateClaim, outcome, operators>>

ClaimIsLost(p) == claims[job[p]] # p

\* Mutant: a key that is already committed is taken for this call's success.
MutDuplicateIsSuccess(p) ==
    /\ pc[p] = "commit"
    /\ streamLock = Nil
    /\ IF Committed(job[p])
         THEN Finish(p, "committed")
         ELSE /\ ClaimIsLost(p) \/ StaleFor(metricState, job[p])
              /\ Finish(p, IF ClaimIsLost(p) THEN "in_progress" ELSE "stale")
    /\ UNCHANGED <<tables, claimVars, streamLock, job, operators>>

\* _apply takes the stream lock and _recheck_under_lock finds the claim gone,
\* the key committed or the window stale: the transaction is rolled back.
RecheckFails(p) ==
    /\ pc[p] = "commit"
    /\ streamLock = Nil
    /\ \/ (ClaimIsLost(p) \/ Committed(job[p])) /\ Finish(p, "in_progress")
       \/ /\ ~ ClaimIsLost(p) /\ ~ Committed(job[p])
          /\ StaleFor(metricState, job[p])
          /\ Finish(p, "stale")
    /\ UNCHANGED <<tables, claimVars, streamLock, job, operators>>

RecheckPasses(p) ==
    /\ streamLock = Nil
    /\ ~ ClaimIsLost(p)
    /\ ~ Committed(job[p])
    /\ ~ StaleFor(metricState, job[p])

\* ... or an earlier claim in flight.  now() is the start of the transaction,
\* before it waited for the lock, so a row that has expired since counts too.
RecheckConflict(p) ==
    /\ pc[p] = "commit"
    /\ RecheckPasses(p)
    /\ EarlierClaims(job[p]) # {}
    /\ Conflict(p)
    /\ UNCHANGED <<tables, claimVars, streamLock, job, operators>>

\* Mutant: earlier claims are only looked for before the lock is taken.
MutNoClaimRecheck(p) ==
    /\ pc[p] = "commit"
    /\ RecheckPasses(p)
    /\ streamLock' = p
    /\ pc' = [pc EXCEPT ![p] = "write"]
    /\ UNCHANGED <<tables, claimVars, job, locals, outcome, operators>>

\* ... or nothing in the way: go on to write, holding the lock.
RecheckUnderLock(p) ==
    /\ pc[p] = "commit"
    /\ RecheckPasses(p)
    /\ EarlierLiveClaims(job[p]) = {}
    /\ streamLock' = p
    /\ pc' = [pc EXCEPT ![p] = "write"]
    /\ UNCHANGED <<tables, claimVars, job, locals, outcome, operators>>

\* Mutant: NO_DATA carries the record forward with its old version.
MutNoDataKeepsVersion(p) ==
    [version |-> snapshot[p].version + (IF hasData[p] THEN 1 ELSE 0),
     lastAt  |-> EffectiveAt[job[p]],
     applied |-> Append(snapshot[p].applied, job[p])]

\* Mutant: the staged record has no last_evaluation_at.
MutNoCursor(p) ==
    [version |-> snapshot[p].version + 1,
     applied |-> Append(snapshot[p].applied, job[p])]

\* The record _commit_ordered staged, computed from what it read.
StagedRecord(p) ==
    [version |-> snapshot[p].version + 1,
     lastAt  |-> EffectiveAt[job[p]],
     applied |-> Append(snapshot[p].applied, job[p])]

StagedEvaluation(p) ==
    [value |-> hasData[p], basis |-> history[p], winner |-> p]

\* Mutant: the observation is written before the version is compared, outside
\* the transaction.
MutObservationFirst(p) ==
    /\ pc[p] = "write"
    /\ ~ VersionGuard(StagedRecord(p))
    /\ observations' = observations \cup {job[p]}
    /\ streamLock' = Nil
    /\ Conflict(p)
    /\ UNCHANGED <<metricState, evaluations, claimVars, job, operators>>

VersionConflict(p) ==
    /\ pc[p] = "write"
    /\ ~ VersionGuard(StagedRecord(p))
    /\ streamLock' = Nil
    /\ Conflict(p)
    /\ UNCHANGED <<tables, claimVars, job, operators>>

WriteTables(p) ==
    /\ VersionGuard(StagedRecord(p))
    /\ metricState' = StagedRecord(p)
    /\ observations' = observations \cup {job[p]}
    /\ evaluations' = [w \in DOMAIN evaluations \cup {job[p]} |->
                         IF w = job[p] THEN StagedEvaluation(p)
                                       ELSE evaluations[w]]
    /\ streamLock' = Nil

\* The transaction commits.  The answer may be lost with the connection: the
\* call then fails although everything is committed.
Apply(p) ==
    /\ pc[p] = "write"
    /\ WriteTables(p)
    /\ \/ Finish(p, "committed")
       \/ Finish(p, "failed")
    /\ UNCHANGED <<claimVars, job, operators>>

\* finally: release_evaluation_claim deletes the row if the token is still ours.
ReleaseEvaluationClaim(p) ==
    LET w == job[p] IN
    /\ pc[p] = "release"
    /\ IF claims[w] = p
         THEN claims' = [claims EXCEPT ![w] = Nil] /\ expired' = expired \ {w}
         ELSE UNCHANGED <<claims, expired>>
    /\ Return(p)
    /\ UNCHANGED <<tables, streamLock, operators>>

-------------------------------------------------------------------------------
(* Failures and time *)

\* An exception out of the warehouse, the investigation or the store: the
\* call ends and a transaction that was open is rolled back.
Fail(p) ==
    /\ pc[p] \in {"evaluate", "wait", "read", "history", "commit", "write"}
    /\ Finish(p, "failed")
    /\ streamLock' = IF streamLock = p THEN Nil ELSE streamLock
    /\ UNCHANGED <<tables, claimVars, job, operators>>

\* The process dies, or the release itself fails: the claim row stays.
Crash(p) ==
    /\ pc[p] # "idle"
    /\ Return(p)
    /\ streamLock' = IF streamLock = p THEN Nil ELSE streamLock
    /\ UNCHANGED <<tables, claimVars, operators>>

\* claim_ttl seconds have passed since the row was inserted.
ExpireClaim(w) ==
    /\ claims[w] # Nil
    /\ w \notin expired
    /\ expired' = expired \cup {w}
    /\ UNCHANGED <<tables, claims, streamLock, pc, job, locals,
                   outcome, operators>>

-------------------------------------------------------------------------------
(* KPIEngine.acknowledge: its state half (no claim, no evaluation key) *)

AcknowledgeRead(o) ==
    /\ operatorPc[o] = "idle"
    /\ metricState.version < MaxVersion
    /\ operatorView' = [operatorView EXCEPT ![o] = metricState]
    /\ operatorPc' = [operatorPc EXCEPT ![o] = "write"]
    /\ UNCHANGED <<tables, claimVars, streamLock, pc, job, locals, outcome>>

\* Mutant: an acknowledgement does not count as a version.
MutAckKeepsVersion(o) ==
    [version |-> operatorView[o].version,
     lastAt  |-> operatorView[o].lastAt,
     applied |-> Append(operatorView[o].applied, Ack)]

AcknowledgedRecord(o) ==
    [version |-> operatorView[o].version + 1,
     lastAt  |-> operatorView[o].lastAt,
     applied |-> Append(operatorView[o].applied, Ack)]

\* set_state_record; a version conflict is raised to the caller.
AcknowledgeWrite(o) ==
    /\ operatorPc[o] = "write"
    /\ streamLock = Nil
    /\ metricState' = IF VersionGuard(AcknowledgedRecord(o))
                        THEN AcknowledgedRecord(o) ELSE metricState
    /\ operatorPc' = [operatorPc EXCEPT ![o] = "idle"]
    /\ operatorView' = [operatorView EXCEPT ![o] = NoRow]
    /\ UNCHANGED <<observations, evaluations, claimVars, streamLock, pc, job,
                   locals, outcome>>

-------------------------------------------------------------------------------
(* Specification *)

Init ==
    /\ metricState = NoRow
    /\ observations = {}
    /\ evaluations = [w \in {} |-> NoRow]
    /\ claims = [w \in Windows |-> Nil]
    /\ expired = {}
    /\ streamLock = Nil
    /\ pc = [p \in Workers |-> "idle"]
    /\ job = [p \in Workers |-> Nil]
    /\ attempts = [p \in Workers |-> 0]
    /\ hasData = [p \in Workers |-> FALSE]
    /\ snapshot = [p \in Workers |-> NoRow]
    /\ history = [p \in Workers |-> {}]
    /\ outcome = [p \in Workers |-> "none"]
    /\ lateClaim = [p \in Workers |-> FALSE]
    /\ operatorPc = [o \in Operators |-> "idle"]
    /\ operatorView = [o \in Operators |-> NoRow]

\* The step process() takes next by itself, outside its own transaction.
Proceed(p) ==
    \/ ClaimCheck(p)
    \/ ClaimRefused(p)
    \/ InsertClaim(p)
    \/ \E value \in BOOLEAN : Evaluate(p, value)
    \/ OrderedStreamCommit(p)
    \/ WaitTimeout(p)
    \/ ReadState(p)
    \/ ReadHistory(p)
    \/ VersionConflict(p)
    \/ Apply(p)
    \/ ReleaseEvaluationClaim(p)

\* Its turn with the stream lock.
TakeLock(p) ==
    \/ RecheckFails(p)
    \/ RecheckConflict(p)
    \/ RecheckUnderLock(p)

Next ==
    \/ \E p \in Workers : \/ \E w \in Windows : Process(p, w)
                          \/ Proceed(p)
                          \/ TakeLock(p)
                          \/ Fail(p)
                          \/ Crash(p)
    \/ \E w \in Windows : ExpireClaim(w)
    \/ \E o \in Operators : AcknowledgeRead(o) \/ AcknowledgeWrite(o)

Spec == Init /\ [][Next]_vars

\* Calls make progress: queries and sleeps end (statement timeout, 30 second
\* deadline), and Postgres grants a contended advisory lock in arrival order.
Fairness ==
    \A p \in Workers : WF_vars(Proceed(p)) /\ SF_vars(TakeLock(p))

FairSpec == Spec /\ Fairness

-------------------------------------------------------------------------------
(* Correctness *)

AppliedWindows == {metricState.applied[i] :
                     i \in 1 .. Len(metricState.applied)} \ {Ack}

\* Guarantee 4 (atomic persistence) and 2: the observations, the evaluation
\* records and the windows the metric state is derived from are the same, and
\* the state saw each of them once, however workers crash or lose their claim.
AtomicCommit ==
    /\ observations = DOMAIN evaluations
    /\ observations = AppliedWindows
    /\ \A i, j \in 1 .. Len(metricState.applied) :
          /\ metricState.applied[i] = metricState.applied[j]
          /\ metricState.applied[i] # Ack
          => i = j

\* Guarantee 3 (ordered state): the windows in the state are in effective_at
\* order, and last_evaluation_at is not before any of them.
OrderedState ==
    /\ \A i, j \in 1 .. Len(metricState.applied) :
          /\ i < j
          /\ metricState.applied[i] # Ack
          /\ metricState.applied[j] # Ack
          => EffectiveAt[metricState.applied[i]]
               < EffectiveAt[metricState.applied[j]]
    /\ \A w \in DOMAIN evaluations : EffectiveAt[w] <= metricState.lastAt

\* A state computed from a value used exactly the history before it: the read
\* of the history, after the read of the record and before the lock, misses no
\* window that went into the state and holds none that did not.
HistoryIsExact ==
    \A i \in 1 .. Len(metricState.applied) :
        LET w == metricState.applied[i] IN
        w # Ack /\ evaluations[w].value =>
            evaluations[w].basis =
                {metricState.applied[j] : j \in 1 .. i - 1} \ {Ack}

StoredBy(w, p) == Committed(w) /\ evaluations[w].winner = p

\* A call reports a new result only when its own transaction stored it: of
\* all the calls for a window, one at most returns idempotent=False.  A call
\* that says stale or in progress has stored nothing; one that fails may have.
OneWinner ==
    \A p \in Workers : pc[p] = "release" =>
        /\ outcome[p] = "committed" => StoredBy(job[p], p)
        /\ outcome[p] \in {"stale", "in_progress"} => ~ StoredBy(job[p], p)

\* A later window waits for earlier in-flight windows: while a claim is live,
\* no later window is committed, unless that one was ahead (committed, or past
\* its recheck) when the claim was made.
NoOvertaking ==
    \A p \in Workers :
        /\ pc[p] \in {"evaluate", "wait", "read", "history", "commit", "write"}
        /\ claims[job[p]] = p
        /\ job[p] \notin expired
        /\ ~ lateClaim[p]
        => ~ LaterIsAhead(job[p])

-------------------------------------------------------------------------------
(* Why it is correct: the inductive invariant                              *)
(*                                                                         *)
(* Nothing is locked between the reads of _commit_ordered and its commit.  *)
(* What makes the reads good at the commit is the version: it only grows,  *)
(* so a snapshot whose version is still current is the current record, and *)
(* the history read after it is the current history.                       *)

\* Only the worker in its write holds the stream lock.
LockOwner == \A p \in Workers : pc[p] = "write" <=> streamLock = p

\* A record read earlier is the current one, or has an older version.
UpToDate(record) ==
    /\ record.version <= metricState.version
    /\ record.version = metricState.version => record = metricState

SnapshotFresh ==
    \A p \in Workers :
        pc[p] \in {"history", "commit", "write"} => UpToDate(snapshot[p])

ViewFresh ==
    \A o \in Operators : operatorPc[o] = "write" => UpToDate(operatorView[o])

\* A history read after a record that is still current is the whole history.
HistoryFresh ==
    \A p \in Workers :
        /\ pc[p] \in {"commit", "write"}
        /\ hasData[p]
        /\ snapshot[p].version = metricState.version
        => history[p] = observations

\* What the recheck found stays true while the lock is held.
RecheckHolds ==
    \A p \in Workers :
        pc[p] = "write" => ~ Committed(job[p]) /\ ~ StaleFor(metricState, job[p])

\* A call that was granted its claim found no result, and stores one at the end.
NotYetStored ==
    \A p \in Workers :
        pc[p] \in {"evaluate", "wait", "read", "history", "commit", "write"} =>
            ~ StoredBy(job[p], p)

IInv ==
    /\ LockOwner
    /\ SnapshotFresh
    /\ ViewFresh
    /\ HistoryFresh
    /\ RecheckHolds
    /\ NotYetStored
    /\ AtomicCommit
    /\ OrderedState
    /\ HistoryIsExact
    /\ OneWinner
    /\ NoOvertaking

-------------------------------------------------------------------------------
(* Refinement and liveness *)

\* The store implements the abstract ledger: one step per commit, no lost
\* update of the state by a commit or an acknowledgement.
Ledger == INSTANCE EvaluationLedger WITH
    ledger  <- DOMAIN evaluations,
    cursor  <- metricState.lastAt,
    applied <- metricState.applied

ImplementsLedger == Ledger!Spec

\* Every call of process() ends: nobody waits on the stream for ever, whatever
\* claims crashed workers leave and other workers take again and again.
CallsTerminate == \A p \in Workers : pc[p] # "idle" ~> pc[p] = "idle"
===============================================================================
