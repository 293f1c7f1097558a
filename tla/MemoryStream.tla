----------------------------- MODULE MemoryStream -----------------------------
(***************************************************************************)
(* KPIEngine.process over InMemoryStateStore, for one (metric, scope)       *)
(* stream: the threads of one process share the store's lock, a busy flag   *)
(* serializes the ordered sections of the stream, and a condition variable  *)
(* wakes the calls that wait for earlier windows.  A person may acknowledge  *)
(* the metric at any time.                                                  *)
(*                                                                         *)
(* Every step is one stretch of code under the store's lock (or without a   *)
(* shared effect).  There are no crashes: the state dies with the process,   *)
(* and a call that raises passes its finally clauses.                       *)
(***************************************************************************)
EXTENDS Integers, Sequences

CONSTANTS
    Workers,      \* threads that call KPIEngine.process
    Operators,    \* people that call KPIEngine.acknowledge
    Windows,      \* EvaluationKeys of the stream
    EffectiveAt,  \* EvaluationKey.eval_at; two keys may share it
    ClaimTtl,     \* claim_ttl is set: claims expire
    MaxVersion,   \* bound: no acknowledgement starts at this version
    Nil,          \* no claim, no section, no job
    Ack           \* mark of an acknowledgement in record.applied

ASSUME MemoryAssumption ==
    /\ Nil \notin Workers
    /\ Nil \notin Windows
    /\ Ack \notin Windows
    /\ EffectiveAt \in [Windows -> Nat \ {0}]
    /\ ClaimTtl \in BOOLEAN
    /\ MaxVersion \in Nat

VARIABLES
    record,        \* _states: version, last_evaluation_at, payload
    observations,  \* _observations and _history
    evaluations,   \* _evaluations: key -> (auxiliary) the call that stored it
    claims,        \* _claims and _stream_inflight: key -> owner of the token
    expired,       \* claims whose _claim_expiry has passed
    busy,          \* _stream_busy: the key in its ordered section
    notified,      \* waiting threads that notify_all has woken
    pc,            \* where each worker is in process()
    job,           \* the window it works on
    snapshot,      \* previous_record, as read by _commit_ordered
    outcome,       \* how the call will end
    lateClaim,     \* auxiliary: a later window was ahead already at the claim
    operatorPc,    \* where each operator is in acknowledge()
    operatorView   \* the record acknowledge() read

tables    == <<record, observations, evaluations>>
claimVars == <<claims, expired>>
section   == <<busy, notified>>
locals    == <<snapshot, lateClaim>>
operators == <<operatorPc, operatorView>>
vars == <<tables, claimVars, section, pc, job, locals, outcome, operators>>

-------------------------------------------------------------------------------
(* Types *)

\* "applied" stands for the payload of the record: the writes it derives from.
StateRecord == [version : Nat, lastAt : Nat, applied : Seq(Windows \cup {Ack})]

NoRow == [version |-> 0, lastAt |-> 0, applied |-> << >>]

PCs == {"idle", "claim", "evaluate", "enter", "waiting", "read", "commit",
        "leave", "release"}

Outcomes == {"none", "committed", "stale", "in_progress", "failed"}

TypeOK ==
    /\ record \in StateRecord
    /\ observations \subseteq Windows
    /\ DOMAIN evaluations \subseteq Windows
    /\ evaluations \in [DOMAIN evaluations -> Workers]
    /\ claims \in [Windows -> Workers \cup {Nil}]
    /\ expired \subseteq Windows
    /\ busy \in Windows \cup {Nil}
    /\ notified \subseteq Workers
    /\ pc \in [Workers -> PCs]
    /\ job \in [Workers -> Windows \cup {Nil}]
    /\ snapshot \in [Workers -> StateRecord]
    /\ outcome \in [Workers -> Outcomes]
    /\ lateClaim \in [Workers -> BOOLEAN]
    /\ operatorPc \in [Operators -> {"idle", "write"}]
    /\ operatorView \in [Operators -> StateRecord]

-------------------------------------------------------------------------------
(* Helpers *)

Committed(w) == w \in DOMAIN evaluations

Stale(w) == record.lastAt >= EffectiveAt[w]

\* Earlier keys in flight.  Whether their claim has expired is not asked.
EarlierInFlight(w) ==
    {v \in Windows : claims[v] # Nil /\ EffectiveAt[v] < EffectiveAt[w]}

\* The ordered section of the stream, left through its finally clause.
InSection(p) == pc[p] \in {"read", "commit", "leave"}

\* A window with a later effective time is committed or in its section.
LaterIsAhead(w) ==
    \/ \E v \in DOMAIN evaluations : EffectiveAt[v] > EffectiveAt[w]
    \/ \E p \in Workers : InSection(p) /\ EffectiveAt[job[p]] > EffectiveAt[w]

Waiting == {p \in Workers : pc[p] = "waiting"}

\* cond.notify_all()
NotifyAll == notified' = notified \cup Waiting

Leave(p, how) ==
    /\ pc' = [pc EXCEPT ![p] = "leave"]
    /\ outcome' = [outcome EXCEPT ![p] = how]

\* Go on to the finally clause of process().
Finish(p, how) ==
    /\ pc' = [pc EXCEPT ![p] = "release"]
    /\ outcome' = [outcome EXCEPT ![p] = how]

\* The call ends: a thread keeps nothing between two calls.
Return(p) ==
    /\ pc' = [pc EXCEPT ![p] = "idle"]
    /\ job' = [job EXCEPT ![p] = Nil]
    /\ outcome' = [outcome EXCEPT ![p] = "none"]
    /\ snapshot' = [snapshot EXCEPT ![p] = NoRow]
    /\ lateClaim' = [lateClaim EXCEPT ![p] = FALSE]

-------------------------------------------------------------------------------
(* KPIEngine.process *)

Process(p, w) ==
    /\ pc[p] = "idle"
    /\ pc' = [pc EXCEPT ![p] = "claim"]
    /\ job' = [job EXCEPT ![p] = w]
    /\ UNCHANGED <<tables, claimVars, section, locals, outcome, operators>>

\* claim_evaluation: already committed, or claimed by a call whose claim has
\* not expired.
ClaimRefused(p) ==
    LET w == job[p] IN
    /\ pc[p] = "claim"
    /\ Committed(w) \/ (claims[w] # Nil /\ w \notin expired)
    /\ Return(p)
    /\ UNCHANGED <<tables, claimVars, section, operators>>

\* claim_evaluation: no claim, or an expired one that is dropped first.
ClaimEvaluation(p) ==
    LET w == job[p] IN
    /\ pc[p] = "claim"
    /\ ~ Committed(w)
    /\ claims[w] = Nil \/ w \in expired
    /\ claims' = [claims EXCEPT ![w] = p]
    /\ expired' = expired \ {w}
    /\ lateClaim' = [lateClaim EXCEPT ![p] = LaterIsAhead(w)]
    /\ pc' = [pc EXCEPT ![p] = "evaluate"]
    /\ NotifyAll
    /\ UNCHANGED <<tables, busy, job, snapshot, outcome, operators>>

\* evaluate(): a value or NO_DATA, which both are committed.
Evaluate(p) ==
    /\ pc[p] = "evaluate"
    /\ pc' = [pc EXCEPT ![p] = "enter"]
    /\ UNCHANGED <<tables, claimVars, section, job, locals, outcome, operators>>

\* Mutant: later windows do not wait for earlier ones in flight.
MutNoWait(p) ==
    /\ pc[p] = "enter" \/ (pc[p] = "waiting" /\ p \in notified)
    /\ notified' = notified \ {p}
    /\ IF Stale(job[p])
         THEN Finish(p, "stale") /\ UNCHANGED busy
         ELSE IF busy = Nil
           THEN /\ busy' = job[p]
                /\ pc' = [pc EXCEPT ![p] = "read"]
                /\ UNCHANGED outcome
           ELSE /\ pc' = [pc EXCEPT ![p] = "waiting"]
                /\ UNCHANGED <<busy, outcome>>
    /\ UNCHANGED <<tables, claimVars, job, locals, operators>>

\* ordered_stream_commit, one round of its loop: at the start, or woken.
EnterSection(p) ==
    /\ pc[p] = "enter" \/ (pc[p] = "waiting" /\ p \in notified)
    /\ notified' = notified \ {p}
    /\ IF Stale(job[p])
         THEN Finish(p, "stale") /\ UNCHANGED busy
         ELSE IF EarlierInFlight(job[p]) = {} /\ busy = Nil
           THEN /\ busy' = job[p]
                /\ pc' = [pc EXCEPT ![p] = "read"]
                /\ UNCHANGED outcome
           ELSE /\ pc' = [pc EXCEPT ![p] = "waiting"]
                /\ UNCHANGED <<busy, outcome>>
    /\ UNCHANGED <<tables, claimVars, job, locals, operators>>

\* cond.wait() has not been notified for 30 seconds.
WaitTimeout(p) ==
    /\ pc[p] = "waiting"
    /\ p \notin notified
    /\ Finish(p, "in_progress")
    /\ UNCHANGED <<tables, claimVars, section, job, locals, operators>>

\* get_state_record and the engine's own staleness check.
ReadState(p) ==
    /\ pc[p] = "read"
    /\ IF Stale(job[p])
         THEN Leave(p, "stale") /\ UNCHANGED snapshot
         ELSE /\ snapshot' = [snapshot EXCEPT ![p] = record]
              /\ pc' = [pc EXCEPT ![p] = "commit"]
              /\ UNCHANGED outcome
    /\ UNCHANGED <<tables, claimVars, section, job, lateClaim, operators>>

\* Mutant: the state is staged without last_evaluation_at.
MutNoCursor(p) ==
    [version |-> snapshot[p].version + 1,
     applied |-> Append(snapshot[p].applied, job[p])]

\* Mutant: last_evaluation_at is kept as it was.
MutOldCursor(p) ==
    [version |-> snapshot[p].version + 1,
     lastAt  |-> snapshot[p].lastAt,
     applied |-> Append(snapshot[p].applied, job[p])]

StagedRecord(p) ==
    [version |-> snapshot[p].version + 1,
     lastAt  |-> EffectiveAt[job[p]],
     applied |-> Append(snapshot[p].applied, job[p])]

ClaimIsLost(p) == claims[job[p]] # p

\* _apply: the claim is gone, nothing is written.
CommitRefused(p) ==
    /\ pc[p] = "commit"
    /\ ClaimIsLost(p)
    /\ Leave(p, "in_progress")
    /\ UNCHANGED <<tables, claimVars, section, job, locals, operators>>

\* A version that is not the next one; a first row of any version is taken.
VersionConflict(staged) ==
    record.version # 0 /\ staged.version # record.version + 1

\* Mutant: the conflict is swallowed.
MutSwallowConflict(p) ==
    /\ pc[p] = "commit"
    /\ ~ ClaimIsLost(p)
    /\ VersionConflict(StagedRecord(p))
    /\ observations' = observations \cup {job[p]}
    /\ Leave(p, "committed")
    /\ UNCHANGED <<record, evaluations, claimVars, section, job, locals,
                   operators>>

\* _apply writes the observation and its history entry, then compares the
\* version and raises StaleEvaluationError: the observation stays.
CommitConflict(p) ==
    /\ pc[p] = "commit"
    /\ ~ ClaimIsLost(p)
    /\ VersionConflict(StagedRecord(p))
    /\ observations' = observations \cup {job[p]}
    /\ Leave(p, "stale")
    /\ UNCHANGED <<record, evaluations, claimVars, section, job, locals,
                   operators>>

Commit(p) ==
    /\ pc[p] = "commit"
    /\ ~ ClaimIsLost(p)
    /\ ~ VersionConflict(StagedRecord(p))
    /\ record' = StagedRecord(p)
    /\ observations' = observations \cup {job[p]}
    /\ evaluations' = [w \in DOMAIN evaluations \cup {job[p]} |->
                         IF w = job[p] THEN p ELSE evaluations[w]]
    /\ Leave(p, "committed")
    /\ UNCHANGED <<claimVars, section, job, locals, operators>>

\* Mutant: the section is left without a notification.
MutLeaveSilently(p) ==
    /\ pc[p] = "leave"
    /\ busy' = IF busy = job[p] THEN Nil ELSE busy
    /\ pc' = [pc EXCEPT ![p] = "release"]
    /\ UNCHANGED <<tables, claimVars, notified, job, locals, outcome, operators>>

\* Mutant: the busy flag is only cleared after a commit.
MutKeepBusy(p) ==
    /\ pc[p] = "leave"
    /\ busy' = IF outcome[p] = "committed" THEN Nil ELSE busy
    /\ NotifyAll
    /\ pc' = [pc EXCEPT ![p] = "release"]
    /\ UNCHANGED <<tables, claimVars, job, locals, outcome, operators>>

\* The finally clause of ordered_stream_commit.
LeaveSection(p) ==
    /\ pc[p] = "leave"
    /\ busy' = IF busy = job[p] THEN Nil ELSE busy
    /\ NotifyAll
    /\ pc' = [pc EXCEPT ![p] = "release"]
    /\ UNCHANGED <<tables, claimVars, job, locals, outcome, operators>>

\* release_evaluation_claim, if the token is still the one of this call.
ReleaseEvaluationClaim(p) ==
    LET w == job[p] IN
    /\ pc[p] = "release"
    /\ IF claims[w] = p
         THEN /\ claims' = [claims EXCEPT ![w] = Nil]
              /\ expired' = expired \ {w}
              /\ NotifyAll
         ELSE UNCHANGED <<claims, expired, notified>>
    /\ Return(p)
    /\ UNCHANGED <<tables, busy, operators>>

\* An exception out of the warehouse, the investigation or a staging method.
Fail(p) ==
    /\ \/ pc[p] = "evaluate" /\ Finish(p, "failed")
       \/ pc[p] \in {"read", "commit"} /\ Leave(p, "failed")
    /\ UNCHANGED <<tables, claimVars, section, job, locals, operators>>

\* claim_ttl seconds have passed since the claim.
ExpireClaim(w) ==
    /\ ClaimTtl
    /\ claims[w] # Nil
    /\ w \notin expired
    /\ expired' = expired \cup {w}
    /\ UNCHANGED <<tables, claims, section, pc, job, locals, outcome, operators>>

-------------------------------------------------------------------------------
(* KPIEngine.acknowledge: its state half (no claim, no section) *)

AcknowledgeRead(o) ==
    /\ operatorPc[o] = "idle"
    /\ record.version < MaxVersion
    /\ operatorView' = [operatorView EXCEPT ![o] = record]
    /\ operatorPc' = [operatorPc EXCEPT ![o] = "write"]
    /\ UNCHANGED <<tables, claimVars, section, pc, job, locals, outcome>>

AcknowledgedRecord(o) ==
    [version |-> operatorView[o].version + 1,
     lastAt  |-> operatorView[o].lastAt,
     applied |-> Append(operatorView[o].applied, Ack)]

\* Mutant: the acknowledged record is stored whatever the version.
MutBlindWrite(o) ==
    /\ operatorPc[o] = "write"
    /\ record' = AcknowledgedRecord(o)
    /\ operatorPc' = [operatorPc EXCEPT ![o] = "idle"]
    /\ operatorView' = [operatorView EXCEPT ![o] = NoRow]
    /\ UNCHANGED <<observations, evaluations, claimVars, section, pc, job,
                   locals, outcome>>

\* set_state_record; a version conflict is raised to the caller.
AcknowledgeWrite(o) ==
    /\ operatorPc[o] = "write"
    /\ record' = IF VersionConflict(AcknowledgedRecord(o))
                   THEN record ELSE AcknowledgedRecord(o)
    /\ operatorPc' = [operatorPc EXCEPT ![o] = "idle"]
    /\ operatorView' = [operatorView EXCEPT ![o] = NoRow]
    /\ UNCHANGED <<observations, evaluations, claimVars, section, pc, job,
                   locals, outcome>>

-------------------------------------------------------------------------------
(* Specification *)

Init ==
    /\ record = NoRow
    /\ observations = {}
    /\ evaluations = [w \in {} |-> Nil]
    /\ claims = [w \in Windows |-> Nil]
    /\ expired = {}
    /\ busy = Nil
    /\ notified = {}
    /\ pc = [p \in Workers |-> "idle"]
    /\ job = [p \in Workers |-> Nil]
    /\ snapshot = [p \in Workers |-> NoRow]
    /\ outcome = [p \in Workers |-> "none"]
    /\ lateClaim = [p \in Workers |-> FALSE]
    /\ operatorPc = [o \in Operators |-> "idle"]
    /\ operatorView = [o \in Operators |-> NoRow]

\* What a call does next by itself; a notified thread gets the lock.
Proceed(p) ==
    \/ ClaimRefused(p)
    \/ ClaimEvaluation(p)
    \/ Evaluate(p)
    \/ EnterSection(p)
    \/ ReadState(p)
    \/ CommitRefused(p)
    \/ CommitConflict(p)
    \/ Commit(p)
    \/ LeaveSection(p)
    \/ ReleaseEvaluationClaim(p)

Next ==
    \/ \E p \in Workers : \/ \E w \in Windows : Process(p, w)
                          \/ Proceed(p)
                          \/ WaitTimeout(p)
                          \/ Fail(p)
    \/ \E w \in Windows : ExpireClaim(w)
    \/ \E o \in Operators : AcknowledgeRead(o) \/ AcknowledgeWrite(o)

Spec == Init /\ [][Next]_vars

\* Threads run.  Nothing is assumed of the timeout: the wait has to end by
\* notifications alone.
Fairness == \A p \in Workers : WF_vars(Proceed(p))

FairSpec == Spec /\ Fairness

-------------------------------------------------------------------------------
(* Correctness *)

AppliedWindows ==
    {record.applied[i] : i \in 1 .. Len(record.applied)} \ {Ack}

\* Guarantee 3, ordered state: the state is derived from exactly the committed
\* windows, each once and in the order of their effective time.
OrderedState ==
    /\ AppliedWindows = DOMAIN evaluations
    /\ \A i, j \in 1 .. Len(record.applied) :
          i < j /\ record.applied[i] # Ack /\ record.applied[j] # Ack =>
              EffectiveAt[record.applied[i]] < EffectiveAt[record.applied[j]]
    /\ \A w \in DOMAIN evaluations : EffectiveAt[w] <= record.lastAt

StoredBy(w, p) == Committed(w) /\ evaluations[w] = p

\* Guarantee 2: a call reports a new result if and only if it stored that result
\* itself.  None that says stale, in progress or failed has left one behind.
OneWinner ==
    \A p \in Workers :
        pc[p] \in {"leave", "release"} =>
            (outcome[p] = "committed" <=> StoredBy(job[p], p))

\* No later window overtakes one that is in flight, unless it was ahead when
\* that one was claimed.  An expired claim holds the later windows back too.
NoOvertaking ==
    \A p \in Workers :
        pc[p] # "idle" /\ claims[job[p]] = p /\ ~ lateClaim[p] =>
            ~ LaterIsAhead(job[p])

\* On cond.wait(), where nothing but a notification or the timeout ends it.
Asleep(p) == pc[p] = "waiting" /\ p \notin notified

\* What p waits for is in the hands of q, and q can go on by itself.
HeldUpBy(p, q) ==
    /\ pc[q] # "idle"
    /\ ~ Asleep(q)
    /\ \/ InSection(q)
       \/ claims[job[q]] = q /\ EffectiveAt[job[q]] < EffectiveAt[job[p]]

\* No wake-up is lost and threads never wait for one another: behind every one
\* asleep there is one that runs, in the section or with an earlier window, so
\* that no call sits out its 30 seconds in vain.
NoLostWakeup ==
    \A p \in Workers : Asleep(p) => \E q \in Workers : HeldUpBy(p, q)

\* The store keeps the promise of every runtime store about a stream, as far
\* as state and evaluation records go.
Ledger == INSTANCE EvaluationLedger WITH
    ledger  <- DOMAIN evaluations,
    cursor  <- record.lastAt,
    applied <- record.applied

ImplementsLedger == Ledger!Spec

\* Guarantee 4 of stores/base.py, "committed together or not at all": the
\* code does not keep it.  CommitConflict leaves an observation behind.
AtomicCommit == observations = DOMAIN evaluations

Acknowledged == \E i \in 1 .. Len(record.applied) : record.applied[i] = Ack

\* What is left of it: a result never lacks its observation, and it takes an
\* acknowledgement to leave an observation without a result.
AtomicUnlessAcknowledged ==
    /\ DOMAIN evaluations \subseteq observations
    /\ ~ Acknowledged => AtomicCommit

\* No deadlock and no missed notification: once no more calls start, and
\* without any help of the timeout, every call ends.
Quiet == [][\A p \in Workers : pc[p] = "idle" => pc'[p] = "idle"]_vars
CallsEnd ==
    (<> Quiet) => \A p \in Workers : pc[p] # "idle" ~> pc[p] = "idle"
-------------------------------------------------------------------------------
(* Why it is correct: the inductive invariant *)

CallHasJob == \A p \in Workers : pc[p] # "idle" => job[p] \in Windows

\* One call at a time is in the ordered section, and it is busy's.
OneInSection ==
    /\ \A p \in Workers : InSection(p) => busy = job[p]
    /\ busy # Nil => \E p \in Workers : InSection(p)
    /\ \A p, q \in Workers : InSection(p) /\ InSection(q) => p = q

\* A claim belongs to a call under way, for its window.
ClaimHasCall ==
    \A p \in Workers, w \in Windows :
        claims[w] = p => pc[p] \notin {"idle", "claim"} /\ job[p] = w

\* A copy of the record is the record, if the versions are the same.
UpToDate(copy) ==
    /\ copy.version <= record.version
    /\ copy.version = record.version => copy = record

CopiesAreVersioned ==
    /\ \A p \in Workers : pc[p] = "commit" => UpToDate(snapshot[p])
    /\ \A o \in Operators : operatorPc[o] = "write" => UpToDate(operatorView[o])

\* Nothing later is committed while a call is in the section.
StillNewer == \A p \in Workers : pc[p] = "commit" => ~ Stale(job[p])

\* A call that was granted its claim found no result, and stores one at the end.
NotYetStored ==
    \A p \in Workers :
        pc[p] \in {"evaluate", "enter", "waiting", "read", "commit"} =>
            ~ StoredBy(job[p], p)

\* A thread asleep is kept so by the section or by an earlier claim.
WaitsForSomething ==
    \A p \in Workers :
        Asleep(p) => busy # Nil \/ EarlierInFlight(job[p]) # {}

\* In the section, only an acknowledgement can change the record meanwhile.
OnlyAcknowledgedSince ==
    \A p \in Workers : pc[p] = "commit" => snapshot[p] = record \/ Acknowledged

IInv ==
    /\ OneInSection
    /\ ClaimHasCall
    /\ CopiesAreVersioned
    /\ StillNewer
    /\ NotYetStored
    /\ WaitsForSomething
    /\ OnlyAcknowledgedSince
    /\ AtomicUnlessAcknowledged
    /\ OrderedState
    /\ OneWinner
    /\ NoOvertaking
===============================================================================
