----------------------------- MODULE RuntimeCycle -----------------------------
(***************************************************************************)
(* MetricRuntime: several run workers share one store.  Each one runs       *)
(* cycles: it reads the cursor of every metric, evaluates the due windows    *)
(* in order, drains the outbox and sleeps until the next thing is due.       *)
(* A window of a metric that failed defers the later ones of that metric.    *)
(* A window that is skipped defers nothing: another worker holds it, or has   *)
(* committed past it, or the attempts to commit it have run out.              *)
(*                                                                          *)
(* KPIEngine.process is taken at the level of its claim and its end (see     *)
(* EvaluationStream for what is in between), the outbox as a time at which   *)
(* something in it may be due.                                               *)
(***************************************************************************)
EXTENDS Scheduling

CONSTANTS
    Workers,       \* processes in run_forever
    Metrics,       \* scheduled metrics, numbers in catalog order
    Interval,      \* RuntimeSchedule.interval_for
    IdleInterval,  \* RuntimeSchedule.idle_interval
    MinWait,       \* RuntimeSchedule.min_wait
    DelayLimit,    \* timedelta.max, in the resolution of the clock
    Earlier,       \* windows that may have been committed before an outage
    MaxTime        \* bound: the clock stops here

ASSUME CycleAssumption ==
    /\ Metrics \subseteq Nat
    /\ Interval \in [Metrics -> Nat \ {0}]
    /\ IdleInterval \in Nat
    /\ MinWait \in Nat \ {0}
    /\ DelayLimit \in Nat
    /\ Earlier \subseteq Metrics \X Int
    /\ MaxTime \in Nat

VARIABLES
    now,         \* the clock
    committed,   \* windows <<metric, tick>> with a committed evaluation
    claims,      \* rows <<window, worker>> of evaluation_claims
    expired,     \* windows whose claim row has run out
    pc,          \* where each worker is
    cycleNow,    \* "now" of its current or last cycle
    queue,       \* due windows that it has not tried in this cycle
    blocked,     \* metrics with a window that failed in this cycle
    failures,    \* failed cycles in a row
    wakeAt,      \* end of its sleep
    fellAsleep,  \* auxiliary: when the sleep began
    skipped,     \* auxiliary: windows skipped in this cycle
    failed       \* auxiliary: windows whose evaluation failed, after the cursor

store   == <<committed, claims, expired>>
cycle   == <<cycleNow, queue, blocked, skipped>>
resting == <<failures, wakeAt, fellAsleep>>
vars == <<now, committed, claims, expired, pc, cycleNow, queue, blocked,
          failures, wakeAt, fellAsleep, skipped, failed>>

-------------------------------------------------------------------------------
(* Types *)

Windows == Metrics \X Int

TypeOK ==
    /\ now \in 0 .. MaxTime
    /\ committed \subseteq Windows
    /\ claims \subseteq Windows \X Workers
    /\ expired \subseteq {c[1] : c \in claims}
    /\ pc \in [Workers -> {"sleep", "cycle", "process", "down", "died"}]
    /\ cycleNow \in [Workers -> Nat]
    /\ queue \in [Workers -> SUBSET Windows]
    /\ blocked \in [Workers -> SUBSET Metrics]
    /\ failures \in [Workers -> Nat]
    /\ wakeAt \in [Workers -> Nat]
    /\ fellAsleep \in [Workers -> Nat]
    /\ skipped \in [Workers -> SUBSET Windows]
    /\ failed \subseteq Windows \ committed

-------------------------------------------------------------------------------
(* Helpers *)

Committed(m) == {w \in committed : w[1] = m}

\* latest_committed_evaluation: the evaluation cursor of a metric.
Cursor(m) ==
    IF Committed(m) = {}
      THEN None
      ELSE (CHOOSE w \in Committed(m) : \A v \in Committed(m) : v[2] <= w[2])[2]

\* due_evaluations
DueWindows ==
    UNION {{<<m, t>> : t \in DueTicks(Cursor(m), now, Interval[m])} :
             m \in Metrics}

\* Mutant: a failed window defers nothing.
MutDeferNothing(p) == queue[p]

\* The windows that are not deferred by an earlier failure.
Remaining(p) == {w \in queue[p] : w[1] \notin blocked[p]}

\* By tick, and within a tick in catalog order.
IsNext(p, w) ==
    /\ w \in Remaining(p)
    /\ \A v \in Remaining(p) : w[2] < v[2] \/ (w[2] = v[2] /\ w[1] <= v[1])

Claimed(w) == \E p \in Workers : <<w, p>> \in claims

InFlight(w) == Claimed(w) /\ w \notin expired

EarlierInFlight(w) ==
    {c[1] : c \in {d \in claims : /\ d[1][1] = w[1]
                                  /\ d[1][2] < w[2]
                                  /\ d[1] \notin expired}}

\* last_evaluation_at is at or after the window.
Stale(w) == \E v \in committed : v[1] = w[1] /\ v[2] >= w[2]

\* The window that the worker processes: the first one that it has not tried.
Job(p) == CHOOSE w \in Remaining(p) : IsNext(p, w)

\* Mutant: the row is deleted and its expiry is kept.
MutKeepExpiry(p, w) == claims' = claims \ {<<w, p>>} /\ UNCHANGED expired

\* finally: release_evaluation_claim
Release(p, w) ==
    /\ claims' = claims \ {<<w, p>>}
    /\ expired' = IF <<w, p>> \in claims THEN expired \ {w} ELSE expired

\* The row of a free window, or of one whose claim has expired.
TakeClaim(p, w) ==
    /\ w \notin committed
    /\ ~ InFlight(w)
    /\ claims' = {c \in claims : c[1] # w} \cup {<<w, p>>}
    /\ expired' = expired \ {w}

\* The outcome is "failed": later windows of the metric are deferred.
Defer(p, w) == blocked' = [blocked EXCEPT ![p] = @ \cup {w[1]}]

\* process() is over: on with the next window.
Done(p, w) ==
    /\ pc' = [pc EXCEPT ![p] = "cycle"]
    /\ queue' = [queue EXCEPT ![p] = @ \ {w}]

\* The outcome is "skipped": the claim is released, nothing is deferred.
Skip(p, w) ==
    /\ Release(p, w)
    /\ Done(p, w)
    /\ skipped' = [skipped EXCEPT ![p] = @ \cup {w}]
    /\ UNCHANGED <<now, committed, cycleNow, blocked, resting, failed>>

Smaller(a, b) == IF a <= b THEN a ELSE b
Larger(a, b)  == IF a >= b THEN a ELSE b

\* compute_wait, from the clock and the times that the report holds.
ComputeWait(p, outboxDue) ==
    LET candidates == {now + IdleInterval}
                        \cup {NextDueAt(cycleNow[p], Interval[m]) : m \in Metrics}
                        \cup ({outboxDue} \ {None})
        soonest == CHOOSE c \in candidates : \A d \in candidates : c <= d IN
    Larger(MinWait, Smaller(soonest - now, IdleInterval))

\* _error_backoff: the product is a timedelta before it is capped.
ErrorDelay(count) == MinWait * 2 ^ (count - 1)
BackoffOverflows(count) == ErrorDelay(count) > DelayLimit

Sleep(p, wait) ==
    /\ pc' = [pc EXCEPT ![p] = "sleep"]
    /\ wakeAt' = [wakeAt EXCEPT ![p] = now + wait]
    /\ fellAsleep' = [fellAsleep EXCEPT ![p] = now]

\* The process is gone, and with it all that it knew.
Vanish(p, how) ==
    /\ pc' = [pc EXCEPT ![p] = how]
    /\ cycleNow' = [cycleNow EXCEPT ![p] = 0]
    /\ failures' = [failures EXCEPT ![p] = 0]
    /\ wakeAt' = [wakeAt EXCEPT ![p] = 0]
    /\ fellAsleep' = [fellAsleep EXCEPT ![p] = 0]

\* What a cycle knows ends with it.
Forget(p) ==
    /\ queue' = [queue EXCEPT ![p] = {}]
    /\ blocked' = [blocked EXCEPT ![p] = {}]
    /\ skipped' = [skipped EXCEPT ![p] = {}]

-------------------------------------------------------------------------------
(* run_once *)

\* The sleep is over: read the cursors.
BeginCycle(p) ==
    /\ pc[p] = "sleep"
    /\ wakeAt[p] <= now
    /\ pc' = [pc EXCEPT ![p] = "cycle"]
    /\ cycleNow' = [cycleNow EXCEPT ![p] = now]
    /\ queue' = [queue EXCEPT ![p] = DueWindows]
    /\ wakeAt' = [wakeAt EXCEPT ![p] = 0]
    /\ fellAsleep' = [fellAsleep EXCEPT ![p] = 0]
    /\ UNCHANGED <<now, store, blocked, skipped, failures, failed>>

\* claim_evaluation finds a result, or a live claim: EvaluationInProgressError.
PassWindow(p, w) ==
    /\ pc[p] = "cycle"
    /\ IsNext(p, w)
    /\ w \in committed \/ InFlight(w)
    /\ Done(p, w)
    /\ skipped' = IF w \in committed THEN skipped
                                     ELSE [skipped EXCEPT ![p] = @ \cup {w}]
    /\ UNCHANGED <<now, store, cycleNow, blocked, resting, failed>>

\* The window is free, or its claim has expired and is taken over.
ClaimWindow(p, w) ==
    /\ pc[p] = "cycle"
    /\ IsNext(p, w)
    /\ TakeClaim(p, w)
    /\ pc' = [pc EXCEPT ![p] = "process"]
    /\ UNCHANGED <<now, committed, cycle, resting, failed>>

\* claim_evaluation raises, before or after its row was stored.
ClaimRaises(p, w) ==
    /\ pc[p] = "cycle"
    /\ IsNext(p, w)
    /\ TakeClaim(p, w) \/ UNCHANGED <<claims, expired>>
    /\ Done(p, w)
    /\ Defer(p, w)
    /\ UNCHANGED <<now, committed, cycleNow, skipped, resting, failed>>

\* The ordered commit goes through.  Its answer may be lost, or the release
\* may raise: then the window counts as failed although it is committed.
Commit(p) ==
    LET w == Job(p) IN
    /\ pc[p] = "process"
    /\ <<w, p>> \in claims
    /\ w \notin committed
    /\ ~ Stale(w)
    /\ EarlierInFlight(w) = {}
    /\ committed' = committed \cup {w}
    /\ failed' = {v \in failed : v[1] # w[1] \/ v[2] > w[2]}
    /\ \/ Release(p, w) /\ UNCHANGED blocked
       \/ Release(p, w) /\ Defer(p, w)
       \/ UNCHANGED <<claims, expired>> /\ Defer(p, w)
    /\ Done(p, w)
    /\ UNCHANGED <<now, cycleNow, skipped, resting>>

\* The window is stale, the wait for an earlier one runs into its deadline, or
\* the claim was lost to another worker.
SkipWindow(p) ==
    LET w == Job(p) IN
    /\ pc[p] = "process"
    /\ Stale(w) \/ EarlierInFlight(w) # {} \/ <<w, p>> \notin claims
    /\ Skip(p, w)

\* An earlier claim appeared or the version of the state moved before each of the
\* commit_attempts (in the in-memory store before the first): by a commit, or by
\* an acknowledgement, which may come at any time.  StreamCommitConflict is an
\* EvaluationInProgressError, although nobody else need hold the window.
ConflictsRunOut(p) ==
    /\ pc[p] = "process"
    /\ Skip(p, Job(p))

\* An execution error, a failed connection, or a release that raises: nothing
\* is committed, and the claim row may stay.
FailWindow(p) ==
    LET w == Job(p) IN
    /\ pc[p] = "process"
    /\ Release(p, w) \/ UNCHANGED <<claims, expired>>
    /\ Done(p, w)
    /\ Defer(p, w)
    /\ failed' = IF Stale(w) THEN failed ELSE failed \cup {w}
    /\ UNCHANGED <<now, committed, cycleNow, skipped, resting>>

\* deliver_pending is done: sleep.  The outbox may have something due.
EndCycle(p, outboxDue) ==
    /\ pc[p] = "cycle"
    /\ Remaining(p) = {}
    /\ Sleep(p, ComputeWait(p, outboxDue))
    /\ failures' = [failures EXCEPT ![p] = 0]
    /\ Forget(p)
    /\ UNCHANGED <<now, store, cycleNow, failed>>

-------------------------------------------------------------------------------
(* run_forever: failures of a cycle, of the process, and time *)

\* run_once raises: the store cannot be reached for the cursors or the outbox.
CycleRaises(p) ==
    \/ pc[p] = "sleep" /\ wakeAt[p] <= now
    \/ pc[p] = "cycle" /\ Remaining(p) = {}

CycleFails(p) ==
    /\ CycleRaises(p)
    /\ ~ BackoffOverflows(failures[p] + 1)
    /\ failures' = [failures EXCEPT ![p] = @ + 1]
    /\ Sleep(p, Smaller(ErrorDelay(failures[p] + 1), IdleInterval))
    /\ Forget(p)
    /\ UNCHANGED <<now, store, cycleNow, failed>>

\* OverflowError out of _error_backoff, in the handler: it leaves the loop.
LoopEnds(p) ==
    /\ CycleRaises(p)
    /\ BackoffOverflows(failures[p] + 1)
    /\ Vanish(p, "died")
    /\ Forget(p)
    /\ UNCHANGED <<now, store, failed>>

\* The process is killed, or stopped in its sleep; its claim row stays.
Crash(p) ==
    /\ pc[p] \in {"sleep", "cycle", "process"}
    /\ Vanish(p, "down")
    /\ Forget(p)
    /\ UNCHANGED <<now, store, failed>>

\* A new process begins with a cycle at once.
Start(p) ==
    /\ pc[p] \in {"down", "died"}
    /\ Sleep(p, 0)
    /\ UNCHANGED <<now, store, cycle, failures, failed>>

ExpireClaim(w) ==
    /\ w \notin expired
    /\ expired' = expired \cup {w}
    /\ UNCHANGED <<now, committed, claims, pc, cycle, resting, failed>>

AdvanceClock ==
    /\ now < MaxTime
    /\ now' = now + 1
    /\ UNCHANGED <<store, pc, cycle, resting, failed>>

-------------------------------------------------------------------------------
(* Specification *)

Init ==
    /\ now = 0
    /\ committed = {} \/ \E w \in Earlier : committed = {w}
    /\ claims = {}
    /\ expired = {}
    /\ pc = [p \in Workers |-> "sleep"]
    /\ cycleNow = [p \in Workers |-> 0]
    /\ queue = [p \in Workers |-> {}]
    /\ blocked = [p \in Workers |-> {}]
    /\ failures = [p \in Workers |-> 0]
    /\ wakeAt = [p \in Workers |-> 0]
    /\ fellAsleep = [p \in Workers |-> 0]
    /\ skipped = [p \in Workers |-> {}]
    /\ failed = {}

RunOnce(p) ==
    \/ BeginCycle(p)
    \/ \E w \in queue[p] : \/ PassWindow(p, w)
                           \/ ClaimWindow(p, w)
                           \/ ClaimRaises(p, w)
    \/ Commit(p)
    \/ SkipWindow(p)
    \/ ConflictsRunOut(p)
    \/ FailWindow(p)
    \/ \E outboxDue \in {None} \cup now .. now + IdleInterval :
          EndCycle(p, outboxDue)

Next ==
    \/ \E p \in Workers : \/ RunOnce(p)
                          \/ CycleFails(p)
                          \/ LoopEnds(p)
                          \/ Crash(p)
                          \/ Start(p)
    \/ \E c \in claims : ExpireClaim(c[1])
    \/ AdvanceClock

Spec == Init /\ [][Next]_vars

-------------------------------------------------------------------------------
(* Correctness *)

\* The times of the clock at which due_ticks is right, whatever the cursor.
ExactTimes == {time \in 0 .. MaxTime :
    \A m \in Metrics :
        LET oldest == time - (MaxCatchup + 1) * Interval[m] - Lag IN
        \A cursor \in {None} \cup oldest - Interval[m] .. time :
            /\ DueTicks(cursor, time, Interval[m]) =
                   {t \in oldest .. time : IsDue(t, cursor, time, Interval[m])}
            /\ SkippedTicks(cursor, time, Interval[m]) =
                   {t \in oldest - Interval[m] .. time :
                       IsTooOld(t, cursor, time, Interval[m])}}

\* The due windows of a metric are the closed ones after its cursor, as many
\* of the latest as max_catchup_windows, whatever the cursor (it need not be
\* a tick: process() may be called with any time); those that the cap leaves
\* out are all reported as skipped.
ScheduleIsExact == now \in ExactTimes

\* A window within the catch-up range is passed over for good only by a worker
\* whose own attempt at it ended as "skipped": whoever commits a later window
\* has, in the same cycle, met each earlier due one in the hands of another
\* worker or run out of attempts to commit it, and has seen none of them fail.
OnlySkippedArePassed ==
    [][\A p \in Workers : \A w \in committed' \ committed :
         pc[p] = "process" /\ pc'[p] = "cycle" /\ w = Job(p) =>
            \A t \in cycleNow[p] - (MaxCatchup + 1) * Interval[w[1]] - Lag
                     .. w[2] - 1 :
               IsDue(t, Cursor(w[1]), cycleNow[p], Interval[w[1]]) =>
                  <<w[1], t>> \in skipped[p]]_vars

\* No window becomes due in a sleep: after the cycle that read the cursors and
\* before the worker wakes up, no window closes, the minimal wait excepted.
WakesInTime ==
    \A p \in Workers :
        pc[p] = "sleep" /\ failures[p] = 0 =>
            \A m \in Metrics : \A d \in cycleNow[p] + 1 .. wakeAt[p] - 1 :
                (d - Lag) % Interval[m] = 0 =>
                    wakeAt[p] <= fellAsleep[p] + MinWait

\* docs/architecture.md: after an execution error "the window stays due and is
\* retried until it falls outside runtime.max_catchup_windows".
FailedWindowStaysDue ==
    [][\A w \in failed :
         /\ Stale(w)'
         /\ w \notin committed'
         => ~ WithinCatchup(w[2], now, Interval[w[1]])]_vars
===============================================================================
