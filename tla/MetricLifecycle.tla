---------------------------- MODULE MetricLifecycle ----------------------------
(***************************************************************************)
(* The life of one metric: evolve_state over the streaks of its history,    *)
(* the cooldown, the incident and the outbox event of every transition       *)
(* (KPIEngine._commit_ordered), and KPIEngine.acknowledge, which writes the  *)
(* state and the incident in two transactions.                              *)
(*                                                                         *)
(* The evaluations of a stream commit one after the other, each from the     *)
(* record that is current at the commit (module EvaluationStream).  The      *)
(* incident is read with the record but has no version: an acknowledgement   *)
(* may change it in between.  Evaluation n has the effective time n.         *)
(***************************************************************************)
EXTENDS Integers, Sequences, FiniteSets

CONSTANTS
    Persistence,   \* StatePolicy.persistence, in windows
    ResolveAfter,  \* StatePolicy.resolve_after_healthy_windows
    Cooldown,      \* StatePolicy.cooldown_minutes, in windows
    MaxWindows,    \* bound: evaluations of a behavior
    MaxAcks        \* bound: calls of acknowledge

ASSUME LifecycleAssumption ==
    /\ Persistence \in Nat \ {0}
    /\ ResolveAfter \in Nat \ {0}
    /\ Cooldown \in Nat
    /\ MaxWindows \in Nat
    /\ MaxAcks \in Nat

VARIABLES
    history,     \* the observations, one per committed evaluation
    record,      \* MetricStateRecord: state, resolved_at, version
    incidents,   \* incident n of the metric: its state
    outbox,      \* notification intents in the order of their commits
    view,        \* what the evaluation under way has read, or NoView
    ackPc,       \* where the call of acknowledge is
    ackCopy,     \* the incident it read and the state it had
    acks,        \* calls of acknowledge so far
    overwritten  \* auxiliary: an acknowledgement overwrote a newer incident

ackVars == <<ackPc, ackCopy, acks, overwritten>>
vars == <<history, record, incidents, outbox, view, ackVars>>

-------------------------------------------------------------------------------
(* Types *)

States == {"NORMAL", "DETECTED", "OPEN", "ACKNOWLEDGED", "RESOLVED", "SUPPRESSED"}
ActiveStates == {"OPEN", "DETECTED", "ACKNOWLEDGED"}

\* What a window shows: an anomaly with enough support, none, a value of bad
\* quality, or NO_DATA.
Observations == {"detected", "healthy", "ineligible", "no_data"}

StateRecord == [state : States, resolvedAt : Nat, version : Nat]

Kinds == {"incident_opened", "incident_updated", "incident_resolved",
          "state_changed"}

\* incident 0: none.  impact: at least min_impact.  moved: the investigation
\* names another explanatory metric or owner than the incident has.
NoView == [open |-> FALSE]
View == [open : {TRUE}, seen : Observations, impact : BOOLEAN, moved : BOOLEAN,
         record : StateRecord, active : Nat, activeState : States]

TypeOK ==
    /\ history \in Seq(Observations)
    /\ record \in StateRecord
    /\ incidents \in Seq(States)
    /\ outbox \in Seq([kind : Kinds, incident : Nat \ {0}, at : Nat])
    /\ view \in View \cup {NoView}
    /\ view.open => view.active \in 0 .. Len(incidents)
    /\ ackPc \in {"idle", "find", "write"}
    /\ ackCopy \in [incident : 0 .. Len(incidents), state : States]
    /\ acks \in Nat
    /\ overwritten \in BOOLEAN
    /\ \A n \in 1 .. Len(outbox) : outbox[n].incident <= Len(incidents)

-------------------------------------------------------------------------------
(* state.py *)

\* signals_from_history: NO_DATA neither breaks nor extends a streak.
Signals(h) == SelectSeq(h, LAMBDA seen : seen # "no_data")

\* The last n signals are all of one kind.
EndsWith(signals, kind, n) ==
    /\ n <= Len(signals)
    /\ \A i \in Len(signals) - n + 1 .. Len(signals) : signals[i] = kind

\* Mutant: a window of bad quality does not break the streak of detections.
MutBridgeBadQuality(signals, n) ==
    EndsWith(SelectSeq(signals, LAMBDA seen : seen # "ineligible"), "detected", n)

\* _trailing_detection_streak(signals) >= n
Detections(signals, n) == EndsWith(signals, "detected", n)

\* _trailing_healthy_streak(signals) >= n
HealthyWindows(signals, n) == EndsWith(signals, "healthy", n)

\* Enough evidence to open.  A detection has support, so that require_support
\* decides nothing here.
MayOpen(signals, impact) == Detections(signals, Persistence) /\ impact

\* evolve_state after a window of good quality, which the signals end with.
EvolveGood(signals, seen, impact, previous) ==
    IF seen = "detected"
      THEN CASE previous = "ACKNOWLEDGED"  -> "ACKNOWLEDGED"
             [] previous # "ACKNOWLEDGED"  -> IF MayOpen(signals, impact)
                                                THEN "OPEN" ELSE "DETECTED"
      ELSE CASE previous \in {"OPEN", "ACKNOWLEDGED"} ->
                  IF HealthyWindows(signals, ResolveAfter)
                    THEN "RESOLVED" ELSE previous
             [] previous = "RESOLVED" -> "RESOLVED"
             [] OTHER -> "NORMAL"

\* A window whose quality is not healthy suppresses the metric.
EvolveState(signals, seen, impact, previous) ==
    IF seen = "ineligible"
      THEN "SUPPRESSED" ELSE EvolveGood(signals, seen, impact, previous)

\* Mutant: the cooldown only holds back an incident, not a detection.
MutCooldownForOpenOnly(rec, state, at) ==
    IF /\ rec.state = "RESOLVED"
       /\ state = "OPEN"
       /\ at - rec.resolvedAt < Cooldown
      THEN "RESOLVED" ELSE state

\* A resolved metric does not come back within the cooldown.
CooledDown(rec, state, at) ==
    IF /\ rec.state = "RESOLVED"
       /\ state \in {"DETECTED", "OPEN"}
       /\ at - rec.resolvedAt < Cooldown
      THEN "RESOLVED" ELSE state

-------------------------------------------------------------------------------
(* The transition of KPIEngine._commit_ordered *)

Now == Len(history) + 1

\* The state after the window that was seen; NO_DATA carries it forward.
NextState ==
    IF view.seen = "no_data" THEN view.record.state
    ELSE CooledDown(view.record,
                    EvolveState(Signals(Append(history, view.seen)), view.seen,
                                view.impact, view.record.state),
                    Now)

\* Mutant: the record is staged without a version.
MutNoVersion(state) ==
    [state |-> state,
     resolvedAt |-> IF state = "RESOLVED" THEN Now ELSE view.record.resolvedAt]

\* The staged record.  resolved_at moves with every window that is RESOLVED.
StagedRecord(state) ==
    [state      |-> state,
     resolvedAt |-> IF state = "RESOLVED" /\ view.seen # "no_data"
                      THEN Now ELSE view.record.resolvedAt,
     version    |-> view.record.version + 1]

Event(kind, incident) == [kind |-> kind, incident |-> incident, at |-> Now]

\* A first incident of the metric, or a new one after a closed one.
OpenIncident ==
    /\ incidents' = Append(incidents, "OPEN")
    /\ outbox' = Append(outbox, Event("incident_opened", Len(incidents) + 1))

\* The active incident goes on; an event only if something has changed.
MergeIncident ==
    /\ incidents' = [incidents EXCEPT ![view.active] = "OPEN"]
    /\ outbox' = IF \/ view.record.state # "OPEN"
                    \/ view.moved
                    \/ view.activeState # "OPEN"
                   THEN Append(outbox, Event("incident_updated", view.active))
                   ELSE outbox

\* Mutant: a metric that stays suppressed closes no incident, and one that
\* gets suppressed leaves its incident open.
MutSuppressNothing(state, kind) ==
    /\ incidents' = IF state = "SUPPRESSED" THEN incidents
                    ELSE [incidents EXCEPT ![view.active] = state]
    /\ outbox' = Append(outbox, Event(kind, view.active))

\* The active incident is closed with the metric.
CloseIncident(state, kind) ==
    /\ incidents' = [incidents EXCEPT ![view.active] = state]
    /\ outbox' = IF view.record.state # state
                   THEN Append(outbox, Event(kind, view.active)) ELSE outbox

\* Mutant: the incident is only resolved together with an open metric.
MutResolveOpenOnly(state) ==
    IF view.seen = "no_data" THEN UNCHANGED <<incidents, outbox>>
    ELSE IF state = "OPEN"
      THEN IF view.active = 0 THEN OpenIncident ELSE MergeIncident
    ELSE IF state = "RESOLVED" /\ view.active # 0 /\ view.record.state = "OPEN"
      THEN CloseIncident("RESOLVED", "incident_resolved")
    ELSE IF state = "SUPPRESSED" /\ view.record.state # state /\ view.active # 0
      THEN CloseIncident("SUPPRESSED", "state_changed")
    ELSE UNCHANGED <<incidents, outbox>>

StageIncident(state) ==
    IF view.seen = "no_data" THEN UNCHANGED <<incidents, outbox>>
    ELSE IF state = "OPEN"
      THEN IF view.active = 0 THEN OpenIncident ELSE MergeIncident
    ELSE IF state = "RESOLVED" /\ view.active # 0
      THEN CloseIncident("RESOLVED", "incident_resolved")
    ELSE IF state = "SUPPRESSED" /\ view.record.state # state /\ view.active # 0
      THEN CloseIncident("SUPPRESSED", "state_changed")
    ELSE UNCHANGED <<incidents, outbox>>

-------------------------------------------------------------------------------
(* Actions *)

Active == {i \in 1 .. Len(incidents) : incidents[i] \in ActiveStates}

\* find_active_incident: the one updated last.  An evaluation stamps updated_at
\* with its effective time and an acknowledgement with the clock, so that with
\* two active incidents it may be either.
IsActiveIncident(i) == IF Active = {} THEN i = 0 ELSE i \in Active

Read(seen, impact, moved) ==
    \E active \in 0 .. Len(incidents) :
        /\ IsActiveIncident(active)
        /\ view' = [open |-> TRUE, seen |-> seen, impact |-> impact,
                    moved |-> moved, record |-> record, active |-> active,
                    activeState |-> IF active = 0 THEN "NORMAL"
                                    ELSE incidents[active]]

\* The evaluation has its value, and reads the record, the history and the
\* active incident.
Evaluate ==
    /\ ~ view.open
    /\ Len(history) < MaxWindows
    /\ \E seen \in Observations, impact, moved \in BOOLEAN :
          Read(seen, impact, moved)
    /\ UNCHANGED <<history, record, incidents, outbox, ackVars>>

\* Mutant: the version is not compared.
MutNoVersionCheck ==
    /\ view.open
    /\ history' = Append(history, view.seen)
    /\ record' = StagedRecord(NextState)
    /\ StageIncident(NextState)
    /\ view' = NoView
    /\ UNCHANGED ackVars

\* The transaction commits: the version it read is still the current one.
Commit ==
    /\ view.open
    /\ view.record.version = record.version
    /\ history' = Append(history, view.seen)
    /\ record' = StagedRecord(NextState)
    /\ StageIncident(NextState)
    /\ view' = NoView
    /\ UNCHANGED ackVars

\* The record has been acknowledged meanwhile: the ordered section starts again.
Conflict ==
    /\ view.open
    /\ view.record.version # record.version
    /\ Read(view.seen, view.impact, view.moved)
    /\ UNCHANGED <<history, record, incidents, outbox, ackVars>>

\* acknowledge(), the state: any state becomes ACKNOWLEDGED.
AcknowledgeState ==
    /\ ackPc = "idle"
    /\ acks < MaxAcks
    /\ record' = [record EXCEPT !.state = "ACKNOWLEDGED", !.version = @ + 1]
    /\ acks' = acks + 1
    /\ ackPc' = "find"
    /\ UNCHANGED <<history, incidents, outbox, view, ackCopy, overwritten>>

\* acknowledge(), find_active_incident: nothing more to do without one.
AcknowledgeFind ==
    /\ ackPc = "find"
    /\ \E i \in 0 .. Len(incidents) :
          /\ IsActiveIncident(i)
          /\ IF i = 0
               THEN ackPc' = "idle" /\ UNCHANGED ackCopy
               ELSE /\ ackPc' = "write"
                    /\ ackCopy' = [incident |-> i, state |-> incidents[i]]
    /\ UNCHANGED <<history, record, incidents, outbox, view, acks, overwritten>>

\* acknowledge(), upsert_incident of the copy, whatever the row is by now.
AcknowledgeIncident ==
    /\ ackPc = "write"
    /\ incidents' = [incidents EXCEPT ![ackCopy.incident] = "ACKNOWLEDGED"]
    /\ overwritten' = (overwritten \/ incidents[ackCopy.incident] # ackCopy.state)
    /\ ackPc' = "idle"
    /\ UNCHANGED <<history, record, outbox, view, ackCopy, acks>>

\* The call fails or its process dies between the two transactions.
AcknowledgeFails ==
    /\ ackPc # "idle"
    /\ ackPc' = "idle"
    /\ UNCHANGED <<history, record, incidents, outbox, view, ackCopy, acks,
                   overwritten>>

Init ==
    /\ history = << >>
    /\ record = [state |-> "NORMAL", resolvedAt |-> 0, version |-> 0]
    /\ incidents = << >>
    /\ outbox = << >>
    /\ view = NoView
    /\ ackPc = "idle"
    /\ ackCopy = [incident |-> 0, state |-> "NORMAL"]
    /\ acks = 0
    /\ overwritten = FALSE

Process == Evaluate \/ Commit \/ Conflict
Acknowledge == \/ AcknowledgeState \/ AcknowledgeFind
               \/ AcknowledgeIncident \/ AcknowledgeFails

Next == Process \/ Acknowledge

Spec == Init /\ [][Next]_vars

-------------------------------------------------------------------------------
(* Correctness *)

\* The incidents follow the metric: an open metric has an active incident;
\* unless an acknowledgement came late (it wrote a copy of an incident that an
\* evaluation had changed since), there is never a second one, and a resolved
\* or suppressed metric has none.
IncidentsFollowState ==
    /\ record.state = "OPEN" => Active # {}
    /\ ~ overwritten => \A i, j \in Active : i = j
    /\ ~ overwritten /\ record.state \in {"RESOLVED", "SUPPRESSED"} => Active = {}

EventsOf(i) == {n \in 1 .. Len(outbox) : outbox[n].incident = i}

\* A subscriber that only sees the events knows every incident: it is opened
\* once, by its first event, and its last event tells whether it is over and
\* how (unless an acknowledgement came late).
EventsMatchIncidents ==
    \A i \in 1 .. Len(incidents) :
        /\ EventsOf(i) # {}
        /\ \A n \in EventsOf(i) :
              outbox[n].kind = "incident_opened" <=> \A m \in EventsOf(i) : n <= m
        /\ \A n \in EventsOf(i) :
              ~ overwritten /\ (\A m \in EventsOf(i) : m <= n) =>
                 /\ outbox[n].kind = "incident_resolved" <=> incidents[i] = "RESOLVED"
                 /\ outbox[n].kind = "state_changed" <=> incidents[i] = "SUPPRESSED"

\* No flapping: after a resolution nothing opens within the cooldown, whatever
\* the metric is acknowledged to meanwhile, unless a window of bad quality came
\* between (from SUPPRESSED the metric opens without a cooldown).
CooldownHolds ==
    \A m, n \in 1 .. Len(outbox) :
        /\ m < n
        /\ outbox[m].kind = "incident_resolved"
        /\ outbox[n].kind \in {"incident_opened", "incident_updated"}
        /\ \A t \in outbox[m].at .. outbox[n].at : history[t] # "ineligible"
        => outbox[n].at - outbox[m].at >= Cooldown

\* No event without its evidence, gaps of NO_DATA allowed: an incident is opened
\* by a run of detections of the required length, resolved by a run of healthy
\* windows (no window of bad quality among either), and suppressed by a window
\* of bad quality.
EventsHaveEvidence ==
    \A n \in 1 .. Len(outbox) :
        LET event   == outbox[n]
            signals == Signals(SubSeq(history, 1, event.at)) IN
        /\ event.kind = "incident_opened" => EndsWith(signals, "detected", Persistence)
        /\ event.kind = "incident_resolved" => EndsWith(signals, "healthy", ResolveAfter)
        /\ event.kind = "state_changed" => history[event.at] = "ineligible"

\* An acknowledgement is sticky while the anomaly persists: an evaluation that
\* had read the metric before it neither undoes it nor tells anybody.
AckIsSticky ==
    [][/\ record.state = "ACKNOWLEDGED"
       /\ history' # history
       /\ history'[Len(history')] \in {"detected", "no_data"}
       => record'.state = "ACKNOWLEDGED" /\ outbox' = outbox]_vars

\* What evolve_state says of itself, "enough healthy windows after OPEN/ACK ->
\* RESOLVED": once they have passed, no incident is left active.  The code does
\* not keep it, even without any acknowledgement: a detection of less impact
\* takes an open metric to DETECTED, from where healthy windows lead to NORMAL.
HealthyWindowsClose ==
    LET signals == Signals(history) IN
    acks = 0 /\ HealthyWindows(signals, ResolveAfter) => Active = {}
-------------------------------------------------------------------------------
(* Why it is correct: the inductive invariant *)

\* An evaluation that finds the version it has read finds the record it has read.
RecordIsVersioned ==
    view.open => /\ view.record.version <= record.version
                 /\ view.record.version = record.version => view.record = record

\* An evaluation that saw an open metric saw its incident; and until it commits,
\* only a late acknowledgement changes which incident is active.
ViewHasIncident ==
    view.open =>
        /\ view.record.state = "OPEN" => view.active # 0
        /\ ~ overwritten => IF view.active = 0 THEN Active = {} ELSE view.active \in Active

AckHasIncident ==
    ackPc = "write" => /\ ackCopy.incident \in 1 .. Len(incidents)
                       /\ ackCopy.state \in ActiveStates

EventsAreDated ==
    \A n \in 1 .. Len(outbox) : outbox[n].at \in 1 .. Len(history)

\* After a resolution the metric is resolved or acknowledged until the cooldown
\* has passed or a window is of bad quality.
CooldownPending ==
    \A n \in 1 .. Len(outbox) :
        /\ outbox[n].kind = "incident_resolved"
        /\ \A t \in outbox[n].at .. Len(history) : history[t] # "ineligible"
        => \/ Len(history) - outbox[n].at >= Cooldown
           \/ /\ record.state \in {"RESOLVED", "ACKNOWLEDGED"}
              /\ record.resolvedAt >= outbox[n].at

IInv ==
    /\ RecordIsVersioned
    /\ ViewHasIncident
    /\ AckHasIncident
    /\ EventsAreDated
    /\ CooldownPending
    /\ IncidentsFollowState
    /\ EventsMatchIncidents
    /\ CooldownHolds
    /\ EventsHaveEvidence
===============================================================================
