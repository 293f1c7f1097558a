------------------------- MODULE MetricLifecycleProofs -------------------------
(***************************************************************************)
(* Proofs about MetricLifecycle, for any policy: types, the incidents that   *)
(* follow the state, the events that tell of them, the cooldown, and the     *)
(* acknowledgement that no evaluation undoes.                               *)
(***************************************************************************)
EXTENDS MetricLifecycle, SequenceTheorems, TLAPS

-------------------------------------------------------------------------------
(* Sequences *)

LEMMA Appended ==
  ASSUME NEW S, NEW s \in Seq(S), NEW e \in S
  PROVE  /\ Append(s, e) \in Seq(S)
         /\ Len(s) \in Nat
         /\ Len(Append(s, e)) = Len(s) + 1
         /\ \A i \in 1 .. Len(s) : Append(s, e)[i] = s[i]
         /\ Append(s, e)[Len(s) + 1] = e
  OBVIOUS

LEMMA Replaced ==
  ASSUME NEW S, NEW s \in Seq(S), NEW k \in 1 .. Len(s), NEW e \in S
  PROVE  /\ [s EXCEPT ![k] = e] \in Seq(S)
         /\ Len([s EXCEPT ![k] = e]) = Len(s)
         /\ \A i \in 1 .. Len(s) :
               [s EXCEPT ![k] = e][i] = IF i = k THEN e ELSE s[i]
  BY ExceptSeq

-------------------------------------------------------------------------------
(* The state machine *)

Events == [kind : Kinds, incident : Nat \ {0}, at : Nat]

\* What evolve_state and the cooldown make of a window.
LEMMA EvolveStateFacts ==
  ASSUME NEW signals, NEW seen \in Observations, NEW impact \in BOOLEAN,
         NEW previous \in States, NEW state,
         state = EvolveState(signals, seen, impact, previous)
  PROVE  /\ state \in States
         /\ state = "OPEN" => previous = "OPEN" \/ Detections(signals, Persistence)
         /\ state = "RESOLVED" =>
               previous = "RESOLVED" \/ HealthyWindows(signals, ResolveAfter)
         /\ state = "SUPPRESSED" => seen = "ineligible"
         /\ previous = "ACKNOWLEDGED" /\ seen # "ineligible" =>
               state \in {"ACKNOWLEDGED", "RESOLVED"}
         /\ previous = "ACKNOWLEDGED" /\ seen = "detected" => state = "ACKNOWLEDGED"
         /\ previous = "RESOLVED" /\ seen # "ineligible" =>
               state \in {"RESOLVED", "DETECTED", "OPEN"}
<1> USE DEF States, Observations
<1>1. CASE seen = "ineligible"
  BY <1>1 DEF EvolveState
<1>2. CASE seen = "detected"
  <2>1. state = IF previous = "ACKNOWLEDGED" THEN "ACKNOWLEDGED"
                ELSE IF MayOpen(signals, impact) THEN "OPEN" ELSE "DETECTED"
    BY <1>2 DEF EvolveState, EvolveGood
  <2>. QED
    BY <1>2, <2>1 DEF MayOpen
<1>3. CASE seen \notin {"ineligible", "detected"}
  <2>1. state = IF previous \in {"OPEN", "ACKNOWLEDGED"}
                  THEN IF HealthyWindows(signals, ResolveAfter)
                         THEN "RESOLVED" ELSE previous
                ELSE IF previous = "RESOLVED" THEN "RESOLVED" ELSE "NORMAL"
    BY <1>3 DEF EvolveState, EvolveGood
  <2>. QED
    BY <1>3, <2>1
<1>. QED
  BY <1>1, <1>2, <1>3

LEMMA OpenView ==
  ASSUME TypeOK, view.open
  PROVE  /\ view \in View
         /\ view.seen \in Observations /\ view.impact \in BOOLEAN
         /\ view.record \in StateRecord /\ view.active \in 0 .. Len(incidents)
<1>1. view \in View
  <2>1. view # NoView
    BY DEF NoView
  <2>. QED
    BY <2>1 DEF TypeOK
<1>. QED
  BY <1>1 DEF View, TypeOK

LEMMA NextStateFacts ==
  ASSUME TypeOK, view.open, NEW state, state = NextState
  PROVE  /\ state \in States
         /\ view.seen = "no_data" => state = view.record.state
         /\ state = "OPEN" /\ view.record.state # "OPEN" =>
               Detections(Signals(Append(history, view.seen)), Persistence)
         /\ state = "RESOLVED" /\ view.record.state # "RESOLVED" =>
               HealthyWindows(Signals(Append(history, view.seen)), ResolveAfter)
         /\ state = "SUPPRESSED" /\ view.record.state # "SUPPRESSED" =>
               view.seen = "ineligible"
         /\ view.record.state = "ACKNOWLEDGED" /\ view.seen # "ineligible" =>
               state \in {"ACKNOWLEDGED", "RESOLVED"}
         /\ view.record.state = "ACKNOWLEDGED" /\ view.seen \in {"detected", "no_data"} =>
               state = "ACKNOWLEDGED"
         /\ view.record.state = "RESOLVED" /\ view.seen # "ineligible" =>
               state = "RESOLVED" \/ Now - view.record.resolvedAt >= Cooldown
<1>0. /\ view.seen \in Observations /\ view.impact \in BOOLEAN
      /\ view.record \in StateRecord /\ view.record.state \in States
      /\ view.record.resolvedAt \in Int /\ Now \in Int /\ Cooldown \in Int
  BY OpenView, LifecycleAssumption DEF TypeOK, StateRecord, Now
<1>1. CASE view.seen = "no_data"
  BY <1>0, <1>1 DEF NextState
<1>2. CASE view.seen # "no_data"
  <2> DEFINE signals == Signals(Append(history, view.seen))
             evolved == EvolveState(signals, view.seen, view.impact, view.record.state)
  <2>1. state = CooledDown(view.record, evolved, Now)
    BY <1>2 DEF NextState
  <2>2. /\ evolved \in States
        /\ evolved = "OPEN" =>
              view.record.state = "OPEN" \/ Detections(signals, Persistence)
        /\ evolved = "RESOLVED" =>
              view.record.state = "RESOLVED" \/ HealthyWindows(signals, ResolveAfter)
        /\ evolved = "SUPPRESSED" => view.seen = "ineligible"
        /\ view.record.state = "ACKNOWLEDGED" /\ view.seen # "ineligible" =>
              evolved \in {"ACKNOWLEDGED", "RESOLVED"}
        /\ view.record.state = "ACKNOWLEDGED" /\ view.seen = "detected" =>
              evolved = "ACKNOWLEDGED"
        /\ view.record.state = "RESOLVED" /\ view.seen # "ineligible" =>
              evolved \in {"RESOLVED", "DETECTED", "OPEN"}
    BY <1>0, EvolveStateFacts
  <2> HIDE DEF evolved, signals
  <2>3. \/ state = evolved /\ (/\ view.record.state = "RESOLVED"
                               /\ evolved \in {"DETECTED", "OPEN"}
                               => Now - view.record.resolvedAt >= Cooldown)
        \/ state = "RESOLVED" /\ view.record.state = "RESOLVED"
    BY <1>0, <2>1 DEF CooledDown
  <2>4. view.seen # "ineligible" /\ view.record.state = "RESOLVED" =>
           state = "RESOLVED" \/ Now - view.record.resolvedAt >= Cooldown
    BY <2>2, <2>3
  <2>5. state \in States
    BY <2>2, <2>3 DEF States
  <2>6. /\ state = "OPEN" =>
              view.record.state = "OPEN" \/ Detections(signals, Persistence)
        /\ state = "RESOLVED" =>
              view.record.state = "RESOLVED" \/ HealthyWindows(signals, ResolveAfter)
        /\ state = "SUPPRESSED" => view.seen = "ineligible"
    BY <2>2, <2>3
  <2>7. /\ view.record.state = "ACKNOWLEDGED" /\ view.seen # "ineligible" =>
              state \in {"ACKNOWLEDGED", "RESOLVED"}
        /\ view.record.state = "ACKNOWLEDGED" /\ view.seen = "detected" =>
              state = "ACKNOWLEDGED"
    BY <2>2, <2>3
  <2>. QED
    BY <1>2, <2>4, <2>5, <2>6, <2>7 DEF signals
<1>. QED
  BY <1>1, <1>2

\* When a commit leaves the incidents and the outbox alone.
NothingStaged ==
    /\ UNCHANGED <<incidents, outbox>>
    /\ \/ record'.state = view.record.state /\ record'.resolvedAt = view.record.resolvedAt
       \/ record'.state \in {"NORMAL", "DETECTED", "ACKNOWLEDGED"}
       \/ record'.state \in {"RESOLVED", "SUPPRESSED"} /\ view.active = 0
       \/ record'.state = "SUPPRESSED" /\ view.record.state = "SUPPRESSED"

\* What a commit does to the incidents and the outbox, and when.
StageCases ==
    \/ NothingStaged
    \/ record'.state = "OPEN" /\ view.active = 0 /\ OpenIncident
    \/ record'.state = "OPEN" /\ view.active # 0 /\ MergeIncident
    \/ /\ record'.state = "RESOLVED" /\ view.active # 0
       /\ record'.resolvedAt = Now
       /\ CloseIncident("RESOLVED", "incident_resolved")
    \/ /\ record'.state = "SUPPRESSED" /\ view.active # 0
       /\ view.record.state # "SUPPRESSED"
       /\ CloseIncident("SUPPRESSED", "state_changed")

LEMMA CommitCases ==
  ASSUME TypeOK, Commit
  PROVE  /\ view.open /\ view \in View /\ view.record.version = record.version
         /\ history' = Append(history, view.seen) /\ view' = NoView
         /\ UNCHANGED ackVars
         /\ record' \in StateRecord /\ record'.state = NextState
         /\ record'.version = record.version + 1
         /\ record'.resolvedAt \in {Now, view.record.resolvedAt}
         /\ record'.state = "RESOLVED" /\ view.seen # "no_data" => record'.resolvedAt = Now
         /\ StageCases
<1>0. /\ view.open /\ view \in View /\ view.record \in StateRecord
      /\ view.record.version = record.version
  BY OpenView DEF Commit
<1>1. PICK state : state = NextState
  OBVIOUS
<1>2. state \in States /\ (view.seen = "no_data" => state = view.record.state)
  BY <1>0, <1>1, NextStateFacts
<1>3. record' = StagedRecord(state)
  BY <1>1 DEF Commit
<1>4. /\ record' \in StateRecord /\ record'.state = state
      /\ record'.version = record.version + 1
      /\ record'.resolvedAt = IF state = "RESOLVED" /\ view.seen # "no_data"
                                THEN Now ELSE view.record.resolvedAt
  <2>1. Now \in Nat
    BY DEF TypeOK, Now
  <2>. QED
    BY <1>0, <1>2, <1>3, <2>1 DEF StagedRecord, StateRecord
<1>5. StageIncident(state)
  BY <1>1 DEF Commit
<1>6. StageCases
  <2>1. CASE view.seen = "no_data"
    BY <1>2, <1>4, <1>5, <2>1 DEF StageIncident, StageCases, NothingStaged
  <2>2. CASE view.seen # "no_data" /\ state = "OPEN"
    BY <1>4, <1>5, <2>2 DEF StageIncident, StageCases, NothingStaged
  <2>3. CASE view.seen # "no_data" /\ state = "RESOLVED"
    BY <1>4, <1>5, <2>3 DEF StageIncident, StageCases, NothingStaged
  <2>4. CASE view.seen # "no_data" /\ state = "SUPPRESSED"
    BY <1>4, <1>5, <2>4 DEF StageIncident, StageCases, NothingStaged
  <2>5. CASE view.seen # "no_data" /\ state \notin {"OPEN", "RESOLVED", "SUPPRESSED"}
    BY <1>2, <1>4, <1>5, <2>5 DEF StageIncident, StageCases, NothingStaged, States
  <2>. QED
    BY <2>1, <2>2, <2>3, <2>4, <2>5
<1>. QED
  BY <1>0, <1>1, <1>4, <1>6 DEF Commit

\* A commit that changes the active incident to s; without an event only if the
\* metric was in that state already.
ChangeTo(s, kind) ==
    /\ view.active \in 1 .. Len(incidents)
    /\ record'.state = s
    /\ incidents' = [incidents EXCEPT ![view.active] = s]
    /\ \/ /\ outbox' = Append(outbox, Event(kind, view.active))
          /\ s = "OPEN" \/ view.record.state # s
       \/ outbox' = outbox /\ view.record.state = s

IncidentMove ==
    \/ NothingStaged
    \/ record'.state = "OPEN" /\ view.active = 0 /\ OpenIncident
    \/ ChangeTo("OPEN", "incident_updated")
    \/ ChangeTo("RESOLVED", "incident_resolved") /\ record'.resolvedAt = Now
    \/ ChangeTo("SUPPRESSED", "state_changed")

LEMMA CommitMoves ==
  ASSUME TypeOK, Commit
  PROVE  IncidentMove
<1>1. view.active \in 0 .. Len(incidents) /\ Len(incidents) \in Nat
  BY CommitCases, OpenView DEF TypeOK
<1>2. view.active # 0 => view.active \in 1 .. Len(incidents)
  BY <1>1
<1>3. StageCases
  BY CommitCases
<1>. QED
  BY <1>2, <1>3 DEF StageCases, IncidentMove, ChangeTo, MergeIncident, CloseIncident

-------------------------------------------------------------------------------
(* Types *)

LEMMA MoveTypes ==
  ASSUME TypeOK, IncidentMove, UNCHANGED overwritten
  PROVE  /\ incidents' \in Seq(States) /\ outbox' \in Seq(Events)
         /\ Len(incidents) \in Nat
         /\ Len(incidents') \in {Len(incidents), Len(incidents) + 1}
         /\ \A n \in 1 .. Len(outbox') : outbox'[n].incident <= Len(incidents')
<1>0. /\ incidents \in Seq(States) /\ outbox \in Seq(Events) /\ Now \in Nat
      /\ Len(incidents) \in Nat /\ Len(outbox) \in Nat
      /\ \A n \in 1 .. Len(outbox) : outbox[n] \in Events /\ outbox[n].incident <= Len(incidents)
  <2>1. incidents \in Seq(States) /\ Len(incidents) \in Nat
    BY DEF TypeOK
  <2>2. outbox \in Seq(Events) /\ Len(outbox) \in Nat
    BY DEF TypeOK, Events
  <2>3. Now \in Nat
    BY DEF TypeOK, Now
  <2>4. \A n \in 1 .. Len(outbox) : outbox[n].incident <= Len(incidents)
    BY DEF TypeOK
  <2>5. \A n \in 1 .. Len(outbox) : outbox[n] \in Events
    BY <2>2
  <2>. QED
    BY <2>1, <2>2, <2>3, <2>4, <2>5
<1>1. CASE NothingStaged
  BY <1>0, <1>1 DEF NothingStaged
<1>2. CASE OpenIncident
  <2> DEFINE event == Event("incident_opened", Len(incidents) + 1)
  <2>1. event \in Events /\ event.incident = Len(incidents) + 1
    BY <1>0 DEF Event, Events, Kinds
  <2>2. incidents' = Append(incidents, "OPEN") /\ outbox' = Append(outbox, event)
    BY <1>2 DEF OpenIncident
  <2>3. /\ incidents' \in Seq(States) /\ Len(incidents') = Len(incidents) + 1
    BY <1>0, <2>2, Appended DEF States
  <2> HIDE DEF event
  <2>4. /\ outbox' \in Seq(Events) /\ Len(outbox') = Len(outbox) + 1
        /\ \A n \in 1 .. Len(outbox) : outbox'[n] = outbox[n]
        /\ outbox'[Len(outbox) + 1] = event
    BY <1>0, <2>1, <2>2, Appended
  <2>5. ASSUME NEW n \in 1 .. Len(outbox')
        PROVE  outbox'[n].incident <= Len(incidents')
    <3>1. CASE n = Len(outbox) + 1
      BY <2>1, <2>3, <2>4, <1>0, <3>1
    <3>2. CASE n \in 1 .. Len(outbox)
      <4>1. /\ outbox[n].incident \in Nat /\ outbox[n].incident <= Len(incidents)
            /\ outbox'[n] = outbox[n]
        BY <2>4, <1>0, <3>2 DEF Events
      <4>. QED
        BY <2>3, <4>1, <1>0
    <3>. QED
      BY <3>1, <3>2, <2>4, <1>0
  <2>. QED
    BY <1>0, <2>3, <2>4, <2>5
<1>3. ASSUME NEW s \in States, NEW kind \in Kinds, ChangeTo(s, kind)
      PROVE  /\ incidents' \in Seq(States) /\ outbox' \in Seq(Events)
             /\ Len(incidents') = Len(incidents)
             /\ \A n \in 1 .. Len(outbox') : outbox'[n].incident <= Len(incidents')
  <2> DEFINE event == Event(kind, view.active)
  <2>1. view.active \in Nat \ {0} /\ view.active <= Len(incidents)
    BY <1>0, <1>3 DEF ChangeTo
  <2>2. event \in Events /\ event.incident = view.active
    BY <1>0, <2>1 DEF Event, Events
  <2>3. incidents' \in Seq(States) /\ Len(incidents') = Len(incidents)
    BY <1>0, <1>3, Replaced DEF ChangeTo
  <2>4. outbox' = outbox \/ outbox' = Append(outbox, event)
    BY <1>3 DEF ChangeTo
  <2> HIDE DEF event
  <2>5. CASE outbox' = outbox
    BY <1>0, <2>3, <2>5
  <2>6. CASE outbox' = Append(outbox, event)
    <3>1. /\ outbox' \in Seq(Events) /\ Len(outbox') = Len(outbox) + 1
          /\ \A n \in 1 .. Len(outbox) : outbox'[n] = outbox[n]
          /\ outbox'[Len(outbox) + 1] = event
      BY <1>0, <2>2, <2>6, Appended
    <3>2. ASSUME NEW n \in 1 .. Len(outbox')
          PROVE  outbox'[n].incident <= Len(incidents')
      <4>1. CASE n = Len(outbox) + 1
        BY <2>1, <2>2, <2>3, <3>1, <4>1
      <4>2. CASE n \in 1 .. Len(outbox)
        BY <2>3, <3>1, <1>0, <4>2
      <4>. QED
        BY <4>1, <4>2, <3>1, <1>0
    <3>. QED
      BY <2>3, <3>1, <3>2
  <2>. QED
    BY <2>4, <2>5, <2>6
<1>4. /\ "OPEN" \in States /\ "RESOLVED" \in States /\ "SUPPRESSED" \in States
      /\ "incident_updated" \in Kinds /\ "incident_resolved" \in Kinds
      /\ "state_changed" \in Kinds
  BY DEF States, Kinds
<1>. QED
  BY <1>0, <1>1, <1>2, <1>3, <1>4 DEF IncidentMove

LEMMA ReadTypes ==
  ASSUME TypeOK, NEW seen \in Observations, NEW impact \in BOOLEAN,
         NEW moved \in BOOLEAN, Read(seen, impact, moved)
  PROVE  /\ view' \in View /\ view'.open
         /\ view'.seen = seen /\ view'.record = record
         /\ view'.active \in 0 .. Len(incidents) /\ IsActiveIncident(view'.active)
<1>1. PICK active \in 0 .. Len(incidents) :
        /\ IsActiveIncident(active)
        /\ view' = [open |-> TRUE, seen |-> seen, impact |-> impact,
                    moved |-> moved, record |-> record, active |-> active,
                    activeState |-> IF active = 0 THEN "NORMAL"
                                    ELSE incidents[active]]
  BY DEF Read
<1>2. (IF active = 0 THEN "NORMAL" ELSE incidents[active]) \in States
  <2>1. incidents \in Seq(States)
    BY DEF TypeOK
  <2>2. active # 0 => active \in 1 .. Len(incidents)
    BY <2>1
  <2>. QED
    BY <2>1, <2>2 DEF States
<1>3. record \in StateRecord /\ active \in Nat
  BY DEF TypeOK
<1>. QED
  BY <1>1, <1>2, <1>3 DEF View

LEMMA InitTypes == Init => TypeOK
<1> SUFFICES ASSUME Init PROVE TypeOK
  OBVIOUS
<1>1. record \in StateRecord
  BY DEF Init, StateRecord, States
<1>2. view \in View \cup {NoView} /\ ~ view.open
  BY DEF Init, NoView
<1>3. ackCopy \in [incident : 0 .. Len(incidents), state : States]
  BY DEF Init, States
<1>4. history \in Seq(Observations) /\ incidents \in Seq(States)
  BY DEF Init
<1>5. outbox \in Seq([kind : Kinds, incident : Nat \ {0}, at : Nat]) /\ Len(outbox) = 0
  BY DEF Init
<1>6. \A n \in 1 .. Len(outbox) : outbox[n].incident <= Len(incidents)
  BY <1>5
<1>7. ackPc \in {"idle", "find", "write"} /\ acks \in Nat /\ overwritten \in BOOLEAN
  BY DEF Init
<1>. QED
  BY <1>1, <1>2, <1>3, <1>4, <1>5, <1>6, <1>7 DEF TypeOK

\* The call of acknowledge keeps what an evaluation has read apart.
AckTypes ==
    /\ ackPc \in {"idle", "find", "write"}
    /\ ackCopy \in [incident : 0 .. Len(incidents), state : States]
    /\ acks \in Nat
    /\ overwritten \in BOOLEAN

LEMMA NextTypes == TypeOK /\ [Next]_vars => TypeOK'
<1> SUFFICES ASSUME TypeOK, [Next]_vars PROVE TypeOK'
  OBVIOUS
<1> USE DEF ackVars
<1>1. CASE Evaluate
  <2>1. view' \in View /\ view'.active \in 0 .. Len(incidents)
    BY <1>1, ReadTypes DEF Evaluate
  <2>. QED
    BY <1>1, <2>1 DEF Evaluate, TypeOK
<1>2. CASE Conflict
  <2>1. view \in View
    BY <1>2, OpenView DEF Conflict
  <2>2. view' \in View /\ view'.active \in 0 .. Len(incidents)
    BY <1>2, <2>1, ReadTypes DEF Conflict, View
  <2>. QED
    BY <1>2, <2>2 DEF Conflict, TypeOK
<1>3. CASE Commit
  <2>1. /\ view.seen \in Observations /\ view' = NoView /\ record' \in StateRecord
        /\ history' = Append(history, view.seen) /\ UNCHANGED ackVars
    BY <1>3, CommitCases, OpenView
  <2>2. history' \in Seq(Observations)
    BY <2>1 DEF TypeOK
  <2>3. /\ incidents' \in Seq(States) /\ outbox' \in Seq(Events)
        /\ Len(incidents) \in Nat
        /\ Len(incidents') \in {Len(incidents), Len(incidents) + 1}
        /\ \A n \in 1 .. Len(outbox') : outbox'[n].incident <= Len(incidents')
    BY <1>3, <2>1, MoveTypes, CommitMoves
  <2>4. AckTypes'
    BY <2>1, <2>3 DEF TypeOK, AckTypes
  <2>5. view' \in View \cup {NoView} /\ ~ view'.open
    BY <2>1 DEF NoView
  <2>. QED
    BY <2>1, <2>2, <2>3, <2>4, <2>5 DEF TypeOK, AckTypes, Events
<1>4. CASE AcknowledgeState
  <2>1. record' \in StateRecord
    <3>1. record \in [state : States, resolvedAt : Nat, version : Nat]
      BY DEF TypeOK, StateRecord
    <3>2. "ACKNOWLEDGED" \in States
      BY DEF States
    <3>3. record' = [record EXCEPT !.state = "ACKNOWLEDGED", !.version = @ + 1]
      BY <1>4 DEF AcknowledgeState
    <3>4. record.resolvedAt \in Nat /\ record.version + 1 \in Nat
      BY <3>1
    <3>5. record' = [state |-> "ACKNOWLEDGED", resolvedAt |-> record.resolvedAt,
                     version |-> record.version + 1]
      BY <3>1, <3>3
    <3>. QED
      BY <3>2, <3>4, <3>5 DEF StateRecord
  <2>. QED
    BY <1>4, <2>1 DEF AcknowledgeState, TypeOK
<1>5. CASE AcknowledgeFind
  <2>1. AckTypes'
    <3>1. PICK i \in 0 .. Len(incidents) :
            IF i = 0 THEN ackPc' = "idle" /\ UNCHANGED ackCopy
            ELSE /\ ackPc' = "write"
                 /\ ackCopy' = [incident |-> i, state |-> incidents[i]]
      BY <1>5 DEF AcknowledgeFind
    <3>2. i # 0 => i \in 1 .. Len(incidents) /\ incidents[i] \in States
      BY DEF TypeOK
    <3>. QED
      BY <1>5, <3>1, <3>2 DEF AcknowledgeFind, TypeOK, AckTypes
  <2>. QED
    BY <1>5, <2>1 DEF AcknowledgeFind, TypeOK, AckTypes
<1>6. CASE AcknowledgeIncident
  <2>1. incidents' \in Seq(States) /\ Len(incidents') = Len(incidents)
    <3>1. incidents \in Seq(States) /\ "ACKNOWLEDGED" \in States
      BY DEF TypeOK, States
    <3>2. incidents' = [incidents EXCEPT ![ackCopy.incident] = "ACKNOWLEDGED"]
      BY <1>6 DEF AcknowledgeIncident
    <3>3. CASE ackCopy.incident \in 1 .. Len(incidents)
      BY <3>1, <3>2, <3>3, Replaced
    <3>4. CASE ackCopy.incident \notin 1 .. Len(incidents)
      <4>1. incidents' = incidents
        BY <3>1, <3>2, <3>4
      <4>. QED
        BY <3>1, <4>1
    <3>. QED
      BY <3>3, <3>4
  <2>. QED
    BY <1>6, <2>1 DEF AcknowledgeIncident, TypeOK
<1>7. CASE AcknowledgeFails
  BY <1>7 DEF AcknowledgeFails, TypeOK
<1>8. CASE UNCHANGED vars
  BY <1>8 DEF vars, TypeOK
<1>. QED
  BY <1>1, <1>2, <1>3, <1>4, <1>5, <1>6, <1>7, <1>8 DEF Next, Process, Acknowledge

\* Types: every reachable state of the metric, its incidents and its events is
\* well typed, and no event tells of an incident that does not exist.
THEOREM TypeCorrect == Spec => []TypeOK
  BY InitTypes, NextTypes, PTL DEF Spec

-------------------------------------------------------------------------------
(* The inductive invariant: records, views and copies *)

ReadStep ==
    /\ UNCHANGED <<history, record, incidents, outbox, ackVars>>
    /\ view'.open /\ view'.record = record
    /\ IsActiveIncident(view'.active)

QuietStep ==
    /\ UNCHANGED <<history, record, incidents, outbox, view, overwritten>>
    /\ ackPc' = "write" =>
          \/ ackPc = "write" /\ ackCopy' = ackCopy
          \/ /\ ackCopy'.incident \in Active
             /\ ackCopy'.state = incidents[ackCopy'.incident]

LEMMA StepCases ==
  ASSUME TypeOK, [Next]_vars
  PROVE  ReadStep \/ QuietStep \/ Commit \/ AcknowledgeState \/ AcknowledgeIncident
<1>1. CASE Evaluate
  BY <1>1, ReadTypes DEF Evaluate, ReadStep
<1>2. CASE Conflict
  <2>1. view.seen \in Observations /\ view.impact \in BOOLEAN /\ view.moved \in BOOLEAN
    BY <1>2, OpenView DEF Conflict, View
  <2>. QED
    BY <1>2, <2>1, ReadTypes DEF Conflict, ReadStep
<1>3. CASE AcknowledgeFind
  <2>1. PICK i \in 0 .. Len(incidents) :
          /\ IsActiveIncident(i)
          /\ IF i = 0 THEN ackPc' = "idle" /\ UNCHANGED ackCopy
             ELSE /\ ackPc' = "write"
                  /\ ackCopy' = [incident |-> i, state |-> incidents[i]]
    BY <1>3 DEF AcknowledgeFind
  <2>2. i # 0 => i \in Active
    BY <2>1 DEF IsActiveIncident
  <2>. QED
    BY <1>3, <2>1, <2>2 DEF AcknowledgeFind, QuietStep
<1>4. CASE AcknowledgeFails \/ UNCHANGED vars
  BY <1>4 DEF AcknowledgeFails, QuietStep, vars, ackVars
<1>. QED
  BY <1>1, <1>2, <1>3, <1>4 DEF Next, Process, Acknowledge

LEMMA InitInvariant == Init => IInv
<1> SUFFICES ASSUME Init PROVE IInv
  OBVIOUS
<1>1. ~ view.open /\ Len(incidents) = 0 /\ Len(outbox) = 0
  BY DEF Init, NoView
<1>2. RecordIsVersioned /\ ViewHasIncident /\ AckHasIncident
  BY <1>1 DEF Init, RecordIsVersioned, ViewHasIncident, AckHasIncident
<1>3. IncidentsFollowState
  <2>1. Active = {}
    BY <1>1 DEF Active
  <2>. QED
    BY <2>1 DEF Init, IncidentsFollowState
<1>4. EventsAreDated /\ CooldownPending /\ EventsMatchIncidents
  BY <1>1 DEF EventsAreDated, CooldownPending, EventsMatchIncidents
<1>5. CooldownHolds /\ EventsHaveEvidence
  BY <1>1 DEF CooldownHolds, EventsHaveEvidence
<1>. QED
  BY <1>2, <1>3, <1>4, <1>5 DEF IInv

LEMMA CommitIsCurrent ==
  ASSUME TypeOK, IInv, Commit
  PROVE  view.record = record
  BY CommitCases DEF IInv, RecordIsVersioned

\* Without a late acknowledgement the incident of the view is the active one.
LEMMA CommitSeesIncident ==
  ASSUME TypeOK, IInv, Commit
  PROVE  /\ record.state = "OPEN" => view.active # 0
         /\ ~ overwritten /\ view.active = 0 => Active = {}
         /\ ~ overwritten /\ view.active # 0 => view.active \in Active
  BY CommitIsCurrent DEF Commit, IInv, ViewHasIncident

LEMMA NextRecordIsVersioned ==
  ASSUME TypeOK, IInv, [Next]_vars
  PROVE  RecordIsVersioned'
<1>0. RecordIsVersioned /\ record.version \in Nat
  BY DEF IInv, TypeOK, StateRecord
<1>1. CASE ReadStep
  BY <1>0, <1>1 DEF ReadStep, RecordIsVersioned
<1>2. CASE QuietStep
  BY <1>0, <1>2 DEF QuietStep, RecordIsVersioned
<1>3. CASE Commit
  <2>1. ~ view'.open
    BY <1>3, CommitCases DEF NoView
  <2>. QED
    BY <2>1 DEF RecordIsVersioned
<1>4. CASE AcknowledgeState
  <2>1. record'.version = record.version + 1
    BY <1>0, <1>4 DEF AcknowledgeState, TypeOK, StateRecord
  <2>2. view.open => view.record.version \in Nat
    BY OpenView DEF StateRecord
  <2>. QED
    BY <1>0, <1>4, <2>1, <2>2 DEF AcknowledgeState, RecordIsVersioned
<1>5. CASE AcknowledgeIncident
  BY <1>0, <1>5 DEF AcknowledgeIncident, RecordIsVersioned
<1>. QED
  BY <1>1, <1>2, <1>3, <1>4, <1>5, StepCases

\* An acknowledgement that is not late changes no incident to or from active.
LEMMA AckKeepsActive ==
  ASSUME TypeOK, IInv, AcknowledgeIncident
  PROVE  /\ ackCopy.incident \in 1 .. Len(incidents)
         /\ Len(incidents') = Len(incidents)
         /\ \A i \in 1 .. Len(incidents) :
               incidents'[i] = IF i = ackCopy.incident THEN "ACKNOWLEDGED" ELSE incidents[i]
         /\ Active \subseteq Active'
         /\ ~ overwritten' => /\ ~ overwritten /\ Active' = Active
                              /\ incidents[ackCopy.incident] \in ActiveStates
<1>1. ackCopy.incident \in 1 .. Len(incidents) /\ ackCopy.state \in ActiveStates
  BY DEF AcknowledgeIncident, IInv, AckHasIncident
<1>2. incidents \in Seq(States) /\ "ACKNOWLEDGED" \in States
  BY DEF TypeOK, States
<1>3. incidents' = [incidents EXCEPT ![ackCopy.incident] = "ACKNOWLEDGED"]
  BY DEF AcknowledgeIncident
<1>4. /\ Len(incidents') = Len(incidents)
      /\ \A i \in 1 .. Len(incidents) :
            incidents'[i] = IF i = ackCopy.incident THEN "ACKNOWLEDGED" ELSE incidents[i]
  BY <1>1, <1>2, <1>3, Replaced
<1>5. Active \subseteq Active'
  BY <1>4 DEF Active, ActiveStates
<1>6. ~ overwritten' => ~ overwritten /\ incidents[ackCopy.incident] \in ActiveStates
  BY <1>1 DEF AcknowledgeIncident, TypeOK
<1>7. ~ overwritten' => Active' = Active
  BY <1>1, <1>4, <1>6 DEF Active, ActiveStates
<1>. QED
  BY <1>1, <1>4, <1>5, <1>6, <1>7

LEMMA NextViewHasIncident ==
  ASSUME TypeOK, IInv, [Next]_vars
  PROVE  ViewHasIncident'
<1>0. ViewHasIncident /\ IncidentsFollowState
  BY DEF IInv
<1>1. CASE ReadStep
  <2>1. Active' = Active
    BY <1>1 DEF ReadStep, Active
  <2>2. Active \subseteq 1 .. Len(incidents) /\ 0 \notin Active
    BY DEF Active
  <2>. QED
    BY <1>0, <1>1, <2>1, <2>2
    DEF ReadStep, ViewHasIncident, IsActiveIncident, IncidentsFollowState
<1>2. CASE QuietStep \/ AcknowledgeState
  <2>1. Active' = Active
    BY <1>2 DEF QuietStep, AcknowledgeState, Active
  <2>. QED
    BY <1>0, <1>2, <2>1 DEF QuietStep, AcknowledgeState, ViewHasIncident
<1>3. CASE Commit
  <2>1. ~ view'.open
    BY <1>3, CommitCases DEF NoView
  <2>. QED
    BY <2>1 DEF ViewHasIncident
<1>4. CASE AcknowledgeIncident
  <2>1. view' = view
    BY <1>4 DEF AcknowledgeIncident
  <2>. QED
    BY <1>0, <1>4, <2>1, AckKeepsActive DEF ViewHasIncident
<1>. QED
  BY <1>1, <1>2, <1>3, <1>4, StepCases

LEMMA NextAckHasIncident ==
  ASSUME TypeOK, IInv, [Next]_vars
  PROVE  AckHasIncident'
<1>0. AckHasIncident /\ Len(incidents) \in Nat
  BY DEF IInv, TypeOK
<1>1. CASE ReadStep
  BY <1>0, <1>1 DEF ReadStep, AckHasIncident, ackVars
<1>2. CASE QuietStep
  BY <1>0, <1>2 DEF QuietStep, AckHasIncident, Active
<1>3. CASE Commit
  <2>1. Len(incidents') \in {Len(incidents), Len(incidents) + 1} /\ UNCHANGED ackVars
    BY <1>3, CommitCases, CommitMoves, MoveTypes DEF ackVars
  <2>. QED
    BY <1>0, <2>1 DEF AckHasIncident, ackVars
<1>4. CASE AcknowledgeState \/ AcknowledgeIncident
  BY <1>4 DEF AcknowledgeState, AcknowledgeIncident, AckHasIncident
<1>. QED
  BY <1>1, <1>2, <1>3, <1>4, StepCases

-------------------------------------------------------------------------------
(* Incidents and events *)

LEMMA NextIncidentsFollowState ==
  ASSUME TypeOK, IInv, [Next]_vars
  PROVE  IncidentsFollowState'
<1>0. IncidentsFollowState
  BY DEF IInv
<1>1. CASE ReadStep \/ QuietStep
  BY <1>0, <1>1 DEF ReadStep, QuietStep, ackVars, Active, IncidentsFollowState
<1>2. CASE AcknowledgeState
  <2>1. record'.state = "ACKNOWLEDGED"
    BY <1>2 DEF AcknowledgeState, TypeOK, StateRecord
  <2>. QED
    BY <1>0, <1>2, <2>1 DEF AcknowledgeState, Active, IncidentsFollowState
<1>3. CASE AcknowledgeIncident
  <2>1. record' = record
    BY <1>3 DEF AcknowledgeIncident
  <2>2. Active # {} => Active' # {}
    BY <1>3, AckKeepsActive
  <2>. QED
    BY <1>0, <1>3, <2>1, <2>2, AckKeepsActive DEF IncidentsFollowState
<1>4. CASE Commit
  <2>0. /\ view.record = record /\ overwritten' = overwritten /\ IncidentMove
        /\ incidents \in Seq(States)
    BY <1>4, CommitIsCurrent, CommitCases, CommitMoves DEF ackVars, TypeOK
  <2>1. CASE NothingStaged
    <3>1. Active' = Active
      BY <2>1 DEF NothingStaged, Active
    <3>2. record'.state \in {"OPEN", "RESOLVED", "SUPPRESSED"} =>
            \/ record'.state = record.state
            \/ record'.state # "OPEN" /\ view.active = 0
      BY <2>0, <2>1 DEF NothingStaged
    <3>3. ~ overwritten /\ view.active = 0 => Active = {}
      BY <1>4, CommitSeesIncident
    <3>. QED
      BY <1>0, <2>0, <3>1, <3>2, <3>3 DEF IncidentsFollowState
  <2>2. CASE record'.state = "OPEN" /\ view.active = 0 /\ OpenIncident
    <3>1. /\ Len(incidents') = Len(incidents) + 1 /\ Len(incidents) \in Nat
          /\ \A i \in 1 .. Len(incidents) : incidents'[i] = incidents[i]
          /\ incidents'[Len(incidents) + 1] = "OPEN"
      BY <2>0, <2>2, Appended DEF OpenIncident, States
    <3>2. Active' = Active \cup {Len(incidents) + 1}
      BY <3>1 DEF Active, ActiveStates
    <3>3. ~ overwritten => Active = {}
      BY <1>4, <2>2, CommitSeesIncident
    <3>. QED
      BY <2>0, <2>2, <3>2, <3>3 DEF IncidentsFollowState
  <2>3. ASSUME NEW s \in {"OPEN", "RESOLVED", "SUPPRESSED"}, NEW kind, ChangeTo(s, kind)
        PROVE  IncidentsFollowState'
    <3>1. /\ Len(incidents') = Len(incidents)
          /\ \A i \in 1 .. Len(incidents) :
                incidents'[i] = IF i = view.active THEN s ELSE incidents[i]
          /\ view.active \in 1 .. Len(incidents) /\ record'.state = s
      BY <2>0, <2>3, Replaced DEF ChangeTo, States
    <3>2. view.active # 0
      BY <3>1
    <3>3. Active' = IF s = "OPEN" THEN Active \cup {view.active} ELSE Active \ {view.active}
      BY <3>1 DEF Active, ActiveStates
    <3>4. ~ overwritten => Active = {view.active}
      BY <1>0, <1>4, <3>2, CommitSeesIncident DEF IncidentsFollowState
    <3>. QED
      BY <2>0, <3>1, <3>3, <3>4 DEF IncidentsFollowState
  <2>. QED
    BY <2>0, <2>1, <2>2, <2>3 DEF IncidentMove
<1>. QED
  BY <1>1, <1>2, <1>3, <1>4, StepCases

LEMMA OutboxTypes ==
  ASSUME TypeOK
  PROVE  /\ outbox \in Seq(Events) /\ Len(outbox) \in Nat
         /\ \A n \in 1 .. Len(outbox) :
               /\ outbox[n].at \in Nat /\ outbox[n].incident \in Nat \ {0}
               /\ outbox[n].incident <= Len(incidents)
         /\ incidents \in Seq(States) /\ Len(incidents) \in Nat
<1>1. outbox \in Seq(Events) /\ Len(outbox) \in Nat
  BY DEF TypeOK, Events
<1>2. \A n \in 1 .. Len(outbox) : outbox[n] \in Events
  BY <1>1
<1>. QED
  BY <1>1, <1>2 DEF TypeOK, Events

\* A commit adds its window to the history.
LEMMA CommitHistory ==
  ASSUME TypeOK, Commit
  PROVE  /\ Len(history) \in Nat /\ Now = Len(history) + 1 /\ Len(history') = Now
         /\ \A t \in 1 .. Len(history) : history'[t] = history[t]
         /\ history'[Now] = view.seen
         /\ history' \in Seq(Observations) /\ history \in Seq(Observations)
<1>1. /\ history' = Append(history, view.seen) /\ view.seen \in Observations
      /\ history \in Seq(Observations)
  BY CommitCases, OpenView DEF TypeOK
<1>. QED
  BY <1>1, Appended DEF Now

\* The event that a commit adds, with the move it tells of.
NewEvent(kind, i) ==
    /\ outbox' = Append(outbox, Event(kind, i))
    /\ kind \in Kinds /\ i \in Nat \ {0}
    /\ \/ kind = "incident_opened" /\ record'.state = "OPEN" /\ record.state # "OPEN"
       \/ kind = "incident_updated" /\ record'.state = "OPEN"
       \/ /\ kind = "incident_resolved" /\ record'.state = "RESOLVED"
          /\ record'.resolvedAt = Now /\ record.state # "RESOLVED"
       \/ /\ kind = "state_changed" /\ record'.state = "SUPPRESSED"
          /\ record.state # "SUPPRESSED"

LEMMA OutboxMoves ==
  ASSUME TypeOK, IInv, [Next]_vars
  PROVE  \/ outbox' = outbox
         \/ Commit /\ \E kind, i : NewEvent(kind, i)
<1>1. CASE ReadStep \/ QuietStep \/ AcknowledgeState \/ AcknowledgeIncident
  BY <1>1 DEF ReadStep, QuietStep, AcknowledgeState, AcknowledgeIncident
<1>2. CASE Commit
  <2>0. IncidentMove /\ Len(incidents) \in Nat
    BY <1>2, CommitMoves, OutboxTypes
  <2>1. CASE NothingStaged
    BY <2>1 DEF NothingStaged
  <2>2. CASE record'.state = "OPEN" /\ view.active = 0 /\ OpenIncident
    <3>1. record.state # "OPEN"
      BY <1>2, <2>2, CommitSeesIncident
    <3>2. NewEvent("incident_opened", Len(incidents) + 1)
      BY <2>0, <2>2, <3>1 DEF NewEvent, OpenIncident, Kinds
    <3>. QED
      BY <1>2, <3>2
  <2>3. ASSUME NEW s, NEW kind \in Kinds, ChangeTo(s, kind),
               \/ kind = "incident_updated" /\ s = "OPEN"
               \/ kind = "incident_resolved" /\ s = "RESOLVED" /\ record'.resolvedAt = Now
               \/ kind = "state_changed" /\ s = "SUPPRESSED"
        PROVE  outbox' = outbox \/ NewEvent(kind, view.active)
    BY <1>2, <2>0, <2>3, CommitIsCurrent DEF ChangeTo, NewEvent
  <2>4. /\ "incident_updated" \in Kinds /\ "incident_resolved" \in Kinds
        /\ "state_changed" \in Kinds
    BY DEF Kinds
  <2>. QED
    BY <1>2, <2>0, <2>1, <2>2, <2>3, <2>4 DEF IncidentMove
<1>. QED
  BY <1>1, <1>2, StepCases

\* The events after a commit that adds one.
LEMMA NewEventFacts ==
  ASSUME TypeOK, Commit, NEW kind, NEW i, NewEvent(kind, i)
  PROVE  /\ Len(outbox') = Len(outbox) + 1
         /\ \A n \in 1 .. Len(outbox) : outbox'[n] = outbox[n]
         /\ outbox'[Len(outbox) + 1] = Event(kind, i)
         /\ outbox'[Len(outbox) + 1].kind = kind
         /\ outbox'[Len(outbox) + 1].incident = i
         /\ outbox'[Len(outbox) + 1].at = Now
<1>1. Event(kind, i) \in Events /\ Now \in Nat
  BY CommitHistory DEF NewEvent, Event, Events
<1>2. outbox' = Append(outbox, Event(kind, i))
  BY DEF NewEvent
<1>3. /\ Event(kind, i).kind = kind /\ Event(kind, i).incident = i
      /\ Event(kind, i).at = Now
  BY DEF Event
<1>4. outbox \in Seq(Events)
  BY OutboxTypes
<1>5. /\ Len(outbox') = Len(outbox) + 1
      /\ \A n \in 1 .. Len(outbox) : outbox'[n] = outbox[n]
      /\ outbox'[Len(outbox) + 1] = Event(kind, i)
  BY <1>1, <1>2, <1>4, Appended
<1>. QED
  BY <1>3, <1>5

LEMMA HistoryMoves ==
  ASSUME TypeOK, [Next]_vars
  PROVE  history' = history \/ Commit
<1>1. CASE ReadStep \/ QuietStep \/ AcknowledgeState \/ AcknowledgeIncident
  BY <1>1 DEF ReadStep, QuietStep, AcknowledgeState, AcknowledgeIncident
<1>. QED
  BY <1>1, StepCases

LEMMA NextEventsAreDated ==
  ASSUME TypeOK, IInv, [Next]_vars
  PROVE  EventsAreDated'
<1>0. EventsAreDated /\ Len(outbox) \in Nat /\ Len(history) \in Nat
  BY OutboxTypes DEF IInv, TypeOK
<1>1. history' = history \/ (Len(history') = Len(history) + 1)
  BY HistoryMoves, CommitHistory
<1>2. CASE outbox' = outbox
  BY <1>0, <1>1, <1>2 DEF EventsAreDated
<1>3. CASE Commit /\ \E kind, i : NewEvent(kind, i)
  <2>1. PICK kind, i : NewEvent(kind, i)
    BY <1>3
  <2>2. /\ Len(outbox') = Len(outbox) + 1
        /\ \A n \in 1 .. Len(outbox) : outbox'[n] = outbox[n]
        /\ outbox'[Len(outbox) + 1].at = Now
    BY <1>3, <2>1, NewEventFacts
  <2>3. Now = Len(history) + 1 /\ Len(history') = Now
    BY <1>3, CommitHistory
  <2>4. ASSUME NEW n \in 1 .. Len(outbox')
        PROVE  outbox'[n].at \in 1 .. Len(history')
    <3>1. CASE n \in 1 .. Len(outbox)
      <4>1. outbox[n].at \in 1 .. Len(history)
        BY <1>0, <3>1 DEF EventsAreDated
      <4>. QED
        BY <1>0, <2>2, <2>3, <3>1, <4>1
    <3>2. CASE n = Len(outbox) + 1
      BY <1>0, <2>2, <2>3, <3>2
    <3>. QED
      BY <1>0, <2>2, <3>1, <3>2
  <2>. QED
    BY <2>4 DEF EventsAreDated
<1>. QED
  BY <1>2, <1>3, OutboxMoves

-------------------------------------------------------------------------------
(* The cooldown *)

\* A window of good quality leaves a resolution pending or comes after the
\* cooldown.
LEMMA CommitKeepsCooldown ==
  ASSUME TypeOK, IInv, Commit, NEW at \in 1 .. Len(history),
         view.seen # "ineligible",
         \/ Len(history) - at >= Cooldown
         \/ record.state \in {"RESOLVED", "ACKNOWLEDGED"} /\ record.resolvedAt >= at
  PROVE  \/ Now - at >= Cooldown
         \/ /\ record'.state \in {"RESOLVED", "ACKNOWLEDGED"}
            /\ record'.resolvedAt >= at
<1>0. /\ view.open /\ view.record = record /\ record.resolvedAt \in Nat
      /\ Len(history) \in Nat /\ Now = Len(history) + 1 /\ Cooldown \in Nat
      /\ record'.state = NextState /\ record'.resolvedAt \in {Now, record.resolvedAt}
  BY CommitIsCurrent, CommitCases, CommitHistory, LifecycleAssumption
  DEF TypeOK, StateRecord
<1>1. CASE Len(history) - at >= Cooldown
  BY <1>0, <1>1
<1>2. CASE record.state = "ACKNOWLEDGED" /\ record.resolvedAt >= at
  <2>1. record'.state \in {"ACKNOWLEDGED", "RESOLVED"}
    BY <1>0, <1>2, NextStateFacts
  <2>2. record'.resolvedAt >= at
    BY <1>0, <1>2
  <2>. QED
    BY <2>1, <2>2
<1>3. CASE record.state = "RESOLVED" /\ record.resolvedAt >= at
  <2>1. record'.state = "RESOLVED" \/ Now - record.resolvedAt >= Cooldown
    BY <1>0, <1>3, NextStateFacts
  <2>2. record'.resolvedAt >= at
    BY <1>0, <1>3
  <2>3. Now - record.resolvedAt >= Cooldown => Now - at >= Cooldown
    BY <1>0, <1>3
  <2>. QED
    BY <2>1, <2>2, <2>3
<1>. QED
  BY <1>1, <1>2, <1>3

Pending(at) ==
    \/ Len(history) - at >= Cooldown
    \/ record.state \in {"RESOLVED", "ACKNOWLEDGED"} /\ record.resolvedAt >= at

LEMMA PendingAt ==
  ASSUME IInv, NEW n \in 1 .. Len(outbox), outbox[n].kind = "incident_resolved",
         \A t \in outbox[n].at .. Len(history) : history[t] # "ineligible"
  PROVE  Pending(outbox[n].at) /\ outbox[n].at \in 1 .. Len(history)
  BY DEF IInv, CooldownPending, EventsAreDated, Pending

LEMMA NextPendingAt ==
  ASSUME TypeOK, IInv, Commit, NEW n \in 1 .. Len(outbox),
         outbox[n].kind = "incident_resolved",
         \A t \in outbox[n].at .. Len(history') : history'[t] # "ineligible"
  PROVE  /\ Pending(outbox[n].at)
         /\ outbox[n].at \in 1 .. Len(history)
         /\ view.seen # "ineligible"
<1>0. /\ Len(history) \in Nat /\ Now = Len(history) + 1 /\ Len(history') = Now
      /\ \A t \in 1 .. Len(history) : history'[t] = history[t]
      /\ history'[Now] = view.seen
  BY CommitHistory
<1>1. outbox[n].at \in 1 .. Len(history)
  BY DEF IInv, EventsAreDated
<1>2. \A t \in outbox[n].at .. Len(history) : history[t] # "ineligible"
  BY <1>0, <1>1
<1>3. view.seen # "ineligible"
  BY <1>0, <1>1
<1>. QED
  BY <1>1, <1>2, <1>3, PendingAt

LEMMA NextCooldownPending ==
  ASSUME TypeOK, IInv, [Next]_vars
  PROVE  CooldownPending'
<1>0. CooldownPending /\ Len(outbox) \in Nat /\ Len(history) \in Nat
  BY OutboxTypes DEF IInv, TypeOK
<1>1. CASE ReadStep \/ QuietStep \/ AcknowledgeIncident
  BY <1>0, <1>1 DEF ReadStep, QuietStep, AcknowledgeIncident, CooldownPending
<1>2. CASE AcknowledgeState
  <2>1. record'.state = "ACKNOWLEDGED" /\ record'.resolvedAt = record.resolvedAt
    BY <1>2 DEF AcknowledgeState, TypeOK, StateRecord
  <2>. QED
    BY <1>0, <1>2, <2>1 DEF AcknowledgeState, CooldownPending
<1>3. CASE Commit
  <2>0. /\ Len(history') = Now /\ Now \in Nat
    BY <1>3, CommitHistory
  <2>1. ASSUME NEW n \in 1 .. Len(outbox), outbox[n].kind = "incident_resolved",
               \A t \in outbox[n].at .. Len(history') : history'[t] # "ineligible"
        PROVE  \/ Len(history') - outbox[n].at >= Cooldown
               \/ /\ record'.state \in {"RESOLVED", "ACKNOWLEDGED"}
                  /\ record'.resolvedAt >= outbox[n].at
    <3>1. /\ Pending(outbox[n].at) /\ view.seen # "ineligible"
          /\ outbox[n].at \in 1 .. Len(history)
      BY <1>3, <2>1, NextPendingAt
    <3>2. PICK at : at = outbox[n].at
      OBVIOUS
    <3>3. \/ Now - at >= Cooldown
          \/ /\ record'.state \in {"RESOLVED", "ACKNOWLEDGED"}
             /\ record'.resolvedAt >= at
      BY <1>3, <3>1, <3>2, CommitKeepsCooldown DEF Pending
    <3>. QED
      BY <2>0, <3>2, <3>3
  <2>2. CASE outbox' = outbox
    BY <2>1, <2>2 DEF CooldownPending
  <2>3. CASE \E kind, i : NewEvent(kind, i)
    <3>1. PICK kind, i : NewEvent(kind, i)
      BY <2>3
    <3>2. /\ Len(outbox') = Len(outbox) + 1
          /\ \A n \in 1 .. Len(outbox) : outbox'[n] = outbox[n]
          /\ outbox'[Len(outbox) + 1].kind = kind
          /\ outbox'[Len(outbox) + 1].at = Now
      BY <1>3, <3>1, NewEventFacts
    <3>3. kind = "incident_resolved" => record'.state = "RESOLVED" /\ record'.resolvedAt = Now
      BY <3>1 DEF NewEvent
    <3>4. ASSUME NEW n \in 1 .. Len(outbox'), outbox'[n].kind = "incident_resolved",
                 \A t \in outbox'[n].at .. Len(history') : history'[t] # "ineligible"
          PROVE  \/ Len(history') - outbox'[n].at >= Cooldown
                 \/ /\ record'.state \in {"RESOLVED", "ACKNOWLEDGED"}
                    /\ record'.resolvedAt >= outbox'[n].at
      <4>1. CASE n \in 1 .. Len(outbox)
        <5>1. outbox'[n] = outbox[n]
          BY <3>2, <4>1
        <5>. QED
          BY <2>1, <3>4, <4>1, <5>1
      <4>2. CASE n = Len(outbox) + 1
        BY <2>0, <3>2, <3>3, <3>4, <4>2
      <4>. QED
        BY <1>0, <3>2, <4>1, <4>2
    <3>. QED
      BY <3>4 DEF CooldownPending
  <2>. QED
    BY <1>3, <2>2, <2>3, OutboxMoves
<1>. QED
  BY <1>1, <1>2, <1>3, StepCases

\* The commit that opens after a resolution comes after the cooldown.
LEMMA OpeningIsLate ==
  ASSUME TypeOK, IInv, Commit, NEW n \in 1 .. Len(outbox),
         outbox[n].kind = "incident_resolved", record'.state = "OPEN",
         \A t \in outbox[n].at .. Len(history') : history'[t] # "ineligible"
  PROVE  Now - outbox[n].at >= Cooldown
<1>1. /\ Pending(outbox[n].at) /\ view.seen # "ineligible"
      /\ outbox[n].at \in 1 .. Len(history)
  BY NextPendingAt
<1>2. PICK at : at = outbox[n].at
  OBVIOUS
<1>3. \/ Now - at >= Cooldown
      \/ /\ record'.state \in {"RESOLVED", "ACKNOWLEDGED"}
         /\ record'.resolvedAt >= at
  BY <1>1, <1>2, CommitKeepsCooldown DEF Pending
<1>. QED
  BY <1>2, <1>3

LEMMA NextCooldownHolds ==
  ASSUME TypeOK, IInv, [Next]_vars
  PROVE  CooldownHolds'
<1>0. CooldownHolds /\ EventsAreDated /\ Len(outbox) \in Nat /\ Len(history) \in Nat
  BY OutboxTypes DEF IInv, TypeOK
<1>1. CASE ReadStep \/ QuietStep \/ AcknowledgeState \/ AcknowledgeIncident
  BY <1>0, <1>1
  DEF ReadStep, QuietStep, AcknowledgeState, AcknowledgeIncident, CooldownHolds
<1>2. CASE Commit
  <2>0. /\ Len(history') = Now /\ Now = Len(history) + 1
        /\ \A t \in 1 .. Len(history) : history'[t] = history[t]
    BY <1>2, CommitHistory
  <2>1. ASSUME NEW m \in 1 .. Len(outbox), NEW n \in 1 .. Len(outbox), m < n,
               outbox[m].kind = "incident_resolved",
               outbox[n].kind \in {"incident_opened", "incident_updated"},
               \A t \in outbox[m].at .. outbox[n].at : history'[t] # "ineligible"
        PROVE  outbox[n].at - outbox[m].at >= Cooldown
    <3>1. outbox[m].at \in 1 .. Len(history) /\ outbox[n].at \in 1 .. Len(history)
      BY <1>0 DEF EventsAreDated
    <3>2. \A t \in outbox[m].at .. outbox[n].at : history[t] # "ineligible"
      BY <2>0, <2>1, <3>1
    <3>. QED
      BY <1>0, <2>1, <3>2 DEF CooldownHolds
  <2>2. CASE outbox' = outbox
    BY <2>1, <2>2 DEF CooldownHolds
  <2>3. CASE \E kind, i : NewEvent(kind, i)
    <3>1. PICK kind, i : NewEvent(kind, i)
      BY <2>3
    <3>2. /\ Len(outbox') = Len(outbox) + 1
          /\ \A n \in 1 .. Len(outbox) : outbox'[n] = outbox[n]
          /\ outbox'[Len(outbox) + 1].kind = kind
          /\ outbox'[Len(outbox) + 1].at = Now
      BY <1>2, <3>1, NewEventFacts
    <3>3. kind \in {"incident_opened", "incident_updated"} => record'.state = "OPEN"
      BY <3>1 DEF NewEvent
    <3>4. ASSUME NEW m \in 1 .. Len(outbox'), NEW n \in 1 .. Len(outbox'), m < n,
                 outbox'[m].kind = "incident_resolved",
                 outbox'[n].kind \in {"incident_opened", "incident_updated"},
                 \A t \in outbox'[m].at .. outbox'[n].at : history'[t] # "ineligible"
          PROVE  outbox'[n].at - outbox'[m].at >= Cooldown
      <4>1. m \in 1 .. Len(outbox) /\ outbox'[m] = outbox[m]
        BY <1>0, <3>2, <3>4
      <4>2. CASE n \in 1 .. Len(outbox)
        <5>1. outbox'[n] = outbox[n]
          BY <3>2, <4>2
        <5>. QED
          BY <2>1, <3>4, <4>1, <4>2, <5>1
      <4>3. CASE n = Len(outbox) + 1
        <5>1. record'.state = "OPEN" /\ outbox'[n].at = Len(history')
          BY <2>0, <3>2, <3>3, <3>4, <4>3
        <5>2. Now - outbox[m].at >= Cooldown
          BY <1>2, <3>4, <4>1, <5>1, OpeningIsLate
        <5>. QED
          BY <2>0, <4>1, <5>1, <5>2
      <4>. QED
        BY <1>0, <3>2, <4>2, <4>3
    <3>. QED
      BY <3>4 DEF CooldownHolds
  <2>. QED
    BY <1>2, <2>2, <2>3, OutboxMoves
<1>. QED
  BY <1>1, <1>2, StepCases

-------------------------------------------------------------------------------
(* Evidence *)

LEMMA NextEventsHaveEvidence ==
  ASSUME TypeOK, IInv, [Next]_vars
  PROVE  EventsHaveEvidence'
<1> DEFINE HasEvidence(n) ==
             /\ outbox[n].kind = "incident_opened" =>
                   EndsWith(Signals(SubSeq(history, 1, outbox[n].at)), "detected",
                            Persistence)
             /\ outbox[n].kind = "incident_resolved" =>
                   EndsWith(Signals(SubSeq(history, 1, outbox[n].at)), "healthy",
                            ResolveAfter)
             /\ outbox[n].kind = "state_changed" =>
                   history[outbox[n].at] = "ineligible"
<1>0. /\ EventsHaveEvidence /\ EventsAreDated /\ Len(outbox) \in Nat
      /\ Len(history) \in Nat
  BY OutboxTypes DEF IInv, TypeOK
<1>1. CASE ReadStep \/ QuietStep \/ AcknowledgeState \/ AcknowledgeIncident
  BY <1>0, <1>1
  DEF ReadStep, QuietStep, AcknowledgeState, AcknowledgeIncident, EventsHaveEvidence
<1>2. CASE Commit
  <2>0. /\ Len(history') = Now /\ Now = Len(history) + 1
        /\ history' \in Seq(Observations) /\ history \in Seq(Observations)
        /\ \A t \in 1 .. Len(history) : history'[t] = history[t]
        /\ history' = Append(history, view.seen) /\ history'[Now] = view.seen
        /\ view.record = record /\ view.open /\ record'.state = NextState
    BY <1>2, CommitHistory, CommitCases, CommitIsCurrent
  <2>1. ASSUME NEW n \in 1 .. Len(outbox)
        PROVE  SubSeq(history', 1, outbox[n].at) = SubSeq(history, 1, outbox[n].at)
    <3>1. outbox[n].at \in 1 .. Len(history)
      BY <1>0 DEF EventsAreDated
    <3>2. PICK at \in 1 .. Len(history) : at = outbox[n].at
      BY <3>1
    <3>3. SubSeq(history', 1, at) = SubSeq(history, 1, at)
      BY <1>0, <2>0
    <3>. QED
      BY <3>2, <3>3
  <2>2. ASSUME NEW n \in 1 .. Len(outbox), outbox'[n] = outbox[n]
        PROVE  HasEvidence(n)'
    <3>1. outbox[n].at \in 1 .. Len(history)
      BY <1>0 DEF EventsAreDated
    <3>. QED
      BY <1>0, <2>0, <2>1, <2>2, <3>1 DEF EventsHaveEvidence
  <2>3. CASE outbox' = outbox
    BY <2>2, <2>3 DEF EventsHaveEvidence
  <2>4. CASE \E kind, i : NewEvent(kind, i)
    <3>1. PICK kind, i : NewEvent(kind, i)
      BY <2>4
    <3>2. /\ Len(outbox') = Len(outbox) + 1
          /\ \A n \in 1 .. Len(outbox) : outbox'[n] = outbox[n]
          /\ outbox'[Len(outbox) + 1].kind = kind
          /\ outbox'[Len(outbox) + 1].at = Now
      BY <1>2, <3>1, NewEventFacts
    <3>3. /\ kind = "incident_opened" => Detections(Signals(history'), Persistence)
          /\ kind = "incident_resolved" => HealthyWindows(Signals(history'), ResolveAfter)
          /\ kind = "state_changed" => history'[Now] = "ineligible"
      <4>1. /\ kind = "incident_opened" =>
                  record'.state = "OPEN" /\ record.state # "OPEN"
            /\ kind = "incident_resolved" =>
                  record'.state = "RESOLVED" /\ record.state # "RESOLVED"
            /\ kind = "state_changed" =>
                  record'.state = "SUPPRESSED" /\ record.state # "SUPPRESSED"
        BY <3>1 DEF NewEvent
      <4>. QED
        BY <2>0, <4>1, NextStateFacts
    <3>4. SubSeq(history', 1, Now) = history'
      BY <1>0, <2>0
    <3>5. ASSUME NEW n, n = Len(outbox) + 1
          PROVE  HasEvidence(n)'
      BY <3>2, <3>3, <3>4, <3>5 DEF Detections, HealthyWindows
    <3>6. ASSUME NEW n \in 1 .. Len(outbox')
          PROVE  HasEvidence(n)'
      <4>1. n \in 1 .. Len(outbox) \/ n = Len(outbox) + 1
        BY <1>0, <3>2
      <4>. QED
        BY <2>2, <3>2, <3>5, <4>1
    <3>. QED
      BY <3>6 DEF EventsHaveEvidence
  <2>. QED
    BY <1>2, <2>3, <2>4, OutboxMoves
<1>. QED
  BY <1>1, <1>2, StepCases

-------------------------------------------------------------------------------
(* The events of an incident *)

\* EventsMatchIncidents of one incident.
Told(i) ==
    /\ EventsOf(i) # {}
    /\ \A n \in EventsOf(i) :
          outbox[n].kind = "incident_opened" <=> \A m \in EventsOf(i) : n <= m
    /\ \A n \in EventsOf(i) :
          ~ overwritten /\ (\A m \in EventsOf(i) : m <= n) =>
             /\ outbox[n].kind = "incident_resolved" <=> incidents[i] = "RESOLVED"
             /\ outbox[n].kind = "state_changed" <=> incidents[i] = "SUPPRESSED"

LEMMA EventsAreTold ==
  EventsMatchIncidents <=> \A i \in 1 .. Len(incidents) : Told(i)
  BY DEF EventsMatchIncidents, Told

LEMMA NextEventsAreTold ==
  EventsMatchIncidents' <=> \A i \in 1 .. Len(incidents') : Told(i)'
  BY DEF EventsMatchIncidents, Told

\* An incident of which no new event tells, and which is not closed or reopened.
LEMMA StillTold ==
  ASSUME NEW i, Told(i), EventsOf(i)' = EventsOf(i),
         \A n \in EventsOf(i) : outbox'[n] = outbox[n],
         ~ overwritten' => /\ ~ overwritten
                           /\ \/ incidents'[i] = incidents[i]
                              \/ /\ incidents'[i] \notin {"RESOLVED", "SUPPRESSED"}
                                 /\ incidents[i] \notin {"RESOLVED", "SUPPRESSED"}
  PROVE  Told(i)'
  BY DEF Told

\* An event more of an incident, of the kind that fits its state.
LEMMA ToldAgain ==
  ASSUME TypeOK, NEW i, Told(i), NEW kind, kind # "incident_opened",
         EventsOf(i)' = EventsOf(i) \cup {Len(outbox) + 1},
         \A n \in EventsOf(i) : outbox'[n] = outbox[n],
         outbox'[Len(outbox) + 1].kind = kind,
         kind = "incident_resolved" <=> incidents'[i] = "RESOLVED",
         kind = "state_changed" <=> incidents'[i] = "SUPPRESSED"
  PROVE  Told(i)'
<1>0. Len(outbox) \in Nat /\ EventsOf(i) \subseteq 1 .. Len(outbox)
  BY DEF TypeOK, EventsOf
<1>1. EventsOf(i)' # {}
  BY DEF Told
<1>2. ASSUME NEW n \in EventsOf(i)'
      PROVE  outbox'[n].kind = "incident_opened" <=> \A m \in EventsOf(i)' : n <= m
  <2>1. CASE n \in EventsOf(i)
    BY <1>0, <2>1 DEF Told
  <2>2. CASE n = Len(outbox) + 1
    <3>1. PICK m \in EventsOf(i) : m \in 1 .. Len(outbox)
      BY <1>0 DEF Told
    <3>. QED
      BY <1>0, <2>2, <3>1
  <2>. QED
    BY <1>2, <2>1, <2>2
<1>3. ASSUME NEW n \in EventsOf(i)', \A m \in EventsOf(i)' : m <= n
      PROVE  n = Len(outbox) + 1
  BY <1>0, <1>3
<1>. QED
  BY <1>1, <1>2, <1>3 DEF Told

LEMMA NextEventsMatchIncidents ==
  ASSUME TypeOK, IInv, [Next]_vars
  PROVE  EventsMatchIncidents'
<1>0. /\ \A i \in 1 .. Len(incidents) : Told(i)
      /\ Len(outbox) \in Nat /\ Len(incidents) \in Nat /\ incidents \in Seq(States)
      /\ \A i : EventsOf(i) \subseteq 1 .. Len(outbox)
  BY EventsAreTold, OutboxTypes DEF IInv, EventsOf
<1>1. CASE ReadStep \/ QuietStep \/ AcknowledgeState
  <2>1. UNCHANGED <<incidents, outbox, overwritten>>
    BY <1>1 DEF ReadStep, QuietStep, AcknowledgeState, ackVars
  <2>. QED
    BY <1>0, <2>1, NextEventsAreTold DEF Told, EventsOf
<1>2. CASE AcknowledgeIncident
  <2>1. outbox' = outbox /\ Len(incidents') = Len(incidents)
    BY <1>2, AckKeepsActive DEF AcknowledgeIncident
  <2>2. ASSUME NEW i \in 1 .. Len(incidents)
        PROVE  Told(i)'
    <3>1. EventsOf(i)' = EventsOf(i)
      BY <2>1 DEF EventsOf
    <3>2. ~ overwritten' =>
            /\ ~ overwritten
            /\ \/ incidents'[i] = incidents[i]
               \/ /\ incidents'[i] \notin {"RESOLVED", "SUPPRESSED"}
                  /\ incidents[i] \notin {"RESOLVED", "SUPPRESSED"}
      BY <1>2, AckKeepsActive DEF ActiveStates
    <3>. QED
      BY <1>0, <2>1, <3>1, <3>2, StillTold
  <2>. QED
    BY <2>1, <2>2, NextEventsAreTold
<1>3. CASE Commit
  <2>0. IncidentMove /\ overwritten' = overwritten /\ view.record = record
    BY <1>3, CommitMoves, CommitCases, CommitIsCurrent DEF ackVars
  <2>1. CASE NothingStaged
    <3>1. UNCHANGED <<incidents, outbox, overwritten>>
      BY <2>0, <2>1 DEF NothingStaged
    <3>. QED
      BY <1>0, <3>1, NextEventsAreTold DEF Told, EventsOf
  <2>2. CASE record'.state = "OPEN" /\ view.active = 0 /\ OpenIncident
    <3>0. PICK new \in Nat : new = Len(incidents) + 1
      BY <1>0
    <3>1. /\ Len(incidents') = new
          /\ \A i \in 1 .. Len(incidents) : incidents'[i] = incidents[i]
          /\ incidents'[new] = "OPEN"
      BY <1>0, <2>2, <3>0, Appended DEF OpenIncident, States
    <3>2. NewEvent("incident_opened", new)
      <4>1. record.state # "OPEN"
        BY <1>3, <2>2, CommitSeesIncident
      <4>. QED
        BY <1>0, <2>2, <3>0, <4>1 DEF NewEvent, OpenIncident, Kinds
    <3>3. /\ Len(outbox') = Len(outbox) + 1
          /\ \A n \in 1 .. Len(outbox) : outbox'[n] = outbox[n]
          /\ outbox'[Len(outbox) + 1].kind = "incident_opened"
          /\ outbox'[Len(outbox) + 1].incident = new
      BY <1>3, <3>2, NewEventFacts
    <3>4. \A n \in 1 .. Len(outbox) : outbox[n].incident # new
      BY <1>0, <3>0, OutboxTypes
    <3>5. EventsOf(new)' = {Len(outbox) + 1}
      BY <1>0, <3>3, <3>4 DEF EventsOf
    <3>6. Told(new)'
      BY <3>1, <3>3, <3>5, <1>0 DEF Told
    <3>7. ASSUME NEW i \in 1 .. Len(incidents)
          PROVE  Told(i)'
      <4>1. i # new
        BY <1>0, <3>0
      <4>2. EventsOf(i)' = EventsOf(i)
        BY <1>0, <3>3, <4>1 DEF EventsOf
      <4>. QED
        BY <1>0, <2>0, <3>1, <3>3, <4>2, StillTold
    <3>. QED
      BY <1>0, <3>0, <3>1, <3>6, <3>7, NextEventsAreTold
  <2>3. ASSUME NEW s, NEW kind, ChangeTo(s, kind),
               \/ kind = "incident_updated" /\ s = "OPEN"
               \/ kind = "incident_resolved" /\ s = "RESOLVED" /\ record'.resolvedAt = Now
               \/ kind = "state_changed" /\ s = "SUPPRESSED"
        PROVE  EventsMatchIncidents'
    <3>1. /\ Len(incidents') = Len(incidents)
          /\ \A i \in 1 .. Len(incidents) :
                incidents'[i] = IF i = view.active THEN s ELSE incidents[i]
          /\ view.active \in 1 .. Len(incidents) /\ record'.state = s
      BY <1>0, <2>3, Replaced DEF ChangeTo, States
    <3>2. CASE outbox' = outbox /\ record.state = s
      <4>1. ~ overwritten => s = "OPEN" /\ incidents[view.active] \in ActiveStates
        <5>1. view.active # 0
          BY <3>1
        <5>2. ~ overwritten => view.active \in Active
          BY <1>3, <5>1, CommitSeesIncident
        <5>3. ~ overwritten /\ record.state \in {"RESOLVED", "SUPPRESSED"} => Active = {}
          BY DEF IInv, IncidentsFollowState
        <5>. QED
          BY <2>3, <3>2, <5>2, <5>3 DEF Active
      <4>2. ASSUME NEW i \in 1 .. Len(incidents)
            PROVE  Told(i)'
        <5>1. EventsOf(i)' = EventsOf(i)
          BY <3>2 DEF EventsOf
        <5>2. ~ overwritten' =>
                \/ incidents'[i] = incidents[i]
                \/ /\ incidents'[i] \notin {"RESOLVED", "SUPPRESSED"}
                   /\ incidents[i] \notin {"RESOLVED", "SUPPRESSED"}
          BY <2>0, <3>1, <4>1 DEF ActiveStates
        <5>. QED
          BY <1>0, <2>0, <3>2, <5>1, <5>2, StillTold
      <4>. QED
        BY <3>1, <4>2, NextEventsAreTold
    <3>3. CASE /\ outbox' = Append(outbox, Event(kind, view.active))
               /\ s = "OPEN" \/ record.state # s
      <4>1. NewEvent(kind, view.active)
        BY <1>0, <2>3, <3>1, <3>3 DEF NewEvent, Kinds
      <4>2. /\ Len(outbox') = Len(outbox) + 1
            /\ \A n \in 1 .. Len(outbox) : outbox'[n] = outbox[n]
            /\ outbox'[Len(outbox) + 1].kind = kind
            /\ outbox'[Len(outbox) + 1].incident = view.active
        BY <1>3, <4>1, NewEventFacts
      <4>3. ASSUME NEW i \in 1 .. Len(incidents), i # view.active
            PROVE  Told(i)'
        <5>1. EventsOf(i)' = EventsOf(i)
          BY <1>0, <4>2, <4>3 DEF EventsOf
        <5>2. incidents'[i] = incidents[i]
          BY <3>1, <4>3
        <5>. QED
          BY <1>0, <2>0, <4>2, <5>1, <5>2, StillTold
      <4>4. ASSUME NEW i \in 1 .. Len(incidents), i = view.active
            PROVE  Told(i)'
        <5>1. EventsOf(i)' = EventsOf(i) \cup {Len(outbox) + 1}
          BY <1>0, <4>2, <4>4 DEF EventsOf
        <5>2. incidents'[i] = s
          BY <3>1, <4>4
        <5>. QED
          BY <1>0, <2>3, <4>2, <5>1, <5>2, ToldAgain
      <4>. QED
        BY <3>1, <4>3, <4>4, NextEventsAreTold
    <3>. QED
      BY <2>0, <2>3, <3>2, <3>3 DEF ChangeTo
  <2>. QED
    BY <2>0, <2>1, <2>2, <2>3 DEF IncidentMove
<1>. QED
  BY <1>1, <1>2, <1>3, StepCases

-------------------------------------------------------------------------------
(* The theorems *)

Inv == TypeOK /\ IInv

LEMMA NextInvariant == Inv /\ [Next]_vars => Inv'
<1> SUFFICES ASSUME TypeOK, IInv, [Next]_vars PROVE TypeOK' /\ IInv'
  BY DEF Inv
<1>1. TypeOK'
  BY NextTypes
<1>2. RecordIsVersioned' /\ ViewHasIncident' /\ AckHasIncident' /\ EventsAreDated'
  BY NextRecordIsVersioned, NextViewHasIncident, NextAckHasIncident, NextEventsAreDated
<1>3. IncidentsFollowState' /\ EventsMatchIncidents'
  BY NextIncidentsFollowState, NextEventsMatchIncidents
<1>4. CooldownPending' /\ CooldownHolds' /\ EventsHaveEvidence'
  BY NextCooldownPending, NextCooldownHolds, NextEventsHaveEvidence
<1>. QED
  BY <1>1, <1>2, <1>3, <1>4 DEF IInv

LEMMA Inductive == Spec => []Inv
<1>1. Init => Inv
  BY InitTypes, InitInvariant DEF Inv
<1>. QED
  BY <1>1, NextInvariant, PTL DEF Spec

\* Incidents: an open metric has an active incident, and while no
\* acknowledgement came late, never a second one, and none once the metric is
\* resolved or suppressed; for any persistence, resolution and cooldown.
THEOREM IncidentsFollow == Spec => []IncidentsFollowState
<1>1. Inv => IncidentsFollowState
  BY DEF Inv, IInv
<1>. QED
  BY <1>1, Inductive, PTL

\* Events: every incident is opened once, by its first event, and its last event
\* tells how it ended, in every history and for any number of evaluations.
THEOREM EventsMatch == Spec => []EventsMatchIncidents
<1>1. Inv => EventsMatchIncidents
  BY DEF Inv, IInv
<1>. QED
  BY <1>1, Inductive, PTL

\* No flapping: whatever the cooldown, nothing opens within it after a
\* resolution, unless a window of bad quality came between.
THEOREM NoFlapping == Spec => []CooldownHolds
<1>1. Inv => CooldownHolds
  BY DEF Inv, IInv
<1>. QED
  BY <1>1, Inductive, PTL

\* Evidence: for any persistence and resolution, an incident is opened by a run
\* of detections and resolved by a run of healthy windows of the required length,
\* interrupted by nothing but NO_DATA, and suppressed by a window of bad quality.
THEOREM NoEventWithoutEvidence == Spec => []EventsHaveEvidence
<1>1. Inv => EventsHaveEvidence
  BY DEF Inv, IInv
<1>. QED
  BY <1>1, Inductive, PTL

\* The step of AckIsSticky.
KeepsAck ==
    /\ record.state = "ACKNOWLEDGED"
    /\ history' # history
    /\ history'[Len(history')] \in {"detected", "no_data"}
    => record'.state = "ACKNOWLEDGED" /\ outbox' = outbox

LEMMA StepKeepsAck == Inv /\ [Next]_vars => KeepsAck
<1> SUFFICES ASSUME TypeOK, IInv, [Next]_vars, record.state = "ACKNOWLEDGED",
                    history' # history,
                    history'[Len(history')] \in {"detected", "no_data"}
             PROVE  record'.state = "ACKNOWLEDGED" /\ outbox' = outbox
  BY DEF Inv, KeepsAck
<1>1. Commit
  BY HistoryMoves
<1>2. /\ view.open /\ view.record = record /\ record'.state = NextState
      /\ view.seen \in {"detected", "no_data"}
  BY <1>1, CommitIsCurrent, CommitCases, CommitHistory
<1>3. record'.state = "ACKNOWLEDGED"
  BY <1>2, NextStateFacts
<1>4. outbox' = outbox
  BY <1>1, <1>3, CommitCases DEF StageCases, NothingStaged
<1>. QED
  BY <1>3, <1>4

\* Acknowledgement: as long as the anomaly persists no evaluation undoes one or
\* tells anybody of it, also not one that had read the metric before it.
THEOREM AcknowledgementIsSticky == Spec => AckIsSticky
<1>1. Inv /\ [Next]_vars => [KeepsAck]_vars
  BY StepKeepsAck
<1>. QED
  BY <1>1, Inductive, PTL DEF Spec, AckIsSticky, KeepsAck

===============================================================================
