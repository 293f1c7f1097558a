---------------------------- MODULE EvaluationProofs ----------------------------
(* Proofs about the evaluation session, for any catalog, any request and any    *)
(* answers of the warehouse: types, the order of the plan, the batch cache, the *)
(* outcomes and the failures of a call.                                         *)
EXTENDS EvaluationSession, InvestigationProofs

-------------------------------------------------------------------------------
(* The kinds of steps                                                           *)

PlanStep == VisitTarget \/ VisitChild \/ EndVisit
ValueStep == \E m \in Metrics : EvaluateQuery(m) \/ EvaluateBatch(m) \/ EvaluateDerived(m)
CallStep ==
    \/ Build \/ Warmed \/ ClaimRefused \/ AlreadyCommitted
    \/ ValueFails \/ Baseline \/ Commit \/ ProcessFails

LEMMA StepKinds ==
  [SessionNext]_sessionVars =>
      PlanStep \/ ValueStep \/ CallStep \/ UNCHANGED sessionVars
  BY DEF SessionNext, PlanStep, ValueStep, CallStep

\* What evaluating a metric does: a result, or something raises; and for the first
\* metric that reads the batch source of the window a run of it.
SourceRuns == ~ Cached /\ executions' = [executions EXCEPT ![window] = @ + 1]

\* The key of a row is the window, so that the row that is found is about it.
LEMMA RowIsOfWindow ==
  /\ Cached <=> window \in cache
  /\ Cached => CachedRow = window
  BY DEF Cached, CachedRow, CacheKey

\* A column is read from a row of the window.
LEMMA ColumnCases ==
  ASSUME NEW m \in Metrics, EvaluateBatch(m)
  PROVE  \/ window \in cache /\ Take(m, window) /\ UNCHANGED <<cache, executions>>
         \/ SourceRuns /\ window \in raises /\ Raise /\ UNCHANGED <<cache, committed>>
         \/ SourceRuns /\ Take(m, window) /\ cache' = cache \cup {window}
  BY RowIsOfWindow DEF EvaluateBatch, SourceRuns

LEMMA TakeCases ==
  ASSUME SessionTypeOK, NEW m \in Metrics, Take(m, window)
  PROVE  \/ answer[m][window] = "raises" /\ Raise /\ UNCHANGED committed
         \/ answer[m][window] \in Outcomes /\ Store(m, answer[m][window])
<1>1. answer[m][window] \in Answers
  BY DEF SessionTypeOK
<1>. QED
  BY <1>1 DEF Take, Answers

LEMMA ValueStepCases ==
  ASSUME SessionTypeOK, ValueStep
  PROVE  /\ Running /\ position < Len(order) /\ UNCHANGED <<inputs, next, window, plan, usable, committed>>
         /\ \/ UNCHANGED <<cache, executions>>
            \/ SourceRuns /\ cache' = cache \cup {window}
            \/ SourceRuns /\ cache' = cache /\ phase' = "failed"
         /\ \/ \E m \in Metrics, outcome \in Outcomes :
                  /\ m = order[position + 1]
                  /\ position' = position + 1 /\ phase' = phase
                  /\ results' = [results EXCEPT ![m] = outcome]
            \/ phase' = "failed" /\ UNCHANGED <<position, results>>
<1>1. PICK m \in Metrics : EvaluateQuery(m) \/ EvaluateBatch(m) \/ EvaluateDerived(m)
  BY DEF ValueStep
<1>2. /\ Running /\ position < Len(order) /\ m = order[position + 1]
  BY <1>1 DEF EvaluateQuery, EvaluateBatch, EvaluateDerived, Evaluating
<1>3. \/ \E outcome \in Outcomes : Store(m, outcome)
      \/ Raise /\ UNCHANGED committed
  <2>1. CASE Take(m, window)
    BY <2>1, TakeCases
  <2>2. CASE Combine(m) # "raises" /\ Store(m, Combine(m))
    <3>1. answer[m][window] \in Answers
      BY DEF SessionTypeOK
    <3>2. Combine(m) \in Outcomes
      BY <2>2, <3>1 DEF Combine, Answers, Outcomes
    <3>. QED
      BY <2>2, <3>2
  <2>. QED
    BY <1>1, <2>1, <2>2, ColumnCases DEF EvaluateQuery, EvaluateDerived
<1>4. \/ UNCHANGED <<cache, executions>>
      \/ SourceRuns /\ cache' = cache \cup {window}
      \/ SourceRuns /\ cache' = cache /\ phase' = "failed"
  BY <1>1, ColumnCases DEF EvaluateQuery, EvaluateDerived, Raise
<1>5. CASE \E outcome \in Outcomes : Store(m, outcome)
  BY <1>2, <1>4, <1>5 DEF Store
<1>6. CASE Raise /\ UNCHANGED committed
  BY <1>2, <1>4, <1>6 DEF Raise
<1>. QED
  BY <1>3, <1>5, <1>6

\* What the call does between two evaluations: it ends, or a new plan starts.
CallTypes ==
    /\ phase \in {"build", "warm", "process"} \cup Final
    /\ next \in 1 .. Len(requested) + 1
    /\ window \in Windows
    /\ usable \in 0 .. Baselines
    /\ committed \in [Metrics -> Recorded \cup {Nil}]

Stops == UNCHANGED <<plan, position, results, cache>>
Restarts ==
    /\ todo' \in Seq(Ids) /\ stack' = <<>> /\ seen' = {} /\ order' = <<>>
    /\ position' = 0 /\ results' = [m \in Metrics |-> Nil]
    /\ cache' = cache \/ (cache' = {} /\ byWindow)

LEMMA ProcessFromCases ==
  ASSUME SessionTypeOK, NEW n \in 1 .. Len(requested) + 1, ProcessFrom(n)
  PROVE  /\ next' = n /\ usable' = 0 /\ window' \in Windows
         /\ phase' \in {"done", "process"}
         /\ phase' = "process" => n <= Len(requested)
         /\ Stops \/ Restarts
<1>1. CASE n > Len(requested)
  BY <1>1 DEF ProcessFrom, Stops, SessionTypeOK
<1>2. CASE n <= Len(requested)
  <2>1. AskValue(requested[n], 0) /\ phase' = "process"
    BY <1>2 DEF ProcessFrom, SessionTypeOK
  <2>2. <<requested[n]>> \in Seq(Ids)
    BY <1>2 DEF SessionTypeOK
  <2>3. Restarts
    BY <2>1, <2>2 DEF AskValue, StartPlan, Restarts
  <2>4. 0 \in Windows
    BY SessionAssumption DEF Windows
  <2>. QED
    BY <1>2, <2>1, <2>3, <2>4 DEF ProcessFrom, AskValue
<1>. QED
  BY <1>1, <1>2 DEF SessionTypeOK

LEMMA CallStepCases ==
  ASSUME SessionTypeOK, CallIsOn, CallStep
  PROVE  /\ UNCHANGED <<inputs, executions>> /\ CallTypes' /\ CallIsOn'
         /\ phase # "failed"
         /\ Stops \/ Restarts
<1>0. /\ CallTypes /\ Baselines \in Nat \ {0}
      /\ window \in 0 .. Baselines /\ usable \in 0 .. Baselines
      /\ Len(requested) \in Nat
  BY SessionAssumption DEF SessionTypeOK, CallTypes, Windows
<1>a. ASSUME ProcessFrom(next + 1), committed' \in [Metrics -> Recorded \cup {Nil}],
             next <= Len(requested), UNCHANGED <<inputs, executions>>, Valid,
             phase = "process"
      PROVE  CallTypes' /\ CallIsOn' /\ (Stops \/ Restarts)
  <2>1. next + 1 \in 1 .. Len(requested) + 1
    BY <1>0, <1>a DEF CallTypes
  <2>2. /\ next' = next + 1 /\ usable' = 0 /\ window' \in Windows
        /\ phase' \in {"done", "process"}
        /\ phase' = "process" => next' <= Len(requested)
        /\ Stops \/ Restarts
    BY <1>a, <2>1, ProcessFromCases
  <2>3. Valid' /\ requested' = requested
    BY <1>a DEF inputs, catalog, Valid, Known, Acyclic, DerivedDeclared, Identifiers
  <2>. QED
    BY <1>0, <1>a, <2>1, <2>2, <2>3 DEF CallTypes, CallIsOn, Final
<1>b. WithOutcome \in [Metrics -> Recorded \cup {Nil}]
  BY <1>0 DEF WithOutcome, Outcome, CallTypes, Recorded
<1>c. ASSUME Raise, UNCHANGED <<cache, executions>>, phase = "process",
             committed' \in [Metrics -> Recorded \cup {Nil}]
      PROVE  CallTypes' /\ CallIsOn' /\ (Stops \/ Restarts)
  BY <1>0, <1>c DEF Raise, CallTypes, CallIsOn, Running, inputs, Stops, Final
<1>1. CASE Build
  <2>1. CASE Valid
    <3>1. phase' = "warm" /\ StartPlan(requested) /\ requested \in Seq(Ids)
      BY <1>1, <2>1 DEF Build, SessionTypeOK
    <3>2. Valid'
      BY <1>1, <2>1 DEF Build, inputs, catalog, Valid, Known, Acyclic, DerivedDeclared, Identifiers
    <3>3. Restarts
      BY <1>1, <3>1 DEF Build, StartPlan, Restarts
    <3>. QED
      BY <1>0, <1>1, <3>1, <3>2, <3>3 DEF Build, CallTypes, CallIsOn, Running, inputs
  <2>2. CASE ~ Valid
    BY <1>0, <1>1, <2>2 DEF Build, CallTypes, CallIsOn, Running, inputs, Stops, Final
  <2>. QED
    BY <2>1, <2>2
<1>2. CASE Warmed
  <2>1. Running /\ phase = "warm" /\ ProcessFrom(1) /\ UNCHANGED <<inputs, executions, committed>>
    BY <1>2 DEF Warmed, EvaluationDone
  <2>2. /\ next' = 1 /\ usable' = 0 /\ window' \in Windows
        /\ phase' \in {"done", "process"}
        /\ phase' = "process" => next' <= Len(requested)
        /\ Stops \/ Restarts
    BY <1>0, <2>1, ProcessFromCases
  <2>3. Valid' /\ requested' = requested
    BY <2>1 DEF inputs, catalog, CallIsOn, Valid, Known, Acyclic, DerivedDeclared, Identifiers
  <2>. QED
    BY <1>0, <2>1, <2>2, <2>3 DEF CallTypes, CallIsOn, Final
<1>3. CASE ValueFails \/ ClaimRefused
  <2>1. /\ Raise /\ UNCHANGED <<inputs, executions>> /\ UNCHANGED <<cache, executions>>
        /\ phase = "process" /\ committed' = committed
    BY <1>3 DEF ValueFails, ClaimRefused, AtClaim, Raise
  <2>2. committed' \in [Metrics -> Recorded \cup {Nil}]
    BY <1>0, <2>1 DEF CallTypes
  <2>3. CallTypes' /\ CallIsOn' /\ (Stops \/ Restarts)
    BY <1>c, <2>1, <2>2
  <2>. QED
    BY <2>1, <2>3
<1>4. CASE ProcessFails
  <2>1. /\ Raise /\ UNCHANGED <<inputs, executions>> /\ UNCHANGED <<cache, executions>>
        /\ phase = "process" /\ committed' \in {committed, WithOutcome}
    BY <1>4 DEF ProcessFails, Raise
  <2>2. committed' \in [Metrics -> Recorded \cup {Nil}]
    BY <1>0, <1>b, <2>1 DEF CallTypes
  <2>3. CallTypes' /\ CallIsOn' /\ (Stops \/ Restarts)
    BY <1>c, <2>1, <2>2
  <2>. QED
    BY <2>1, <2>3
<1>5. CASE AlreadyCommitted
  <2>1. committed' \in [Metrics -> Recorded \cup {Nil}]
    BY <1>0, <1>5 DEF AlreadyCommitted, CallTypes, Recorded
  <2>. QED
    BY <1>5, <1>a, <2>1 DEF AlreadyCommitted, AtClaim, CallIsOn, Running
<1>6. CASE Commit
  BY <1>6, <1>a, <1>b DEF Commit, CallIsOn, Running
<1>7. CASE Baseline
  <2>0. /\ phase = "process" /\ Valid /\ next <= Len(requested) /\ window < Baselines
        /\ UNCHANGED <<inputs, phase, next, executions, committed>>
        /\ usable' = Found /\ AskValue(Target, window + 1)
    BY <1>7 DEF Baseline, EvaluationDone, CallIsOn
  <2>1. Found \in Nat /\ (Found = 0 \/ Found < window + 1) /\ Found <= Baselines
    BY <1>0, <2>0 DEF CallIsOn, Found
  <2>2. window' = window + 1 /\ window' \in Windows
    BY <1>0, <2>0 DEF AskValue, Windows
  <2>3. <<Target>> \in Seq(Ids)
    BY <1>0, <2>0 DEF Target, SessionTypeOK
  <2>4. Restarts
    BY <2>0, <2>3 DEF AskValue, StartPlan, Restarts
  <2>5. Valid' /\ requested' = requested
    BY <2>0 DEF inputs, catalog, Valid, Known, Acyclic, DerivedDeclared, Identifiers
  <2>6. usable' \in 0 .. Baselines /\ (usable' = 0 \/ usable' < window')
    BY <1>0, <2>0, <2>1, <2>2
  <2>7. CallTypes'
    BY <1>0, <2>0, <2>2, <2>5, <2>6 DEF CallTypes
  <2>8. CallIsOn'
    BY <2>0, <2>5, <2>6 DEF CallIsOn
  <2>. QED
    BY <2>0, <2>4, <2>7, <2>8
<1>8. phase # "failed" /\ UNCHANGED <<inputs, executions>>
  BY DEF CallStep, Build, Warmed, ClaimRefused, AlreadyCommitted, AtClaim, ValueFails,
         Baseline, Commit, ProcessFails, Raise
<1>. QED
  BY <1>1, <1>2, <1>3, <1>4, <1>5, <1>6, <1>7, <1>8 DEF CallStep

-------------------------------------------------------------------------------
(* The visit                                                                    *)

\* The stack after the visit on top has taken m out of what is left to it.
Without(m, rest) ==
    /\ rest \in Seq(Visits) /\ Len(rest) = Len(stack)
    /\ \A k \in 1 .. Len(stack) :
          /\ rest[k].metric = stack[k].metric
          /\ rest[k].left = IF k = Len(stack) THEN stack[k].left \ {m} ELSE stack[k].left
    /\ stack # <<>> => m \in stack[Len(stack)].left

Enters == /\ order' = order
          /\ \E m \in Ids, rest \in Seq(Visits) : Without(m, rest) /\ Enter(m, rest)

Ends ==
    /\ stack # <<>> /\ stack[Len(stack)].left = {}
    /\ order' = Append(order, stack[Len(stack)].metric)
    /\ stack' = SubSeq(stack, 1, Len(stack) - 1)
    /\ UNCHANGED <<phase, seen>>

LEMMA TakenVisit ==
  ASSUME NEW v \in Visits, NEW m
  PROVE  /\ [v EXCEPT !.left = @ \ {m}] \in Visits
         /\ [v EXCEPT !.left = @ \ {m}].metric = v.metric
         /\ [v EXCEPT !.left = @ \ {m}].left = v.left \ {m}
<1>1. v \in [metric : Metrics, left : SUBSET Ids]
  BY DEF Visits
<1>2. v.left \ {m} \in SUBSET Ids
  BY <1>1
<1>3. PICK l \in SUBSET Ids : l = v.left \ {m}
  BY <1>2
<1>4. /\ [v EXCEPT !.left = l] \in [metric : Metrics, left : SUBSET Ids]
      /\ [v EXCEPT !.left = l].metric = v.metric
      /\ [v EXCEPT !.left = l].left = l
  BY <1>1
<1>. QED
  BY <1>3, <1>4 DEF Visits

LEMMA TakenFromTop ==
  ASSUME SessionTypeOK, stack # <<>>, NEW m \in stack[Len(stack)].left, NEW rest,
         rest = [stack EXCEPT ![Len(stack)].left = @ \ {m}]
  PROVE  Without(m, rest)
<1>1. stack \in Seq(Visits) /\ Len(stack) \in 1 .. Len(stack)
  BY EmptySeq DEF SessionTypeOK
<1>2. PICK n \in 1 .. Len(stack) : n = Len(stack)
  BY <1>1
<1>3. stack[n] \in Visits
  BY <1>1
<1>4. PICK taken \in Visits : /\ taken = [stack[n] EXCEPT !.left = @ \ {m}]
                              /\ taken.metric = stack[n].metric
                              /\ taken.left = stack[n].left \ {m}
  BY <1>3, TakenVisit
<1>5. rest = [stack EXCEPT ![n] = taken]
  BY <1>2, <1>4
<1>6. /\ rest \in Seq(Visits) /\ Len(rest) = Len(stack)
      /\ \A k \in 1 .. Len(stack) : rest[k] = IF k = n THEN taken ELSE stack[k]
  <2>1. /\ [stack EXCEPT ![n] = taken] \in Seq(Visits)
        /\ Len([stack EXCEPT ![n] = taken]) = Len(stack)
        /\ \A k \in 1 .. Len(stack) :
              [stack EXCEPT ![n] = taken][k] = IF k = n THEN taken ELSE stack[k]
    BY <1>1, <1>4, Replaced
  <2>. QED
    BY <1>5, <2>1
<1>7. ASSUME NEW k \in 1 .. Len(stack)
      PROVE  /\ rest[k].metric = stack[k].metric
             /\ rest[k].left = IF k = Len(stack) THEN stack[k].left \ {m} ELSE stack[k].left
  <2>1. CASE k = n
    BY <1>2, <1>4, <1>6, <2>1
  <2>2. CASE k # n
    BY <1>2, <1>6, <2>2
  <2>. QED
    BY <2>1, <2>2
<1>. QED
  BY <1>6, <1>7 DEF Without

LEMMA PlanStepCases ==
  ASSUME SessionTypeOK, PlanStep
  PROVE  /\ Running /\ ~ Planned /\ NoEvaluation /\ UNCHANGED <<inputs, next>>
         /\ todo' \in Seq(Ids) /\ (Enters \/ Ends)
<1>0. todo \in Seq(Ids) /\ stack \in Seq(Visits)
  BY DEF SessionTypeOK
<1>1. CASE VisitTarget
  <2>1. Head(todo) \in Ids /\ Tail(todo) \in Seq(Ids)
    BY <1>0, <1>1 DEF VisitTarget
  <2>2. Without(Head(todo), stack)
    BY <1>0, <1>1, EmptySeq DEF VisitTarget, Without
  <2>3. Enters
    BY <1>0, <1>1, <2>1, <2>2 DEF VisitTarget, Enters
  <2>. QED
    BY <1>1, <2>1, <2>3 DEF VisitTarget, Planned
<1>2. CASE VisitChild
  <2>1. PICK m \in stack[Len(stack)].left :
          Enter(m, [stack EXCEPT ![Len(stack)].left = @ \ {m}])
    BY <1>2 DEF VisitChild
  <2>2. stack # <<>>
    BY <1>2 DEF VisitChild
  <2>3. m \in Ids
    <3>1. Len(stack) \in 1 .. Len(stack)
      BY <1>0, <2>2, EmptySeq
    <3>2. stack[Len(stack)] \in Visits
      BY <1>0, <3>1
    <3>. QED
      BY <2>1, <3>2 DEF Visits
  <2>4. PICK rest : rest = [stack EXCEPT ![Len(stack)].left = @ \ {m}]
    OBVIOUS
  <2>5. Without(m, rest)
    BY <2>1, <2>2, <2>4, TakenFromTop
  <2>6. Enters
    BY <1>2, <2>1, <2>3, <2>4, <2>5 DEF VisitChild, Enters, Without
  <2>. QED
    BY <1>0, <1>2, <2>6 DEF VisitChild, Planned
<1>3. CASE EndVisit
  BY <1>0, <1>3 DEF EndVisit, Ends, Planned
<1>. QED
  BY <1>1, <1>2, <1>3 DEF PlanStep

-------------------------------------------------------------------------------
(* Types                                                                        *)

LEMMA VisitTypes ==
  ASSUME SessionTypeOK, NEW m \in Metrics
  PROVE  /\ Visit(m) \in Visits /\ Visit(m).metric = m
         /\ Visit(m).left = deps[m] \cup Identifiers(m)
<1>1. deps[m] \subseteq Ids /\ Identifiers(m) \subseteq Ids
  BY DEF SessionTypeOK, CatalogTypeOK, Identifiers
<1>. QED
  BY <1>1 DEF Visit, Visits

LEMMA EnterCases ==
  ASSUME SessionTypeOK, NEW m \in Ids, NEW rest \in Seq(Visits), Enter(m, rest)
  PROVE  \/ m \in seen /\ stack' = rest /\ UNCHANGED <<phase, seen>>
         \/ phase' = "failed" /\ UNCHANGED <<stack, seen>>
         \/ /\ m \in Metrics \ seen /\ stack' = Append(rest, Visit(m))
            /\ seen' = seen \cup {m} /\ phase' = phase
  BY DEF Enter

LEMMA PlanStepTypes ==
  ASSUME SessionTypeOK, PlanStep
  PROVE  /\ stack' \in Seq(Visits) /\ seen' \subseteq Metrics
         /\ order' \in Seq(Metrics) /\ Len(order) \in Nat
         /\ order' = order \/ Len(order') = Len(order) + 1
         /\ phase' \in {phase, "failed"}
<1>0. /\ stack \in Seq(Visits) /\ seen \subseteq Metrics /\ order \in Seq(Metrics)
      /\ Len(order) \in Nat
  BY DEF SessionTypeOK
<1>1. CASE Enters
  <2>1. PICK m \in Ids, rest \in Seq(Visits) : Without(m, rest) /\ Enter(m, rest)
    BY <1>1 DEF Enters
  <2>2. m \in Metrics => Append(rest, Visit(m)) \in Seq(Visits)
    BY <2>1, VisitTypes, Appended
  <2>3. stack' \in Seq(Visits) /\ seen' \subseteq Metrics /\ phase' \in {phase, "failed"}
    BY <1>0, <2>1, <2>2, EnterCases
  <2>. QED
    BY <1>0, <1>1, <2>3 DEF Enters
<1>2. CASE Ends
  <2>1. stack' \in Seq(Visits)
    BY <1>0, <1>2, Shortened DEF Ends
  <2>2. stack[Len(stack)].metric \in Metrics
    <3>1. Len(stack) \in 1 .. Len(stack)
      BY <1>0, <1>2, EmptySeq DEF Ends
    <3>2. stack[Len(stack)] \in Visits
      BY <1>0, <3>1
    <3>. QED
      BY <3>2 DEF Visits
  <2>3. order' \in Seq(Metrics) /\ Len(order') = Len(order) + 1
    BY <1>0, <1>2, <2>2, Appended DEF Ends
  <2>. QED
    BY <1>0, <1>2, <2>1, <2>3 DEF Ends
<1>. QED
  BY <1>1, <1>2, PlanStepCases

LEMMA StartTypes == SessionInputs /\ SessionStart => SessionTypeOK
<1> SUFFICES ASSUME SessionInputs, SessionStart PROVE SessionTypeOK
  OBVIOUS
<1>1. 0 \in Windows /\ 0 \in 0 .. Baselines
  BY SessionAssumption DEF Windows
<1>2. /\ results \in [Metrics -> Outcomes \cup {Nil}]
      /\ committed \in [Metrics -> Recorded \cup {Nil}]
      /\ executions \in [Windows -> Nat]
  BY DEF SessionStart
<1>3. next \in 1 .. Len(requested) + 1
  BY DEF SessionInputs, SessionStart
<1>4. /\ todo \in Seq(Ids) /\ stack \in Seq(Visits) /\ order \in Seq(Metrics)
      /\ position \in 0 .. Len(order)
  BY DEF SessionStart
<1>. QED
  BY <1>1, <1>2, <1>3, <1>4 DEF SessionInputs, SessionStart, SessionTypeOK

LEMMA SameInputs ==
  ASSUME SessionTypeOK, UNCHANGED inputs
  PROVE  /\ CatalogTypeOK' /\ answer' \in [Metrics -> [Windows -> Answers]]
         /\ raises' \subseteq Windows /\ requested' \in Seq(Ids) /\ byWindow' \in BOOLEAN
  BY DEF inputs, catalog, SessionTypeOK, CatalogTypeOK

LEMMA NextSessionTypes ==
  SessionTypeOK /\ CallIsOn /\ [SessionNext]_sessionVars => SessionTypeOK'
<1> SUFFICES ASSUME SessionTypeOK, CallIsOn, [SessionNext]_sessionVars
             PROVE  SessionTypeOK'
  OBVIOUS
<1>0. /\ position \in 0 .. Len(order) /\ Len(order) \in Nat
      /\ executions \in [Windows -> Nat] /\ results \in [Metrics -> Outcomes \cup {Nil}]
      /\ window \in Windows /\ order \in Seq(Metrics)
  BY DEF SessionTypeOK
<1>1. CASE PlanStep
  <2>1. NoEvaluation /\ UNCHANGED <<inputs, next>> /\ todo' \in Seq(Ids)
    BY <1>1, PlanStepCases
  <2>2. /\ stack' \in Seq(Visits) /\ seen' \subseteq Metrics
        /\ order' \in Seq(Metrics) /\ position' \in 0 .. Len(order')
        /\ phase' \in {phase, "failed"}
    BY <1>0, <1>1, <2>1, PlanStepTypes DEF NoEvaluation
  <2>. QED
    BY <2>1, <2>2, SameInputs DEF NoEvaluation, SessionTypeOK, Final, inputs
<1>2. CASE ValueStep
  <2>1. UNCHANGED <<inputs, next, window, plan, usable, committed>> /\ position < Len(order)
    BY <1>2, ValueStepCases
  <2>2. /\ results' \in [Metrics -> Outcomes \cup {Nil}] /\ position' \in {position, position + 1}
        /\ phase' \in {phase, "failed"}
    BY <1>0, <1>2, ValueStepCases
  <2>3. executions' \in [Windows -> Nat] /\ cache' \subseteq Windows
    <3>1. [executions EXCEPT ![window] = @ + 1] \in [Windows -> Nat]
      BY <1>0
    <3>2. cache \subseteq Windows /\ cache \cup {window} \subseteq Windows
      BY <1>0 DEF SessionTypeOK
    <3>. QED
      BY <1>0, <1>2, <3>1, <3>2, ValueStepCases DEF SourceRuns
  <2>4. position' \in 0 .. Len(order)
    BY <1>0, <2>1, <2>2
  <2>. QED
    BY <2>1, <2>2, <2>3, <2>4, SameInputs DEF SessionTypeOK, Final, inputs, plan
<1>3. CASE CallStep
  <2>1. UNCHANGED <<inputs, executions>> /\ CallTypes' /\ (Stops \/ Restarts)
    BY <1>3, CallStepCases
  <2>2. /\ todo' \in Seq(Ids) /\ stack' \in Seq(Visits) /\ seen' \subseteq Metrics
        /\ order' \in Seq(Metrics) /\ position' \in 0 .. Len(order')
        /\ results' \in [Metrics -> Outcomes \cup {Nil}] /\ cache' \subseteq Windows
    <3>1. CASE Stops
      BY <3>1 DEF Stops, plan, SessionTypeOK
    <3>2. CASE Restarts
      <4>1. results' \in [Metrics -> Outcomes \cup {Nil}]
        BY <3>2 DEF Restarts
      <4>2. position' \in 0 .. Len(order')
        BY <3>2 DEF Restarts
      <4>. QED
        BY <3>2, <4>1, <4>2 DEF Restarts, SessionTypeOK
    <3>. QED
      BY <1>3, <3>1, <3>2, CallStepCases
  <2>. QED
    BY <1>3, <2>2, CallStepCases, SameInputs DEF CallTypes, SessionTypeOK
<1>4. CASE UNCHANGED sessionVars
  BY <1>4 DEF sessionVars, inputs, catalog, plan, SessionTypeOK, CatalogTypeOK
<1>. QED
  BY <1>1, <1>2, <1>3, <1>4, StepKinds

-------------------------------------------------------------------------------
(* The order of the plan                                                        *)

PlanInv == VisitedOnce /\ StackIsChain /\ EvaluatedAreListed /\ ListedAfterDeps

LEMMA PlanTypes ==
  ASSUME SessionTypeOK
  PROVE  /\ stack \in Seq(Visits) /\ Len(stack) \in Nat
         /\ order \in Seq(Metrics) /\ Len(order) \in Nat
         /\ position \in 0 .. Len(order)
         /\ \A k \in 1 .. Len(stack) : stack[k].metric \in Metrics
         /\ stack # <<>> => Len(stack) \in 1 .. Len(stack)
<1>1. stack \in Seq(Visits) /\ order \in Seq(Metrics) /\ position \in 0 .. Len(order)
  BY DEF SessionTypeOK
<1>2. \A k \in 1 .. Len(stack) : stack[k] \in Visits
  BY <1>1
<1>. QED
  BY <1>1, <1>2, EmptySeq DEF Visits

\* In an acyclic catalog the visit on top never comes back to an open one.
LEMMA NoReturn ==
  ASSUME SessionTypeOK, Acyclic, StackIsChain, stack # <<>>,
         NEW m \in stack[Len(stack)].left
  PROVE  m \notin Visiting
<1> SUFFICES ASSUME m \in Visiting PROVE FALSE
  OBVIOUS
<1>1. PICK j \in 1 .. Len(stack) : m = stack[j].metric
  BY DEF Visiting
<1>2. PICK n \in Nat : n = Len(stack)
  BY PlanTypes
<1> DEFINE S == {stack[k].metric : k \in j .. n}
<1>3. S \subseteq Metrics /\ m \in S
  <2>1. j \in j .. n
    BY <1>1, <1>2
  <2>. QED
    BY <1>1, <1>2, <2>1, PlanTypes
<1>4. PICK x \in S : deps[x] \cap S = {}
  BY <1>3 DEF Acyclic
<1>5. PICK k \in j .. n : x = stack[k].metric
  BY <1>4
<1>6. CASE k = n
  <2>1. m \in deps[x]
    BY <1>1, <1>2, <1>5, <1>6 DEF StackIsChain
  <2>. QED
    BY <1>3, <1>4, <2>1
<1>7. CASE k < n
  <2>1. stack[k + 1].metric \in deps[x]
    BY <1>1, <1>2, <1>5, <1>7 DEF StackIsChain
  <2>2. k + 1 \in j .. n
    BY <1>1, <1>2, <1>5, <1>7
  <2>. QED
    BY <1>4, <2>1, <2>2
<1>. QED
  BY <1>2, <1>5, <1>6, <1>7

LEMMA EntersPlan ==
  ASSUME SessionTypeOK, PlanInv, Valid, Enters, NoEvaluation, UNCHANGED <<inputs, next>>
  PROVE  PlanInv'
<1>0. /\ order' = order /\ deps' = deps /\ results' = results /\ position' = position
      /\ Listed' = Listed
  BY DEF Enters, NoEvaluation, inputs, catalog, Listed
<1>1. EvaluatedAreListed' /\ ListedAfterDeps'
  BY <1>0 DEF PlanInv, EvaluatedAreListed, ListedAfterDeps
<1>2. PICK m \in Ids, rest \in Seq(Visits) : Without(m, rest) /\ Enter(m, rest)
  BY DEF Enters
<1>3. PICK n \in Nat : n = Len(stack)
  BY PlanTypes
<1>4. /\ Len(rest) = n
      /\ \A k \in 1 .. n : /\ rest[k].metric = stack[k].metric
                           /\ k < n => rest[k].left = stack[k].left
      /\ n \in 1 .. n => rest[n].left = stack[n].left \ {m} /\ m \in stack[n].left
  <2>1. /\ Len(rest) = n
        /\ \A k \in 1 .. n :
              /\ rest[k].metric = stack[k].metric
              /\ rest[k].left = IF k = n THEN stack[k].left \ {m} ELSE stack[k].left
        /\ stack # <<>> => m \in stack[n].left
    BY <1>2, <1>3 DEF Without
  <2>2. n \in 1 .. n => stack # <<>>
    BY <1>3
  <2>3. ASSUME NEW k \in 1 .. n, k < n
        PROVE  rest[k].left = stack[k].left
    <3>1. k # n
      BY <2>3
    <3>. QED
      BY <2>1, <3>1, Zenon
  <2>4. n \in 1 .. n => rest[n].left = stack[n].left \ {m}
    BY <2>1
  <2>. QED
    BY <2>1, <2>2, <2>3, <2>4
<1>5. /\ seen = Listed \cup Visiting /\ Listed \cap Visiting = {}
      /\ \A k, l \in 1 .. n : stack[k].metric = stack[l].metric => k = l
      /\ \A k \in 1 .. n :
            /\ stack[k].left \subseteq deps[stack[k].metric]
            /\ k < n => stack[k + 1].metric \in deps[stack[k].metric]
            /\ deps[stack[k].metric] \subseteq
                  Listed \cup stack[k].left \cup (IF k < n THEN {stack[k + 1].metric} ELSE {})
  BY <1>3 DEF PlanInv, VisitedOnce, StackIsChain
<1>6. CASE m \in seen /\ stack' = rest /\ UNCHANGED <<phase, seen>>
  <2>1. Visiting' = Visiting
    BY <1>3, <1>4, <1>6 DEF Visiting
  <2>2. n \in 1 .. n => m \in Listed
    <3>1. n \in 1 .. n => m \notin Visiting
      BY <1>2, <1>3, EmptySeq, NoReturn DEF Without, PlanInv, Valid
    <3>. QED
      BY <1>5, <1>6, <3>1
  <2>3. VisitedOnce'
    BY <1>0, <1>3, <1>4, <1>5, <1>6, <2>1 DEF VisitedOnce
  <2>4. StackIsChain'
    BY <1>0, <1>3, <1>4, <1>5, <1>6, <2>2 DEF StackIsChain
  <2>. QED
    BY <1>1, <2>3, <2>4 DEF PlanInv
<1>7. CASE UNCHANGED <<stack, seen>>
  BY <1>0, <1>1, <1>7 DEF PlanInv, VisitedOnce, StackIsChain, Visiting
<1>8. CASE /\ m \in Metrics \ seen /\ stack' = Append(rest, Visit(m))
           /\ seen' = seen \cup {m} /\ phase' = phase
  <2>1. /\ Len(stack') = n + 1
        /\ \A k \in 1 .. n : stack'[k] = rest[k]
        /\ stack'[n + 1] = Visit(m)
    BY <1>2, <1>4, <1>8, VisitTypes, Appended
  <2>2. stack'[n + 1].metric = m /\ stack'[n + 1].left = deps[m]
    <3>1. Identifiers(m) \subseteq deps[m]
      BY <1>8 DEF Valid, DerivedDeclared
    <3>2. /\ m \in Metrics /\ Visit(m).metric = m
          /\ Visit(m).left = deps[m] \cup Identifiers(m)
      BY <1>8, VisitTypes
    <3>. QED
      BY <2>1, <3>1, <3>2
  <2>3. Visiting' = Visiting \cup {m}
    <3>1. \A k \in 1 .. n : stack'[k].metric = stack[k].metric
      BY <1>4, <2>1
    <3>2. ASSUME NEW x \in Visiting' PROVE x \in Visiting \cup {m}
      <4>1. PICK k \in 1 .. n + 1 : x = stack'[k].metric
        BY <2>1 DEF Visiting
      <4>. QED
        BY <1>3, <2>2, <3>1, <4>1 DEF Visiting
    <3>3. ASSUME NEW x \in Visiting \cup {m} PROVE x \in Visiting'
      <4>1. PICK k \in 1 .. n + 1 : x = stack'[k].metric
        BY <1>3, <2>2, <3>1 DEF Visiting
      <4>. QED
        BY <2>1, <4>1 DEF Visiting
    <3>. QED
      BY <3>2, <3>3
  <2>4. VisitedOnce'
    <3>1. ASSUME NEW k \in 1 .. n + 1, NEW l \in 1 .. n + 1,
                 stack'[k].metric = stack'[l].metric
          PROVE  k = l
      <4>1. \A x \in 1 .. n : stack'[x].metric = stack[x].metric /\ stack[x].metric # m
        BY <1>3, <1>4, <1>5, <1>8, <2>1 DEF Visiting
      <4>. QED
        BY <1>5, <2>2, <3>1, <4>1
    <3>. QED
      BY <1>0, <1>5, <1>8, <2>1, <2>3, <3>1 DEF VisitedOnce
  <2>5. ASSUME NEW k \in 1 .. n + 1
        PROVE  /\ stack'[k].left \subseteq deps[stack'[k].metric]
               /\ k < n + 1 => stack'[k + 1].metric \in deps[stack'[k].metric]
               /\ deps[stack'[k].metric] \subseteq
                     Listed \cup stack'[k].left
                            \cup (IF k < n + 1 THEN {stack'[k + 1].metric} ELSE {})
    <3>1. CASE k = n + 1
      BY <2>2, <3>1
    <3>2. CASE k = n
      BY <1>4, <1>5, <2>1, <2>2, <3>2
    <3>3. CASE k < n
      <4>1. k \in 1 .. n /\ k + 1 \in 1 .. n
        BY <3>3
      <4>. QED
        BY <1>4, <1>5, <2>1, <3>3, <4>1
    <3>. QED
      BY <3>1, <3>2, <3>3
  <2>. QED
    BY <1>0, <1>1, <2>1, <2>4, <2>5 DEF PlanInv, StackIsChain
<1>. QED
  BY <1>2, <1>6, <1>7, <1>8, EnterCases

LEMMA EndsPlan ==
  ASSUME SessionTypeOK, PlanInv, Ends, NoEvaluation, UNCHANGED <<inputs, next>>
  PROVE  PlanInv'
<1>0. /\ deps' = deps /\ results' = results /\ position' = position /\ seen' = seen
  BY DEF Ends, NoEvaluation, inputs, catalog
<1>1. PICK n \in Nat \ {0} : n = Len(stack)
  BY PlanTypes DEF Ends
<1>2. PICK top \in Metrics : top = stack[n].metric
  BY <1>1, PlanTypes
<1>3. PICK len \in Nat : len = Len(order)
  BY PlanTypes
<1>4. /\ Len(stack') = n - 1
      /\ \A k \in 1 .. n - 1 : stack'[k] = stack[k]
  BY <1>1, PlanTypes, Shortened DEF Ends
<1>5. /\ Len(order') = len + 1
      /\ \A i \in 1 .. len : order'[i] = order[i]
      /\ order'[len + 1] = top
  <2>1. order \in Seq(Metrics) /\ order' = Append(order, top)
    BY <1>1, <1>2, PlanTypes DEF Ends
  <2>. QED
    BY <1>3, <2>1, Appended
<1>6. /\ seen = Listed \cup Visiting /\ Listed \cap Visiting = {}
      /\ \A k, l \in 1 .. n : stack[k].metric = stack[l].metric => k = l
  BY <1>1 DEF PlanInv, VisitedOnce
<1>7. /\ \A k \in 1 .. n :
            /\ stack[k].left \subseteq deps[stack[k].metric]
            /\ k < n => stack[k + 1].metric \in deps[stack[k].metric]
            /\ deps[stack[k].metric] \subseteq
                  Listed \cup stack[k].left \cup (IF k < n THEN {stack[k + 1].metric} ELSE {})
      /\ stack[n].left = {}
  BY <1>1 DEF PlanInv, StackIsChain, Ends
<1>8. Listed' = Listed \cup {top}
  <2>1. ASSUME NEW x \in Listed' PROVE x \in Listed \cup {top}
    <3>1. PICK i \in 1 .. len + 1 : x = order'[i]
      BY <1>5, <2>1 DEF Listed
    <3>. QED
      BY <1>3, <1>5, <3>1 DEF Listed
  <2>2. ASSUME NEW x \in Listed \cup {top} PROVE x \in Listed'
    <3>1. PICK i \in 1 .. len + 1 : x = order'[i]
      BY <1>3, <1>5, <2>2 DEF Listed
    <3>. QED
      BY <1>5, <3>1 DEF Listed
  <2>. QED
    BY <2>1, <2>2
<1>9. Visiting' = Visiting \ {top} /\ top \in Visiting
  <2>1. ASSUME NEW x \in Visiting' PROVE x \in Visiting \ {top}
    <3>1. PICK k \in 1 .. n - 1 : x = stack'[k].metric
      BY <1>4, <2>1 DEF Visiting
    <3>2. x = stack[k].metric /\ k \in 1 .. n /\ k # n
      BY <1>4, <3>1
    <3>. QED
      BY <1>1, <1>2, <1>6, <3>2 DEF Visiting
  <2>2. ASSUME NEW x \in Visiting \ {top} PROVE x \in Visiting'
    <3>1. PICK k \in 1 .. n : x = stack[k].metric
      BY <1>1, <2>2 DEF Visiting
    <3>2. k \in 1 .. n - 1
      BY <1>2, <2>2, <3>1
    <3>. QED
      BY <1>4, <3>1, <3>2 DEF Visiting
  <2>3. top \in Visiting
    <3>1. n \in 1 .. Len(stack)
      BY <1>1
    <3>. QED
      BY <1>2, <3>1 DEF Visiting
  <2>. QED
    BY <2>1, <2>2, <2>3
<1>10. VisitedOnce'
  <2>1. ASSUME NEW k \in 1 .. n - 1, NEW l \in 1 .. n - 1,
               stack'[k].metric = stack'[l].metric
        PROVE  k = l
    BY <1>4, <1>6, <2>1
  <2>. QED
    BY <1>0, <1>4, <1>6, <1>8, <1>9, <2>1 DEF VisitedOnce
<1>11. StackIsChain'
  <2>1. ASSUME NEW k \in 1 .. n - 1
        PROVE  /\ stack'[k].left \subseteq deps[stack'[k].metric]
               /\ k < n - 1 => stack'[k + 1].metric \in deps[stack'[k].metric]
               /\ deps[stack'[k].metric] \subseteq
                     Listed' \cup stack'[k].left
                             \cup (IF k < n - 1 THEN {stack'[k + 1].metric} ELSE {})
    <3>1. k \in 1 .. n /\ k < n /\ stack'[k] = stack[k]
      BY <1>4
    <3>2. CASE k = n - 1
      <4>1. stack[k + 1].metric = top
        BY <1>2, <3>2
      <4>. QED
        BY <1>7, <1>8, <3>1, <3>2, <4>1
    <3>3. CASE k < n - 1
      <4>1. stack'[k + 1] = stack[k + 1]
        BY <1>4, <3>3
      <4>. QED
        BY <1>7, <1>8, <3>1, <3>3, <4>1
    <3>. QED
      BY <3>2, <3>3
  <2>. QED
    BY <1>0, <1>4, <2>1 DEF StackIsChain
<1>12. EvaluatedAreListed'
  <2>1. position \in 0 .. len
    BY <1>3, PlanTypes
  <2>. QED
    BY <1>0, <1>5, <2>1 DEF PlanInv, EvaluatedAreListed
<1>13. ListedAfterDeps'
  <2>1. ASSUME NEW i \in 1 .. len + 1
        PROVE  /\ \A d \in deps[order'[i]] : \E j \in 1 .. i - 1 : order'[j] = d
               /\ \A j \in 1 .. i - 1 : order'[j] # order'[i]
               /\ i <= position <=> results[order'[i]] # Nil
    <3>1. CASE i \in 1 .. len
      <4>1. order'[i] = order[i] /\ \A j \in 1 .. i - 1 : order'[j] = order[j]
        BY <1>5, <3>1
      <4>2. /\ \A d \in deps[order[i]] : \E j \in 1 .. i - 1 : order[j] = d
            /\ \A j \in 1 .. i - 1 : order[j] # order[i]
            /\ i <= position <=> results[order[i]] # Nil
        BY <1>3, <3>1 DEF PlanInv, ListedAfterDeps
      <4>3. \A d \in deps[order'[i]] : \E j \in 1 .. i - 1 : order'[j] = d
        BY <4>1, <4>2
      <4>4. \A j \in 1 .. i - 1 : order'[j] # order'[i]
        BY <4>1, <4>2
      <4>. QED
        BY <4>1, <4>2, <4>3, <4>4
    <3>2. CASE i = len + 1
      <4>1. top \notin Listed /\ order'[i] = top
        BY <1>5, <1>6, <1>9, <3>2
      <4>2. deps[top] \subseteq Listed
        BY <1>2, <1>7
      <4>3. \A j \in 1 .. i - 1 : order'[j] \in Listed
        BY <1>3, <1>5, <3>2 DEF Listed
      <4>4. \A d \in Listed : \E j \in 1 .. i - 1 : order'[j] = d
        BY <1>3, <1>5, <3>2 DEF Listed
      <4>5. results[top] = Nil /\ ~ (i <= position)
        <5>1. position \in 0 .. len
          BY <1>3, PlanTypes
        <5>2. \A j \in 1 .. position : order[j] \in Listed
          BY <1>3, <5>1 DEF Listed
        <5>. QED
          BY <3>2, <4>1, <5>1, <5>2 DEF PlanInv, EvaluatedAreListed
      <4>. QED
        BY <4>1, <4>2, <4>3, <4>4, <4>5
    <3>. QED
      BY <3>1, <3>2
  <2>. QED
    BY <1>0, <1>5, <2>1 DEF ListedAfterDeps
<1>. QED
  BY <1>10, <1>11, <1>12, <1>13 DEF PlanInv

LEMMA SameVisits ==
  ASSUME PlanInv, deps' = deps, stack' = stack, seen' = seen, order' = order
  PROVE  VisitedOnce' /\ StackIsChain'
<1>1. Listed' = Listed /\ Visiting' = Visiting
  BY DEF Listed, Visiting
<1>2. VisitedOnce'
  BY <1>1 DEF PlanInv, VisitedOnce
<1>3. StackIsChain'
  BY <1>1 DEF PlanInv, StackIsChain
<1>. QED
  BY <1>2, <1>3

LEMMA SamePlan ==
  ASSUME PlanInv, deps' = deps, stack' = stack, seen' = seen, order' = order,
         position' = position, results' = results
  PROVE  PlanInv'
<1>1. VisitedOnce' /\ StackIsChain'
  BY SameVisits
<1>2. EvaluatedAreListed'
  BY DEF PlanInv, EvaluatedAreListed
<1>3. ListedAfterDeps'
  BY DEF PlanInv, ListedAfterDeps
<1>. QED
  BY <1>1, <1>2, <1>3 DEF PlanInv

LEMMA NextPlanInv ==
  ASSUME SessionTypeOK, PlanInv, CallIsOn, [SessionNext]_sessionVars
  PROVE  PlanInv'
<1>1. CASE PlanStep
  <2>1. Running /\ NoEvaluation /\ UNCHANGED <<inputs, next>> /\ (Enters \/ Ends)
    BY <1>1, PlanStepCases
  <2>. QED
    BY <2>1, EntersPlan, EndsPlan DEF CallIsOn
<1>2. CASE ValueStep
  <2>1. /\ deps' = deps /\ stack' = stack /\ seen' = seen /\ order' = order
        /\ position < Len(order)
    BY <1>2, ValueStepCases DEF inputs, catalog, plan
  <2>2. VisitedOnce' /\ StackIsChain'
    BY <2>1, SameVisits
  <2>3. CASE UNCHANGED <<position, results>>
    BY <2>1, <2>3, SamePlan
  <2>4. CASE \E m \in Metrics, outcome \in Outcomes :
                /\ m = order[position + 1]
                /\ position' = position + 1 /\ phase' = phase
                /\ results' = [results EXCEPT ![m] = outcome]
    <3>1. PICK m \in Metrics, outcome \in Outcomes :
            /\ m = order[position + 1] /\ position' = position + 1
            /\ results' = [results EXCEPT ![m] = outcome]
      BY <2>4
    <3>2. /\ outcome # Nil /\ position \in Nat /\ Len(order) \in Nat
          /\ position + 1 \in 1 .. Len(order)
      BY <2>1, <3>1, SessionAssumption, PlanTypes DEF Outcomes
    <3>3. \A x \in Metrics : results'[x] = IF x = m THEN outcome ELSE results[x]
      BY <3>1 DEF SessionTypeOK
    <3>4. EvaluatedAreListed'
      <4>1. ASSUME NEW x \in Metrics, results'[x] # Nil
            PROVE  \E i \in 1 .. position + 1 : order[i] = x
        <5>1. CASE x = m
          BY <3>1, <3>2, <5>1
        <5>2. CASE x # m
          BY <3>2, <3>3, <4>1, <5>2 DEF PlanInv, EvaluatedAreListed
        <5>. QED
          BY <5>1, <5>2
      <4>. QED
        BY <2>1, <3>1, <4>1 DEF EvaluatedAreListed
    <3>5. ListedAfterDeps'
      <4>1. ASSUME NEW i \in 1 .. Len(order)
            PROVE  /\ \A d \in deps[order[i]] : \E j \in 1 .. i - 1 : order[j] = d
                   /\ \A j \in 1 .. i - 1 : order[j] # order[i]
                   /\ i <= position <=> results[order[i]] # Nil
                   /\ order[i] \in Metrics
        <5>1. order[i] \in Metrics
          BY PlanTypes
        <5>. QED
          BY <5>1 DEF PlanInv, ListedAfterDeps
      <4>2. ASSUME NEW i \in 1 .. Len(order)
            PROVE  i <= position + 1 <=> results'[order[i]] # Nil
        <5>1. CASE order[i] = m
          <6>1. i <= position + 1
            BY <3>1, <3>2, <4>1, <5>1
          <6>. QED
            BY <3>2, <3>3, <5>1, <6>1
        <5>2. CASE order[i] # m
          <6>1. i # position + 1
            BY <3>1, <5>2
          <6>. QED
            BY <3>2, <3>3, <4>1, <5>2, <6>1
        <5>. QED
          BY <5>1, <5>2
      <4>3. \A i \in 1 .. Len(order) :
              /\ \A d \in deps[order[i]] : \E j \in 1 .. i - 1 : order[j] = d
              /\ \A j \in 1 .. i - 1 : order[j] # order[i]
        BY <4>1
      <4>4. ASSUME NEW i \in 1 .. Len(order')
            PROVE  /\ \A d \in deps'[order'[i]] : \E j \in 1 .. i - 1 : order'[j] = d
                   /\ \A j \in 1 .. i - 1 : order'[j] # order'[i]
                   /\ i <= position' <=> results'[order'[i]] # Nil
        <5>1. i \in 1 .. Len(order) /\ order' = order /\ deps' = deps
          BY <2>1
        <5>2. i <= position' <=> results'[order'[i]] # Nil
          BY <3>1, <4>2, <5>1
        <5>. QED
          BY <4>3, <5>1, <5>2
      <4>. QED
        BY <4>4 DEF ListedAfterDeps
    <3>. QED
      BY <2>2, <3>4, <3>5 DEF PlanInv
  <2>. QED
    BY <1>2, <2>3, <2>4, ValueStepCases
<1>3. CASE CallStep
  <2>1. UNCHANGED inputs /\ (Stops \/ Restarts)
    BY <1>3, CallStepCases
  <2>2. CASE Stops
    BY <2>1, <2>2, SamePlan DEF Stops, inputs, catalog, plan
  <2>3. CASE Restarts
    <3>1. Len(stack') = 0 /\ Len(order') = 0 /\ seen' = {}
      BY <2>3 DEF Restarts
    <3>2. Listed' = {} /\ Visiting' = {}
      BY <3>1 DEF Listed, Visiting
    <3>3. VisitedOnce' /\ StackIsChain' /\ ListedAfterDeps'
      BY <3>1, <3>2 DEF VisitedOnce, StackIsChain, ListedAfterDeps
    <3>4. EvaluatedAreListed'
      BY <2>3 DEF Restarts, EvaluatedAreListed
    <3>. QED
      BY <3>3, <3>4 DEF PlanInv
  <2>. QED
    BY <2>1, <2>2, <2>3
<1>4. CASE UNCHANGED sessionVars
  BY <1>4, SamePlan DEF sessionVars, inputs, catalog, plan
<1>. QED
  BY <1>1, <1>2, <1>3, <1>4, StepKinds

-------------------------------------------------------------------------------
(* The call and the cache                                                       *)

LEMMA SameCatalog ==
  ASSUME Valid, UNCHANGED inputs
  PROVE  Valid'
  BY DEF inputs, catalog, Valid, Known, Acyclic, DerivedDeclared, Identifiers

LEMMA NextCallIsOn ==
  ASSUME SessionTypeOK, CallIsOn, [SessionNext]_sessionVars
  PROVE  CallIsOn'
<1>1. CASE PlanStep
  <2>1. /\ Running /\ UNCHANGED <<inputs, next, usable, window>> /\ phase' \in {phase, "failed"}
    BY <1>1, PlanStepCases, PlanStepTypes DEF NoEvaluation
  <2>. QED
    BY <2>1, SameCatalog DEF CallIsOn, inputs
<1>2. CASE ValueStep
  <2>1. /\ Running /\ UNCHANGED <<inputs, next, usable, window>> /\ phase' \in {phase, "failed"}
    BY <1>2, ValueStepCases
  <2>. QED
    BY <2>1, SameCatalog DEF CallIsOn, inputs
<1>3. CASE CallStep
  BY <1>3, CallStepCases
<1>4. CASE UNCHANGED sessionVars
  BY <1>4, SameCatalog DEF sessionVars, CallIsOn, Running, inputs
<1>. QED
  BY <1>1, <1>2, <1>3, <1>4, StepKinds

CacheInv == RunsAreCached /\ RunsOnce

LEMMA NextCacheInv ==
  ASSUME SessionTypeOK, CallIsOn, CacheInv, [SessionNext]_sessionVars
  PROVE  CacheInv'
<1>0. executions \in [Windows -> Nat] /\ window \in Windows /\ byWindow \in BOOLEAN
  BY DEF SessionTypeOK
<1>1. CASE PlanStep
  <2>1. /\ UNCHANGED <<inputs, cache, executions>> /\ phase' \in {phase, "failed"}
    BY <1>1, PlanStepCases, PlanStepTypes DEF NoEvaluation
  <2>. QED
    BY <2>1 DEF CacheInv, RunsAreCached, RunsOnce, inputs
<1>2. CASE ValueStep
  <2>1. UNCHANGED inputs /\ phase # "failed" /\ phase' \in {phase, "failed"}
    BY <1>2, ValueStepCases DEF Running
  <2>2. CASE UNCHANGED <<cache, executions>>
    BY <2>1, <2>2 DEF CacheInv, RunsAreCached, RunsOnce, inputs
  <2>3. CASE SourceRuns /\ (cache' = cache \cup {window} \/ phase' = "failed")
    <3>1. \A w \in Windows : executions'[w] = IF w = window THEN executions[w] + 1 ELSE executions[w]
      BY <1>0, <2>3 DEF SourceRuns
    <3>2. ~ byWindow => executions[window] = 0
      BY <1>0, <2>1, <2>3, RowIsOfWindow DEF SourceRuns, CacheInv, RunsAreCached
    <3>3. RunsOnce'
      <4>1. ASSUME ~ byWindow, NEW w \in Windows PROVE executions'[w] <= 1
        BY <1>0, <3>1, <3>2, <4>1 DEF CacheInv, RunsOnce
      <4>. QED
        BY <2>1, <4>1 DEF RunsOnce, inputs
    <3>4. RunsAreCached'
      <4>1. ASSUME ~ byWindow, phase' # "failed", NEW w \in Windows \ cache'
            PROVE  executions'[w] = 0
        <5>1. w # window /\ w \in Windows \ cache
          BY <2>3, <4>1
        <5>2. executions[w] = 0
          BY <2>1, <4>1, <5>1 DEF CacheInv, RunsAreCached
        <5>. QED
          BY <3>1, <5>1, <5>2
      <4>. QED
        BY <2>1, <4>1 DEF RunsAreCached, inputs
    <3>. QED
      BY <3>3, <3>4 DEF CacheInv
  <2>. QED
    BY <1>2, <2>2, <2>3, ValueStepCases
<1>3. CASE CallStep
  <2>1. /\ UNCHANGED <<inputs, executions>> /\ phase # "failed"
        /\ ~ byWindow => cache' = cache
    BY <1>3, CallStepCases DEF Stops, Restarts
  <2>. QED
    BY <2>1 DEF CacheInv, RunsAreCached, RunsOnce, inputs
<1>4. CASE UNCHANGED sessionVars
  BY <1>4 DEF sessionVars, CacheInv, RunsAreCached, RunsOnce, inputs
<1>. QED
  BY <1>1, <1>2, <1>3, <1>4, StepKinds

-------------------------------------------------------------------------------
(* What is prescribed                                                           *)

\* What m is calculated from, in the answers of window w.
Has(m, w, outcome) == \E x \in Closure(Uses, m) : answer[x][w] = outcome

LEMMA PrescribedCases ==
  ASSUME NEW m, NEW w
  PROVE  /\ Prescribed(m, w) = "error" <=> Has(m, w, "error")
         /\ Prescribed(m, w) = "no_data" <=> ~ Has(m, w, "error") /\ Has(m, w, "no_data")
         /\ Prescribed(m, w) = "raises" <=>
              ~ Has(m, w, "error") /\ ~ Has(m, w, "no_data") /\ Has(m, w, "raises")
         /\ Prescribed(m, w) \in Answers
  BY DEF Prescribed, Has, Answers, Outcomes

LEMMA UsesTypes ==
  ASSUME SessionTypeOK, Valid
  PROVE  /\ Uses \in [Metrics -> SUBSET Metrics] /\ Uses \in [Metrics -> SUBSET Ids]
         /\ deps \in [Metrics -> SUBSET Metrics] /\ deps \in [Metrics -> SUBSET Ids]
         /\ \A m \in Metrics : Uses[m] = Identifiers(m) /\ Identifiers(m) \subseteq deps[m]
<1>1. \A m \in Metrics : deps[m] \subseteq Metrics /\ Identifiers(m) \subseteq deps[m]
  BY DEF Valid, Known, DerivedDeclared
<1>2. deps \in [Metrics -> SUBSET Ids] /\ Metrics \subseteq Ids
  BY DEF SessionTypeOK, CatalogTypeOK, Ids
<1>. QED
  BY <1>1, <1>2 DEF Uses

LEMMA HasUnfolds ==
  ASSUME SessionTypeOK, Valid, NEW m \in Metrics, NEW w, NEW outcome
  PROVE  Has(m, w, outcome) <=>
            \/ answer[m][w] = outcome
            \/ \E x \in Identifiers(m) : Has(x, w, outcome)
<1>1. Closure(Uses, m) = {m} \cup UNION {Closure(Uses, x) : x \in Identifiers(m)}
  BY UsesTypes, ClosureUnfolds
<1>. QED
  BY <1>1 DEF Has

\* A metric with an answer of its own is prescribed that answer; for a derived one
\* the metrics its expression names come first.
LEMMA PrescribedUnfolds ==
  ASSUME SessionTypeOK, Valid, NoErrorOfItsOwn, NEW m \in Metrics, NEW w \in Windows,
         \A x \in Identifiers(m) : Prescribed(x, w) \in Outcomes
  PROVE  Prescribed(m, w) =
            IF \E x \in Identifiers(m) : Prescribed(x, w) = "error" THEN "error"
            ELSE IF \E x \in Identifiers(m) : Prescribed(x, w) = "no_data" THEN "no_data"
            ELSE answer[m][w]
<1>0. answer[m][w] \in {"value", "no_data", "error", "raises"}
  BY DEF SessionTypeOK, Answers, Outcomes
<1>1. \A x : /\ Prescribed(x, w) = "error" <=> Has(x, w, "error")
             /\ Prescribed(x, w) = "no_data" <=> ~ Has(x, w, "error") /\ Has(x, w, "no_data")
             /\ Prescribed(x, w) = "raises" <=>
                  ~ Has(x, w, "error") /\ ~ Has(x, w, "no_data") /\ Has(x, w, "raises")
             /\ Prescribed(x, w) \in {"value", "no_data", "error", "raises"}
  BY PrescribedCases DEF Answers, Outcomes
<1>2. \A outcome : Has(m, w, outcome) <=>
           answer[m][w] = outcome \/ \E x \in Identifiers(m) : Has(x, w, outcome)
  BY HasUnfolds
<1>3. Identifiers(m) # {} => answer[m][w] # "error"
  BY DEF NoErrorOfItsOwn, Identifiers
<1>4. CASE \E x \in Identifiers(m) : Prescribed(x, w) = "error"
  BY <1>1, <1>2, <1>4
<1>5. CASE /\ ~ \E x \in Identifiers(m) : Prescribed(x, w) = "error"
           /\ \E x \in Identifiers(m) : Prescribed(x, w) = "no_data"
  <2>1. ~ Has(m, w, "error") /\ Has(m, w, "no_data")
    BY <1>1, <1>2, <1>3, <1>5
  <2>. QED
    BY <1>1, <1>5, <2>1
<1>6. CASE /\ ~ \E x \in Identifiers(m) : Prescribed(x, w) = "error"
           /\ ~ \E x \in Identifiers(m) : Prescribed(x, w) = "no_data"
  <2>1. \A x \in Identifiers(m) : Prescribed(x, w) \notin {"error", "no_data", "raises"}
    BY <1>6 DEF Outcomes
  <2>2. \A x \in Identifiers(m) :
          ~ Has(x, w, "error") /\ ~ Has(x, w, "no_data") /\ ~ Has(x, w, "raises")
    BY <1>1, <2>1
  <2>3. /\ Has(m, w, "error") <=> answer[m][w] = "error"
        /\ Has(m, w, "no_data") <=> answer[m][w] = "no_data"
        /\ Has(m, w, "raises") <=> answer[m][w] = "raises"
    BY <1>2, <2>2
  <2>4. Prescribed(m, w) = answer[m][w]
    BY <1>0, <1>1, <2>3
  <2>. QED
    BY <1>6, <2>4
<1>. QED
  BY <1>4, <1>5, <1>6

LEMMA SamePrescribed ==
  ASSUME UNCHANGED inputs
  PROVE  \A m, w : Prescribed(m, w)' = Prescribed(m, w)
  BY DEF inputs, catalog, Prescribed, Uses, Identifiers

-------------------------------------------------------------------------------
(* Results are right                                                            *)

\* What the expression of a derived metric comes to is what is prescribed for it.
LEMMA CombineIsRight ==
  ASSUME SessionTypeOK, Valid, ListedAfterDeps, NoErrorOfItsOwn, ResultsAreRight,
         NEW m \in Metrics, Evaluating(m), kind[m] = "derived"
  PROVE  Combine(m) = Prescribed(m, window)
<1>1. /\ Running /\ position \in Nat /\ Len(order) \in Nat /\ position < Len(order)
      /\ m = order[position + 1] /\ position + 1 \in 1 .. Len(order)
      /\ window \in Windows
  BY PlanTypes DEF Evaluating, SessionTypeOK
<1>2. names[m] = Identifiers(m) /\ names[m] \subseteq deps[m] /\ names[m] \subseteq Metrics
  BY UsesTypes DEF Identifiers
<1>3. ASSUME NEW x \in names[m]
      PROVE  results[x] = Prescribed(x, window) /\ results[x] \in Outcomes /\ results[x] # Nil
  <2>1. PICK j \in 1 .. position : order[j] = x
    <3>1. x \in deps[order[position + 1]]
      BY <1>1, <1>2
    <3>2. PICK j \in 1 .. (position + 1) - 1 : order[j] = x
      BY <1>1, <3>1 DEF ListedAfterDeps
    <3>. QED
      BY <1>1, <3>2
  <2>2. j \in 1 .. Len(order) /\ j <= position
    BY <1>1, <2>1
  <2>3. results[x] # Nil
    BY <2>1, <2>2 DEF ListedAfterDeps
  <2>4. results[x] \in Outcomes \cup {Nil}
    BY <1>2 DEF SessionTypeOK
  <2>. QED
    BY <1>1, <1>2, <2>3, <2>4 DEF ResultsAreRight
<1>4. Prescribed(m, window) =
        IF \E x \in names[m] : Prescribed(x, window) = "error" THEN "error"
        ELSE IF \E x \in names[m] : Prescribed(x, window) = "no_data" THEN "no_data"
        ELSE answer[m][window]
  <2>1. \A x \in Identifiers(m) : Prescribed(x, window) \in Outcomes
    BY <1>2, <1>3
  <2>. QED
    BY <1>1, <1>2, <2>1, PrescribedUnfolds
<1>5. (\E x \in names[m] : results[x] \in {"error", Nil}) <=>
        \E x \in names[m] : Prescribed(x, window) = "error"
  BY <1>3
<1>6. (\E x \in names[m] : results[x] = "no_data") <=>
        \E x \in names[m] : Prescribed(x, window) = "no_data"
  BY <1>3
<1>. QED
  BY <1>4, <1>5, <1>6 DEF Combine

\* Evaluating a metric gives it the prescribed result, or ends the call because the
\* batch source raises for a metric that is listed, or the calculation of one does.
LEMMA ValueStepIsRight ==
  ASSUME SessionTypeOK, Valid, ListedAfterDeps, NoErrorOfItsOwn, ResultsAreRight, ValueStep
  PROVE  \/ /\ phase' = phase
            /\ \E m \in Metrics : results' = [results EXCEPT ![m] = Prescribed(m, window)]
         \/ /\ phase' = "failed" /\ window \in raises
            /\ window \notin cache /\ \E m \in Listed : kind[m] = "batch"
         \/ /\ phase' = "failed"
            /\ \E m \in Listed : answer[m][window] = "raises" /\ Prescribed(m, window) # "error"
<1>1. PICK m \in Metrics : EvaluateQuery(m) \/ EvaluateBatch(m) \/ EvaluateDerived(m)
  BY DEF ValueStep
<1>2. window \in Windows /\ kind[m] \in Kinds
  BY DEF SessionTypeOK, CatalogTypeOK
<1>3. kind[m] # "derived" => Prescribed(m, window) = answer[m][window]
  <2>1. kind[m] # "derived" => Identifiers(m) = {}
    BY DEF Identifiers
  <2>. QED
    BY <1>2, <2>1, PrescribedUnfolds
<1>4. m \in Listed
  <2>1. position + 1 \in 1 .. Len(order) /\ m = order[position + 1]
    BY <1>1, PlanTypes DEF EvaluateQuery, EvaluateBatch, EvaluateDerived, Evaluating
  <2>. QED
    BY <2>1 DEF Listed
<1>5. CASE kind[m] # "derived" /\ Take(m, window)
  <2>1. CASE answer[m][window] = "raises"
    BY <1>3, <1>4, <1>5, <2>1 DEF Take, Raise
  <2>2. CASE answer[m][window] # "raises"
    BY <1>3, <1>5, <2>2 DEF Take, Store
  <2>. QED
    BY <2>1, <2>2
<1>6. CASE EvaluateDerived(m)
  <2>1. Combine(m) = Prescribed(m, window)
    BY <1>6, CombineIsRight DEF EvaluateDerived
  <2>2. CASE Combine(m) # "raises" /\ Store(m, Combine(m))
    BY <2>1, <2>2 DEF Store
  <2>3. CASE answer[m][window] = "raises" /\ Combine(m) # "error" /\ Raise
    BY <1>4, <2>1, <2>3 DEF Raise
  <2>. QED
    BY <1>6, <2>2, <2>3 DEF EvaluateDerived
<1>7. CASE EvaluateBatch(m) /\ ~ Take(m, window)
  <2>1. kind[m] = "batch" /\ ~ Cached /\ window \in raises /\ Raise
    BY <1>7, ColumnCases DEF EvaluateBatch, SourceRuns
  <2>. QED
    BY <1>4, <2>1, RowIsOfWindow DEF Raise
<1>. QED
  BY <1>1, <1>5, <1>6, <1>7 DEF EvaluateQuery, EvaluateBatch

\* When an evaluation is over, the metric that is processed has its result.
LEMMA TargetIsEvaluated ==
  ASSUME SessionTypeOK, PlanInv, ResultsAreRight, TargetIsPlanned, EvaluationDone,
         phase = "process"
  PROVE  /\ Target \in Metrics /\ results[Target] = Prescribed(Target, window)
         /\ results[Target] \in Outcomes
<1>1. /\ todo = <<>> /\ Len(stack) = 0 /\ position = Len(order) /\ Len(order) \in Nat
      /\ Running
  BY PlanTypes DEF EvaluationDone, Planned
<1>2. Visiting = {}
  BY <1>1 DEF Visiting
<1>3. Target \in seen
  BY <1>1, EmptySeq DEF TargetIsPlanned
<1>4. PICK i \in 1 .. Len(order) : Target = order[i]
  BY <1>2, <1>3 DEF PlanInv, VisitedOnce, Listed
<1>5. results[Target] # Nil /\ Target \in Metrics
  BY <1>1, <1>4, PlanTypes DEF PlanInv, ListedAfterDeps
<1>6. results[Target] \in Outcomes
  BY <1>5 DEF SessionTypeOK
<1>. QED
  BY <1>1, <1>5, <1>6 DEF ResultsAreRight

\* What is known of a call so far: types, the plan, the call and the cache.
SessionInv == SessionTypeOK /\ SessionIInv

-------------------------------------------------------------------------------
(* What a step of the call does                                                 *)

\* The call turns to its n-th metric, or has come past the last one.
Turns(n) ==
    /\ next' = n
    /\ \/ phase' = "done"
       \/ /\ phase' = "process" /\ n <= Len(requested)
          /\ window' = 0 /\ usable' = 0
          /\ StartPlan(<<requested[n]>>)

\* It accepts the catalog or does not, and is warm.
Opens ==
    \/ /\ phase = "build" /\ phase' = "warm"
       /\ StartPlan(requested) /\ UNCHANGED <<next, window, committed>>
    \/ phase = "build" /\ phase' = "rejected" /\ UNCHANGED <<next, committed>>
    \/ phase = "warm" /\ EvaluationDone /\ Turns(1) /\ UNCHANGED committed

\* Something is raised: at the claim, for a value in error, or after the outcome.
Fails ==
    /\ phase = "process" /\ phase' = "failed"
    /\ UNCHANGED <<next, window, plan, position, results, usable>>
    /\ \/ AtClaim /\ UNCHANGED committed
       \/ EvaluationDone /\ results[Target] = "error" /\ UNCHANGED committed
       \/ Decided /\ committed' \in {committed, WithOutcome}

\* The next baseline window of the metric.
GoesOn ==
    /\ EvaluationDone /\ phase = "process" /\ results[Target] # "error"
    /\ window = 0 => GotValue
    /\ window < Baselines /\ window' = window + 1 /\ usable' = Found
    /\ StartPlan(<<Target>>) /\ UNCHANGED <<phase, next, committed>>

\* The outcome of the metric is recorded, or was already.
Decides ==
    /\ phase = "process" /\ Decided
    /\ committed' = WithOutcome /\ Turns(next + 1)

Passes ==
    /\ AtClaim
    /\ committed' = [committed EXCEPT ![Target] = IF @ = Nil THEN "earlier" ELSE @]
    /\ Turns(next + 1)

LEMMA ProcessFromTurns ==
  ASSUME SessionTypeOK, NEW n \in Nat \ {0}, ProcessFrom(n)
  PROVE  Turns(n)
<1>1. Len(requested) \in Nat
  BY DEF SessionTypeOK
<1>2. CASE n > Len(requested)
  BY <1>2 DEF ProcessFrom, Turns
<1>3. CASE n <= Len(requested)
  BY <1>1, <1>3 DEF ProcessFrom, AskValue, Turns
<1>. QED
  BY <1>1, <1>2, <1>3

LEMMA CallStepOutcomes ==
  ASSUME SessionTypeOK, CallIsOn, CallStep
  PROVE  /\ UNCHANGED inputs
         /\ Opens \/ Fails \/ GoesOn \/ Decides \/ Passes
<1>0. next \in Nat \ {0} /\ next + 1 \in Nat \ {0}
  BY DEF SessionTypeOK
<1>1. UNCHANGED inputs
  BY CallStepCases
<1>2. CASE Build
  BY <1>2 DEF Build, Opens
<1>3. CASE Warmed
  BY <1>3, ProcessFromTurns DEF Warmed, Opens
<1>4. CASE ClaimRefused
  BY <1>4 DEF ClaimRefused, AtClaim, Raise, Fails
<1>5. CASE ValueFails
  BY <1>5 DEF ValueFails, Raise, Fails
<1>6. CASE ProcessFails
  BY <1>6 DEF ProcessFails, Raise, Fails
<1>7. CASE AlreadyCommitted
  BY <1>0, <1>7, ProcessFromTurns DEF AlreadyCommitted, Passes
<1>8. CASE Commit
  BY <1>0, <1>8, ProcessFromTurns DEF Commit, Decides
<1>9. CASE Baseline
  BY <1>9 DEF Baseline, AskValue, GoesOn
<1>. QED
  BY <1>1, <1>2, <1>3, <1>4, <1>5, <1>6, <1>7, <1>8, <1>9 DEF CallStep

\* Either a new plan starts, or the call is over.
LEMMA CallStepPlans ==
  ASSUME SessionTypeOK, CallIsOn, CallStep
  PROVE  \/ phase = "build" /\ phase' = "warm" /\ UNCHANGED window /\ StartPlan(requested)
         \/ phase' = "process" /\ StartPlan(<<Target'>>)
         \/ phase' \in Final
<1>1. requested' = requested
  BY CallStepOutcomes DEF inputs
<1>2. CASE Opens
  BY <1>1, <1>2 DEF Opens, Turns, Target, Final
<1>3. CASE Fails
  BY <1>3 DEF Fails, Final
<1>4. CASE GoesOn
  BY <1>1, <1>4 DEF GoesOn, Target
<1>5. CASE Decides \/ Passes
  BY <1>1, <1>5 DEF Decides, Passes, Turns, Target, Final
<1>. QED
  BY <1>2, <1>3, <1>4, <1>5, CallStepOutcomes

-------------------------------------------------------------------------------
(* Results, targets and visits stay right                                       *)

\* What a step that is not one of the call leaves alone.
LEMMA EvaluationSteps ==
  ASSUME SessionTypeOK, PlanStep \/ ValueStep
  PROVE  /\ Running /\ UNCHANGED <<inputs, next, window, usable, committed>>
         /\ phase' \in {phase, "failed"}
         /\ PlanStep => UNCHANGED results
         /\ ValueStep => UNCHANGED plan
<1>1. CASE PlanStep
  <2>1. Running /\ NoEvaluation /\ UNCHANGED <<inputs, next>> /\ phase' \in {phase, "failed"}
    BY <1>1, PlanStepCases, PlanStepTypes
  <2>2. PlanStep => ~ ValueStep
    BY <1>1, PlanStepCases DEF ValueStep, EvaluateQuery, EvaluateBatch, EvaluateDerived, Evaluating
  <2>. QED
    BY <1>1, <2>1, <2>2 DEF NoEvaluation
<1>2. CASE ValueStep
  <2>1. /\ Running /\ UNCHANGED <<inputs, next, window, plan, usable, committed>>
        /\ phase' \in {phase, "failed"}
    BY <1>2, ValueStepCases
  <2>2. ~ PlanStep
    BY <1>2, PlanStepCases DEF ValueStep, EvaluateQuery, EvaluateBatch, EvaluateDerived, Evaluating
  <2>. QED
    BY <1>2, <2>1, <2>2
<1>. QED
  BY <1>1, <1>2

LEMMA NextResultsAreRight ==
  ASSUME SessionInv, NoErrorOfItsOwn, ResultsAreRight, [SessionNext]_sessionVars
  PROVE  ResultsAreRight'
<1>0. SessionTypeOK /\ CallIsOn /\ ListedAfterDeps
  BY DEF SessionInv, SessionIInv
<1>1. CASE PlanStep
  <2>1. Running /\ UNCHANGED <<inputs, window, results>>
    BY <1>0, <1>1, EvaluationSteps
  <2>2. \A m : Prescribed(m, window)' = Prescribed(m, window)
    BY <2>1, SamePrescribed
  <2>. QED
    BY <2>1, <2>2 DEF ResultsAreRight
<1>2. CASE ValueStep
  <2>1. Running /\ UNCHANGED <<inputs, window>> /\ Valid
    BY <1>0, <1>2, EvaluationSteps DEF CallIsOn
  <2>2. \A m : Prescribed(m, window)' = Prescribed(m, window)
    BY <2>1, SamePrescribed
  <2>3. CASE phase' = "failed"
    BY <2>3 DEF ResultsAreRight, Running
  <2>4. CASE \E m \in Metrics : results' = [results EXCEPT ![m] = Prescribed(m, window)]
    <3>1. PICK m \in Metrics : results' = [results EXCEPT ![m] = Prescribed(m, window)]
      BY <2>4
    <3>2. \A x \in Metrics : results'[x] = IF x = m THEN Prescribed(m, window) ELSE results[x]
      BY <1>0, <3>1 DEF SessionTypeOK
    <3>3. \A x \in Metrics : results'[x] # Nil => results'[x] = Prescribed(x, window)
      BY <2>1, <3>2 DEF ResultsAreRight
    <3>. QED
      BY <2>2, <3>3 DEF ResultsAreRight
  <2>. QED
    BY <1>0, <1>2, <2>1, <2>3, <2>4, ValueStepIsRight
<1>3. CASE CallStep
  <2>1. CASE phase' \in Final
    BY <2>1 DEF ResultsAreRight, Running, Final
  <2>2. CASE results' = [m \in Metrics |-> Nil]
    BY <2>2 DEF ResultsAreRight
  <2>. QED
    BY <1>0, <1>3, <2>1, <2>2, CallStepPlans DEF StartPlan
<1>4. CASE UNCHANGED sessionVars
  <2>1. UNCHANGED <<inputs, window, results, phase>>
    BY <1>4 DEF sessionVars
  <2>2. \A m : Prescribed(m, window)' = Prescribed(m, window)
    BY <2>1, SamePrescribed
  <2>. QED
    BY <2>1, <2>2 DEF ResultsAreRight, Running
<1>. QED
  BY <1>1, <1>2, <1>3, <1>4, StepKinds

LEMMA NextTargetIsPlanned ==
  ASSUME SessionInv, TargetIsPlanned, [SessionNext]_sessionVars
  PROVE  TargetIsPlanned'
<1>0. SessionTypeOK /\ CallIsOn /\ VisitedOnce
  BY DEF SessionInv, SessionIInv
<1>1. CASE PlanStep
  <2>1. UNCHANGED <<inputs, next>> /\ phase' \in {phase, "failed"}
    BY <1>0, <1>1, EvaluationSteps
  <2>2. Target' = Target
    BY <2>1 DEF Target, inputs
  <2>3. CASE VisitTarget
    <3>1. todo' = Tail(todo) /\ todo # <<>> /\ Enter(Head(todo), stack)
      BY <2>3 DEF VisitTarget
    <3>2. phase' # "failed" => Head(todo) \in seen'
      BY <3>1 DEF Enter
    <3>. QED
      BY <2>1, <2>2, <3>1, <3>2 DEF TargetIsPlanned
  <2>4. CASE VisitChild
    <3>1. todo' = todo /\ seen \subseteq seen' /\ stack # <<>>
      BY <2>4 DEF VisitChild, Enter
    <3>2. seen # {}
      <4>1. Len(stack) \in 1 .. Len(stack)
        BY <1>0, <3>1, PlanTypes
      <4>. QED
        BY <1>0, <4>1 DEF VisitedOnce, Visiting
    <3>. QED
      BY <2>1, <2>2, <3>1, <3>2 DEF TargetIsPlanned
  <2>5. CASE EndVisit
    BY <2>1, <2>2, <2>5 DEF EndVisit, TargetIsPlanned
  <2>. QED
    BY <1>1, <2>3, <2>4, <2>5 DEF PlanStep
<1>2. CASE ValueStep
  BY <1>0, <1>2, EvaluationSteps DEF TargetIsPlanned, Target, inputs, plan
<1>3. CASE CallStep
  <2>1. requested' = requested
    BY <1>0, <1>3, CallStepOutcomes DEF inputs
  <2>2. phase' = "process" => todo' = <<Target'>> /\ seen' = {}
    <3>1. CASE Opens
      BY <2>1, <3>1 DEF Opens, Turns, StartPlan, Target
    <3>2. CASE GoesOn
      BY <2>1, <3>2 DEF GoesOn, StartPlan, Target
    <3>3. CASE Decides \/ Passes
      BY <2>1, <3>3 DEF Decides, Passes, Turns, StartPlan, Target
    <3>. QED
      BY <1>0, <1>3, <3>1, <3>2, <3>3, CallStepOutcomes DEF Fails
  <2>. QED
    BY <2>2 DEF TargetIsPlanned
<1>4. CASE UNCHANGED sessionVars
  BY <1>4 DEF sessionVars, inputs, plan, TargetIsPlanned, Target
<1>. QED
  BY <1>1, <1>2, <1>3, <1>4, StepKinds

\* What an evaluation is asked for is requested.
LEMMA AskedAreRequested ==
  ASSUME SessionTypeOK, CallIsOn
  PROVE  Asked \subseteq Requested /\ Requested \subseteq Ids
<1>1. requested \in Seq(Ids) /\ next \in Nat \ {0}
  BY DEF SessionTypeOK
<1>2. phase = "process" => next \in 1 .. Len(requested)
  BY <1>1 DEF CallIsOn
<1>. QED
  BY <1>1, <1>2 DEF Asked, Requested, Target

\* Whatever is entered is asked for, or a dependency of a metric under visit.
LEMMA EntersAsked ==
  ASSUME SessionTypeOK, CallIsOn, VisitedOnce, StackIsChain, VisitsAreRequested, Running,
         NEW m, \/ todo # <<>> /\ m = Head(todo)
                \/ stack # <<>> /\ m \in stack[Len(stack)].left
  PROVE  /\ \E name \in Asked : m \in Closure(deps, name)
         /\ m \notin Metrics => m \in Asked
<1>1. /\ deps \in [Metrics -> SUBSET Ids] /\ deps \in [Metrics -> SUBSET Metrics]
      /\ requested \in Seq(Ids) /\ todo \in Seq(Ids)
  BY UsesTypes DEF SessionTypeOK, CallIsOn
<1>2. Asked \subseteq Ids
  BY AskedAreRequested
<1>3. CASE todo # <<>> /\ m = Head(todo)
  <2>1. 1 \in 1 .. Len(todo) /\ m = todo[1]
    BY <1>1, <1>3, EmptySeq
  <2>2. m \in Asked
    BY <2>1 DEF VisitsAreRequested
  <2>3. m \in Closure(deps, m)
    BY <1>1, <1>2, <2>2, ClosureIsClosed
  <2>. QED
    BY <2>2, <2>3
<1>4. CASE stack # <<>> /\ m \in stack[Len(stack)].left
  <2>1. Len(stack) \in 1 .. Len(stack)
    BY <1>4, PlanTypes
  <2>2. PICK parent \in Metrics : parent = stack[Len(stack)].metric
    BY <2>1, PlanTypes
  <2>3. parent \in seen
    BY <2>1, <2>2 DEF VisitedOnce, Visiting
  <2>4. m \in deps[parent] /\ m \in Metrics
    BY <1>1, <1>4, <2>1, <2>2 DEF StackIsChain
  <2>5. PICK name \in Asked : parent \in Closure(deps, name)
    BY <2>3 DEF VisitsAreRequested
  <2>6. m \in Closure(deps, name)
    BY <1>1, <1>2, <2>2, <2>4, <2>5, ClosureIsClosed DEF ClosedUnder
  <2>. QED
    BY <2>4, <2>5, <2>6
<1>. QED
  BY <1>3, <1>4

LEMMA NextVisitsAreRequested ==
  ASSUME SessionInv, VisitsAreRequested, [SessionNext]_sessionVars
  PROVE  VisitsAreRequested'
<1>0. SessionTypeOK /\ CallIsOn /\ VisitedOnce /\ StackIsChain
  BY DEF SessionInv, SessionIInv
<1>1. UNCHANGED inputs => Requested' = Requested /\ \A name : Closure(deps, name)' = Closure(deps, name)
  BY DEF inputs, catalog, Requested
<1>2. UNCHANGED <<inputs, next, phase>> => Asked' = Asked
  BY <1>1 DEF inputs, Asked, Target
<1>3. CASE PlanStep
  <2>1. /\ Running /\ UNCHANGED <<inputs, next>> /\ phase' \in {phase, "failed"}
        /\ todo \in Seq(Ids)
    BY <1>0, <1>3, EvaluationSteps DEF SessionTypeOK
  <2>2. CASE phase' = "failed"
    BY <2>2 DEF VisitsAreRequested, Running
  <2>3. CASE phase' = phase
    <3>1. Asked' = Asked /\ \A name : Closure(deps, name)' = Closure(deps, name)
      BY <1>1, <1>2, <2>1, <2>3
    <3>2. ASSUME NEW m, \/ todo # <<>> /\ m = Head(todo)
                        \/ stack # <<>> /\ m \in stack[Len(stack)].left
          PROVE  \E name \in Asked : m \in Closure(deps, name)
      BY <1>0, <2>1, <3>2, EntersAsked
    <3>3. CASE VisitTarget
      <4>1. /\ todo # <<>> /\ todo' = Tail(todo)
            /\ seen' = seen \cup {Head(todo)}
        BY <2>1, <2>3, <3>3 DEF VisitTarget, Enter, Running
      <4>2. /\ Len(todo) \in Nat \ {0} /\ Len(todo') = Len(todo) - 1
            /\ \A k \in 1 .. Len(todo') : todo'[k] = todo[k + 1]
            /\ Head(todo) = todo[1]
        BY <2>1, <4>1, EmptySeq
      <4>3. \A k \in 1 .. Len(todo') : todo'[k] \in Asked
        <5>1. \A k \in 1 .. Len(todo') : k + 1 \in 1 .. Len(todo)
          BY <4>2
        <5>. QED
          BY <2>1, <4>2, <5>1 DEF VisitsAreRequested
      <4>4. ASSUME NEW name \in Asked \ seen'
            PROVE  \E k \in 1 .. Len(todo') : todo'[k] = name
        <5>1. PICK k \in 1 .. Len(todo) : todo[k] = name
          BY <2>1, <4>1, <4>4 DEF VisitsAreRequested
        <5>2. k # 1
          BY <4>1, <4>2, <4>4, <5>1
        <5>3. k - 1 \in 1 .. Len(todo') /\ todo'[k - 1] = todo[(k - 1) + 1] /\ (k - 1) + 1 = k
          BY <4>2, <5>1, <5>2
        <5>. QED
          BY <5>1, <5>3
      <4>5. \A m \in seen' : \E name \in Asked : m \in Closure(deps, name)
        BY <2>1, <3>2, <4>1 DEF VisitsAreRequested
      <4>. QED
        BY <3>1, <4>3, <4>4, <4>5 DEF VisitsAreRequested
    <3>4. CASE VisitChild
      <4>1. /\ todo' = todo /\ stack # <<>>
            /\ \E m \in stack[Len(stack)].left : seen' = seen \cup {m}
        BY <2>1, <2>3, <3>4 DEF VisitChild, Enter, Running
      <4>2. \A m \in seen' : \E name \in Asked : m \in Closure(deps, name)
        BY <2>1, <3>2, <4>1 DEF VisitsAreRequested
      <4>. QED
        BY <2>1, <3>1, <4>1, <4>2 DEF VisitsAreRequested
    <3>5. CASE EndVisit
      <4>1. UNCHANGED <<todo, seen>>
        BY <3>5 DEF EndVisit
      <4>. QED
        BY <2>1, <3>1, <4>1 DEF VisitsAreRequested
    <3>. QED
      BY <1>3, <3>3, <3>4, <3>5 DEF PlanStep
  <2>. QED
    BY <2>1, <2>2, <2>3
<1>4. CASE ValueStep
  <2>1. Running /\ UNCHANGED <<inputs, next, todo, seen>> /\ phase' \in {phase, "failed"}
    BY <1>0, <1>4, EvaluationSteps DEF plan
  <2>. QED
    BY <1>1, <1>2, <2>1 DEF VisitsAreRequested, Running
<1>5. CASE CallStep
  <2>1. UNCHANGED inputs /\ CallTypes' /\ CallIsOn' /\ requested \in Seq(Ids)
    BY <1>0, <1>5, CallStepCases, CallStepOutcomes DEF SessionTypeOK
  <2>2. CASE phase' \in Final
    BY <2>2 DEF VisitsAreRequested, Running, Final
  <2>3. CASE phase' = "warm" /\ StartPlan(requested)
    <3>1. todo' = requested /\ seen' = {} /\ Asked' = Requested
      BY <1>1, <2>1, <2>3 DEF StartPlan, Asked
    <3>. QED
      BY <2>1, <3>1 DEF VisitsAreRequested, Requested
  <2>4. CASE phase' = "process" /\ StartPlan(<<Target'>>)
    <3>1. todo' = <<Target'>> /\ seen' = {} /\ Asked' = {Target'}
      BY <2>4 DEF StartPlan, Asked
    <3>2. Len(todo') = 1 /\ todo'[1] = Target' /\ 1 \in 1 .. Len(todo')
      BY <3>1
    <3>. QED
      BY <3>1, <3>2 DEF VisitsAreRequested
  <2>. QED
    BY <1>0, <1>5, <2>2, <2>3, <2>4, CallStepPlans
<1>6. CASE UNCHANGED sessionVars
  <2>1. UNCHANGED <<inputs, next, todo, seen, phase>>
    BY <1>6 DEF sessionVars, plan
  <2>. QED
    BY <1>1, <1>2, <2>1 DEF VisitsAreRequested, Running
<1>. QED
  BY <1>3, <1>4, <1>5, <1>6, StepKinds

\* When the visit is over it has listed the closure of what was asked for.
LEMMA PlanIsComplete ==
  ASSUME SessionInv, VisitsAreRequested
  PROVE  PlanIsClosure
<1> SUFFICES ASSUME Running, Planned
             PROVE  Listed = UNION {Closure(deps, name) : name \in Asked}
  BY DEF PlanIsClosure
<1>0. /\ SessionTypeOK /\ CallIsOn /\ VisitedOnce /\ ListedAfterDeps
      /\ Len(stack) = 0 /\ Len(todo) = 0
      /\ order \in Seq(Metrics) /\ Len(order) \in Nat
  BY PlanTypes DEF SessionInv, SessionIInv, Planned
<1>1. Listed = seen
  BY <1>0 DEF VisitedOnce, Visiting
<1>2. Listed \subseteq UNION {Closure(deps, name) : name \in Asked}
  BY <1>1 DEF VisitsAreRequested
<1>3. Asked \subseteq Listed
  BY <1>0, <1>1 DEF VisitsAreRequested
<1>4. Listed \in SUBSET Ids
  BY <1>0 DEF Listed, Ids
<1>5. ClosedUnder(deps, Listed)
  <2>1. ASSUME NEW x \in Listed, NEW d \in deps[x] PROVE d \in Listed
    <3>1. PICK i \in 1 .. Len(order) : x = order[i]
      BY DEF Listed
    <3>2. PICK j \in 1 .. i - 1 : order[j] = d
      BY <1>0, <2>1, <3>1 DEF ListedAfterDeps
    <3>3. j \in 1 .. Len(order)
      BY <1>0, <3>1, <3>2
    <3>. QED
      BY <3>2, <3>3 DEF Listed
  <2>. QED
    BY <2>1 DEF ClosedUnder
<1>6. \A name \in Asked : Closure(deps, name) \subseteq Listed
  BY <1>3, <1>4, <1>5, ClosureIsLeast
<1>. QED
  BY <1>2, <1>6

-------------------------------------------------------------------------------
(* Baselines and outcomes                                                       *)

LEMMA NextBaselinesAreCounted ==
  ASSUME SessionInv, ResultsAreRight, TargetIsPlanned, BaselinesAreCounted,
         [SessionNext]_sessionVars
  PROVE  BaselinesAreCounted'
<1>0. SessionTypeOK /\ CallIsOn /\ PlanInv
  BY DEF SessionInv, SessionIInv, PlanInv
<1>1. /\ window \in 0 .. Baselines /\ usable \in Nat /\ (usable = 0 \/ usable < window)
  BY <1>0, SessionAssumption DEF SessionTypeOK, Windows, CallIsOn
<1>2. UNCHANGED inputs => \A m, w : Prescribed(m, w)' = Prescribed(m, w)
  BY SamePrescribed
<1>3. CASE UNCHANGED <<inputs, next, window, usable>> /\ phase' \in {phase, "failed"}
  <2>1. /\ Target' = Target /\ requested' = requested
        /\ \A w : Prescribed(Target, w)' = Prescribed(Target, w)
    <3>1. Target' = Target
      BY <1>3 DEF Target, inputs
    <3>. QED
      BY <1>2, <1>3, <3>1 DEF inputs
  <2>. QED
    BY <1>3, <2>1 DEF BaselinesAreCounted
<1>4. CASE CallStep
  <2>1. UNCHANGED inputs
    BY <1>0, <1>4, CallStepOutcomes
  <2>2. CASE window' = 0 /\ usable' = 0
    BY <2>2 DEF BaselinesAreCounted
  <2>3. CASE GoesOn
    <3>1. Target' = Target
      BY <2>1, <2>3 DEF GoesOn, Target, inputs
    <3>2. /\ phase = "process" /\ EvaluationDone /\ window' = window + 1 /\ usable' = Found
          /\ results[Target] # "error" /\ (window = 0 => results[Target] = "value")
      BY <2>3 DEF GoesOn, GotValue
    <3>3. /\ results[Target] = Prescribed(Target, window)
          /\ results[Target] \in {"value", "no_data"}
      BY <1>0, <3>2, TargetIsEvaluated DEF Outcomes
    <3>4. /\ window > 0 => Prescribed(Target, 0) = "value"
          /\ \A w \in 1 .. window - 1 : Prescribed(Target, w) \in {"value", "no_data"}
          /\ usable > 0 <=> \E w \in 1 .. window - 1 : Prescribed(Target, w) = "value"
      BY <3>2 DEF BaselinesAreCounted
    <3>5. Prescribed(Target, 0) = "value"
      BY <1>1, <3>2, <3>3, <3>4
    <3>6. \A w \in 1 .. window : w \in 1 .. window - 1 \/ w = window
      BY <1>1
    <3>7. \A w \in 1 .. window : Prescribed(Target, w) \in {"value", "no_data"}
      BY <3>2, <3>3, <3>4, <3>6
    <3>8. Found > 0 <=> \E w \in 1 .. window : Prescribed(Target, w) = "value"
      <4>1. Found > 0 <=> usable > 0 \/ (window > 0 /\ Prescribed(Target, window) = "value")
        BY <1>1, <3>3 DEF Found, GotValue
      <4>2. window > 0 => window \in 1 .. window
        BY <1>1
      <4>3. 1 .. window - 1 \subseteq 1 .. window
        BY <1>1
      <4>. QED
        BY <1>1, <3>4, <3>6, <4>1, <4>2, <4>3
    <3>9. window' - 1 = window /\ \A w : Prescribed(Target, w)' = Prescribed(Target, w)
      BY <1>1, <1>2, <2>1, <3>1, <3>2
    <3>. QED
      BY <3>1, <3>2, <3>5, <3>7, <3>8, <3>9 DEF BaselinesAreCounted
  <2>4. CASE phase' # "process"
    BY <2>4 DEF BaselinesAreCounted
  <2>. QED
    BY <1>0, <1>4, <2>2, <2>3, <2>4, CallStepOutcomes DEF Opens, Fails, Decides, Passes, Turns
<1>5. PlanStep \/ ValueStep \/ UNCHANGED sessionVars =>
        UNCHANGED <<inputs, next, window, usable>> /\ phase' \in {phase, "failed"}
  BY <1>0, EvaluationSteps DEF sessionVars
<1>. QED
  BY <1>3, <1>4, <1>5, StepKinds

\* The outcome that a step decides on is the right one.
LEMMA DecisionIsRight ==
  ASSUME SessionInv, ResultsAreRight, TargetIsPlanned, BaselinesAreCounted,
         phase = "process", Decided
  PROVE  /\ Target \in Metrics
         /\ Prescribed(Target, 0) \in {"value", "no_data"}
         /\ Prescribed(Target, 0) = "value" =>
               \A w \in 1 .. Baselines : Prescribed(Target, w) \in {"value", "no_data"}
         /\ Outcome = IF /\ Prescribed(Target, 0) = "value"
                         /\ \E w \in 1 .. Baselines : Prescribed(Target, w) = "value"
                      THEN "value" ELSE "no_data"
<1>0. SessionTypeOK /\ CallIsOn /\ PlanInv
  BY DEF SessionInv, SessionIInv, PlanInv
<1>1. /\ usable \in Nat /\ Baselines \in Nat \ {0} /\ phase = "process" /\ EvaluationDone
  BY <1>0, SessionAssumption DEF SessionTypeOK, Decided, EvaluationDone, Running
<1>2. /\ Target \in Metrics /\ results[Target] = Prescribed(Target, window)
      /\ results[Target] \in {"value", "no_data", "error"}
  BY <1>0, <1>1, TargetIsEvaluated DEF Outcomes
<1>3. CASE window = 0 /\ results[Target] = "no_data"
  BY <1>2, <1>3 DEF Outcome
<1>4. CASE window # 0 /\ window = Baselines /\ results[Target] # "error"
  <2>1. /\ Prescribed(Target, 0) = "value"
        /\ \A w \in 1 .. Baselines - 1 : Prescribed(Target, w) \in {"value", "no_data"}
        /\ usable > 0 <=> \E w \in 1 .. Baselines - 1 : Prescribed(Target, w) = "value"
    BY <1>1, <1>4 DEF BaselinesAreCounted
  <2>2. /\ \A w \in 1 .. Baselines : w \in 1 .. Baselines - 1 \/ w = Baselines
        /\ Baselines \in 1 .. Baselines /\ 1 .. Baselines - 1 \subseteq 1 .. Baselines
    BY <1>1
  <2>3. \A w \in 1 .. Baselines : Prescribed(Target, w) \in {"value", "no_data"}
    BY <1>2, <1>4, <2>1, <2>2
  <2>4. Found = 0 <=> ~ (usable > 0) /\ Prescribed(Target, Baselines) # "value"
    BY <1>1, <1>2, <1>4 DEF Found, GotValue
  <2>5. Found = 0 <=> ~ \E w \in 1 .. Baselines : Prescribed(Target, w) = "value"
    BY <2>1, <2>2, <2>4
  <2>. QED
    BY <1>2, <1>4, <2>1, <2>3, <2>5 DEF Outcome
<1>. QED
  BY <1>3, <1>4 DEF Decided

\* A metric of which the outcome is recorded has the prescribed one.
LEMMA OutcomeIsRight ==
  ASSUME SessionInv, ResultsAreRight, TargetIsPlanned, BaselinesAreCounted,
         OutcomesAreRight, phase = "process", Decided, committed' = WithOutcome,
         UNCHANGED inputs
  PROVE  OutcomesAreRight' /\ Target \in Metrics /\ Outcome \in Recorded \ {Nil}
<1>1. /\ Target \in Metrics
      /\ Prescribed(Target, 0) \in {"value", "no_data"}
      /\ Prescribed(Target, 0) = "value" =>
            \A w \in 1 .. Baselines : Prescribed(Target, w) \in {"value", "no_data"}
      /\ Outcome = IF /\ Prescribed(Target, 0) = "value"
                      /\ \E w \in 1 .. Baselines : Prescribed(Target, w) = "value"
                   THEN "value" ELSE "no_data"
  BY DecisionIsRight
<1>2. \A m \in Metrics : committed'[m] = IF m = Target THEN Outcome ELSE committed[m]
  BY DEF WithOutcome, SessionInv, SessionTypeOK
<1>3. ASSUME NEW m \in Metrics, committed'[m] \in {"value", "no_data"}
      PROVE  LET judged == Prescribed(m, 0) = "value"
                 based == {Prescribed(m, w) : w \in 1 .. Baselines}
             IN /\ Prescribed(m, 0) \in {"value", "no_data"}
                /\ judged => based \subseteq {"value", "no_data"}
                /\ committed'[m] = IF judged /\ "value" \in based THEN "value" ELSE "no_data"
  <2>1. CASE m = Target
    BY <1>1, <1>2, <2>1
  <2>2. CASE m # Target
    <3>1. committed'[m] = committed[m]
      BY <1>2, <2>2
    <3>. QED
      BY <1>3, <3>1 DEF OutcomesAreRight
  <2>. QED
    BY <2>1, <2>2
<1>4. \A m, w : Prescribed(m, w)' = Prescribed(m, w)
  BY SamePrescribed
<1>5. Outcome \in Recorded \ {Nil}
  BY SessionAssumption DEF Outcome, Recorded
<1>. QED
  BY <1>1, <1>3, <1>4, <1>5 DEF OutcomesAreRight

LEMMA NextCommitted ==
  ASSUME SessionInv, ResultsAreRight, TargetIsPlanned, BaselinesAreCounted,
         CommittedSoFar, OutcomesAreRight, [SessionNext]_sessionVars
  PROVE  CommittedSoFar' /\ OutcomesAreRight'
<1>0. SessionTypeOK /\ CallIsOn
  BY DEF SessionInv, SessionIInv
<1>1. /\ next \in Nat \ {0} /\ committed \in [Metrics -> Recorded \cup {Nil}]
      /\ Nil \notin Recorded
  BY <1>0, SessionAssumption DEF SessionTypeOK, Recorded
<1>2. UNCHANGED inputs => \A m, w : Prescribed(m, w)' = Prescribed(m, w)
  BY SamePrescribed
<1>3. CASE /\ UNCHANGED <<inputs, next, committed>> /\ phase # "failed"
           /\ phase' \in {"build", "warm"} => phase \in {"build", "warm"}
  <2>1. CommittedSoFar'
    BY <1>3 DEF CommittedSoFar, inputs
  <2>2. OutcomesAreRight'
    BY <1>2, <1>3 DEF OutcomesAreRight
  <2>. QED
    BY <2>1, <2>2
<1>4. CASE CallStep
  <2>1. UNCHANGED inputs /\ requested' = requested /\ phase # "failed"
    BY <1>0, <1>4, CallStepOutcomes, CallStepCases DEF inputs
  <2>2. CASE Opens
    <3>1. next = 1 /\ committed' = committed /\ next' = 1
      BY <2>2 DEF Opens, Turns, CommittedSoFar
    <3>2. CommittedSoFar'
      BY <2>1, <3>1 DEF CommittedSoFar
    <3>3. OutcomesAreRight'
      BY <1>2, <2>1, <3>1 DEF OutcomesAreRight
    <3>. QED
      BY <3>2, <3>3
  <2>3. CASE (Fails \/ GoesOn) /\ UNCHANGED committed
    BY <1>3, <2>1, <2>3 DEF Fails, GoesOn
  <2>4. CASE Fails /\ ~ UNCHANGED committed
    <3>1. /\ phase = "process" /\ phase' = "failed" /\ Decided /\ committed' = WithOutcome
          /\ UNCHANGED <<next, window, plan, position, results>>
      BY <2>4 DEF Fails
    <3>2. OutcomesAreRight' /\ Target \in Metrics
      BY <2>1, <3>1, OutcomeIsRight
    <3>3. Target' = Target /\ Decided'
      BY <2>1, <3>1 DEF Target, Decided, Planned, plan
    <3>4. \A m \in Metrics : m # Target => committed'[m] = committed[m]
      BY <1>1, <3>1 DEF WithOutcome
    <3>5. committed'[Target] # Nil
      BY <1>1, <2>1, <3>1, OutcomeIsRight DEF WithOutcome
    <3>6. CommittedSoFar'
      BY <2>1, <3>1, <3>3, <3>4, <3>5 DEF CommittedSoFar
    <3>. QED
      BY <3>2, <3>6
  <2>5. ASSUME next' = next + 1, phase' \in {"done", "process"},
               Target \in Metrics => committed'[Target] # Nil,
               \A m \in Metrics : m # Target => committed'[m] = committed[m]
        PROVE  CommittedSoFar'
    <3>1. ASSUME NEW m \in Metrics
          PROVE  committed'[m] # Nil <=> \E j \in 1 .. next' - 1 : requested[j] = m
      <4>1. \A j \in 1 .. next' - 1 : j \in 1 .. next - 1 \/ j = next
        BY <1>1, <2>5
      <4>2. next \in 1 .. next' - 1 /\ 1 .. next - 1 \subseteq 1 .. next' - 1
        BY <1>1, <2>5
      <4>3. committed[m] # Nil <=> \E j \in 1 .. next - 1 : requested[j] = m
        BY <2>1 DEF CommittedSoFar
      <4>4. CASE m = Target
        BY <2>5, <4>2, <4>4 DEF Target
      <4>5. CASE m # Target
        BY <2>5, <4>1, <4>2, <4>3, <4>5 DEF Target
      <4>. QED
        BY <4>4, <4>5
    <3>. QED
      BY <2>1, <2>5, <3>1 DEF CommittedSoFar
  <2>6. CASE Decides
    <3>1. /\ phase = "process" /\ Decided /\ committed' = WithOutcome
          /\ next' = next + 1 /\ phase' \in {"done", "process"}
      BY <2>6 DEF Decides, Turns
    <3>2. OutcomesAreRight' /\ Target \in Metrics /\ Outcome # Nil
      BY <2>1, <3>1, OutcomeIsRight
    <3>. QED
      BY <1>1, <2>5, <3>1, <3>2 DEF WithOutcome
  <2>7. CASE Passes
    <3>1. /\ next' = next + 1 /\ phase' \in {"done", "process"}
          /\ committed' = [committed EXCEPT ![Target] = IF @ = Nil THEN "earlier" ELSE @]
          /\ AtClaim
      BY <2>7 DEF Passes, Turns
    <3>2. \A m \in Metrics : committed'[m] = IF m = Target /\ committed[m] = Nil
                                            THEN "earlier" ELSE committed[m]
      BY <1>1, <3>1
    <3>3. OutcomesAreRight'
      BY <1>2, <2>1, <3>2 DEF OutcomesAreRight
    <3>. QED
      BY <1>1, <2>5, <3>1, <3>2, <3>3, SessionAssumption
  <2>. QED
    BY <1>0, <1>4, <2>2, <2>3, <2>4, <2>6, <2>7, CallStepOutcomes DEF GoesOn
<1>5. PlanStep \/ ValueStep =>
        /\ UNCHANGED <<inputs, next, committed>> /\ phase # "failed"
        /\ phase' \in {phase, "failed"}
  BY <1>0, EvaluationSteps DEF Running
<1>6. CASE UNCHANGED sessionVars
  <2>1. Target' = Target /\ Decided' = Decided
    BY <1>6 DEF sessionVars, inputs, Target, Decided, Planned, plan
  <2>2. CommittedSoFar'
    BY <1>6, <2>1 DEF sessionVars, inputs, CommittedSoFar
  <2>3. OutcomesAreRight'
    BY <1>2, <1>6 DEF sessionVars, OutcomesAreRight
  <2>. QED
    BY <2>2, <2>3
<1>. QED
  BY <1>3, <1>4, <1>5, <1>6, StepKinds

-------------------------------------------------------------------------------
(* The batch source and its rows                                                *)

\* What evaluating a metric does to the rows: only a column of the batch source
\* runs it, and its result comes from a row that the session then holds.
LEMMA ValueStepReads ==
  ASSUME SessionTypeOK, ValueStep
  PROVE  \E m \in Metrics :
            /\ m \in Listed
            /\ \/ UNCHANGED <<cache, executions>>
               \/ kind[m] = "batch" /\ SourceRuns /\ cache' \in {cache, cache \cup {window}}
            /\ \/ phase' = "failed"
               \/ /\ \E outcome : results' = [results EXCEPT ![m] = outcome]
                  /\ kind[m] = "batch" => window \in cache'
<1>1. PICK m \in Metrics : EvaluateQuery(m) \/ EvaluateBatch(m) \/ EvaluateDerived(m)
  BY DEF ValueStep
<1>2. m \in Listed
  <2>1. position + 1 \in 1 .. Len(order) /\ m = order[position + 1]
    BY <1>1, PlanTypes DEF EvaluateQuery, EvaluateBatch, EvaluateDerived, Evaluating
  <2>. QED
    BY <2>1 DEF Listed
<1>3. CASE EvaluateQuery(m) \/ EvaluateDerived(m)
  BY <1>2, <1>3 DEF EvaluateQuery, EvaluateDerived, Take, Store, Raise
<1>4. CASE EvaluateBatch(m)
  <2>0. kind[m] = "batch"
    BY <1>4 DEF EvaluateBatch
  <2>1. CASE window \in cache /\ Take(m, window) /\ UNCHANGED <<cache, executions>>
    BY <1>2, <2>1 DEF Take, Store, Raise
  <2>2. CASE SourceRuns /\ window \in raises /\ Raise /\ UNCHANGED <<cache, committed>>
    BY <1>2, <2>0, <2>2 DEF Raise
  <2>3. CASE SourceRuns /\ Take(m, window) /\ cache' = cache \cup {window}
    BY <1>2, <2>0, <2>3 DEF Take, Store, Raise
  <2>. QED
    BY <1>4, <2>1, <2>2, <2>3, ColumnCases
<1>. QED
  BY <1>1, <1>3, <1>4

LEMMA NextRowsWereRead ==
  ASSUME SessionInv, RowsWereRead, [SessionNext]_sessionVars
  PROVE  RowsWereRead'
<1>0. /\ SessionTypeOK /\ CallIsOn
      /\ executions \in [Windows -> Nat] /\ cache \subseteq Windows
      /\ results \in [Metrics -> Outcomes \cup {Nil}]
  BY DEF SessionInv, SessionIInv, SessionTypeOK
<1>1. CASE PlanStep
  <2>1. /\ Running /\ UNCHANGED <<inputs, window, results, cache, executions>>
        /\ phase' \in {phase, "failed"}
    BY <1>0, <1>1, EvaluationSteps, PlanStepCases DEF NoEvaluation
  <2>. QED
    BY <2>1 DEF RowsWereRead, Running, inputs, catalog
<1>2. CASE ValueStep
  <2>1. Running /\ UNCHANGED <<inputs, window>> /\ phase' \in {phase, "failed"}
    BY <1>0, <1>2, EvaluationSteps
  <2>2. PICK m \in Metrics :
          /\ m \in Listed
          /\ \/ UNCHANGED <<cache, executions>>
             \/ kind[m] = "batch" /\ SourceRuns /\ cache' \in {cache, cache \cup {window}}
          /\ \/ phase' = "failed"
             \/ /\ \E outcome : results' = [results EXCEPT ![m] = outcome]
                /\ kind[m] = "batch" => window \in cache'
    BY <1>0, <1>2, ValueStepReads
  <2>3. \A w \in cache' : executions'[w] > 0
    <3>1. CASE UNCHANGED <<cache, executions>>
      BY <3>1 DEF RowsWereRead
    <3>2. CASE SourceRuns /\ cache' \in {cache, cache \cup {window}}
      <4>1. \A w \in Windows : executions'[w] = IF w = window THEN executions[w] + 1 ELSE executions[w]
        BY <1>0, <3>2 DEF SourceRuns
      <4>2. \A w \in cache' : w \in Windows /\ (w = window \/ w \in cache)
        BY <1>0, <3>2 DEF SessionTypeOK
      <4>. QED
        BY <1>0, <4>1, <4>2 DEF RowsWereRead
    <3>. QED
      BY <2>2, <3>1, <3>2
  <2>4. cache \subseteq cache'
    BY <2>2
  <2>5. phase' \in {"build", "warm"} => window' = 0
    BY <2>1 DEF RowsWereRead
  <2>6. ASSUME phase' # "failed", NEW x \in Metrics, results'[x] # Nil, kind[x] = "batch"
        PROVE  window \in cache'
    <3>1. PICK outcome : results' = [results EXCEPT ![m] = outcome]
      BY <2>2, <2>6
    <3>2. CASE x = m
      BY <2>2, <2>6, <3>2
    <3>3. CASE x # m
      BY <1>0, <2>1, <2>4, <2>6, <3>1, <3>3 DEF RowsWereRead
    <3>. QED
      BY <3>2, <3>3
  <2>. QED
    BY <2>1, <2>3, <2>5, <2>6 DEF RowsWereRead, Running, inputs, catalog
<1>3. CASE CallStep
  <2>1. UNCHANGED executions /\ cache' \subseteq cache
    BY <1>0, <1>3, CallStepCases DEF Stops, Restarts
  <2>2. \A w \in cache' : executions'[w] > 0
    BY <2>1 DEF RowsWereRead
  <2>3. phase' \in {"build", "warm"} => window' = 0
    BY <1>0, <1>3, CallStepPlans DEF RowsWereRead, Final
  <2>4. Running' => results' = [x \in Metrics |-> Nil]
    BY <1>0, <1>3, CallStepPlans DEF StartPlan, Running, Final
  <2>. QED
    BY <2>2, <2>3, <2>4 DEF RowsWereRead
<1>4. CASE UNCHANGED sessionVars
  BY <1>4 DEF sessionVars, RowsWereRead, Running, inputs, catalog
<1>. QED
  BY <1>1, <1>2, <1>3, <1>4, StepKinds

\* What is listed that reads the source is needed for what was asked for.
LEMMA ListedAreNeeded ==
  ASSUME SessionInv, VisitsAreRequested, Running,
         NEW m \in Listed \cap Metrics, kind[m] = "batch"
  PROVE  (\E name \in Asked : ReadsBatch(name)) /\ AnyReadsBatch
<1>1. Asked \subseteq Requested /\ m \in seen
  BY AskedAreRequested DEF SessionInv, SessionIInv, VisitedOnce
<1>2. PICK name \in Asked : m \in Closure(deps, name)
  BY <1>1 DEF VisitsAreRequested
<1>3. ReadsBatch(name)
  BY <1>2 DEF ReadsBatch
<1>. QED
  BY <1>1, <1>3 DEF AnyReadsBatch

\* When warming is over, the current window has been read if any request needs it.
LEMMA WarmingReads ==
  ASSUME SessionInv, RowsWereRead, PlanIsClosure, EvaluationDone, phase = "warm",
         AnyReadsBatch
  PROVE  executions[0] > 0
<1>0. /\ SessionTypeOK /\ ListedAfterDeps /\ Running /\ Planned /\ window = 0
      /\ position = Len(order)
  BY DEF SessionInv, SessionIInv, EvaluationDone, RowsWereRead
<1>1. PICK name \in Requested : \E x \in Closure(deps, name) \cap Metrics : kind[x] = "batch"
  BY DEF AnyReadsBatch, ReadsBatch
<1>2. PICK x \in Closure(deps, name) \cap Metrics : kind[x] = "batch"
  BY <1>1
<1>3. x \in Listed
  <2>1. name \in Asked
    BY DEF Asked
  <2>. QED
    BY <1>0, <1>2, <2>1 DEF PlanIsClosure
<1>4. PICK i \in 1 .. Len(order) : x = order[i]
  BY <1>3 DEF Listed
<1>5. results[x] # Nil
  BY <1>0, <1>4 DEF ListedAfterDeps
<1>. QED
  BY <1>0, <1>2, <1>5 DEF RowsWereRead

LEMMA NextBatchOnce ==
  ASSUME SessionInv, SessionInv', VisitsAreRequested, RowsWereRead, PlanIsClosure,
         BatchOnce, [SessionNext]_sessionVars
  PROVE  BatchOnce'
<1>0. /\ SessionTypeOK /\ CallIsOn /\ 0 \in Windows
      /\ executions \in [Windows -> Nat] /\ executions' \in [Windows -> Nat]
      /\ window \in Windows /\ RunsOnce'
  <2>1. 0 \in Windows /\ Windows' = Windows
    BY SessionAssumption DEF Windows
  <2>. QED
    BY <2>1 DEF SessionInv, SessionIInv, SessionTypeOK
<1>1. UNCHANGED inputs
  <2>1. CASE PlanStep \/ ValueStep
    BY <1>0, <2>1, EvaluationSteps
  <2>2. CASE CallStep
    BY <1>0, <2>2, CallStepOutcomes
  <2>. QED
    BY <2>1, <2>2, StepKinds DEF sessionVars
<1>2. AnyReadsBatch' = AnyReadsBatch
  BY <1>1 DEF inputs, catalog, AnyReadsBatch, ReadsBatch, Requested
<1>3. /\ \A w \in Windows : executions'[w] >= executions[w]
      /\ \A w \in Windows : executions'[w] > 0 => AnyReadsBatch
  <2>1. CASE UNCHANGED executions
    BY <1>0, <2>1 DEF BatchOnce
  <2>2. CASE ValueStep /\ ~ UNCHANGED executions
    <3>1. PICK m \in Metrics : m \in Listed /\ kind[m] = "batch" /\ SourceRuns
      BY <1>0, <2>2, ValueStepReads
    <3>2. AnyReadsBatch
      BY <1>0, <2>2, <3>1, EvaluationSteps, ListedAreNeeded
    <3>3. \A w \in Windows : executions'[w] \in {executions[w], executions[w] + 1}
      BY <1>0, <3>1 DEF SourceRuns
    <3>. QED
      BY <1>0, <3>2, <3>3
  <2>3. PlanStep \/ CallStep => UNCHANGED executions
    BY <1>0, PlanStepCases, CallStepCases DEF NoEvaluation
  <2>. QED
    BY <2>1, <2>2, <2>3, StepKinds DEF sessionVars
<1>4. ASSUME ~ byWindow, phase' = "process", AnyReadsBatch PROVE executions'[0] > 0
  <2>1. CASE phase = "process"
    BY <1>0, <1>3, <1>4, <2>1 DEF BatchOnce
  <2>2. CASE phase # "process"
    <3>1. CallStep
      <4>1. PlanStep \/ ValueStep => phase' \in {phase, "failed"}
        BY <1>0, EvaluationSteps
      <4>. QED
        BY <1>4, <2>2, <4>1, StepKinds DEF sessionVars
    <3>2. phase = "warm" /\ EvaluationDone
      BY <1>0, <1>4, <2>2, <3>1, CallStepOutcomes
         DEF Opens, Fails, GoesOn, Decides, Passes, AtClaim
    <3>. QED
      BY <1>0, <1>3, <1>4, <3>2, WarmingReads
  <2>. QED
    BY <2>1, <2>2
<1>5. ASSUME ~ byWindow, phase' = "process"
      PROVE  executions'[0] = IF AnyReadsBatch THEN 1 ELSE 0
  <2>1. executions'[0] \in Nat /\ executions'[0] <= 1
    BY <1>0, <1>1, <1>5 DEF RunsOnce, inputs
  <2>. QED
    BY <1>0, <1>3, <1>4, <1>5, <2>1
<1>. QED
  BY <1>0, <1>1, <1>2, <1>3, <1>5 DEF BatchOnce, inputs, Windows

-------------------------------------------------------------------------------
(* Failures                                                                     *)

\* The reasons for which a call may fail: those that lie in its inputs, and what
\* may happen before a metric is evaluated and after it is decided.
Reasoned ==
    \/ \E i \in 1 .. Len(requested) : requested[i] \notin Metrics
    \/ next <= Len(requested) /\ Prescribed(Target, window) = "error"
    \/ SourceRaised \/ AnswerRaised

AtItsEnds ==
    \/ window = 0 /\ todo = <<Target>> /\ seen = {}
    \/ next <= Len(requested) /\ Decided

\* What is listed lies below a name that the evaluation is about.
LEMMA ListedAreConcerned ==
  ASSUME SessionInv, CommittedSoFar, VisitsAreRequested, Running, NEW m \in Listed
  PROVE  m \in Metrics /\ \E name \in Concerned : m \in Closure(deps, name)
<1>0. SessionTypeOK /\ CallIsOn /\ VisitedOnce
  BY DEF SessionInv, SessionIInv
<1>1. m \in Metrics /\ m \in seen
  BY <1>0, PlanTypes DEF Listed, VisitedOnce
<1>2. PICK name \in Asked : m \in Closure(deps, name)
  BY <1>1 DEF VisitsAreRequested
<1>3. name \in Concerned
  <2>1. phase = "warm" => next = 1 /\ name \in Requested
    BY <1>2 DEF CommittedSoFar, Asked
  <2>2. phase = "process" => name = Target /\ Target \in Requested
    BY <1>0, <1>2, AskedAreRequested DEF Asked
  <2>. QED
    BY <2>1, <2>2 DEF Running, Concerned
<1>. QED
  BY <1>1, <1>2, <1>3

LEMMA FailsForAReason ==
  ASSUME SessionInv, NoErrorOfItsOwn, ResultsAreRight, TargetIsPlanned, CommittedSoFar,
         VisitsAreRequested, BatchOnce, SessionNext, phase' = "failed"
  PROVE  /\ UNCHANGED <<inputs, next, window>>
         /\ Reasoned \/ (AtItsEnds /\ UNCHANGED <<plan, position, results>>)
<1>0. SessionTypeOK /\ CallIsOn /\ VisitedOnce /\ StackIsChain /\ ListedAfterDeps /\ PlanInv
  BY DEF SessionInv, SessionIInv, PlanInv
<1>1. CASE PlanStep
  <2>1. Running /\ UNCHANGED <<inputs, next, window>>
    BY <1>0, <1>1, EvaluationSteps
  <2>2. phase # "failed"
    BY <2>1 DEF Running
  <2>3. \E m : /\ \/ todo # <<>> /\ m = Head(todo)
                  \/ stack # <<>> /\ m \in stack[Len(stack)].left
               /\ m \notin Metrics
    <3>1. CASE VisitTarget
      BY <2>2, <3>1 DEF VisitTarget, Enter
    <3>2. CASE VisitChild
      BY <2>2, <3>2 DEF VisitChild, Enter
    <3>3. CASE EndVisit
      BY <2>2, <3>3 DEF EndVisit
    <3>. QED
      BY <1>1, <3>1, <3>2, <3>3 DEF PlanStep
  <2>4. \E m \in Requested : m \notin Metrics
    BY <1>0, <2>1, <2>3, EntersAsked, AskedAreRequested
  <2>. QED
    BY <2>1, <2>4 DEF Requested, Reasoned
<1>2. CASE ValueStep
  <2>1. Running /\ UNCHANGED <<inputs, next, window>> /\ Valid /\ phase # "failed"
    BY <1>0, <1>2, EvaluationSteps DEF CallIsOn, Running
  <2>2. CASE \E m \in Listed : answer[m][window] = "raises" /\ Prescribed(m, window) # "error"
    <3>1. PICK m \in Listed : answer[m][window] = "raises" /\ Prescribed(m, window) # "error"
      BY <2>2
    <3>2. m \in Metrics /\ \E name \in Concerned : m \in Closure(deps, name)
      BY <2>1, ListedAreConcerned
    <3>3. AnswerRaised
      BY <3>1, <3>2 DEF AnswerRaised
    <3>. QED
      BY <2>1, <3>3 DEF Reasoned
  <2>3. CASE /\ window \in raises /\ window \notin cache
             /\ \E m \in Listed : kind[m] = "batch"
    <3>1. PICK m \in Listed : kind[m] = "batch"
      BY <2>3
    <3>2. m \in Metrics /\ \E name \in Concerned : m \in Closure(deps, name)
      BY <2>1, ListedAreConcerned
    <3>3. \E name \in Concerned : ReadsBatch(name)
      BY <3>1, <3>2 DEF ReadsBatch
    <3>4. ASSUME ~ byWindow, window = 0 PROVE next = 1
      <4>1. 0 \in Windows \ cache
        BY <1>0, <2>3, <3>4 DEF SessionTypeOK
      <4>2. executions[0] = 0
        BY <2>1, <3>4, <4>1 DEF SessionInv, SessionIInv, RunsAreCached
      <4>3. AnyReadsBatch
        BY <2>1, <3>1, <3>2, ListedAreNeeded
      <4>4. phase # "process"
        BY <3>4, <4>2, <4>3 DEF BatchOnce
      <4>. QED
        BY <2>1, <4>4 DEF Running, CommittedSoFar
    <3>. QED
      BY <2>1, <2>3, <3>3, <3>4 DEF SourceRaised, Reasoned
  <2>. QED
    BY <1>0, <1>2, <2>1, <2>2, <2>3, ValueStepIsRight
<1>3. CASE CallStep
  <2>1. UNCHANGED inputs /\ Fails
    BY <1>0, <1>3, CallStepOutcomes DEF Opens, GoesOn, Decides, Passes, Turns, AtClaim
  <2>2. /\ next <= Len(requested)
        /\ UNCHANGED <<inputs, next, window, plan, position, results>>
    BY <1>0, <2>1 DEF CallIsOn, Fails
  <2>3. CASE AtClaim
    <3>1. AtItsEnds
      BY <2>3, EmptySeq DEF AtClaim, TargetIsPlanned, AtItsEnds
    <3>. QED
      BY <2>2, <3>1
  <2>4. CASE EvaluationDone /\ results[Target] = "error"
    <3>1. results[Target] = Prescribed(Target, window)
      BY <1>0, <2>1, <2>4, TargetIsEvaluated DEF Fails
    <3>. QED
      BY <2>2, <2>4, <3>1 DEF Reasoned
  <2>5. CASE Decided
    BY <2>2, <2>5 DEF AtItsEnds
  <2>. QED
    BY <2>1, <2>3, <2>4, <2>5 DEF Fails
<1>. QED
  BY <1>1, <1>2, <1>3 DEF SessionNext, PlanStep, ValueStep, CallStep

LEMMA NextFailuresAreExplained ==
  ASSUME SessionInv, NoErrorOfItsOwn, ResultsAreRight, TargetIsPlanned,
         CommittedSoFar, VisitsAreRequested, BatchOnce, FailuresAreExplained,
         CommittedSoFar',
         [SessionNext]_sessionVars
  PROVE  FailuresAreExplained'
<1>1. ASSUME phase' = "failed"
      PROVE  /\ UNCHANGED <<inputs, next, window>>
             /\ Reasoned \/ (AtItsEnds /\ UNCHANGED <<plan, position, results>>)
  <2>1. CASE SessionNext
    BY <1>1, <2>1, FailsForAReason
  <2>2. CASE UNCHANGED sessionVars
    <3>1. phase = "failed" /\ UNCHANGED <<inputs, next, window, plan, position, results>>
      BY <1>1, <2>2 DEF sessionVars
    <3>. QED
      BY <3>1 DEF FailuresAreExplained, Reasoned, AtItsEnds
  <2>. QED
    BY <2>1, <2>2
<1>2. ASSUME UNCHANGED <<inputs, next, window>>
      PROVE  Target' = Target /\ requested' = requested /\ (Reasoned => Reasoned')
  <2>1. Target' = Target
    BY <1>2 DEF inputs, Target
  <2>2. /\ requested' = requested /\ raises' = raises /\ byWindow' = byWindow
        /\ answer' = answer /\ kind' = kind /\ deps' = deps /\ window' = window /\ next' = next
    BY <1>2 DEF inputs, catalog
  <2>3. Requested' = Requested /\ \A name : ReadsBatch(name)' = ReadsBatch(name)
    BY <2>2 DEF Requested, ReadsBatch
  <2>4. Concerned' = Concerned
    BY <2>1, <2>2, <2>3 DEF Concerned
  <2>5. \A m, w : Prescribed(m, w)' = Prescribed(m, w)
    BY <1>2, SamePrescribed
  <2>6. SourceRaised' = SourceRaised
    BY <2>2, <2>3, <2>4 DEF SourceRaised
  <2>7. AnswerRaised => AnswerRaised'
    BY <2>2, <2>4, <2>5 DEF AnswerRaised
  <2>8. Prescribed(Target, window)' = Prescribed(Target, window)
    BY <2>1, <2>2, <2>5
  <2>. QED
    BY <2>1, <2>2, <2>6, <2>7, <2>8 DEF Reasoned
<1>3. phase' = "failed" => Reasoned' \/ AtItsEnds'
  <2>1. ASSUME phase' = "failed", AtItsEnds, UNCHANGED <<plan, position, results>>
        PROVE  AtItsEnds'
    BY <1>1, <1>2, <2>1 DEF AtItsEnds, Decided, Planned, plan
  <2>. QED
    BY <1>1, <1>2, <2>1
<1>4. \A i \in 1 .. Len(requested') :
        requested'[i] \in Metrics =>
           LET processed == \E j \in 1 .. next' - 1 : requested'[j] = requested'[i]
           IN /\ processed => committed'[requested'[i]] # Nil
              /\ committed'[requested'[i]] # Nil =>
                    processed \/ (phase' = "failed" /\ Target' = requested'[i] /\ Decided')
  BY DEF CommittedSoFar
<1>. QED
  BY <1>3, <1>4 DEF FailuresAreExplained, Reasoned, AtItsEnds

-------------------------------------------------------------------------------
(* The theorems of the session                                                  *)

LEMMA StartInvariant == SessionInputs /\ SessionStart => SessionInv
<1> SUFFICES ASSUME SessionInputs, SessionStart PROVE SessionInv
  OBVIOUS
<1>1. SessionTypeOK
  BY StartTypes
<1>2. Len(stack) = 0 /\ Len(order) = 0 /\ seen = {} /\ results = [m \in Metrics |-> Nil]
  BY DEF SessionStart
<1>3. Listed = {} /\ Visiting = {}
  BY <1>2 DEF Listed, Visiting
<1>4. VisitedOnce /\ StackIsChain /\ ListedAfterDeps /\ EvaluatedAreListed
  BY <1>2, <1>3 DEF VisitedOnce, StackIsChain, ListedAfterDeps, EvaluatedAreListed
<1>5. CallIsOn
  BY DEF SessionStart, CallIsOn, Running
<1>6. RunsAreCached /\ RunsOnce
  BY DEF SessionStart, RunsAreCached, RunsOnce
<1>. QED
  BY <1>1, <1>4, <1>5, <1>6 DEF SessionInv, SessionIInv

LEMMA NextSessionInv == SessionInv /\ [SessionNext]_sessionVars => SessionInv'
<1> SUFFICES ASSUME SessionTypeOK, SessionIInv, [SessionNext]_sessionVars
             PROVE  SessionTypeOK' /\ SessionIInv'
  BY DEF SessionInv
<1>1. CallIsOn /\ PlanInv /\ CacheInv
  BY DEF SessionIInv, PlanInv, CacheInv
<1>2. SessionTypeOK'
  BY <1>1, NextSessionTypes
<1>3. PlanInv' /\ CallIsOn' /\ CacheInv'
  BY <1>1, NextPlanInv, NextCallIsOn, NextCacheInv
<1>. QED
  BY <1>2, <1>3 DEF SessionIInv, PlanInv, CacheInv

LEMMA SessionInductive == SessionSpec => []SessionInv
  BY StartInvariant, NextSessionInv, PTL DEF SessionSpec

\* Types: a call keeps its types whatever the catalog, the request and the
\* answers; no more baseline windows are counted than there are.
THEOREM SessionTypeCorrect == SessionSpec => []SessionTypeOK
<1>1. SessionInv => SessionTypeOK
  BY DEF SessionInv
<1>. QED
  BY <1>1, SessionInductive, PTL

-------------------------------------------------------------------------------
(* The theorems of the outcomes                                                 *)

OutcomeInv == SessionInv /\ OutcomeIInv

LEMMA OutcomeStart == SessionInputs /\ SessionStart => OutcomeInv
<1> SUFFICES ASSUME SessionInputs, SessionStart PROVE OutcomeInv
  OBVIOUS
<1>1. SessionInv /\ NoErrorOfItsOwn
  BY StartInvariant DEF SessionInputs
<1>2. phase = "build" /\ next = 1 /\ \A m \in Metrics : committed[m] = Nil
  BY DEF SessionStart
<1>3. /\ ResultsAreRight /\ TargetIsPlanned /\ BaselinesAreCounted /\ VisitsAreRequested
  BY <1>2 DEF ResultsAreRight, TargetIsPlanned, BaselinesAreCounted, VisitsAreRequested, Running
<1>4. CommittedSoFar /\ OutcomesAreRight
  <2>1. OutcomesAreRight
    BY <1>2, SessionAssumption DEF OutcomesAreRight
  <2>2. CommittedSoFar
    BY <1>2 DEF CommittedSoFar
  <2>. QED
    BY <2>1, <2>2
<1>5. FailuresAreExplained
  BY <1>2 DEF FailuresAreExplained
<1>6. RowsWereRead
  BY DEF SessionStart, RowsWereRead, Running
<1>7. BatchOnce
  BY <1>1 DEF SessionStart, SessionInv, SessionIInv, BatchOnce
<1>. QED
  BY <1>1, <1>3, <1>4, <1>5, <1>6, <1>7 DEF OutcomeInv, OutcomeIInv

LEMMA NextOutcomeInv == OutcomeInv /\ [SessionNext]_sessionVars => OutcomeInv'
<1> SUFFICES ASSUME OutcomeInv, [SessionNext]_sessionVars PROVE OutcomeInv'
  OBVIOUS
<1>1. /\ SessionInv /\ NoErrorOfItsOwn /\ ResultsAreRight /\ TargetIsPlanned
      /\ BaselinesAreCounted /\ VisitsAreRequested /\ CommittedSoFar
      /\ RowsWereRead /\ BatchOnce
      /\ OutcomesAreRight /\ FailuresAreExplained
  BY DEF OutcomeInv, OutcomeIInv
<1>2. SessionInv'
  BY <1>1, NextSessionInv
<1>3. NoErrorOfItsOwn'
  <2>1. UNCHANGED inputs
    BY <1>1, StepKinds, EvaluationSteps, CallStepOutcomes DEF SessionInv, SessionIInv, sessionVars
  <2>. QED
    BY <1>1, <2>1 DEF NoErrorOfItsOwn, inputs, catalog
<1>4. /\ ResultsAreRight' /\ TargetIsPlanned' /\ BaselinesAreCounted' /\ VisitsAreRequested'
      /\ CommittedSoFar' /\ OutcomesAreRight'
  BY <1>1, NextResultsAreRight, NextTargetIsPlanned, NextBaselinesAreCounted,
     NextVisitsAreRequested, NextCommitted
<1>5. FailuresAreExplained'
  BY <1>1, <1>4, NextFailuresAreExplained
<1>6. RowsWereRead' /\ BatchOnce'
  BY <1>1, <1>2, NextRowsWereRead, NextBatchOnce, PlanIsComplete
<1>. QED
  BY <1>2, <1>3, <1>4, <1>5, <1>6 DEF OutcomeInv, OutcomeIInv

LEMMA OutcomeInductive == SessionSpec => []OutcomeInv
  BY OutcomeStart, NextOutcomeInv, PTL DEF SessionSpec

\* Order: in every accepted catalog, of any size, the plan lists and evaluates a
\* metric once, after everything it depends on, and holds exactly what was asked
\* for and what that is built on.
THEOREM PlanIsInOrder == SessionSpec => []DepsFirst
<1>1. OutcomeInv => DepsFirst
  BY PlanIsComplete DEF OutcomeInv, OutcomeIInv, SessionInv, SessionIInv, DepsFirst
<1>. QED
  BY <1>1, OutcomeInductive, PTL

\* Cache: for any number of metrics and baselines, a call with at= runs the batch
\* source of a window at most once; the current window is read while warming, if
\* any metric below a request needs it, and the source never runs if none does.
THEOREM SourceRunsOnce == SessionSpec => []BatchOnce
<1>1. OutcomeInv => BatchOnce
  BY DEF OutcomeInv, OutcomeIInv
<1>. QED
  BY <1>1, OutcomeInductive, PTL

\* Outcomes: for any accepted catalog, any request and any answers, what a call
\* commits for a metric is what the definition of the metric prescribes, whatever
\* the order of the plan, and whether or not warming or the cache had a part in it.
THEOREM OutcomesAreAsPrescribed == SessionSpec => []OutcomesAreRight
<1>1. OutcomeInv => OutcomesAreRight
  BY DEF OutcomeInv, OutcomeIInv
<1>. QED
  BY <1>1, OutcomeInductive, PTL

\* Failures: a call fails only for an unknown name, for the prescribed error of
\* the metric it has come to, because the batch source or the calculation of a
\* metric that is needed raises, at the claim of a metric of which nothing has been
\* evaluated, or after all windows of a metric have been asked for; the metrics it
\* has come past are recorded, and no other but one that had been decided.
THEOREM FailuresHaveReasons == SessionSpec => []FailuresAreExplained
<1>1. OutcomeInv => FailuresAreExplained
  BY DEF OutcomeInv, OutcomeIInv
<1>. QED
  BY <1>1, OutcomeInductive, PTL

===============================================================================
