--------------------------- MODULE EvaluationSession ---------------------------
(* One call of process_many (engine.py) over an evaluation session              *)
(* (calculations/session.py): the catalog is validated, the requested metrics   *)
(* are evaluated once to warm the batch cache of the session, and then each one *)
(* is processed: its current window and then its baseline windows, every time   *)
(* with its whole dependency closure, dependencies first.                       *)
(*                                                                              *)
(* The query of a metric, its column of the batch row and the arithmetic of its *)
(* expression answer with a value, no data or an error result, or they raise,   *)
(* and so may the batch source; what is raised ends the call, whatever has been *)
(* committed before. How a processed metric is claimed, ordered and committed   *)
(* is the subject of EvaluationStream: here a claim is acquired or not, and a   *)
(* commit succeeds or fails.                                                    *)
EXTENDS MetricCatalog

CONSTANTS Baselines,    \* number of baseline windows of the detector
          Nil           \* no result yet, nothing committed

ASSUME SessionAssumption ==
    /\ Baselines \in Nat \ {0}
    /\ Nil \notin {"value", "no_data", "error", "earlier"}

VARIABLES answer,       \* metric -> what its own calculation answers in each window
          raises,       \* windows in which running the batch source raises
          requested,    \* the metrics of the call, in order
          byWindow,     \* whether start= and end= are given instead of at=
          phase,        \* where the call is
          next,         \* index of the requested metric being processed
          window,       \* the window being evaluated: 0 is the current one
          todo,         \* top-level names the plan still has to visit
          stack,        \* the open visits, each with the children left to visit
          seen, order,  \* the metrics visited, and those whose visit has ended
          position,     \* how many metrics of order have a result
          results,      \* the results of the running evaluation
          cache,        \* windows whose batch row the session holds
          executions,   \* window -> runs of the batch source
          usable,       \* baseline windows of the metric that gave a value
          committed     \* metric -> what is recorded for it, by this call or earlier

inputs == <<catalog, answer, raises, requested, byWindow>>
plan == <<todo, stack, seen, order>>
sessionVars == <<inputs, phase, next, window, plan, position, results, cache,
                 executions, usable, committed>>

Windows == 0 .. Baselines
Outcomes == {"value", "no_data", "error"}
Answers == Outcomes \cup {"raises"}
Recorded == {"value", "no_data", "earlier"}
Final == {"rejected", "failed", "done"}
Visits == [metric : Metrics, left : SUBSET Ids]

SessionTypeOK ==
    /\ CatalogTypeOK
    /\ answer \in [Metrics -> [Windows -> Answers]]
    /\ raises \subseteq Windows
    /\ requested \in Seq(Ids)
    /\ byWindow \in BOOLEAN
    /\ phase \in {"build", "warm", "process"} \cup Final
    /\ next \in 1 .. Len(requested) + 1
    /\ window \in Windows
    /\ todo \in Seq(Ids)
    /\ stack \in Seq(Visits)
    /\ seen \subseteq Metrics
    /\ order \in Seq(Metrics)
    /\ position \in 0 .. Len(order)
    /\ results \in [Metrics -> Outcomes \cup {Nil}]
    /\ cache \subseteq Windows
    /\ executions \in [Windows -> Nat]
    /\ usable \in 0 .. Baselines
    /\ committed \in [Metrics -> Recorded \cup {Nil}]

-------------------------------------------------------------------------------
(* The plan: a depth-first visit that lists a metric after what it depends on.  *)

\* Mutant: only the identifiers of an expression are visited.
MutIdentifiersOnly(m) == [metric |-> m, left |-> Identifiers(m)]

\* A visit of the closure: the declared dependencies, then the identifiers of
\* a derived expression.
Visit(m) == [metric |-> m, left |-> deps[m] \cup Identifiers(m)]

StartPlan(targets) ==
    /\ todo' = targets
    /\ stack' = <<>> /\ seen' = {} /\ order' = <<>>
    /\ position' = 0
    /\ results' = [m \in Metrics |-> Nil]

Running == phase \in {"warm", "process"}
Planned == todo = <<>> /\ stack = <<>>
NoEvaluation == UNCHANGED <<window, position, results, cache, executions, usable, committed>>

\* visit(name): once for every name; an unknown one raises out of the call.
Enter(m, rest) ==
    IF m \in seen THEN stack' = rest /\ UNCHANGED <<phase, seen>>
    ELSE IF m \notin Metrics THEN phase' = "failed" /\ UNCHANGED <<stack, seen>>
    ELSE stack' = Append(rest, Visit(m)) /\ seen' = seen \cup {m} /\ UNCHANGED phase

Target == requested[next]

\* Nothing of the metric at hand has been evaluated yet: process begins with its
\* claim, which a window that has a record never gets.
AtClaim == phase = "process" /\ window = 0 /\ todo # <<>>

VisitTarget ==
    /\ Running /\ stack = <<>> /\ todo # <<>>
    /\ AtClaim /\ Target \in Metrics => committed[Target] = Nil
    /\ todo' = Tail(todo)
    /\ Enter(Head(todo), stack)
    /\ UNCHANGED <<inputs, next, order>> /\ NoEvaluation

\* The open visit goes on with one of its children.
VisitChild ==
    /\ Running /\ stack # <<>>
    /\ LET n == Len(stack)
       IN \E child \in stack[n].left :
             Enter(child, [stack EXCEPT ![n].left = @ \ {child}])
    /\ UNCHANGED <<inputs, next, todo, order>> /\ NoEvaluation

\* The end of a visit: everything the metric depends on has been listed.
EndVisit ==
    /\ Running /\ stack # <<>>
    /\ LET n == Len(stack)
       IN /\ stack[n].left = {}
          /\ order' = Append(order, stack[n].metric)
          /\ stack' = SubSeq(stack, 1, n - 1)
    /\ UNCHANGED <<inputs, phase, next, todo, seen>> /\ NoEvaluation

-------------------------------------------------------------------------------
(* Evaluation, in the order of the plan.                                        *)

Evaluating(m) == Running /\ Planned /\ position < Len(order) /\ m = order[position + 1]

Store(m, outcome) ==
    /\ position' = position + 1
    /\ results' = [results EXCEPT ![m] = outcome]
    /\ UNCHANGED <<inputs, phase, next, window, plan, usable, committed>>

\* An exception that nobody catches ends the call.
Raise ==
    /\ phase' = "failed"
    /\ UNCHANGED <<inputs, next, window, plan, position, results, usable>>

\* An executor that is missing or does not speak the dialect, and an answer that
\* is not a number, raise out of the evaluation.
Take(m, w) ==
    IF answer[m][w] = "raises"
    THEN Raise /\ UNCHANGED committed
    ELSE Store(m, answer[m][w])

\* A query; an exception of the query itself becomes an error result.
EvaluateQuery(m) ==
    /\ Evaluating(m) /\ kind[m] = "query"
    /\ Take(m, window)
    /\ UNCHANGED <<cache, executions>>

\* Mutant: the key is that of the source alone.
MutKeyOfSource(w) == 0

\* A row is kept under the source and the window it is about.
CacheKey(w) == w

\* Mutant: the row of a window is not kept in the session.
MutNeverCached == FALSE

\* Whether the session holds a row under the key of the window that is evaluated.
Cached == \E w \in cache : CacheKey(w) = CacheKey(window)

\* The window that this row is about.
CachedRow == CHOOSE w \in cache : CacheKey(w) = CacheKey(window)

\* A column of the batch row; a missing column is an error result. The source
\* runs if the session has no row for the window, and what it raises is not
\* caught: the whole call ends.
EvaluateBatch(m) ==
    /\ Evaluating(m) /\ kind[m] = "batch"
    /\ IF Cached
       THEN Take(m, CachedRow) /\ UNCHANGED <<cache, executions>>
       ELSE /\ executions' = [executions EXCEPT ![window] = @ + 1]
            /\ IF window \in raises
               THEN Raise /\ UNCHANGED <<cache, committed>>
               ELSE Take(m, window) /\ cache' = cache \cup {window}

\* Mutant: every declared dependency counts, named by the expression or not.
MutAllDependencies(m) ==
    IF \E x \in deps[m] : results[x] \in {"error", Nil} THEN "error"
    ELSE IF \E x \in names[m] : results[x] = "no_data" THEN "no_data"
    ELSE answer[m][window]

\* evaluate_expression: an error of a dependency is an error, one without data
\* leaves no data, and so does a division by zero; a dependency without a result
\* would be an error.
Combine(m) ==
    IF \E x \in names[m] : results[x] \in {"error", Nil} THEN "error"
    ELSE IF \E x \in names[m] : results[x] = "no_data" THEN "no_data"
    ELSE answer[m][window]

\* A literal that is no number, a wrong number of arguments or an overflow raises;
\* an error of a dependency is found before the arithmetic begins, and whether one
\* without data is found before it raises is up to the order of the operands.
EvaluateDerived(m) ==
    /\ Evaluating(m) /\ kind[m] = "derived"
    /\ \/ Combine(m) # "raises" /\ Store(m, Combine(m))
       \/ answer[m][window] = "raises" /\ Combine(m) # "error" /\ Raise /\ UNCHANGED committed
    /\ UNCHANGED <<cache, executions>>

-------------------------------------------------------------------------------
(* The call.                                                                    *)

GotValue == results[Target] = "value"

\* evaluate_all over all requested metrics, before any of them is processed.
Build ==
    /\ phase = "build"
    /\ IF Valid THEN phase' = "warm" /\ StartPlan(requested)
       ELSE phase' = "rejected" /\ UNCHANGED <<plan, position, results>>
    /\ UNCHANGED <<inputs, next, window, cache, executions, usable, committed>>

\* metric_value of m in window w. evaluate passes the session of the call on;
\* evaluate_window does not, so that each value has a new session.
AskValue(m, w) ==
    /\ window' = w
    /\ StartPlan(<<m>>)
    /\ cache' = IF byWindow THEN {} ELSE cache

\* process of the next requested metric, or the end of the call.
ProcessFrom(n) ==
    /\ next' = n
    /\ usable' = 0
    /\ IF n > Len(requested)
       THEN phase' = "done" /\ UNCHANGED <<window, plan, position, results, cache>>
       ELSE phase' = "process" /\ AskValue(requested[n], 0)

EvaluationDone == Running /\ Planned /\ position = Len(order)

\* What warming found is dropped, errors included.
Warmed ==
    /\ EvaluationDone /\ phase = "warm"
    /\ ProcessFrom(1)
    /\ UNCHANGED <<inputs, executions, committed>>

\* Another worker holds the claim, or the store fails.
ClaimRefused ==
    /\ AtClaim /\ Raise
    /\ UNCHANGED <<cache, executions, committed>>

\* The window of the metric has a record already, from another call or from a
\* request of this one that named the metric before: it is not evaluated again.
AlreadyCommitted ==
    /\ AtClaim
    /\ committed' = [committed EXCEPT ![Target] = IF @ = Nil THEN "earlier" ELSE @]
    /\ ProcessFrom(next + 1)
    /\ UNCHANGED <<inputs, executions>>

\* A calculation error is raised out of process, and so out of the call.
ValueFails ==
    /\ EvaluationDone /\ phase = "process" /\ results[Target] = "error"
    /\ Raise
    /\ UNCHANGED <<cache, executions, committed>>

\* Baseline windows with a value: _usable_baseline skips those without data.
Found == usable + (IF window > 0 /\ GotValue THEN 1 ELSE 0)

\* The next baseline window, once the current one has given a value.
Baseline ==
    /\ EvaluationDone /\ phase = "process" /\ results[Target] # "error"
    /\ window = 0 => GotValue
    /\ window < Baselines
    /\ usable' = Found
    /\ AskValue(Target, window + 1)
    /\ UNCHANGED <<inputs, phase, next, executions, committed>>

\* All windows that the metric needs have been asked for: only the current one if
\* it has no data.
Decided ==
    /\ Planned /\ position = Len(order)
    /\ IF window = 0 THEN results[Target] = "no_data"
       ELSE window = Baselines /\ results[Target] # "error"

\* Without data in the current window or without any baseline value (no_baseline)
\* the metric has no data.
Outcome == IF window = 0 \/ Found = 0 THEN "no_data" ELSE "value"
WithOutcome == [committed EXCEPT ![Target] = Outcome]

Commit ==
    /\ phase = "process" /\ Decided
    /\ committed' = WithOutcome
    /\ ProcessFrom(next + 1)
    /\ UNCHANGED <<inputs, executions>>

\* The support query, the impact, the investigation or the commit fails, and
\* nothing is committed; or what follows the commit, up to the release of the
\* claim, does.
ProcessFails ==
    /\ phase = "process" /\ Decided /\ Raise
    /\ committed' \in {committed, WithOutcome}
    /\ UNCHANGED <<cache, executions>>

SessionNext ==
    \/ Build
    \/ VisitTarget \/ VisitChild \/ EndVisit
    \/ \E m \in Metrics : EvaluateQuery(m) \/ EvaluateBatch(m) \/ EvaluateDerived(m)
    \/ Warmed
    \/ ClaimRefused \/ AlreadyCommitted
    \/ ValueFails \/ Baseline \/ Commit \/ ProcessFails

\* The arithmetic of an expression gives a value or, when it divides by zero, no
\* data, or it raises: the error result of a derived metric is that of another one.
NoErrorOfItsOwn ==
    \A m \in Metrics, w \in Windows : kind[m] = "derived" => answer[m][w] # "error"

\* The inputs are any; the call starts with nothing cached or committed.
SessionStart ==
    /\ phase = "build" /\ next = 1 /\ window = 0
    /\ todo = <<>> /\ stack = <<>> /\ seen = {} /\ order = <<>>
    /\ position = 0
    /\ results = [m \in Metrics |-> Nil]
    /\ cache = {} /\ executions = [w \in Windows |-> 0]
    /\ usable = 0
    /\ committed = [m \in Metrics |-> Nil]

SessionInputs ==
    /\ CatalogTypeOK
    /\ answer \in [Metrics -> [Windows -> Answers]]
    /\ NoErrorOfItsOwn
    /\ raises \subseteq Windows
    /\ requested \in Seq(Ids)
    /\ byWindow \in BOOLEAN

SessionSpec == SessionInputs /\ SessionStart /\ [][SessionNext]_sessionVars
-------------------------------------------------------------------------------
(* Properties                                                                   *)

\* The metrics an evaluation is asked for, and what it lists and visits for them.
Requested == {requested[i] : i \in 1 .. Len(requested)}
Asked == IF phase = "process" THEN {Target} ELSE Requested
Listed == {order[i] : i \in 1 .. Len(order)}
Visiting == {stack[k].metric : k \in 1 .. Len(stack)}

\* The visit is over with exactly what the evaluation needs: the metrics that were
\* asked for and all that they are built on.
PlanIsClosure ==
    Running /\ Planned => Listed = UNION {Closure(deps, name) : name \in Asked}

ListedAfterDeps ==
    \A i \in 1 .. Len(order) :
        /\ \A d \in deps[order[i]] : \E j \in 1 .. i - 1 : order[j] = d
        /\ \A j \in 1 .. i - 1 : order[j] # order[i]
        /\ i <= position <=> results[order[i]] # Nil

\* A metric is listed only after everything it depends on, directly or not, once,
\* and an evaluated one has the results of all its dependencies: the order in
\* which _topo_order trusts the visit. When the visit is over, what is listed is
\* what is needed, no less and no more.
DepsFirst == ListedAfterDeps /\ PlanIsClosure

\* Whether a metric below the one of that name is a column of the batch source.
ReadsBatch(name) == \E x \in Closure(deps, name) \cap Metrics : kind[x] = "batch"
AnyReadsBatch == \E name \in Requested : ReadsBatch(name)

RunsOnce == ~byWindow => \A w \in Windows : executions[w] <= 1

\* Within the session of a call with at= the batch source runs at most once for
\* a window, however many metrics read it, and it is the warming run that reads
\* the current window: if no metric needs the source, nothing does.
BatchOnce ==
    /\ RunsOnce
    /\ ~byWindow /\ phase = "process" => executions[0] = IF AnyReadsBatch THEN 1 ELSE 0
    /\ (\E w \in Windows : executions[w] > 0) => AnyReadsBatch

\* The outcome that the definition of the metrics prescribes, from the answers of
\* the calculations alone: an error anywhere below a derived metric is an error,
\* and it has a value only if nothing below it raises.
Uses == [m \in Metrics |-> Identifiers(m)]
Prescribed(m, w) ==
    LET below == {answer[x][w] : x \in Closure(Uses, m)}
    IN IF "error" \in below THEN "error"
       ELSE IF "no_data" \in below THEN "no_data"
       ELSE IF "raises" \in below THEN "raises" ELSE "value"

\* What is committed for a metric is what its definition prescribes: a value if
\* its current window and some baseline window have one, and nothing if a window
\* it needs is in error or raises; neither warming, nor the cache, nor the other
\* metrics of the call, nor dependencies that no expression names have a part in
\* it.
OutcomesAreRight ==
    \A m \in Metrics :
        committed[m] \in {"value", "no_data"} =>
            LET judged == Prescribed(m, 0) = "value"
                based == {Prescribed(m, w) : w \in 1 .. Baselines}
            IN /\ Prescribed(m, 0) \in {"value", "no_data"}
               /\ judged => based \subseteq {"value", "no_data"}
               /\ committed[m] = IF judged /\ "value" \in based THEN "value" ELSE "no_data"

\* The names an evaluation may be about when the call has failed: any request as
\* long as the first metric has not been processed, then only the one at hand.
Concerned == IF next = 1 THEN Requested ELSE {Target}

\* The batch source raised for a metric that is needed. With at= the current window
\* is read before any metric is processed.
SourceRaised ==
    /\ window \in raises
    /\ \E name \in Concerned : ReadsBatch(name)
    /\ ~byWindow /\ window = 0 => next = 1

\* The calculation of a metric that is needed raised in the window at hand, where
\* nothing that the metric uses is in error.
AnswerRaised ==
    \E name \in Concerned : \E x \in Closure(deps, name) \cap Metrics :
        answer[x][window] = "raises" /\ Prescribed(x, window) # "error"

\* A call fails only for a reason of its own: an unknown name; the metric it has
\* come to being in error in the window it has come to; the batch source or the
\* calculation of a metric that is needed raising in that window; the claim of the
\* metric, before anything of it is evaluated; or what comes after all its windows
\* have been asked for (support, impact, investigation, commit). What was processed
\* before stays recorded, in the order of the request, and of the metric at hand
\* something is committed only if it had been decided.
FailuresAreExplained ==
    /\ phase = "failed" =>
         \/ \E i \in 1 .. Len(requested) : requested[i] \notin Metrics
         \/ next <= Len(requested) /\ Prescribed(Target, window) = "error"
         \/ SourceRaised \/ AnswerRaised
         \/ window = 0 /\ todo = <<Target>> /\ seen = {}
         \/ next <= Len(requested) /\ Decided
    /\ \A i \in 1 .. Len(requested) :
          requested[i] \in Metrics =>
             LET processed == \E j \in 1 .. next - 1 : requested[j] = requested[i]
             IN /\ processed => committed[requested[i]] # Nil
                /\ committed[requested[i]] # Nil =>
                      \/ processed
                      \/ phase = "failed" /\ Target = requested[i] /\ Decided
-------------------------------------------------------------------------------
(* Why the order of the plan and the cache are right: the inductive invariant   *)

\* Every visited metric is listed or under visit, once and never both.
VisitedOnce ==
    /\ seen = Listed \cup Visiting
    /\ Listed \cap Visiting = {}
    /\ \A k, l \in 1 .. Len(stack) : stack[k].metric = stack[l].metric => k = l

\* The open visits are a chain of dependencies: what a visit has taken is listed
\* or is the visit above it.
StackIsChain ==
    \A k \in 1 .. Len(stack) :
        /\ stack[k].left \subseteq deps[stack[k].metric]
        /\ k < Len(stack) => stack[k + 1].metric \in deps[stack[k].metric]
        /\ deps[stack[k].metric] \subseteq
              Listed \cup stack[k].left
                     \cup (IF k < Len(stack) THEN {stack[k + 1].metric} ELSE {})

EvaluatedAreListed ==
    \A m \in Metrics : results[m] # Nil => \E i \in 1 .. position : order[i] = m

\* Where the call is: the catalog was accepted, and a metric is being processed.
CallIsOn ==
    /\ Running => Valid
    /\ phase = "process" => next <= Len(requested)
    /\ usable = 0 \/ usable < window

\* A window has a row in the session once its source has run.
RunsAreCached ==
    ~byWindow /\ phase # "failed" => \A w \in Windows \ cache : executions[w] = 0

SessionIInv ==
    /\ VisitedOnce
    /\ StackIsChain
    /\ EvaluatedAreListed
    /\ CallIsOn
    /\ RunsAreCached
    /\ ListedAfterDeps
    /\ RunsOnce
-------------------------------------------------------------------------------
(* Why the outcomes and the failures are right: the inductive invariant         *)

\* A result is the one prescribed for the window that is evaluated.
ResultsAreRight ==
    Running => \A m \in Metrics : results[m] # Nil => results[m] = Prescribed(m, window)

\* The metric that is processed is planned, or about to be and nothing else is.
TargetIsPlanned ==
    phase = "process" =>
        \/ todo = <<Target>> /\ seen = {}
        \/ todo = <<>> /\ Target \in seen

\* Baselines are asked for only after a value of the current window; none that
\* was asked for is in error or raises, and what is counted are their values.
BaselinesAreCounted ==
    phase = "process" =>
        /\ window > 0 => Prescribed(Target, 0) = "value"
        /\ \A w \in 1 .. window - 1 : Prescribed(Target, w) \in {"value", "no_data"}
        /\ usable > 0 <=> \E w \in 1 .. window - 1 : Prescribed(Target, w) = "value"

\* Whatever is asked for is visited or will be, and what is visited lies below it.
VisitsAreRequested ==
    Running =>
        /\ \A k \in 1 .. Len(todo) : todo[k] \in Asked
        /\ \A name \in Asked \ seen : \E k \in 1 .. Len(todo) : todo[k] = name
        /\ \A m \in seen : \E name \in Asked : m \in Closure(deps, name)

\* A column was read from a row that the session holds, and a row was read by a run
\* of the source; warming is about the current window.
RowsWereRead ==
    /\ Running =>
         \A m \in Metrics : results[m] # Nil /\ kind[m] = "batch" => window \in cache
    /\ \A w \in cache : executions[w] > 0
    /\ phase \in {"build", "warm"} => window = 0

\* The metrics with an outcome are those the call has come past, and perhaps the
\* one whose process failed after it was decided.
CommittedSoFar ==
    /\ phase \in {"build", "warm"} => next = 1
    /\ \A m \in Metrics :
          LET processed == \E j \in 1 .. next - 1 : requested[j] = m
          IN /\ processed => committed[m] # Nil
             /\ committed[m] # Nil => processed \/ (phase = "failed" /\ Target = m /\ Decided)

OutcomeIInv ==
    /\ NoErrorOfItsOwn
    /\ ResultsAreRight
    /\ TargetIsPlanned
    /\ BaselinesAreCounted
    /\ VisitsAreRequested
    /\ CommittedSoFar
    /\ RowsWereRead
    /\ BatchOnce
    /\ OutcomesAreRight
    /\ FailuresAreExplained
================================================================================
