----------------------------- MODULE Investigation -----------------------------
(* The investigation of a metric whose incident opens (investigation.py,        *)
(* graph.py) and the incident built from it (incidents.py, ownership.py): every *)
(* metric below it in the catalog is evaluated, the root candidates are marked, *)
(* the explanatory paths are walked, one candidate becomes the primary one, and *)
(* its path the evidence of the incident.                                       *)
(*                                                                              *)
(* The order of paths and candidates is left open, and so is the score (ten     *)
(* points a level and up to fifty for the severity: within five levels any      *)
(* candidate may come first).                                                   *)
EXTENDS MetricCatalog

CONSTANTS Start,        \* the metric that is investigated
          NoMetric      \* no primary candidate

ASSUME InvestigationAssumption == Start \in Metrics /\ NoMetric \notin Ids

VARIABLES anomalous,    \* metrics whose evaluation shows an anomaly
          twoSided,     \* metrics for which no direction is bad
          step,         \* where the investigation is
          open,         \* paths whose end the walk still has to look at
          paths,        \* the explanatory paths found
          primary,      \* the primary explanatory metric, or NoMetric
          evidence      \* the path the incident shows

investigationVars == <<catalog, anomalous, twoSided, step, open, paths, primary, evidence>>

Last(path) == path[Len(path)]

\* The metrics that are evaluated: the ancestors of Start and itself.
Nodes == Closure(deps, Start)

InvestigationTypeOK ==
    /\ CatalogTypeOK
    /\ anomalous \subseteq Metrics
    /\ twoSided \subseteq Metrics
    /\ step \in {"evaluate", "walk", "report", "done", "failed"}
    /\ open \subseteq Seq(Metrics)
    /\ paths \subseteq Seq(Metrics)
    /\ primary \in Metrics \cup {NoMetric}
    /\ evidence \in Seq(Metrics)

-------------------------------------------------------------------------------

\* mark_root_candidates: an anomalous metric with a bad direction, and below it
\* no anomalous dependency that has one.
Blocking(m) == (deps[m] \cap anomalous) \ twoSided

RootCandidates == {m \in Nodes \cap anomalous : m \notin twoSided /\ Blocking(m) = {}}

\* Every metric is evaluated before anything else; one of them without data, or
\* in error, raises out of the investigation.
EvaluateAll ==
    /\ step = "evaluate"
    /\ \/ /\ step' = "walk"
          /\ open' = IF Start \in anomalous THEN {<<Start>>} ELSE {}
       \/ step' = "failed" /\ UNCHANGED open
    /\ UNCHANGED <<catalog, anomalous, twoSided, paths, primary, evidence>>

\* Mutant: the walk does not follow two-sided metrics.
MutDirectionalOnly(path) == (deps[Last(path)] \cap anomalous) \ (Range(path) \cup twoSided)

\* find_explanatory_paths: a path goes on with every anomalous dependency of its
\* end that it does not hold yet.
Onward(path) == (deps[Last(path)] \cap anomalous) \ Range(path)

Walk ==
    /\ step = "walk"
    /\ \E path \in open :
          /\ open' = (open \ {path}) \cup {Append(path, d) : d \in Onward(path)}
          /\ paths' = paths \cup (IF Onward(path) = {} THEN {path} ELSE {})
    /\ UNCHANGED <<catalog, anomalous, twoSided, step, primary, evidence>>

\* rank_explanatory_candidates and primary_explanatory.
Rank ==
    /\ step = "walk" /\ open = {}
    /\ step' = "report"
    /\ \/ RootCandidates = {} /\ primary' = NoMetric
       \/ primary' \in RootCandidates
    /\ UNCHANGED <<catalog, anomalous, twoSided, open, paths, evidence>>

\* preferred_explanatory_path: to the primary candidate, else to a preferred
\* leaf, else the longest, else the metric alone.
PathsTo(ends) == {path \in paths : Last(path) \in ends}
Longest == {path \in paths : \A other \in paths : Len(other) <= Len(path)}

\* Mutant: a preferred leaf comes before the primary candidate.
MutLeavesFirst(leaves) ==
    IF PathsTo(leaves) # {} THEN PathsTo(leaves)
    ELSE IF PathsTo({primary}) # {} THEN PathsTo({primary})
    ELSE IF paths # {} THEN Longest
    ELSE {<<Start>>}

PreferredPaths(leaves) ==
    IF PathsTo({primary}) # {} THEN PathsTo({primary})
    ELSE IF PathsTo(leaves) # {} THEN PathsTo(leaves)
    ELSE IF paths # {} THEN Longest
    ELSE {<<Start>>}

Report ==
    /\ step = "report"
    /\ step' = "done"
    /\ \E leaves \in SUBSET Metrics : evidence' \in PreferredPaths(leaves)
    /\ UNCHANGED <<catalog, anomalous, twoSided, open, paths, primary>>

\* incident_from_investigation: who is alerted, and what the alert stands for.
ExplanatoryKpi == IF primary # NoMetric THEN primary ELSE Start
SuppressedAncestors == Range(evidence) \ {ExplanatoryKpi}

InvestigationNext == EvaluateAll \/ Walk \/ Rank \/ Report

\* The catalog is one that construction accepted.
InvestigationInputs ==
    /\ CatalogTypeOK /\ Valid
    /\ anomalous \subseteq Metrics
    /\ twoSided \subseteq Metrics

InvestigationStart ==
    /\ step = "evaluate"
    /\ open = {} /\ paths = {}
    /\ primary = NoMetric /\ evidence = <<>>

InvestigationSpec ==
    InvestigationInputs /\ InvestigationStart /\ [][InvestigationNext]_investigationVars
-------------------------------------------------------------------------------
(* Properties                                                                   *)

\* A chain of anomalies from Start down the dependencies.
IsChain(path) ==
    /\ path # <<>> /\ path[1] = Start
    /\ \A i \in 1 .. Len(path) : path[i] \in anomalous
    /\ \A i \in 1 .. Len(path) - 1 : path[i + 1] \in deps[path[i]]

\* Such a chain that cannot be continued.
IsExplanation(path) == IsChain(path) /\ deps[Last(path)] \cap anomalous = {}

\* Every sequence of metrics that is long enough to hold each of them once.
Routes == UNION {[1 .. n -> Metrics] : n \in 1 .. Cardinality(Metrics)}

\* The walk finds the chains of anomalies from Start that end where no dependency
\* is anomalous, all of them and nothing else: a path does not stop early because
\* two of them share a metric, nor go through a normal one.
PathsAreExact ==
    step \in {"report", "done"} => paths = {path \in Routes : IsExplanation(path)}

\* What the walk finds, at any time, is an explanation.
PathsExplain == \A path \in paths : IsExplanation(path)

\* The evidence of an incident starts at its metric and is a chain of anomalies
\* that cannot be continued; it leads to the metric whose owner is alerted
\* whenever a chain does, and what it then stands for are ancestors of that
\* metric. An anomalous metric with a bad direction always has a candidate.
EvidenceExplains ==
    (step = "done" /\ Start \in anomalous) =>
        /\ IsExplanation(evidence)
        /\ (\E path \in paths : Last(path) = primary) => Last(evidence) = primary
        /\ Last(evidence) = primary =>
              \A m \in SuppressedAncestors : ExplanatoryKpi \in Closure(deps, m)
        /\ Start \notin twoSided => primary # NoMetric /\ Blocking(primary) = {}
-------------------------------------------------------------------------------
(* Why no explanation is missed and the evidence is one: the inductive invariant *)

\* Every path under way is a chain of anomalies.
OpenChains == \A path \in open : IsChain(path)

Begins(path, longer) ==
    Len(path) <= Len(longer) /\ \A i \in 1 .. Len(path) : path[i] = longer[i]

\* An explanation has been found, or a path under way leads to it.
NothingMissed ==
    step \in {"walk", "report", "done"} =>
        \A longer \in Routes :
            IsExplanation(longer) => longer \in paths \/ \E path \in open : Begins(path, longer)

\* The walk of an anomalous metric never comes to nothing, and is complete when
\* the candidates are ranked.
WalkGoesOn ==
    /\ open # {} => Start \in anomalous
    /\ step \in {"walk", "report", "done"} /\ Start \in anomalous => open # {} \/ paths # {}
    /\ step \in {"report", "done"} => open = {}

\* The primary metric is a root candidate, if there is one.
PrimaryIsCandidate ==
    step \in {"report", "done"} =>
        IF RootCandidates = {} THEN primary = NoMetric ELSE primary \in RootCandidates

\* The evidence is one of the paths, and one to the primary metric if there is any.
EvidenceIsPath ==
    step = "done" /\ paths # {} =>
        /\ evidence \in paths
        /\ PathsTo({primary}) # {} => Last(evidence) = primary

InvestigationIInv ==
    /\ Valid
    /\ OpenChains
    /\ PathsExplain
    /\ NothingMissed
    /\ WalkGoesOn
    /\ PrimaryIsCandidate
    /\ EvidenceIsPath
================================================================================
