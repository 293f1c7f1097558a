----------------------------- MODULE MetricCatalog -----------------------------
(* The validated catalog of metrics (catalog.py) that the evaluation session    *)
(* and the investigation read. Construction refuses a dependency that does not  *)
(* exist, a cycle, and a derived metric whose expression names a metric it does *)
(* not declare; afterwards a catalog never changes.                             *)
(*                                                                              *)
(* A metric is the set of its declared dependencies and its calculation: a      *)
(* query of its own (formula or SQL), a column of the shared batch source, or   *)
(* an expression over the metrics it names. The order of the tuple of           *)
(* dependencies is left open: whoever walks over it takes any order.            *)
EXTENDS Naturals, Sequences, FiniteSets, Functions

CONSTANTS Metrics,      \* the ids of the catalog
          Unknown       \* an id that is not in the catalog

ASSUME CatalogAssumption == IsFiniteSet(Metrics) /\ Unknown \notin Metrics

VARIABLES deps,         \* metric -> its declared dependencies
          kind,         \* metric -> how it is calculated
          names         \* metric -> the identifiers of its expression

catalog == <<deps, kind, names>>

Ids == Metrics \cup {Unknown}
Kinds == {"query", "batch", "derived"}

CatalogTypeOK ==
    /\ deps \in [Metrics -> SUBSET Ids]
    /\ kind \in [Metrics -> Kinds]
    /\ names \in [Metrics -> SUBSET Ids]

-------------------------------------------------------------------------------

\* Identifiers that a calculation refers to: only a derived one has any.
Identifiers(m) == IF kind[m] = "derived" THEN names[m] ELSE {}

Known == \A m \in Metrics : deps[m] \subseteq Metrics

\* nx.is_directed_acyclic_graph: every set of metrics has one that depends on
\* none of them.
Acyclic == \A S \in SUBSET Metrics : S # {} => \E m \in S : deps[m] \cap S = {}

DerivedDeclared == \A m \in Metrics : Identifiers(m) \subseteq deps[m]

Valid == Known /\ Acyclic /\ DerivedDeclared

\* What m is built on along a relation of the catalog, m included: the smallest
\* set with m that holds what its metrics lead to.
ClosedUnder(edges, S) == \A x \in S \cap Metrics : edges[x] \subseteq S
Closure(edges, m) ==
    LET closed == {S \in SUBSET Ids : m \in S /\ ClosedUnder(edges, S)}
    IN {x \in Ids : \A S \in closed : x \in S}
================================================================================
