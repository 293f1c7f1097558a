--------------------------- MODULE InvestigationProofs ---------------------------
(* Proofs about the catalog and the investigation, for any catalog and any      *)
(* anomalies: what a closure contains, types, that the walk finds exactly the   *)
(* explanations, and that the evidence of the incident is one of them.          *)
EXTENDS Investigation, FiniteSetTheorems, SequenceTheorems, TLAPS

-------------------------------------------------------------------------------
(* Sequences                                                                    *)

LEMMA Appended ==
  ASSUME NEW S, NEW s \in Seq(S), NEW e \in S
  PROVE  /\ Append(s, e) \in Seq(S)
         /\ Len(s) \in Nat
         /\ Len(Append(s, e)) = Len(s) + 1
         /\ \A i \in 1 .. Len(s) : Append(s, e)[i] = s[i]
         /\ Append(s, e)[Len(s) + 1] = e
  OBVIOUS

LEMMA Replaced ==
  ASSUME NEW S, NEW s \in Seq(S), NEW k \in 1 .. Len(s), NEW e \in S
  PROVE  /\ [s EXCEPT ![k] = e] \in Seq(S)
         /\ Len([s EXCEPT ![k] = e]) = Len(s)
         /\ \A i \in 1 .. Len(s) :
               [s EXCEPT ![k] = e][i] = IF i = k THEN e ELSE s[i]
  BY ExceptSeq

LEMMA Shortened ==
  ASSUME NEW S, NEW s \in Seq(S), s # <<>>
  PROVE  /\ SubSeq(s, 1, Len(s) - 1) \in Seq(S)
         /\ Len(s) \in Nat \ {0}
         /\ Len(SubSeq(s, 1, Len(s) - 1)) = Len(s) - 1
         /\ \A i \in 1 .. Len(s) - 1 : SubSeq(s, 1, Len(s) - 1)[i] = s[i]
<1>1. Len(s) \in Nat \ {0}
  BY EmptySeq
<1>2. \A i \in 1 .. Len(s) - 1 : s[i] \in S
  BY <1>1
<1>3. /\ SubSeq(s, 1, Len(s) - 1) \in Seq(S)
      /\ Len(SubSeq(s, 1, Len(s) - 1)) =
            IF 1 <= Len(s) - 1 THEN Len(s) - 1 - 1 + 1 ELSE 0
      /\ \A i \in 1 .. Len(s) - 1 - 1 + 1 :
            SubSeq(s, 1, Len(s) - 1)[i] = s[1 + i - 1]
  BY <1>1, <1>2, SubSeqProperties
<1> DEFINE t == SubSeq(s, 1, Len(s) - 1)
<1> HIDE DEF t
<1>4. /\ t \in Seq(S)
      /\ Len(t) = IF 1 <= Len(s) - 1 THEN Len(s) - 1 - 1 + 1 ELSE 0
      /\ \A i \in 1 .. Len(s) - 1 - 1 + 1 : t[i] = s[1 + i - 1]
  BY <1>3 DEF t
<1>5. Len(t) = Len(s) - 1
  <2>1. PICK n \in Nat \ {0} : n = Len(s)
    BY <1>1
  <2>2. Len(t) = IF 1 <= n - 1 THEN n - 1 - 1 + 1 ELSE 0
    BY <1>4, <2>1
  <2>3. 1 <= n - 1 => n - 1 - 1 + 1 = n - 1
    OBVIOUS
  <2>4. ~ (1 <= n - 1) => 0 = n - 1
    OBVIOUS
  <2>. QED
    BY <2>1, <2>2, <2>3, <2>4
<1>6. ASSUME NEW i \in 1 .. Len(s) - 1 PROVE t[i] = s[i]
  <2>1. i \in 1 .. Len(s) - 1 - 1 + 1 /\ 1 + i - 1 = i
    BY <1>1
  <2>2. t[i] = s[1 + i - 1]
    BY <1>4, <2>1
  <2>. QED
    BY <2>1, <2>2
<1>. QED
  BY <1>1, <1>4, <1>5, <1>6 DEF t

-------------------------------------------------------------------------------
(* Closures                                                                     *)

\* A closure holds what it is taken of, and what its metrics lead to.
LEMMA ClosureIsClosed ==
  ASSUME NEW edges \in [Metrics -> SUBSET Ids], NEW m \in Ids
  PROVE  /\ Closure(edges, m) \subseteq Ids /\ m \in Closure(edges, m)
         /\ ClosedUnder(edges, Closure(edges, m))
<1> DEFINE C == Closure(edges, m)
           good(S) == S \in SUBSET Ids /\ m \in S /\ ClosedUnder(edges, S)
<1>1. C = {x \in Ids : \A S : good(S) => x \in S}
  BY DEF Closure
<1>2. ASSUME NEW x \in C \cap Metrics, NEW y \in edges[x] PROVE y \in C
  <2>1. y \in Ids
    OBVIOUS
  <2>2. ASSUME NEW S, good(S) PROVE y \in S
    <3>1. x \in S
      BY <1>1, <2>2
    <3>. QED
      BY <2>2, <3>1 DEF ClosedUnder
  <2>. QED
    BY <1>1, <2>1, <2>2
<1>. QED
  BY <1>1, <1>2 DEF ClosedUnder

\* Nothing else: it lies in every such set.
LEMMA ClosureIsLeast ==
  ASSUME NEW edges, NEW m, NEW S \in SUBSET Ids, m \in S, ClosedUnder(edges, S)
  PROVE  Closure(edges, m) \subseteq S
  BY DEF Closure

\* What a metric leads to is built on nothing that the metric is not built on.
LEMMA ClosureGrows ==
  ASSUME NEW edges \in [Metrics -> SUBSET Ids], NEW m \in Ids,
         NEW x \in Closure(edges, m)
  PROVE  Closure(edges, x) \subseteq Closure(edges, m)
  BY ClosureIsClosed, ClosureIsLeast

\* A metric is built on itself and on what its dependencies are built on.
LEMMA ClosureUnfolds ==
  ASSUME NEW edges \in [Metrics -> SUBSET Ids], NEW m \in Metrics
  PROVE  Closure(edges, m) = {m} \cup UNION {Closure(edges, x) : x \in edges[m]}
<1> DEFINE below == UNION {Closure(edges, x) : x \in edges[m]}
<1>1. m \in Ids /\ \A x \in edges[m] : x \in Ids
  BY DEF Ids
<1>2. \A x \in edges[m] : /\ x \in Closure(edges, x) /\ Closure(edges, x) \subseteq Ids
                          /\ ClosedUnder(edges, Closure(edges, x))
  BY <1>1, ClosureIsClosed
<1>3. {m} \cup below \subseteq Ids
  BY <1>1, <1>2
<1>4. ClosedUnder(edges, {m} \cup below)
  <2>1. ASSUME NEW y \in ({m} \cup below) \cap Metrics, NEW z \in edges[y]
        PROVE  z \in below
    <3>1. CASE y = m
      BY <1>2, <2>1, <3>1
    <3>2. CASE y \in below
      <4>1. PICK x \in edges[m] : y \in Closure(edges, x)
        BY <3>2
      <4>2. z \in Closure(edges, x)
        BY <1>2, <2>1, <4>1 DEF ClosedUnder
      <4>. QED
        BY <4>2
    <3>. QED
      BY <2>1, <3>1, <3>2
  <2>. QED
    BY <2>1 DEF ClosedUnder
<1>5. Closure(edges, m) \subseteq {m} \cup below
  BY <1>3, <1>4, ClosureIsLeast
<1>6. ASSUME NEW x \in edges[m] PROVE Closure(edges, x) \subseteq Closure(edges, m)
  <2>1. x \in Closure(edges, m)
    BY <1>1, ClosureIsClosed DEF ClosedUnder
  <2>. QED
    BY <1>1, <2>1, ClosureGrows
<1>7. m \in Closure(edges, m)
  BY <1>1, ClosureIsClosed
<1>. QED
  BY <1>5, <1>6, <1>7

LEMMA ClosureOfMetrics ==
  ASSUME NEW edges \in [Metrics -> SUBSET Metrics], NEW m \in Metrics
  PROVE  Closure(edges, m) \subseteq Metrics
<1>1. Metrics \in SUBSET Ids /\ ClosedUnder(edges, Metrics)
  BY DEF Ids, ClosedUnder
<1>. QED
  BY <1>1, ClosureIsLeast

-------------------------------------------------------------------------------
(* The investigation                                                            *)

\* The investigated metric is anomalous if there is anything to walk, and all
\* that the walk holds or has found are chains of anomalies.
ChainInv ==
    /\ InvestigationTypeOK /\ Valid
    /\ open # {} => Start \in anomalous
    /\ OpenChains /\ PathsExplain

\* In an acyclic catalog no metric depends on one that a chain to it holds: the
\* visited set of the walk cuts nothing off.
LEMMA ChainsDoNotReturn ==
  ASSUME InvestigationTypeOK, Acyclic, NEW path \in Seq(Metrics), IsChain(path)
  PROVE  deps[Last(path)] \cap Range(path) = {}
<1> SUFFICES ASSUME NEW m \in deps[Last(path)], m \in Range(path) PROVE FALSE
  OBVIOUS
<1>1. PICK n \in Nat \ {0} : n = Len(path)
  BY EmptySeq DEF IsChain
<1>2. PICK j \in 1 .. n : m = path[j]
  BY <1>1 DEF Range
<1> DEFINE S == {path[k] : k \in j .. n}
<1>3. S \subseteq Metrics /\ m \in S
  <2>1. j \in j .. n /\ \A k \in j .. n : path[k] \in Metrics
    BY <1>1, <1>2
  <2>. QED
    BY <1>2, <2>1
<1>4. PICK x \in S : deps[x] \cap S = {}
  BY <1>3 DEF Acyclic
<1>5. PICK k \in j .. n : x = path[k]
  BY <1>4
<1>6. CASE k = n
  BY <1>1, <1>3, <1>4, <1>5, <1>6 DEF Last
<1>7. CASE k < n
  <2>1. path[k + 1] \in deps[x]
    BY <1>1, <1>2, <1>5, <1>7 DEF IsChain
  <2>2. k + 1 \in j .. n
    BY <1>2, <1>5, <1>7
  <2>. QED
    BY <1>4, <2>1, <2>2
<1>. QED
  BY <1>2, <1>5, <1>6, <1>7

LEMMA ChainGoesOn ==
  ASSUME InvestigationTypeOK, NEW path \in Seq(Metrics), IsChain(path), NEW d \in Onward(path)
  PROVE  Append(path, d) \in Seq(Metrics) /\ IsChain(Append(path, d))
<1>1. d \in Metrics /\ d \in anomalous /\ d \in deps[Last(path)]
  BY DEF Onward, InvestigationTypeOK
<1>2. PICK n \in Nat \ {0} : n = Len(path)
  BY EmptySeq DEF IsChain
<1>3. PICK longer \in Seq(Metrics) :
        /\ longer = Append(path, d) /\ Len(longer) = n + 1
        /\ \A i \in 1 .. n : longer[i] = path[i]
        /\ longer[n + 1] = d
  BY <1>1, <1>2, Appended
<1>4. longer # <<>> /\ longer[1] = Start
  BY <1>2, <1>3 DEF IsChain
<1>5. ASSUME NEW i \in 1 .. n + 1 PROVE longer[i] \in anomalous
  <2>1. i \in 1 .. n => longer[i] \in anomalous
    BY <1>2, <1>3 DEF IsChain
  <2>. QED
    BY <1>1, <1>3, <2>1
<1>6. ASSUME NEW i \in 1 .. n PROVE longer[i + 1] \in deps[longer[i]]
  <2>1. CASE i = n
    BY <1>1, <1>2, <1>3, <2>1 DEF Last
  <2>2. CASE i < n
    <3>1. i \in 1 .. n - 1 /\ i + 1 \in 1 .. n
      BY <2>2
    <3>2. path[i + 1] \in deps[path[i]]
      BY <1>2, <3>1 DEF IsChain
    <3>. QED
      BY <1>3, <3>1, <3>2
  <2>. QED
    BY <2>1, <2>2
<1>7. IsChain(longer)
  BY <1>3, <1>4, <1>5, <1>6 DEF IsChain
<1>. QED
  BY <1>3, <1>7

LEMMA SameChains ==
  ASSUME UNCHANGED <<catalog, anomalous>>
  PROVE  \A path : /\ IsChain(path)' <=> IsChain(path)
                   /\ IsExplanation(path)' <=> IsExplanation(path)
  BY DEF catalog, IsChain, IsExplanation, Last

LEMMA ChainsStart == InvestigationInputs /\ InvestigationStart => ChainInv
<1> SUFFICES ASSUME InvestigationInputs, InvestigationStart PROVE ChainInv
  OBVIOUS
<1>1. evidence \in Seq(Metrics) /\ open = {} /\ paths = {}
  BY DEF InvestigationStart
<1>. QED
  BY <1>1 DEF InvestigationInputs, InvestigationStart, ChainInv,
             InvestigationTypeOK, OpenChains, PathsExplain

LEMMA NextChains ==
  ChainInv /\ [InvestigationNext]_investigationVars => ChainInv'
<1> SUFFICES ASSUME ChainInv, [InvestigationNext]_investigationVars
             PROVE  ChainInv'
  OBVIOUS
<1>0. /\ InvestigationTypeOK /\ Valid /\ Acyclic /\ OpenChains /\ PathsExplain
      /\ open # {} => Start \in anomalous
      /\ <<Start>> \in Seq(Metrics)
  BY InvestigationAssumption DEF ChainInv, Valid
<1>1. UNCHANGED <<catalog, anomalous>> =>
         /\ Valid' /\ CatalogTypeOK'
         /\ \A path : IsChain(path)' <=> IsChain(path)
         /\ \A path : IsExplanation(path)' <=> IsExplanation(path)
  BY <1>0, SameChains DEF catalog, Valid, Known, Acyclic, DerivedDeclared, Identifiers,
             InvestigationTypeOK, CatalogTypeOK
<1>2. CASE EvaluateAll
  <2>1. CASE open' = open
    BY <1>0, <1>1, <1>2, <2>1
    DEF EvaluateAll, ChainInv, InvestigationTypeOK, OpenChains, PathsExplain
  <2>2. CASE open' # open
    <3>1. open' = IF Start \in anomalous THEN {<<Start>>} ELSE {}
      BY <1>2, <2>2 DEF EvaluateAll
    <3>2. Start \in anomalous => IsChain(<<Start>>)
      BY DEF IsChain
    <3>3. open' \subseteq Seq(Metrics) /\ (open' # {} => Start \in anomalous)
      BY <1>0, <3>1
    <3>4. \A path \in open' : IsChain(path)
      BY <3>1, <3>2
    <3>. QED
      BY <1>0, <1>1, <1>2, <3>3, <3>4
      DEF EvaluateAll, ChainInv, InvestigationTypeOK, OpenChains, PathsExplain
  <2>. QED
    BY <2>1, <2>2
<1>3. CASE Walk
  <2>1. PICK path \in open :
          /\ open' = (open \ {path}) \cup {Append(path, d) : d \in Onward(path)}
          /\ paths' = paths \cup (IF Onward(path) = {} THEN {path} ELSE {})
    BY <1>3 DEF Walk
  <2>2. path \in Seq(Metrics) /\ IsChain(path)
    BY <1>0 DEF InvestigationTypeOK, OpenChains
  <2>3. \A d \in Onward(path) : Append(path, d) \in Seq(Metrics) /\ IsChain(Append(path, d))
    BY <1>0, <2>2, ChainGoesOn
  <2>4. Onward(path) = {} => IsExplanation(path)
    BY <1>0, <2>2, ChainsDoNotReturn DEF Onward, IsExplanation
  <2>5. open' \subseteq Seq(Metrics) /\ \A other \in open' : IsChain(other)
    BY <1>0, <2>1, <2>3 DEF InvestigationTypeOK, OpenChains
  <2>6. paths' \subseteq Seq(Metrics) /\ \A other \in paths' : IsExplanation(other)
    BY <1>0, <2>1, <2>2, <2>4 DEF InvestigationTypeOK, PathsExplain
  <2>. QED
    BY <1>0, <1>1, <1>3, <2>5, <2>6
    DEF Walk, ChainInv, InvestigationTypeOK, OpenChains, PathsExplain
<1>4. CASE Rank
  <2>1. primary' \in Metrics \cup {NoMetric}
    BY <1>0, <1>4 DEF Rank, RootCandidates, InvestigationTypeOK
  <2>. QED
    BY <1>0, <1>1, <1>4, <2>1
    DEF Rank, ChainInv, InvestigationTypeOK, OpenChains, PathsExplain
<1>5. CASE Report
  <2>1. PICK leaves \in SUBSET Metrics : evidence' \in PreferredPaths(leaves)
    BY <1>5 DEF Report
  <2>2. evidence' \in paths \cup {<<Start>>}
    BY <2>1 DEF PreferredPaths, PathsTo, Longest
  <2>. QED
    BY <1>0, <1>1, <1>5, <2>2
    DEF Report, ChainInv, InvestigationTypeOK, OpenChains, PathsExplain
<1>6. CASE UNCHANGED investigationVars
  BY <1>0, <1>1, <1>6
  DEF investigationVars, ChainInv, InvestigationTypeOK, OpenChains, PathsExplain
<1>. QED
  BY <1>2, <1>3, <1>4, <1>5, <1>6 DEF InvestigationNext

-------------------------------------------------------------------------------
(* The walk finds every explanation                                             *)

\* A chain of an acyclic catalog holds no metric twice.
LEMMA ChainIsSimple ==
  ASSUME InvestigationTypeOK, Acyclic, NEW path \in Seq(Metrics), IsChain(path),
         NEW i \in 1 .. Len(path), NEW j \in 1 .. Len(path), i < j
  PROVE  path[i] # path[j]
<1> SUFFICES ASSUME path[i] = path[j] PROVE FALSE
  OBVIOUS
<1> DEFINE S == {path[k] : k \in i .. j - 1}
<1>1. S \subseteq Metrics /\ path[j] \in S
  <2>1. i \in i .. j - 1
    OBVIOUS
  <2>2. \A k \in i .. j - 1 : path[k] \in Metrics
    OBVIOUS
  <2>. QED
    BY <2>1, <2>2
<1>2. PICK x \in S : deps[x] \cap S = {}
  BY <1>1 DEF Acyclic
<1>3. PICK k \in i .. j - 1 : x = path[k]
  BY <1>2
<1>4. path[k + 1] \in deps[x]
  BY <1>3 DEF IsChain
<1>5. path[k + 1] \in S
  <2>1. CASE k = j - 1
    BY <1>1, <2>1
  <2>2. CASE k < j - 1
    <3>1. k + 1 \in i .. j - 1
      BY <1>3, <2>2
    <3>. QED
      BY <3>1
  <2>. QED
    BY <1>3, <2>1, <2>2
<1>. QED
  BY <1>2, <1>4, <1>5

\* So it is at most as long as there are metrics.
LEMMA ChainIsRoute ==
  ASSUME InvestigationTypeOK, Acyclic, NEW path \in Seq(Metrics), IsChain(path)
  PROVE  path \in Routes
<1>1. PICK n \in Nat \ {0} : n = Len(path)
  BY EmptySeq DEF IsChain
<1>2. path \in [1 .. n -> Metrics]
  BY <1>1
<1>3. \A i, j \in 1 .. n : path[i] = path[j] => i = j
  <2>1. ASSUME NEW i \in 1 .. n, NEW j \in 1 .. n, path[i] = path[j], i # j
        PROVE  FALSE
    <3>1. i < j \/ j < i
      BY <2>1
    <3>. QED
      BY <1>1, <2>1, <3>1, ChainIsSimple
  <2>. QED
    BY <2>1
<1>4. path \in Injection(1 .. n, Metrics)
  BY <1>2, <1>3 DEF Injection, IsInjective
<1>5. Cardinality(1 .. n) <= Cardinality(Metrics) /\ Cardinality(Metrics) \in Nat
  BY <1>4, CatalogAssumption, FS_Injection, FS_CardinalityType
<1>6. Cardinality(1 .. n) = n
  <2>1. 1 \in Int /\ n \in Int
    BY <1>1
  <2>2. Cardinality(1 .. n) = IF 1 > n THEN 0 ELSE n - 1 + 1
    BY ONLY <2>1, FS_Interval
  <2>. QED
    BY <1>1, <2>2
<1>7. n \in 1 .. Cardinality(Metrics)
  BY <1>1, <1>5, <1>6
<1>. QED
  BY <1>2, <1>7 DEF Routes

LEMMA RouteIsPath ==
  ASSUME NEW route \in Routes
  PROVE  route \in Seq(Metrics) /\ Len(route) \in Nat \ {0}
<1>1. Cardinality(Metrics) \in Nat
  BY CatalogAssumption, FS_CardinalityType
<1>2. PICK n \in 1 .. Cardinality(Metrics) : route \in [1 .. n -> Metrics]
  BY DEF Routes
<1>. QED
  BY <1>1, <1>2

\* A path under way that an explanation goes on from is taken on towards it.
LEMMA WalkTowards ==
  ASSUME ChainInv, NEW path \in open, NEW longer \in Routes, IsExplanation(longer),
         Begins(path, longer)
  PROVE  \/ path = longer /\ Onward(path) = {}
         \/ \E d \in Onward(path) : Begins(Append(path, d), longer)
<1>1. /\ path \in Seq(Metrics) /\ longer \in Seq(Metrics) /\ IsChain(path) /\ IsChain(longer)
      /\ deps[Last(longer)] \cap anomalous = {}
  BY RouteIsPath DEF ChainInv, OpenChains, InvestigationTypeOK, IsExplanation
<1>2. PICK n \in Nat \ {0} : n = Len(path)
  BY <1>1, EmptySeq DEF IsChain
<1>3. PICK l \in Nat \ {0} : l = Len(longer)
  BY RouteIsPath
<1>4. n <= l /\ \A i \in 1 .. n : path[i] = longer[i]
  BY <1>2, <1>3 DEF Begins
<1>5. CASE n = l
  <2>1. path = longer
    BY <1>1, <1>2, <1>3, <1>4, <1>5, SeqEqual
  <2>2. Onward(path) = {}
    BY <1>1, <2>1 DEF Onward
  <2>. QED
    BY <2>1, <2>2
<1>6. CASE n < l
  <2> DEFINE d == longer[n + 1]
  <2>1. d \in deps[Last(path)] /\ d \in anomalous /\ d \in Metrics
    <3>1. longer[n + 1] \in deps[longer[n]] /\ longer[n + 1] \in anomalous
      BY <1>1, <1>3, <1>6 DEF IsChain
    <3>2. Last(path) = longer[n]
      BY <1>2, <1>4 DEF Last
    <3>. QED
      BY <1>1, <1>3, <1>6, <3>1, <3>2
  <2>2. d \in Onward(path)
    <3>1. deps[Last(path)] \cap Range(path) = {}
      BY <1>1, ChainsDoNotReturn DEF ChainInv, Valid
    <3>. QED
      BY <2>1, <3>1 DEF Onward
  <2>3. /\ Len(Append(path, d)) = n + 1
        /\ \A i \in 1 .. n : Append(path, d)[i] = path[i]
        /\ Append(path, d)[n + 1] = d
    BY <1>1, <1>2, <2>1, Appended
  <2>4. \A i \in 1 .. n + 1 : Append(path, d)[i] = longer[i]
    <3>1. \A i \in 1 .. n + 1 : i \in 1 .. n \/ i = n + 1
      OBVIOUS
    <3>. QED
      BY <1>4, <2>3, <3>1
  <2>5. Begins(Append(path, d), longer)
    BY <1>3, <1>6, <2>3, <2>4 DEF Begins
  <2>. QED
    BY <2>2, <2>5
<1>. QED
  BY <1>4, <1>5, <1>6

LEMMA NextNothingMissed ==
  ASSUME ChainInv, NothingMissed, [InvestigationNext]_investigationVars
  PROVE  NothingMissed'
<1> SUFFICES ASSUME step' \in {"walk", "report", "done"}, NEW longer \in Routes,
                    IsExplanation(longer)'
             PROVE  longer \in paths' \/ \E path \in open' : Begins(path, longer)
  BY DEF NothingMissed
<1>0. UNCHANGED <<catalog, anomalous>>
  BY DEF InvestigationNext, EvaluateAll, Walk, Rank, Report, investigationVars
<1>1. IsExplanation(longer)
  BY <1>0, SameChains
<1>2. CASE EvaluateAll
  <2>1. longer # <<>> /\ longer[1] = Start /\ Len(longer) \in Nat \ {0}
    BY <1>1, RouteIsPath DEF IsExplanation, IsChain
  <2>2. Start \in anomalous
    BY <1>1, <2>1 DEF IsExplanation, IsChain
  <2>3. open' = {<<Start>>}
    BY <1>2, <2>2 DEF EvaluateAll
  <2>4. Begins(<<Start>>, longer)
    BY <2>1 DEF Begins
  <2>. QED
    BY <2>3, <2>4
<1>3. CASE Walk
  <2>1. PICK path \in open :
          /\ open' = (open \ {path}) \cup {Append(path, d) : d \in Onward(path)}
          /\ paths' = paths \cup (IF Onward(path) = {} THEN {path} ELSE {})
    BY <1>3 DEF Walk
  <2>2. longer \in paths \/ \E other \in open : Begins(other, longer)
    BY <1>1, <1>3 DEF Walk, NothingMissed
  <2>3. CASE longer \in paths
    BY <2>1, <2>3
  <2>4. CASE \E other \in open \ {path} : Begins(other, longer)
    BY <2>1, <2>4
  <2>5. CASE Begins(path, longer)
    <3>1. \/ path = longer /\ Onward(path) = {}
          \/ \E d \in Onward(path) : Begins(Append(path, d), longer)
      BY <1>1, <2>5, WalkTowards
    <3>. QED
      BY <2>1, <3>1
  <2>. QED
    BY <2>2, <2>3, <2>4, <2>5
<1>4. CASE Rank \/ Report \/ UNCHANGED investigationVars
  <2>1. UNCHANGED <<open, paths>> /\ step \in {"walk", "report", "done"}
    BY <1>4 DEF Rank, Report, investigationVars
  <2>. QED
    BY <1>1, <2>1 DEF NothingMissed
<1>. QED
  BY <1>2, <1>3, <1>4 DEF InvestigationNext

LEMMA NextWalkGoesOn ==
  ASSUME WalkGoesOn, [InvestigationNext]_investigationVars
  PROVE  WalkGoesOn'
<1>1. CASE EvaluateAll
  BY <1>1 DEF EvaluateAll, WalkGoesOn
<1>2. CASE Walk
  <2>1. PICK path \in open :
          /\ open' = (open \ {path}) \cup {Append(path, d) : d \in Onward(path)}
          /\ paths' = paths \cup (IF Onward(path) = {} THEN {path} ELSE {})
    BY <1>2 DEF Walk
  <2>2. CASE Onward(path) = {}
    BY <1>2, <2>1, <2>2 DEF Walk, WalkGoesOn
  <2>3. CASE Onward(path) # {}
    <3>1. PICK d \in Onward(path) : TRUE
      BY <2>3
    <3>2. Append(path, d) \in open'
      BY <2>1
    <3>. QED
      BY <1>2, <3>2 DEF Walk, WalkGoesOn
  <2>. QED
    BY <2>2, <2>3
<1>3. CASE Rank
  BY <1>3 DEF Rank, WalkGoesOn
<1>4. CASE Report
  BY <1>4 DEF Report, WalkGoesOn
<1>5. CASE UNCHANGED investigationVars
  BY <1>5 DEF investigationVars, WalkGoesOn
<1>. QED
  BY <1>1, <1>2, <1>3, <1>4, <1>5 DEF InvestigationNext

LEMMA AllFound ==
  ASSUME ChainInv, NothingMissed, WalkGoesOn
  PROVE  PathsAreExact
<1> SUFFICES ASSUME step \in {"report", "done"}
             PROVE  paths = {path \in Routes : IsExplanation(path)}
  BY DEF PathsAreExact
<1>1. ASSUME NEW path \in paths PROVE path \in Routes /\ IsExplanation(path)
  <2>1. path \in Seq(Metrics) /\ IsExplanation(path)
    BY DEF ChainInv, PathsExplain, InvestigationTypeOK
  <2>. QED
    BY <2>1, ChainIsRoute DEF ChainInv, Valid, IsExplanation
<1>2. ASSUME NEW path \in Routes, IsExplanation(path) PROVE path \in paths
  BY <1>2 DEF NothingMissed, WalkGoesOn
<1>. QED
  BY <1>1, <1>2

-------------------------------------------------------------------------------
(* The primary metric and the evidence                                          *)

\* The end of a chain is something that each of its metrics is built on.
LEMMA EndIsBelow ==
  ASSUME InvestigationTypeOK, Valid, NEW path \in Seq(Metrics), IsChain(path),
         NEW i \in 1 .. Len(path)
  PROVE  Last(path) \in Closure(deps, path[i])
<1> SUFFICES ASSUME Last(path) \notin Closure(deps, path[i]) PROVE FALSE
  OBVIOUS
<1>1. PICK n \in Nat \ {0} : n = Len(path)
  BY EmptySeq DEF IsChain
<1>2. deps \in [Metrics -> SUBSET Ids] /\ Metrics \subseteq Ids
  BY DEF InvestigationTypeOK, CatalogTypeOK, Ids
<1> DEFINE S == {x \in {path[k] : k \in i .. n} : Last(path) \notin Closure(deps, x)}
<1>3. S \subseteq Metrics /\ path[i] \in S
  <2>1. i \in i .. n
    BY <1>1
  <2>2. \A k \in i .. n : path[k] \in Metrics
    BY <1>1
  <2>. QED
    BY <2>1, <2>2
<1>4. PICK x \in S : deps[x] \cap S = {}
  BY <1>3 DEF Valid, Acyclic
<1>5. PICK k \in i .. n : x = path[k]
  BY <1>4
<1>6. x \in Metrics
  BY <1>3
<1>7. CASE k = n
  BY <1>1, <1>2, <1>4, <1>5, <1>6, <1>7, ClosureIsClosed DEF Last
<1>8. CASE k < n
  <2>1. path[k + 1] \in deps[x] /\ k + 1 \in i .. n
    BY <1>1, <1>5, <1>8 DEF IsChain
  <2>2. Last(path) \in Closure(deps, path[k + 1])
    BY <1>4, <2>1
  <2>3. path[k + 1] \in Closure(deps, x)
    BY <1>2, <1>6, <2>1, ClosureIsClosed DEF ClosedUnder
  <2>4. Last(path) \in Closure(deps, x)
    BY <1>2, <1>6, <2>2, <2>3, ClosureGrows
  <2>. QED
    BY <1>4, <2>4
<1>. QED
  BY <1>5, <1>7, <1>8

\* Some metric below an anomalous one with a bad direction is a root candidate.
LEMMA CandidateExists ==
  ASSUME InvestigationTypeOK, Valid, Start \in anomalous \ twoSided
  PROVE  RootCandidates # {}
<1> DEFINE S == {m \in Nodes \cap anomalous : m \notin twoSided}
<1>1. /\ deps \in [Metrics -> SUBSET Ids] /\ Start \in Ids /\ anomalous \subseteq Metrics
      /\ \A m \in Metrics : deps[m] \subseteq Metrics
  BY InvestigationAssumption DEF InvestigationTypeOK, CatalogTypeOK, Valid, Known, Ids
<1>2. Start \in Nodes /\ ClosedUnder(deps, Nodes)
  BY <1>1, ClosureIsClosed DEF Nodes
<1>3. Start \in S /\ S \subseteq Metrics
  BY <1>1, <1>2
<1>4. PICK m \in S : deps[m] \cap S = {}
  BY <1>3 DEF Valid, Acyclic
<1>5. deps[m] \subseteq Nodes
  BY <1>2, <1>3 DEF ClosedUnder
<1>6. Blocking(m) = {}
  BY <1>4, <1>5 DEF Blocking
<1>. QED
  BY <1>4, <1>6 DEF RootCandidates

LEMMA NextPrimaryIsCandidate ==
  ASSUME PrimaryIsCandidate, [InvestigationNext]_investigationVars
  PROVE  PrimaryIsCandidate'
<1>1. RootCandidates' = RootCandidates
  BY DEF InvestigationNext, EvaluateAll, Walk, Rank, Report, investigationVars, catalog,
         RootCandidates, Nodes, Blocking
<1>2. CASE EvaluateAll \/ Walk
  BY <1>2 DEF EvaluateAll, Walk, PrimaryIsCandidate
<1>3. CASE Rank
  BY <1>1, <1>3 DEF Rank, PrimaryIsCandidate
<1>4. CASE Report \/ UNCHANGED investigationVars
  BY <1>1, <1>4 DEF Report, investigationVars, PrimaryIsCandidate
<1>. QED
  BY <1>2, <1>3, <1>4 DEF InvestigationNext

LEMMA NextEvidenceIsPath ==
  ASSUME EvidenceIsPath, [InvestigationNext]_investigationVars
  PROVE  EvidenceIsPath'
<1>1. CASE EvaluateAll \/ Walk \/ Rank
  BY <1>1 DEF EvaluateAll, Walk, Rank, EvidenceIsPath
<1>2. CASE Report
  <2>1. PICK leaves \in SUBSET Metrics : evidence' \in PreferredPaths(leaves)
    BY <1>2 DEF Report
  <2>2. paths' = paths /\ primary' = primary /\ PathsTo({primary})' = PathsTo({primary})
    BY <1>2 DEF Report, PathsTo, Last
  <2>3. paths # {} => evidence' \in paths
    BY <2>1 DEF PreferredPaths, PathsTo, Longest
  <2>4. PathsTo({primary}) # {} => Last(evidence') = primary
    BY <2>1 DEF PreferredPaths, PathsTo
  <2>. QED
    BY <2>2, <2>3, <2>4 DEF EvidenceIsPath, Last
<1>3. CASE UNCHANGED investigationVars
  BY <1>3 DEF investigationVars, EvidenceIsPath, PathsTo, Last
<1>. QED
  BY <1>1, <1>2, <1>3 DEF InvestigationNext

LEMMA EvidenceIsRight ==
  ASSUME ChainInv, WalkGoesOn, PrimaryIsCandidate, EvidenceIsPath
  PROVE  EvidenceExplains
<1> SUFFICES ASSUME step = "done", Start \in anomalous
             PROVE  /\ IsExplanation(evidence)
                    /\ (\E path \in paths : Last(path) = primary) => Last(evidence) = primary
                    /\ Last(evidence) = primary =>
                          \A m \in SuppressedAncestors : ExplanatoryKpi \in Closure(deps, m)
                    /\ Start \notin twoSided => primary # NoMetric /\ Blocking(primary) = {}
  BY DEF EvidenceExplains
<1>1. evidence \in paths
  BY DEF WalkGoesOn, EvidenceIsPath
<1>2. evidence \in Seq(Metrics) /\ IsExplanation(evidence) /\ IsChain(evidence)
  BY <1>1 DEF ChainInv, PathsExplain, InvestigationTypeOK, IsExplanation
<1>3. (\E path \in paths : Last(path) = primary) => Last(evidence) = primary
  BY <1>1 DEF EvidenceIsPath, PathsTo
<1>4. ASSUME Last(evidence) = primary, NEW m \in SuppressedAncestors
      PROVE  ExplanatoryKpi \in Closure(deps, m)
  <2>1. PICK n \in Nat \ {0} : n = Len(evidence)
    BY <1>2, EmptySeq DEF IsChain
  <2>2. primary \in Metrics
    BY <1>2, <1>4, <2>1 DEF Last
  <2>3. ExplanatoryKpi = primary
    BY <2>2, InvestigationAssumption DEF ExplanatoryKpi, Ids
  <2>4. PICK i \in 1 .. Len(evidence) : m = evidence[i]
    BY <1>2 DEF SuppressedAncestors, Range
  <2>5. Last(evidence) \in Closure(deps, m)
    BY <1>2, <2>4, EndIsBelow DEF ChainInv
  <2>. QED
    BY <1>4, <2>3, <2>5
<1>5. ASSUME Start \notin twoSided
      PROVE  primary # NoMetric /\ Blocking(primary) = {}
  <2>1. primary \in RootCandidates
    BY <1>5, CandidateExists DEF ChainInv, PrimaryIsCandidate
  <2>. QED
    BY <2>1, InvestigationAssumption DEF RootCandidates, ChainInv, InvestigationTypeOK, Ids
<1>. QED
  BY <1>2, <1>3, <1>4, <1>5

-------------------------------------------------------------------------------
(* The theorems of the investigation                                            *)

InvestigationInv == InvestigationTypeOK /\ InvestigationIInv

LEMMA InvestigationStarts == InvestigationInputs /\ InvestigationStart => InvestigationInv
<1> SUFFICES ASSUME InvestigationInputs, InvestigationStart PROVE InvestigationInv
  OBVIOUS
<1>1. ChainInv
  BY ChainsStart
<1>2. NothingMissed /\ WalkGoesOn /\ PrimaryIsCandidate /\ EvidenceIsPath
  BY DEF InvestigationStart, NothingMissed, WalkGoesOn, PrimaryIsCandidate, EvidenceIsPath
<1>. QED
  BY <1>1, <1>2 DEF ChainInv, InvestigationInv, InvestigationIInv

LEMMA NextInvestigation ==
  InvestigationInv /\ [InvestigationNext]_investigationVars => InvestigationInv'
<1> SUFFICES ASSUME InvestigationInv, [InvestigationNext]_investigationVars
             PROVE  InvestigationInv'
  OBVIOUS
<1>1. ChainInv /\ NothingMissed /\ WalkGoesOn /\ PrimaryIsCandidate /\ EvidenceIsPath
  BY DEF InvestigationInv, InvestigationIInv, ChainInv, WalkGoesOn
<1>2. ChainInv'
  BY <1>1, NextChains
<1>3. NothingMissed' /\ WalkGoesOn' /\ PrimaryIsCandidate' /\ EvidenceIsPath'
  BY <1>1, NextNothingMissed, NextWalkGoesOn, NextPrimaryIsCandidate, NextEvidenceIsPath
<1>. QED
  BY <1>2, <1>3 DEF ChainInv, InvestigationInv, InvestigationIInv

LEMMA InvestigationInductive == InvestigationSpec => []InvestigationInv
  BY InvestigationStarts, NextInvestigation, PTL DEF InvestigationSpec

LEMMA InvestigationParts ==
  InvestigationInv =>
      /\ InvestigationTypeOK /\ PathsExplain
      /\ ChainInv /\ NothingMissed /\ WalkGoesOn /\ PrimaryIsCandidate /\ EvidenceIsPath
  BY DEF InvestigationInv, InvestigationIInv, ChainInv, WalkGoesOn

\* Types: the investigation keeps its types in every accepted catalog.
THEOREM InvestigationTypeCorrect == InvestigationSpec => []InvestigationTypeOK
  BY InvestigationParts, InvestigationInductive, PTL

\* Explanations: in every accepted catalog, of any size, a path that the walk
\* reports is a chain of anomalies from the investigated metric that cannot be
\* continued; the visited set never ends one early.
THEOREM PathsAreExplanations == InvestigationSpec => []PathsExplain
  BY InvestigationParts, InvestigationInductive, PTL

\* All of them: in every accepted catalog, of any size, the paths that are ranked
\* and reported are exactly the explanations, whatever the order of the walk.
THEOREM PathsAreAll == InvestigationSpec => []PathsAreExact
<1>1. InvestigationInv => PathsAreExact
  BY InvestigationParts, AllFound
<1>. QED
  BY <1>1, InvestigationInductive, PTL

\* Evidence: in every accepted catalog, of any size, the evidence of an anomalous
\* metric is an explanation, and one to the primary metric if there is any; the
\* metrics it suppresses are then built on the one that is alerted, and a metric
\* with a bad direction always has a primary candidate that nothing blocks.
THEOREM EvidenceIsExplanation == InvestigationSpec => []EvidenceExplains
<1>1. InvestigationInv => EvidenceExplains
  BY InvestigationParts, EvidenceIsRight
<1>. QED
  BY <1>1, InvestigationInductive, PTL

===============================================================================
