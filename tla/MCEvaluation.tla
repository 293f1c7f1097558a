----------------------------- MODULE MCEvaluation -----------------------------
(* Instances of EvaluationSession and Investigation for TLC. A behaviour is one *)
(* call of process_many or one investigation, over every catalog of the bounds: *)
(* the calls on three metrics, the investigations on four. Equal catalogs under *)
(* other names are left out where that is easy: the first metric is             *)
(* investigated, and the requests name the first ones.                          *)
EXTENDS EvaluationSession, Investigation

VARIABLE call           \* "process_many" or "investigate"

mcVars == <<sessionVars, investigationVars, call>>

CallMetrics == 1 .. 3

\* A condition on a chosen input: TLC evaluates it once, and does not take it
\* apart into alternatives for the initial state.
Such(condition) == IF condition THEN TRUE ELSE FALSE

AllAnswer == [m \in Metrics |-> [w \in Windows |-> "value"]]

\* Everything answers with a value, but for at most one metric in the current
\* window, in one baseline window or, without data, in all of them.
OneFault ==
    {[AllAnswer EXCEPT ![m] = [w \in Windows |-> IF w \in fault[1] THEN fault[2] ELSE "value"]] :
        m \in CallMetrics,
        fault \in ({{0}, {1}} \X Answers) \cup {<<1 .. Baselines, "no_data">>}}

\* A catalog that is accepted, with every kind of calculation; or one with
\* queries only that may be refused for an unknown dependency or a cycle, or for
\* an expression that names what is not declared.
AcceptedCatalog ==
    /\ deps \in [Metrics -> SUBSET CallMetrics]
    /\ deps[4] = {} /\ Such(Acyclic)
    /\ kind \in [Metrics -> Kinds]
    /\ kind[4] = "query"
    /\ Such(\A m \in Metrics : kind[m] = "derived" => deps[m] # {})
    /\ LET all == [m \in Metrics |-> IF kind[m] = "derived" THEN deps[m] ELSE {}]
       IN names \in {all} \cup {[all EXCEPT ![1] = {d}] : d \in all[1]}

AnyCatalog ==
    /\ deps \in [Metrics -> SUBSET (CallMetrics \cup {Unknown})]
    /\ Such(\A m \in Metrics \ {1} : Unknown \notin deps[m])
    /\ deps[4] = {}
    /\ kind \in [Metrics -> {"query"}] \cup {[[m \in Metrics |-> "query"] EXCEPT ![1] = "derived"]}
    /\ names = [m \in Metrics |-> IF kind[m] = "derived" THEN {2} ELSE {}]

ProcessManyInit ==
    /\ call = "process_many"
    /\ \/ /\ AcceptedCatalog
          /\ answer \in OneFault
          /\ Such(NoErrorOfItsOwn)
          /\ raises \in IF answer = AllAnswer THEN {{}, {0}, {1}} ELSE {{}}
          /\ requested \in {<<1, 2>>} \cup (IF answer = AllAnswer THEN {<<1, 1>>} ELSE {})
       \/ /\ AnyCatalog
          /\ answer = AllAnswer /\ raises = {}
          /\ requested \in {<<1, 1>>, <<1, Unknown>>}
    /\ byWindow \in {FALSE} \cup {requested[2] = 2 /\ \E m \in Metrics : kind[m] = "batch"}
    /\ SessionStart
    /\ anomalous = {} /\ twoSided = {} /\ InvestigationStart

InvestigateInit ==
    /\ call = "investigate"
    /\ deps \in [Metrics -> SUBSET Metrics]
    /\ kind = [m \in Metrics |-> "query"] /\ names = [m \in Metrics |-> {}]
    /\ Such(Valid)
    /\ Such(\A m \in Metrics \ Nodes : deps[m] = {})
    /\ anomalous \in SUBSET Nodes
    /\ twoSided \in SUBSET anomalous
    /\ InvestigationStart
    /\ answer = AllAnswer /\ raises = {} /\ requested = <<>> /\ byWindow = FALSE
    /\ SessionStart

MCInit == ProcessManyInit \/ InvestigateInit

MCNext ==
    \/ /\ call = "process_many" /\ SessionNext
       /\ UNCHANGED <<investigationVars, call>>
    \/ /\ call = "investigate" /\ InvestigationNext
       /\ UNCHANGED <<sessionVars, call>>

MCSpec == MCInit /\ [][MCNext]_mcVars
===============================================================================
