--------------------------- MODULE EvaluationLedger ---------------------------
(***************************************************************************)
(* What a runtime store promises about one (metric, scope) stream, whatever *)
(* the platform (guarantees 2, 3 and 4 of stores/base.py): evaluations are  *)
(* committed at most once each, in the order of their effective time, and   *)
(* every write to the metric state is derived from all the writes before    *)
(* it.  There are no workers, claims or locks here: a commit is one step.   *)
(***************************************************************************)
EXTENDS Integers, Sequences

CONSTANTS
    Windows,      \* EvaluationKeys of the stream
    EffectiveAt,  \* EvaluationKey.eval_at of each window, a positive number
    Ack           \* the mark an acknowledgement leaves in "applied"

VARIABLES
    ledger,       \* the evaluations that are committed
    cursor,       \* last_evaluation_at of the metric state, 0 for None
    applied       \* the writes the metric state is derived from, in order

vars == <<ledger, cursor, applied>>

Init ==
    /\ ledger = {}
    /\ cursor = 0
    /\ applied = << >>

\* One evaluation is committed: once, and after everything earlier.
Commit(w) ==
    /\ w \notin ledger
    /\ cursor < EffectiveAt[w]
    /\ ledger' = ledger \cup {w}
    /\ cursor' = EffectiveAt[w]
    /\ applied' = Append(applied, w)

\* A person acknowledges: the state is rewritten, the cursor stays.
Acknowledge ==
    /\ applied' = Append(applied, Ack)
    /\ UNCHANGED <<ledger, cursor>>

Next == Acknowledge \/ \E w \in Windows : Commit(w)

Spec == Init /\ [][Next]_vars

===============================================================================
