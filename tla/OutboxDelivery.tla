---------------------------- MODULE OutboxDelivery ----------------------------
(***************************************************************************)
(* deliver_pending over the outbox of a runtime store: workers claim due    *)
(* events under a lease, send them outside any transaction, and mark them   *)
(* delivered or record a failed attempt with backoff and dead-lettering.    *)
(* Workers crash, the receiver fails or answers too late, store calls fail  *)
(* before or after they took effect, and leases run out while a worker is   *)
(* still at it.                                                             *)
(*                                                                         *)
(* Times are kept as the ticks that are left.  An event is its place in the *)
(* order (created_at, id).  A worker stands for the token of its claim: a   *)
(* row it claimed before a crash is never in its batch again unless it is   *)
(* claimed anew, which replaces the token.                                  *)
(***************************************************************************)
EXTENDS Integers, FiniteSets

CONSTANTS
    Workers,         \* threads or processes that run deliver_pending
    Events,          \* outbox events, numbers in the order (created_at, id)
    Lease,           \* NotificationPolicy.lease, in ticks
    BackoffInitial,  \* NotificationPolicy.backoff_initial, in ticks
    BackoffMax,      \* NotificationPolicy.backoff_max
    DelayLimit,      \* timedelta.max, in ticks
    MaxAttempts,     \* NotificationPolicy.max_attempts, or Nil for None
    Limit,           \* limit of deliver_pending, or Nil for None
    Nil

ASSUME DeliveryAssumption ==
    /\ Nil \notin Workers
    /\ Events \subseteq Nat
    /\ Lease \in Nat \ {0}
    /\ BackoffInitial \in Nat
    /\ BackoffMax \in Nat
    /\ DelayLimit \in Nat
    /\ MaxAttempts = Nil \/ MaxAttempts \in Nat \ {0}
    /\ Limit = Nil \/ Limit \in Nat \ {0}

VARIABLES
    outbox,     \* the rows: counters, flags, ticks left, lease holder
    published,  \* events whose row was inserted
    accepted,   \* events the receiver got, whatever the sender knows
    pc,         \* where each worker is in deliver_pending
    batch,      \* the claimed events it has not finished
    claimed,    \* their attempt_count when they were claimed
    leaseLeft   \* their claimed_until when they were claimed, in ticks left

vars == <<outbox, published, accepted, pc, batch, claimed, leaseLeft>>
work == <<pc, batch, claimed, leaseLeft>>

-------------------------------------------------------------------------------
(* Types *)

Row == [attempts : Nat, delivered : BOOLEAN, dead : BOOLEAN,
        wait : 0 .. BackoffMax,         \* ticks to next_attempt_at
        owner : Workers \cup {Nil},     \* claim_token
        lease : 0 .. Lease]             \* ticks to claimed_until

NewRow == [attempts |-> 0, delivered |-> FALSE, dead |-> FALSE,
           wait |-> 0, owner |-> Nil, lease |-> 0]

TypeOK ==
    /\ outbox \in [Events -> Row]
    /\ published \subseteq Events
    /\ accepted \subseteq published
    /\ pc \in [Workers -> {"idle", "send", "mark", "record", "release"}]
    /\ batch \in [Workers -> SUBSET published]
    /\ claimed \in [Workers -> [Events -> Nat]]
    /\ leaseLeft \in [Workers -> 0 .. Lease]

-------------------------------------------------------------------------------
(* Helpers *)

Pending(e) == e \in published /\ ~ outbox[e].delivered /\ ~ outbox[e].dead

\* Mutant: only rows without a claim are due.
MutNoTakeover(e) == Pending(e) /\ outbox[e].wait = 0 /\ outbox[e].owner = Nil

\* The WHERE clause of claim_pending_notifications.
Due(e) == Pending(e) /\ outbox[e].wait = 0 /\ outbox[e].lease = 0

\* Rows another worker is writing to: SKIP LOCKED may pass over them.
Locked(p) ==
    {e \in Events : \E q \in Workers \ {p} :
        e \in batch[q] /\ pc[q] \in {"mark", "record", "release"}}

\* The first events of the candidates, as many as the limit allows.
FirstOf(candidates, chosen) ==
    /\ \A e \in chosen : \A f \in candidates \ chosen : e < f
    /\ \/ chosen = candidates
       \/ Limit # Nil /\ Cardinality(chosen) = Limit
    /\ Limit # Nil => Cardinality(chosen) <= Limit

\* The batch is sorted by (created_at, id).
IsNext(p, e) == e \in batch[p] /\ \A f \in batch[p] : e <= f

\* Mutant: the delay doubles without backoff_max.
MutBackoffUncapped(attempt) == BackoffInitial * 2 ^ (attempt - 1)

\* NotificationPolicy.backoff_for
BackoffFor(attempt) ==
    LET delay == BackoffInitial * 2 ^ (attempt - 1) IN
    IF BackoffInitial = 0 THEN 0
    ELSE IF delay <= BackoffMax THEN delay ELSE BackoffMax

\* backoff_initial * 2 ** exponent is a timedelta: beyond timedelta.max the
\* multiplication raises, before backoff_max is looked at.
BackoffOverflows(attempt) ==
    BackoffInitial # 0 /\ BackoffInitial * 2 ^ (attempt - 1) > DelayLimit

\* The pass ends; what is left of the batch keeps its lease in the store.
EndPass(p) ==
    /\ pc' = [pc EXCEPT ![p] = "idle"]
    /\ batch' = [batch EXCEPT ![p] = {}]
    /\ claimed' = [claimed EXCEPT ![p] = [e \in Events |-> 0]]
    /\ leaseLeft' = [leaseLeft EXCEPT ![p] = 0]

\* Go on with the next event of the batch.
Continue(p, e) ==
    IF batch[p] = {e}
      THEN EndPass(p)
      ELSE /\ pc' = [pc EXCEPT ![p] = "send"]
           /\ batch' = [batch EXCEPT ![p] = @ \ {e}]
           /\ UNCHANGED <<claimed, leaseLeft>>

-------------------------------------------------------------------------------
(* Writes of the store, as new values of "outbox" *)

\* Mutant: the write applies whoever holds the lease.
MutAnyToken(p, e) == TRUE

\* WHERE id = ... AND claim_token = ...
HoldsToken(p, e) == outbox[e].owner = p

MarkedDelivered(e) ==
    [outbox EXCEPT ![e].delivered = TRUE,
                   ![e].attempts = @ + 1,
                   ![e].owner = Nil,
                   ![e].lease = 0]

\* Mutant: the last attempt is the one after max_attempts.
MutLastIsLate(p, e) ==
    MaxAttempts # Nil /\ claimed[p][e] + 1 > MaxAttempts

\* attempts >= policy.max_attempts, with the attempt_count of the claim.
IsLastAttempt(p, e) ==
    MaxAttempts # Nil /\ claimed[p][e] + 1 >= MaxAttempts

\* The delay is only computed for an attempt that is not the last.
DelayOverflows(p, e) ==
    ~ IsLastAttempt(p, e) /\ BackoffOverflows(claimed[p][e] + 1)

RecordedAttempt(p, e) ==
    [outbox EXCEPT
        ![e].attempts = @ + 1,
        ![e].dead = IsLastAttempt(p, e),
        ![e].wait = IF IsLastAttempt(p, e) THEN 0
                                           ELSE BackoffFor(claimed[p][e] + 1),
        ![e].owner = Nil,
        ![e].lease = 0]

\* Mutant: the release does not compare the token.
MutReleaseAny(p, e) == [outbox EXCEPT ![e].owner = Nil, ![e].lease = 0]

\* release_notification_claim: UPDATE ... WHERE id = ... AND claim_token = ...
Released(p, e) ==
    IF HoldsToken(p, e)
      THEN [outbox EXCEPT ![e].owner = Nil, ![e].lease = 0]
      ELSE outbox

-------------------------------------------------------------------------------
(* Actions *)

\* stage_notification and the INSERT of a committed transaction.
Publish(e) ==
    /\ e \notin published
    /\ published' = published \cup {e}
    /\ outbox' = [outbox EXCEPT ![e] = NewRow]
    /\ UNCHANGED <<accepted, work>>

ClaimPendingNotifications(p, chosen) ==
    /\ pc[p] = "idle"
    /\ chosen # {}
    /\ \E skipped \in SUBSET Locked(p) :
          FirstOf({e \in Events : Due(e)} \ skipped, chosen)
    /\ \A e \in chosen : Due(e)
    /\ outbox' = [e \in Events |->
                    IF e \in chosen
                      THEN [outbox[e] EXCEPT !.owner = p, !.lease = Lease]
                      ELSE outbox[e]]
    /\ pc' = [pc EXCEPT ![p] = "send"]
    /\ batch' = [batch EXCEPT ![p] = chosen]
    /\ claimed' = [claimed EXCEPT ![p] =
                     [e \in Events |->
                        IF e \in chosen THEN outbox[e].attempts ELSE 0]]
    /\ leaseLeft' = [leaseLeft EXCEPT ![p] = Lease]
    /\ UNCHANGED <<published, accepted>>

\* _send returns.
SendReturns(p, e) ==
    /\ pc[p] = "send"
    /\ IsNext(p, e)
    /\ accepted' = accepted \cup {e}
    /\ pc' = [pc EXCEPT ![p] = "mark"]
    /\ UNCHANGED <<outbox, published, batch, claimed, leaseLeft>>

\* _send raises; the event may have arrived nevertheless.
SendRaises(p, e, arrived) ==
    /\ pc[p] = "send"
    /\ IsNext(p, e)
    /\ accepted' = IF arrived THEN accepted \cup {e} ELSE accepted
    /\ pc' = [pc EXCEPT ![p] = "record"]
    /\ UNCHANGED <<outbox, published, batch, claimed, leaseLeft>>

\* The row is updated, or NotificationLeaseLostError is counted: next event.
MarkNotificationDelivered(p, e) ==
    /\ pc[p] = "mark"
    /\ IsNext(p, e)
    /\ outbox' = IF HoldsToken(p, e) THEN MarkedDelivered(e) ELSE outbox
    /\ Continue(p, e)
    /\ UNCHANGED <<published, accepted>>

\* The store call fails, before or after the row was updated.
MarkRaises(p, e, written) ==
    /\ pc[p] = "mark"
    /\ IsNext(p, e)
    /\ outbox' = IF written /\ HoldsToken(p, e) THEN MarkedDelivered(e)
                                                ELSE outbox
    /\ pc' = [pc EXCEPT ![p] = "release"]
    /\ UNCHANGED <<published, accepted, batch, claimed, leaseLeft>>

\* ... then the lease is given back and the error raised out of the pass.
ReleaseNotificationClaim(p, e) ==
    /\ pc[p] = "release"
    /\ IsNext(p, e)
    /\ outbox' = Released(p, e)
    /\ EndPass(p)
    /\ UNCHANGED <<published, accepted>>

RecordNotificationAttempt(p, e) ==
    /\ pc[p] = "record"
    /\ IsNext(p, e)
    /\ ~ DelayOverflows(p, e)
    /\ outbox' = IF HoldsToken(p, e) THEN RecordedAttempt(p, e) ELSE outbox
    /\ Continue(p, e)
    /\ UNCHANGED <<published, accepted>>

\* The row is updated but the answer is lost: the error ends the pass.
RecordRaises(p, e) ==
    /\ pc[p] = "record"
    /\ IsNext(p, e)
    /\ ~ DelayOverflows(p, e)
    /\ HoldsToken(p, e)
    /\ outbox' = RecordedAttempt(p, e)
    /\ EndPass(p)
    /\ UNCHANGED <<published, accepted>>

\* The process dies, a store call fails without effect, or an OverflowError comes
\* out of backoff_for (DelayOverflows): the pass ends with nothing recorded.
Crash(p) ==
    /\ pc[p] # "idle"
    /\ EndPass(p)
    /\ UNCHANGED <<outbox, published, accepted>>

Less(n) == IF n > 0 THEN n - 1 ELSE 0

\* Time passes, whatever the workers are doing.
Tick ==
    /\ \/ \E e \in Events : outbox[e].wait > 0 \/ outbox[e].lease > 0
       \/ \E p \in Workers : leaseLeft[p] > 0
    /\ outbox' = [e \in Events |-> [outbox[e] EXCEPT !.wait = Less(@),
                                                     !.lease = Less(@)]]
    /\ leaseLeft' = [p \in Workers |-> Less(leaseLeft[p])]
    /\ UNCHANGED <<published, accepted, pc, batch, claimed>>

-------------------------------------------------------------------------------
(* Specification *)

Init ==
    /\ outbox = [e \in Events |-> NewRow]
    /\ published = {}
    /\ accepted = {}
    /\ pc = [p \in Workers |-> "idle"]
    /\ batch = [p \in Workers |-> {}]
    /\ claimed = [p \in Workers |-> [e \in Events |-> 0]]
    /\ leaseLeft = [p \in Workers |-> 0]

Claim(p) == \E chosen \in SUBSET Events : ClaimPendingNotifications(p, chosen)

Send(p) ==
    \E e \in Events :
        SendReturns(p, e) \/ \E arrived \in BOOLEAN : SendRaises(p, e, arrived)

Write(p) ==
    \E e \in Events :
        \/ MarkNotificationDelivered(p, e)
        \/ \E written \in BOOLEAN : MarkRaises(p, e, written)
        \/ ReleaseNotificationClaim(p, e)
        \/ RecordNotificationAttempt(p, e)
        \/ RecordRaises(p, e)

Next ==
    \/ \E e \in Events : Publish(e)
    \/ \E p \in Workers : Claim(p) \/ Send(p) \/ Write(p) \/ Crash(p)
    \/ Tick

Spec == Init /\ [][Next]_vars

\* A send that ends within the lease of the batch.
SendInTime(p) == leaseLeft[p] > 0 /\ Send(p)

\* An outcome recorded by a worker that still has the token of the row.
RecordOutcome(p) ==
    \E e \in Events :
        /\ HoldsToken(p, e)
        /\ MarkNotificationDelivered(p, e) \/ RecordNotificationAttempt(p, e)

\* Every cycle of the run loop drains the outbox, the sends and store calls of a
\* pass end, well or not, and time passes.  Workers may crash or be late again
\* and again, but not always: one that begins to send within its lease over and
\* over ends a send within it at last, and one that comes to record an outcome
\* that the store would accept records it at last.
Fairness ==
    /\ WF_vars(Tick)
    /\ \A p \in Workers :
          /\ WF_vars(Claim(p))
          /\ WF_vars(Send(p) \/ Write(p) \/ Crash(p))
          /\ SF_vars(SendInTime(p))
          /\ SF_vars(RecordOutcome(p))

FairSpec == Spec /\ Fairness

-------------------------------------------------------------------------------
(* Correctness *)

Sending(p, e) == pc[p] = "send" /\ IsNext(p, e)

\* Guarantee 5 (leased notification work): what a worker is about to send within
\* its lease is still pending, and no other worker is about to send it within a
\* lease, whatever was released, taken over or written late in between.
OneLeaseHolder ==
    \A p \in Workers : \A e \in Events :
        Sending(p, e) /\ leaseLeft[p] > 0 =>
            /\ Pending(e)
            /\ \A q \in Workers \ {p} : Sending(q, e) => leaseLeft[q] = 0

\* An event is dead-lettered at its max_attempts-th recorded attempt, neither
\* before nor after, although the count is compared outside the transaction
\* with the copy read at the claim; a delivered event is never dead as well.
RetryLimit ==
    \A e \in Events :
        /\ outbox[e].dead => ~ outbox[e].delivered
        /\ MaxAttempts # Nil =>
              /\ outbox[e].attempts <= MaxAttempts
              /\ outbox[e].dead <=> outbox[e].attempts = MaxAttempts
                                      /\ ~ outbox[e].delivered
        /\ MaxAttempts = Nil => ~ outbox[e].dead

\* The outbox keeps the promise: settled events are final, deliveries were
\* accepted by the receiver, retries are counted exactly.
Promise == INSTANCE OutboxPromise WITH
    attempted <- [e \in Events |-> outbox[e].attempts],
    delivered <- {e \in Events : outbox[e].delivered},
    dead      <- {e \in Events : outbox[e].dead}

KeepsPromise == Promise!Spec

\* Every committed notification intent is settled in the end.
EveryEventSettles ==
    \A e \in Events : e \in published ~> ~ Pending(e)

-------------------------------------------------------------------------------
(* Why it is correct: the inductive invariant *)

\* A row with a token is neither delivered nor dead.
TokenMeansPending ==
    \A e \in Events :
        outbox[e].owner # Nil =>
            e \in published /\ ~ outbox[e].delivered /\ ~ outbox[e].dead

\* While the token is the worker's, its copy of the row is the row.
CopyIsCurrent ==
    \A p \in Workers : \A e \in batch[p] :
        HoldsToken(p, e) => /\ outbox[e].attempts = claimed[p][e]
                            /\ outbox[e].lease = leaseLeft[p]

\* Within its lease a worker still has the token of all that is in its batch.
LeaseKeepsToken ==
    \A p \in Workers :
        pc[p] \in {"send", "mark", "record"} /\ leaseLeft[p] > 0 =>
            \A e \in batch[p] : HoldsToken(p, e)

\* A worker that is about to mark an event has sent it.
MarkedWasSent ==
    \A p \in Workers : \A e \in Events :
        pc[p] = "mark" /\ IsNext(p, e) => e \in accepted

\* No attempt, no settlement before the event is there.
NothingUnpublished ==
    \A e \in Events \ published : outbox[e] = NewRow

IInv ==
    /\ TokenMeansPending
    /\ CopyIsCurrent
    /\ LeaseKeepsToken
    /\ MarkedWasSent
    /\ NothingUnpublished
    /\ RetryLimit
    /\ OneLeaseHolder
===============================================================================
