------------------------- MODULE OutboxDeliveryProofs -------------------------
(***************************************************************************)
(* Proofs about OutboxDelivery, for any number of workers and events and    *)
(* any retry policy: types, the exclusive lease, the exact retry limit and  *)
(* the refinement of OutboxPromise.                                         *)
(***************************************************************************)
EXTENDS OutboxDelivery, FiniteSetTheorems, TLAPS

-------------------------------------------------------------------------------
(* Types *)

\* A power of two is the number of subsets of a finite set.
LEMMA PowerOfTwo == ASSUME NEW n \in Nat PROVE 2 ^ n \in Nat
<1>1. IsFiniteSet(1 .. n) /\ Cardinality(1 .. n) = n
  BY FS_Interval
<1>2. IsFiniteSet(SUBSET (1 .. n)) /\ Cardinality(SUBSET (1 .. n)) = 2 ^ n
  BY <1>1, FS_SUBSET
<1>. QED
  BY <1>2, FS_CardinalityType

\* backoff_for stays within backoff_max.
LEMMA BackoffType ==
  ASSUME NEW attempt \in Nat \ {0}
  PROVE  BackoffFor(attempt) \in 0 .. BackoffMax
<1> DEFINE power == 2 ^ (attempt - 1)
<1>1. power \in Nat
  BY PowerOfTwo
<1>2. BackoffInitial * power \in Nat
  <2> HIDE DEF power
  <2>1. \A a, b \in Nat : a * b \in Nat
    OBVIOUS
  <2>. QED
    BY <1>1, <2>1, DeliveryAssumption
<1>. QED
  BY <1>2, DeliveryAssumption DEF BackoffFor

RowTypes ==
    /\ outbox \in [Events -> Row]
    /\ published \subseteq Events
    /\ accepted \subseteq published

WorkTypes ==
    /\ pc \in [Workers -> {"idle", "send", "mark", "record", "release"}]
    /\ batch \in [Workers -> SUBSET published]
    /\ claimed \in [Workers -> [Events -> Nat]]
    /\ leaseLeft \in [Workers -> 0 .. Lease]

LEMMA TypeParts == TypeOK <=> RowTypes /\ WorkTypes
  BY DEF TypeOK, RowTypes, WorkTypes

LEMMA NewRowType == NewRow \in Row
  BY DeliveryAssumption DEF NewRow, Row

\* A row stays a row under the updates of the store.
LEMMA TokenUpdateType ==
  ASSUME NEW row \in Row, NEW owner \in Workers \cup {Nil},
         NEW lease \in 0 .. Lease
  PROVE  [row EXCEPT !.owner = owner, !.lease = lease] \in Row
  BY DEF Row

LEMMA AttemptUpdateType ==
  ASSUME NEW row \in Row, NEW last \in BOOLEAN, NEW pause \in 0 .. BackoffMax
  PROVE  [row EXCEPT !.attempts = @ + 1, !.dead = last, !.wait = pause,
                     !.owner = Nil, !.lease = 0] \in Row
<1>1. 0 \in 0 .. Lease /\ row.attempts + 1 \in Nat
  BY DeliveryAssumption DEF Row
<1>. QED
  BY <1>1 DEF Row

-------------------------------------------------------------------------------
(* The steps of a worker after a send, as what they do to the rows and to   *)
(* the worker                                                              *)

\* The row of e is left alone, or rewritten by the worker that has its token.
RowWrite(p, e) ==
    \/ outbox' = outbox
    \/ /\ HoldsToken(p, e)
       /\ \/ outbox' = MarkedDelivered(e) /\ pc[p] = "mark"
          \/ outbox' = RecordedAttempt(p, e)
          \/ outbox' = [outbox EXCEPT ![e].owner = Nil, ![e].lease = 0]

\* The worker is done with the pass, with the event, or about to release it.
WorkMove(p, e) ==
    \/ EndPass(p)
    \/ /\ pc' = [pc EXCEPT ![p] = "send"]
       /\ batch' = [batch EXCEPT ![p] = @ \ {e}]
       /\ pc[p] \in {"mark", "record"}
       /\ UNCHANGED <<claimed, leaseLeft>>
    \/ /\ pc' = [pc EXCEPT ![p] = "release"]
       /\ UNCHANGED <<batch, claimed, leaseLeft>>

LEMMA WriteEffect ==
  ASSUME NEW p \in Workers, Write(p)
  PROVE  \E e \in Events : /\ IsNext(p, e)
                           /\ RowWrite(p, e)
                           /\ WorkMove(p, e)
                           /\ UNCHANGED <<published, accepted>>
<1> USE DEF RowWrite, WorkMove
<1> PICK e \in Events :
        \/ MarkNotificationDelivered(p, e)
        \/ \E written \in BOOLEAN : MarkRaises(p, e, written)
        \/ ReleaseNotificationClaim(p, e)
        \/ RecordNotificationAttempt(p, e)
        \/ RecordRaises(p, e)
  BY DEF Write
<1>1. CASE MarkNotificationDelivered(p, e)
  BY <1>1 DEF MarkNotificationDelivered, Continue
<1>2. CASE \E written \in BOOLEAN : MarkRaises(p, e, written)
  BY <1>2 DEF MarkRaises
<1>3. CASE ReleaseNotificationClaim(p, e)
  BY <1>3 DEF ReleaseNotificationClaim, Released
<1>4. CASE RecordNotificationAttempt(p, e)
  BY <1>4 DEF RecordNotificationAttempt, Continue
<1>5. CASE RecordRaises(p, e)
  BY <1>5 DEF RecordRaises
<1>. QED
  BY <1>1, <1>2, <1>3, <1>4, <1>5

LEMMA RowWriteTypes ==
  ASSUME TypeOK, NEW p \in Workers, NEW e \in Events, RowWrite(p, e),
         UNCHANGED <<published, accepted>>
  PROVE  RowTypes'
<1> USE DEF TypeOK, RowTypes
<1>1. CASE outbox' = MarkedDelivered(e)
  BY <1>1, DeliveryAssumption DEF MarkedDelivered, Row
<1>2. CASE outbox' = RecordedAttempt(p, e)
  <2> DEFINE last == IsLastAttempt(p, e)
             pause == IF last THEN 0 ELSE BackoffFor(claimed[p][e] + 1)
  <2>1. pause \in 0 .. BackoffMax
    BY BackoffType, DeliveryAssumption
  <2>2. last \in BOOLEAN
    BY DEF IsLastAttempt
  <2>3. outbox' = [outbox EXCEPT ![e].attempts = @ + 1, ![e].dead = last,
                                 ![e].wait = pause, ![e].owner = Nil,
                                 ![e].lease = 0]
    BY <1>2 DEF RecordedAttempt
  <2> DEFINE row == [outbox[e] EXCEPT !.attempts = @ + 1, !.dead = last,
                       !.wait = pause, !.owner = Nil, !.lease = 0]
  <2> HIDE DEF last, pause
  <2>4. row \in Row
    BY <2>1, <2>2, AttemptUpdateType
  <2>5. outbox' = [outbox EXCEPT ![e] = row]
    BY <2>3
  <2>. QED
    BY <2>4, <2>5
<1>3. CASE outbox' = [outbox EXCEPT ![e].owner = Nil, ![e].lease = 0]
  <2>1. [outbox[e] EXCEPT !.owner = Nil, !.lease = 0] \in Row
    <3>1. outbox[e] \in Row
      OBVIOUS
    <3>2. Nil \in Workers \cup {Nil} /\ 0 \in 0 .. Lease
      BY DeliveryAssumption
    <3>. QED
      BY <3>1, <3>2, TokenUpdateType
  <2>2. outbox' = [outbox EXCEPT ![e] =
                     [outbox[e] EXCEPT !.owner = Nil, !.lease = 0]]
    BY <1>3
  <2>. QED
    BY <2>1, <2>2
<1>. QED
  BY <1>1, <1>2, <1>3 DEF RowWrite

LEMMA EndPassTypes ==
  ASSUME TypeOK, NEW p \in Workers, EndPass(p), published' = published
  PROVE  WorkTypes'
  BY DeliveryAssumption DEF TypeOK, WorkTypes, EndPass

LEMMA InitType == Init => TypeOK
  BY NewRowType, DeliveryAssumption DEF Init, TypeOK

LEMMA NextType == TypeOK /\ [Next]_vars => TypeOK'
<1> SUFFICES ASSUME TypeOK, [Next]_vars PROVE RowTypes' /\ WorkTypes'
  BY TypeParts DEF TypeOK, RowTypes, WorkTypes
<1>1. ASSUME NEW e \in Events, Publish(e)
      PROVE  RowTypes' /\ WorkTypes'
  BY <1>1, NewRowType DEF Publish, work, TypeOK, RowTypes, WorkTypes
<1>2. ASSUME NEW p \in Workers, NEW chosen \in SUBSET Events,
             ClaimPendingNotifications(p, chosen)
      PROVE  RowTypes' /\ WorkTypes'
  <2>1. chosen \subseteq published
    BY <1>2 DEF ClaimPendingNotifications, Due, Pending
  <2>2. Lease \in 0 .. Lease
    BY DeliveryAssumption
  <2>3. \A e \in Events : outbox[e] \in Row /\ outbox[e].attempts \in Nat
    BY DEF TypeOK, Row
  <2>4. \A e \in Events :
          [outbox[e] EXCEPT !.owner = p, !.lease = Lease] \in Row
    BY <2>2, <2>3, TokenUpdateType
  <2>5. RowTypes'
    BY <1>2, <2>3, <2>4 DEF ClaimPendingNotifications, TypeOK, RowTypes
  <2>6. [e \in Events |-> IF e \in chosen THEN outbox[e].attempts ELSE 0]
           \in [Events -> Nat]
    BY <2>3
  <2>7. WorkTypes'
    BY <1>2, <2>1, <2>2, <2>6 DEF ClaimPendingNotifications, TypeOK, WorkTypes
  <2>. QED
    BY <2>5, <2>7
<1>3. ASSUME NEW p \in Workers, Send(p)
      PROVE  RowTypes' /\ WorkTypes'
  BY <1>3 DEF Send, SendReturns, SendRaises, IsNext, TypeOK, RowTypes, WorkTypes
<1>4. ASSUME NEW p \in Workers, Write(p)
      PROVE  RowTypes' /\ WorkTypes'
  <2>1. PICK e \in Events : /\ RowWrite(p, e)
                            /\ WorkMove(p, e)
                            /\ UNCHANGED <<published, accepted>>
    BY <1>4, WriteEffect
  <2>2. WorkTypes'
    BY <2>1, EndPassTypes DEF WorkMove, TypeOK, WorkTypes
  <2>. QED
    BY <2>1, <2>2, RowWriteTypes
<1>5. ASSUME NEW p \in Workers, Crash(p)
      PROVE  RowTypes' /\ WorkTypes'
  BY <1>5, EndPassTypes DEF Crash, TypeOK, RowTypes
<1>6. CASE Tick
  <2>1. \A n \in 0 .. Lease : Less(n) \in 0 .. Lease
    BY DeliveryAssumption DEF Less
  <2>2. \A n \in 0 .. BackoffMax : Less(n) \in 0 .. BackoffMax
    BY DeliveryAssumption DEF Less
  <2>3. \A e \in Events :
          [outbox[e] EXCEPT !.wait = Less(@), !.lease = Less(@)] \in Row
    BY <2>1, <2>2 DEF TypeOK, Row
  <2>4. RowTypes'
    BY <1>6, <2>3 DEF Tick, TypeOK, RowTypes
  <2>5. WorkTypes'
    BY <1>6, <2>1 DEF Tick, TypeOK, WorkTypes
  <2>. QED
    BY <2>4, <2>5
<1>7. CASE UNCHANGED vars
  BY <1>7 DEF vars, TypeOK, RowTypes, WorkTypes
<1>. QED
  BY <1>1, <1>2, <1>3, <1>4, <1>5, <1>6, <1>7 DEF Next, Claim

\* Every reachable state is well typed: no row waits longer than backoff_max.
THEOREM DeliveryTypeCorrect == Spec => []TypeOK
<1>. QED
  BY InitType, NextType, PTL DEF Spec

-------------------------------------------------------------------------------
(* The inductive invariant *)

\* OneLeaseHolder follows from the other parts: a running lease has the token,
\* a row has one token, and only a pending row has any.
Parts ==
    /\ TokenMeansPending
    /\ CopyIsCurrent
    /\ LeaseKeepsToken
    /\ MarkedWasSent
    /\ NothingUnpublished
    /\ RetryLimit

LEMMA PartsImplyIInv == TypeOK /\ Parts => IInv
<1> SUFFICES ASSUME TypeOK, TokenMeansPending, LeaseKeepsToken
             PROVE  OneLeaseHolder
  BY DEF Parts, IInv
<1>1. ASSUME NEW p \in Workers, NEW e \in Events, Sending(p, e), leaseLeft[p] > 0
      PROVE  HoldsToken(p, e)
  BY <1>1 DEF LeaseKeepsToken, Sending, IsNext
<1>2. ASSUME NEW p \in Workers, NEW e \in Events, HoldsToken(p, e)
      PROVE  Pending(e)
  BY <1>2, DeliveryAssumption DEF HoldsToken, TokenMeansPending, Pending
<1>3. ASSUME NEW p \in Workers, NEW q \in Workers \ {p}, NEW e \in Events,
             HoldsToken(p, e), Sending(q, e)
      PROVE  leaseLeft[q] = 0
  <2>1. ~ (leaseLeft[q] > 0)
    BY <1>1, <1>3 DEF HoldsToken
  <2>. QED
    BY <2>1, DeliveryAssumption DEF TypeOK
<1>. QED
  BY <1>1, <1>2, <1>3 DEF OneLeaseHolder

LEMMA InitParts == Init => Parts
  BY DeliveryAssumption DEF Init, Parts, TokenMeansPending, CopyIsCurrent,
     LeaseKeepsToken, MarkedWasSent, NothingUnpublished, RetryLimit, NewRow,
     HoldsToken

\* What a write leaves alone, and what it does to its own row.
LEMMA RowWriteEffect ==
  ASSUME TypeOK, NEW p \in Workers, NEW e \in Events, RowWrite(p, e)
  PROVE  /\ \A f \in Events \ {e} : outbox'[f] = outbox[f]
         /\ outbox' # outbox =>
              /\ outbox[e].owner = p
              /\ outbox'[e].owner = Nil
         /\ \/ outbox'[e].attempts = outbox[e].attempts
               /\ outbox'[e].delivered = outbox[e].delivered
               /\ outbox'[e].dead = outbox[e].dead
            \/ outbox'[e].attempts = outbox[e].attempts + 1
               /\ outbox'[e].delivered = TRUE
               /\ outbox'[e].dead = outbox[e].dead
               /\ outbox[e].owner = p
               /\ pc[p] = "mark"
            \/ outbox'[e].attempts = outbox[e].attempts + 1
               /\ outbox'[e].delivered = outbox[e].delivered
               /\ outbox'[e].dead = IsLastAttempt(p, e)
               /\ outbox[e].owner = p
<1> USE DEF TypeOK
<1>1. CASE outbox' = outbox
  BY <1>1
<1>2. CASE HoldsToken(p, e) /\ outbox' = MarkedDelivered(e) /\ pc[p] = "mark"
  BY <1>2 DEF HoldsToken, MarkedDelivered, Row
<1>3. CASE HoldsToken(p, e) /\ outbox' = RecordedAttempt(p, e)
  BY <1>3 DEF HoldsToken, RecordedAttempt, Row
<1>4. CASE /\ HoldsToken(p, e)
           /\ outbox' = [outbox EXCEPT ![e].owner = Nil, ![e].lease = 0]
  BY <1>4 DEF HoldsToken, Row
<1>. QED
  BY <1>1, <1>2, <1>3, <1>4 DEF RowWrite

\* What a worker does after a send disturbs no other worker.
LEMMA WorkMoveEffect ==
  ASSUME TypeOK, NEW p \in Workers, NEW e \in Events, WorkMove(p, e)
  PROVE  /\ \A q \in Workers \ {p} : /\ pc'[q] = pc[q]
                                     /\ batch'[q] = batch[q]
                                     /\ claimed'[q] = claimed[q]
                                     /\ leaseLeft'[q] = leaseLeft[q]
         /\ \/ pc'[p] = "idle" /\ batch'[p] = {} /\ leaseLeft'[p] = 0
            \/ /\ pc'[p] = "send"
               /\ batch'[p] = batch[p] \ {e}
               /\ pc[p] \in {"mark", "record"}
               /\ claimed' = claimed
               /\ leaseLeft' = leaseLeft
            \/ /\ pc'[p] = "release"
               /\ batch' = batch
               /\ claimed' = claimed
               /\ leaseLeft' = leaseLeft
  BY DEF TypeOK, WorkMove, EndPass

LEMMA WriteParts ==
  ASSUME TypeOK, Parts, NEW p \in Workers, Write(p)
  PROVE  Parts'
<1>1. PICK e \in Events : /\ IsNext(p, e)
                          /\ RowWrite(p, e)
                          /\ WorkMove(p, e)
                          /\ UNCHANGED <<published, accepted>>
  BY WriteEffect
<1> DEFINE Rows ==
             /\ \A f \in Events \ {e} : outbox'[f] = outbox[f]
             /\ outbox' # outbox => /\ outbox[e].owner = p
                                    /\ outbox'[e].owner = Nil
           Counts ==
             \/ outbox'[e].attempts = outbox[e].attempts
                /\ outbox'[e].delivered = outbox[e].delivered
                /\ outbox'[e].dead = outbox[e].dead
             \/ outbox'[e].attempts = outbox[e].attempts + 1
                /\ outbox'[e].delivered = TRUE
                /\ outbox'[e].dead = outbox[e].dead
                /\ outbox[e].owner = p
             \/ outbox'[e].attempts = outbox[e].attempts + 1
                /\ outbox'[e].delivered = outbox[e].delivered
                /\ outbox'[e].dead = IsLastAttempt(p, e)
                /\ outbox[e].owner = p
           Others ==
             \A q \in Workers \ {p} : /\ pc'[q] = pc[q]
                                      /\ batch'[q] = batch[q]
                                      /\ claimed'[q] = claimed[q]
                                      /\ leaseLeft'[q] = leaseLeft[q]
           Own ==
             \/ pc'[p] = "idle" /\ batch'[p] = {} /\ leaseLeft'[p] = 0
             \/ /\ pc'[p] = "send"
                /\ batch'[p] = batch[p] \ {e}
                /\ pc[p] \in {"mark", "record"}
                /\ claimed' = claimed
                /\ leaseLeft' = leaseLeft
             \/ /\ pc'[p] = "release"
                /\ batch' = batch
                /\ claimed' = claimed
                /\ leaseLeft' = leaseLeft
<1>2. Rows /\ Counts
  BY <1>1, RowWriteEffect
<1>3. Others /\ Own
  BY <1>1, WorkMoveEffect
<1>4. e \in batch[p] /\ published' = published /\ accepted' = accepted
  BY <1>1 DEF IsNext
<1>5. batch \in [Workers -> SUBSET published] /\ published \subseteq Events
      /\ outbox \in [Events -> Row] /\ leaseLeft \in [Workers -> 0 .. Lease]
      /\ claimed \in [Workers -> [Events -> Nat]]
  BY DEF TypeOK
<1> HIDE DEF Rows, Counts, Others, Own
<1>6. TokenMeansPending'
  <2> SUFFICES ASSUME NEW f \in Events, outbox'[f].owner # Nil
               PROVE  /\ f \in published'
                      /\ ~ outbox'[f].delivered
                      /\ ~ outbox'[f].dead
    BY DEF TokenMeansPending
  <2>1. outbox'[f] = outbox[f]
    BY <1>2 DEF Rows
  <2>. QED
    BY <1>4, <2>1 DEF Parts, TokenMeansPending
<1>7. CopyIsCurrent'
  <2> SUFFICES ASSUME NEW q \in Workers, NEW f \in batch'[q],
                      outbox'[f].owner = q
               PROVE  /\ outbox'[f].attempts = claimed'[q][f]
                      /\ outbox'[f].lease = leaseLeft'[q]
    BY DEF CopyIsCurrent, HoldsToken
  <2>1. f \in batch[q] /\ claimed'[q] = claimed[q] /\ leaseLeft'[q] = leaseLeft[q]
    BY <1>3 DEF Others, Own
  <2>2. f \in Events
    BY <1>5, <2>1
  <2>3. outbox'[f] = outbox[f]
    BY <1>2, <2>2, DeliveryAssumption DEF Rows
  <2>. QED
    BY <2>1, <2>3 DEF Parts, CopyIsCurrent, HoldsToken
<1>8. LeaseKeepsToken'
  <2> SUFFICES ASSUME NEW q \in Workers, pc'[q] \in {"send", "mark", "record"},
                      leaseLeft'[q] > 0, NEW f \in batch'[q]
               PROVE  outbox'[f].owner = q
    BY DEF LeaseKeepsToken, HoldsToken
  <2>1. /\ f \in batch[q] /\ leaseLeft[q] > 0
        /\ pc[q] \in {"send", "mark", "record"}
        /\ q = p => f # e
    BY <1>3 DEF Others, Own
  <2>2. outbox[f].owner = q /\ f \in Events
    BY <1>5, <2>1 DEF Parts, LeaseKeepsToken, HoldsToken
  <2>3. outbox'[f] = outbox[f]
    BY <1>2, <2>1, <2>2 DEF Rows
  <2>. QED
    BY <2>2, <2>3
<1>9. MarkedWasSent'
  <2> SUFFICES ASSUME NEW q \in Workers, NEW f \in Events, pc'[q] = "mark",
                      f \in batch'[q], \A g \in batch'[q] : f <= g
               PROVE  f \in accepted
    BY <1>4 DEF MarkedWasSent, IsNext
  <2>1. pc[q] = "mark" /\ batch'[q] = batch[q]
    BY <1>3 DEF Others, Own
  <2>. QED
    BY <2>1 DEF Parts, MarkedWasSent, IsNext
<1>10. NothingUnpublished'
  <2>1. e \in published
    BY <1>4, <1>5
  <2>. QED
    BY <1>2, <1>4, <2>1 DEF Rows, Parts, NothingUnpublished
<1>11. RetryLimit'
  <2>1. outbox[e].owner = p =>
          /\ ~ outbox[e].delivered /\ ~ outbox[e].dead
          /\ claimed[p][e] = outbox[e].attempts
    BY <1>4, DeliveryAssumption
    DEF Parts, TokenMeansPending, CopyIsCurrent, HoldsToken
  <2>2. outbox[e].attempts \in Nat /\ outbox[e].dead \in BOOLEAN
        /\ outbox[e].delivered \in BOOLEAN
    BY <1>5 DEF Row
  <2>3. ASSUME NEW f \in Events
        PROVE  /\ outbox'[f].dead => ~ outbox'[f].delivered
               /\ MaxAttempts # Nil =>
                    /\ outbox'[f].attempts <= MaxAttempts
                    /\ outbox'[f].dead <=> outbox'[f].attempts = MaxAttempts
                                             /\ ~ outbox'[f].delivered
               /\ MaxAttempts = Nil => ~ outbox'[f].dead
    <3>1. CASE f # e
      BY <1>2, <3>1 DEF Rows, Parts, RetryLimit
    <3>2. CASE f = e
      <4>1. CASE MaxAttempts = Nil
        BY <1>2, <2>1, <2>2, <3>2, <4>1
        DEF Counts, Parts, RetryLimit, IsLastAttempt
      <4>2. CASE MaxAttempts # Nil
        <5>1. MaxAttempts \in Nat \ {0}
          BY <4>2, DeliveryAssumption
        <5>2. /\ outbox[e].dead => ~ outbox[e].delivered
              /\ outbox[e].attempts <= MaxAttempts
              /\ outbox[e].dead <=> outbox[e].attempts = MaxAttempts
                                      /\ ~ outbox[e].delivered
          BY <4>2 DEF Parts, RetryLimit
        <5>3. CASE /\ outbox'[e].attempts = outbox[e].attempts
                   /\ outbox'[e].delivered = outbox[e].delivered
                   /\ outbox'[e].dead = outbox[e].dead
          BY <3>2, <4>2, <5>2, <5>3
        <5>4. CASE /\ outbox'[e].attempts = outbox[e].attempts + 1
                   /\ outbox'[e].delivered = TRUE
                   /\ outbox'[e].dead = outbox[e].dead
                   /\ outbox[e].owner = p
          BY <2>1, <2>2, <3>2, <4>2, <5>1, <5>2, <5>4
        <5>5. CASE /\ outbox'[e].attempts = outbox[e].attempts + 1
                   /\ outbox'[e].delivered = outbox[e].delivered
                   /\ outbox'[e].dead = IsLastAttempt(p, e)
                   /\ outbox[e].owner = p
          <6>1. IsLastAttempt(p, e) <=> outbox[e].attempts + 1 >= MaxAttempts
            BY <2>1, <4>2, <5>5 DEF IsLastAttempt
          <6>2. outbox[e].attempts < MaxAttempts
            BY <2>1, <2>2, <5>1, <5>2, <5>5
          <6>3. outbox'[e].dead <=> outbox'[e].attempts = MaxAttempts
            BY <2>2, <5>1, <5>5, <6>1, <6>2
          <6>. QED
            BY <2>1, <2>2, <3>2, <4>2, <5>1, <5>5, <6>2, <6>3
        <5>. QED
          BY <1>2, <5>3, <5>4, <5>5 DEF Counts
      <4>. QED
        BY <4>1, <4>2
    <3>. QED
      BY <3>1, <3>2
  <2>. QED
    BY <2>3 DEF RetryLimit
<1>. QED
  BY <1>6, <1>7, <1>8, <1>9, <1>10, <1>11 DEF Parts

LEMMA PublishParts ==
  ASSUME TypeOK, Parts, NEW e \in Events, Publish(e)
  PROVE  Parts'
<1>1. /\ e \notin published
      /\ published' = published \cup {e}
      /\ outbox[e] = NewRow
      /\ UNCHANGED <<accepted, pc, batch, claimed, leaseLeft>>
  BY DEF Publish, work, Parts, NothingUnpublished
<1>2. outbox' = outbox
  BY <1>1 DEF Publish, TypeOK
<1>3. TokenMeansPending' /\ NothingUnpublished'
  BY <1>1, <1>2 DEF Parts, TokenMeansPending, NothingUnpublished
<1>4. CopyIsCurrent' /\ LeaseKeepsToken' /\ MarkedWasSent' /\ RetryLimit'
  BY <1>1, <1>2 DEF Parts, CopyIsCurrent, LeaseKeepsToken, MarkedWasSent,
                    RetryLimit, HoldsToken, IsNext
<1>. QED
  BY <1>3, <1>4 DEF Parts

LEMMA ClaimParts ==
  ASSUME TypeOK, Parts, NEW p \in Workers, NEW chosen \in SUBSET Events,
         ClaimPendingNotifications(p, chosen)
  PROVE  Parts'
<1>1. \A e \in chosen : /\ e \in published
                        /\ ~ outbox[e].delivered /\ ~ outbox[e].dead
                        /\ outbox[e].lease = 0
  BY DEF ClaimPendingNotifications, Due, Pending
<1>2. /\ \A e \in Events \ chosen : outbox'[e] = outbox[e]
      /\ \A e \in chosen : /\ outbox'[e].owner = p
                           /\ outbox'[e].lease = Lease
                           /\ outbox'[e].attempts = outbox[e].attempts
                           /\ outbox'[e].delivered = outbox[e].delivered
                           /\ outbox'[e].dead = outbox[e].dead
  <2>1. \A e \in Events : outbox[e] \in Row
    BY DEF TypeOK
  <2>2. outbox' = [e \in Events |->
                     IF e \in chosen
                       THEN [outbox[e] EXCEPT !.owner = p, !.lease = Lease]
                       ELSE outbox[e]]
    BY DEF ClaimPendingNotifications
  <2>. QED
    BY <2>1, <2>2 DEF Row
<1>3. /\ pc' = [pc EXCEPT ![p] = "send"]
      /\ batch' = [batch EXCEPT ![p] = chosen]
      /\ \A e \in chosen : claimed'[p][e] = outbox[e].attempts
      /\ \A q \in Workers \ {p} : claimed'[q] = claimed[q]
      /\ leaseLeft' = [leaseLeft EXCEPT ![p] = Lease]
      /\ UNCHANGED <<published, accepted>>
  BY DEF ClaimPendingNotifications, TypeOK
<1>4. /\ pc \in [Workers -> {"idle", "send", "mark", "record", "release"}]
      /\ batch \in [Workers -> SUBSET published] /\ published \subseteq Events
      /\ leaseLeft \in [Workers -> 0 .. Lease]
  BY DEF TypeOK
<1>5. TokenMeansPending'
  BY <1>1, <1>2, <1>3 DEF Parts, TokenMeansPending
<1>6. CopyIsCurrent'
  <2> SUFFICES ASSUME NEW q \in Workers, NEW e \in batch'[q],
                      outbox'[e].owner = q
               PROVE  /\ outbox'[e].attempts = claimed'[q][e]
                      /\ outbox'[e].lease = leaseLeft'[q]
    BY DEF CopyIsCurrent, HoldsToken
  <2>1. CASE q = p
    BY <1>2, <1>3, <1>4, <2>1
  <2>2. CASE q # p
    <3>1. e \in batch[q] /\ e \in Events /\ leaseLeft'[q] = leaseLeft[q]
      BY <1>3, <1>4, <2>2
    <3>2. e \notin chosen
      BY <1>2, <2>2
    <3>. QED
      BY <1>2, <1>3, <2>2, <3>1, <3>2 DEF Parts, CopyIsCurrent, HoldsToken
  <2>. QED
    BY <2>1, <2>2
<1>7. LeaseKeepsToken'
  <2> SUFFICES ASSUME NEW q \in Workers, pc'[q] \in {"send", "mark", "record"},
                      leaseLeft'[q] > 0, NEW e \in batch'[q]
               PROVE  outbox'[e].owner = q
    BY DEF LeaseKeepsToken, HoldsToken
  <2>1. CASE q = p
    BY <1>2, <1>3, <1>4, <2>1
  <2>2. CASE q # p
    <3>1. /\ e \in batch[q] /\ e \in Events /\ leaseLeft[q] > 0
          /\ pc[q] \in {"send", "mark", "record"}
      BY <1>3, <1>4, <2>2
    <3>2. outbox[e].owner = q
      BY <3>1 DEF Parts, LeaseKeepsToken, HoldsToken
    <3>3. outbox[e].lease > 0
      BY <3>1, <3>2 DEF Parts, CopyIsCurrent, HoldsToken
    <3>4. e \notin chosen
      BY <1>1, <3>3
    <3>. QED
      BY <1>2, <3>1, <3>2, <3>4
  <2>. QED
    BY <2>1, <2>2
<1>8. MarkedWasSent'
  <2> SUFFICES ASSUME NEW q \in Workers, NEW e \in Events, pc'[q] = "mark",
                      e \in batch'[q], \A f \in batch'[q] : e <= f
               PROVE  e \in accepted
    BY <1>3 DEF MarkedWasSent, IsNext
  <2>1. q # p
    BY <1>3, <1>4
  <2>. QED
    BY <1>3, <1>4, <2>1 DEF Parts, MarkedWasSent, IsNext
<1>9. NothingUnpublished'
  BY <1>1, <1>2, <1>3 DEF Parts, NothingUnpublished
<1>10. RetryLimit'
  <2>1. \A e \in Events : /\ outbox'[e].attempts = outbox[e].attempts
                          /\ outbox'[e].delivered = outbox[e].delivered
                          /\ outbox'[e].dead = outbox[e].dead
    BY <1>2
  <2>. QED
    BY <2>1 DEF Parts, RetryLimit
<1>. QED
  BY <1>5, <1>6, <1>7, <1>8, <1>9, <1>10 DEF Parts

LEMMA SendParts ==
  ASSUME TypeOK, Parts, NEW p \in Workers, Send(p)
  PROVE  Parts'
<1>1. PICK e \in Events :
         /\ pc[p] = "send"
         /\ IsNext(p, e)
         /\ \/ pc' = [pc EXCEPT ![p] = "mark"] /\ accepted' = accepted \cup {e}
            \/ pc' = [pc EXCEPT ![p] = "record"]
               /\ accepted \subseteq accepted'
         /\ UNCHANGED <<outbox, published, batch, claimed, leaseLeft>>
  BY DEF Send, SendReturns, SendRaises
<1>2. /\ pc \in [Workers -> {"idle", "send", "mark", "record", "release"}]
      /\ batch \in [Workers -> SUBSET published] /\ published \subseteq Events
  BY DEF TypeOK
<1>3. /\ TokenMeansPending' /\ CopyIsCurrent' /\ NothingUnpublished'
      /\ RetryLimit'
  BY <1>1 DEF Parts, TokenMeansPending, CopyIsCurrent, NothingUnpublished,
              RetryLimit, HoldsToken
<1>4. LeaseKeepsToken'
  BY <1>1, <1>2 DEF Parts, LeaseKeepsToken, HoldsToken
<1>5. MarkedWasSent'
  <2> SUFFICES ASSUME NEW q \in Workers, NEW f \in Events, pc'[q] = "mark",
                      f \in batch[q], \A g \in batch[q] : f <= g
               PROVE  f \in accepted'
    BY <1>1 DEF MarkedWasSent, IsNext
  <2>1. CASE q = p
    <3>1. accepted' = accepted \cup {e}
      BY <1>1, <1>2, <2>1
    <3>2. f <= e /\ e <= f /\ e \in Nat /\ f \in Nat
      BY <1>1, <2>1, DeliveryAssumption DEF IsNext
    <3>. QED
      BY <3>1, <3>2
  <2>2. CASE q # p
    BY <1>1, <1>2, <2>2 DEF Parts, MarkedWasSent, IsNext
  <2>. QED
    BY <2>1, <2>2
<1>. QED
  BY <1>3, <1>4, <1>5 DEF Parts

LEMMA CrashParts ==
  ASSUME TypeOK, Parts, NEW p \in Workers, Crash(p)
  PROVE  Parts'
<1>1. /\ pc' = [pc EXCEPT ![p] = "idle"]
      /\ batch' = [batch EXCEPT ![p] = {}]
      /\ \A q \in Workers \ {p} : claimed'[q] = claimed[q]
      /\ leaseLeft' = [leaseLeft EXCEPT ![p] = 0]
      /\ UNCHANGED <<outbox, published, accepted>>
  BY DEF Crash, EndPass, TypeOK
<1>2. /\ pc \in [Workers -> {"idle", "send", "mark", "record", "release"}]
      /\ batch \in [Workers -> SUBSET published]
      /\ leaseLeft \in [Workers -> 0 .. Lease]
  BY DEF TypeOK
<1>3. TokenMeansPending' /\ NothingUnpublished' /\ RetryLimit'
  BY <1>1 DEF Parts, TokenMeansPending, NothingUnpublished, RetryLimit
<1>4. CopyIsCurrent'
  BY <1>1, <1>2 DEF Parts, CopyIsCurrent, HoldsToken
<1>5. LeaseKeepsToken'
  BY <1>1, <1>2 DEF Parts, LeaseKeepsToken, HoldsToken
<1>6. MarkedWasSent'
  BY <1>1, <1>2 DEF Parts, MarkedWasSent, IsNext
<1>. QED
  BY <1>3, <1>4, <1>5, <1>6 DEF Parts

LEMMA TickParts ==
  ASSUME TypeOK, Parts, Tick
  PROVE  Parts'
<1>1. /\ \A e \in Events : /\ outbox'[e].owner = outbox[e].owner
                           /\ outbox'[e].attempts = outbox[e].attempts
                           /\ outbox'[e].delivered = outbox[e].delivered
                           /\ outbox'[e].dead = outbox[e].dead
                           /\ outbox'[e].lease = Less(outbox[e].lease)
      /\ \A p \in Workers : leaseLeft'[p] = Less(leaseLeft[p])
      /\ UNCHANGED <<published, accepted, pc, batch, claimed>>
  BY DEF Tick, TypeOK, Row
<1>2. /\ batch \in [Workers -> SUBSET published] /\ published \subseteq Events
      /\ leaseLeft \in [Workers -> 0 .. Lease]
  BY DEF TypeOK
<1>3. TokenMeansPending' /\ RetryLimit'
  BY <1>1 DEF Parts, TokenMeansPending, RetryLimit
<1>4. CopyIsCurrent'
  BY <1>1, <1>2 DEF Parts, CopyIsCurrent, HoldsToken
<1>5. LeaseKeepsToken'
  <2>1. \A p \in Workers : leaseLeft'[p] > 0 => leaseLeft[p] > 0
    BY <1>1, <1>2, DeliveryAssumption DEF Less
  <2>. QED
    BY <1>1, <1>2, <2>1 DEF Parts, LeaseKeepsToken, HoldsToken
<1>6. MarkedWasSent'
  BY <1>1 DEF Parts, MarkedWasSent, IsNext
<1>7. NothingUnpublished'
  <2> SUFFICES ASSUME NEW e \in Events \ published
               PROVE  outbox'[e] = NewRow
    BY <1>1 DEF NothingUnpublished
  <2>1. outbox[e] = NewRow
    BY DEF Parts, NothingUnpublished
  <2>2. outbox'[e] = [outbox[e] EXCEPT !.wait = Less(@), !.lease = Less(@)]
    BY DEF Tick
  <2>3. outbox'[e] = [NewRow EXCEPT !.wait = Less(@), !.lease = Less(@)]
    BY <2>1, <2>2
  <2>4. Less(0) = 0
    BY DEF Less
  <2>5. outbox'[e] = [attempts |-> 0, delivered |-> FALSE, dead |-> FALSE,
                      wait |-> 0, owner |-> Nil, lease |-> 0]
    BY <2>3, <2>4 DEF NewRow
  <2>. QED
    BY <2>5 DEF NewRow
<1>. QED
  BY <1>3, <1>4, <1>5, <1>6, <1>7 DEF Parts

LEMMA NextParts == TypeOK /\ Parts /\ [Next]_vars => Parts'
<1>1. TypeOK /\ Parts /\ UNCHANGED vars => Parts'
  BY DEF vars, Parts, TokenMeansPending, CopyIsCurrent, LeaseKeepsToken,
         MarkedWasSent, NothingUnpublished, RetryLimit, HoldsToken, IsNext
<1>. QED
  BY <1>1, PublishParts, ClaimParts, SendParts, WriteParts, CrashParts,
     TickParts DEF Next, Claim

LEMMA DeliveryInductive == Spec => [](TypeOK /\ Parts)
<1>1. Init => TypeOK /\ Parts
  BY InitType, InitParts
<1>2. TypeOK /\ Parts /\ [Next]_vars => (TypeOK /\ Parts)'
  BY NextType, NextParts
<1>. QED
  BY <1>1, <1>2, PTL DEF Spec

-------------------------------------------------------------------------------
(* Theorems *)

\* Within its lease a worker only sends what is pending, and it is the only one
\* that does so within a lease.
THEOREM LeaseIsExclusive == Spec => []OneLeaseHolder
<1>1. TypeOK /\ Parts => OneLeaseHolder
  BY PartsImplyIInv DEF IInv
<1>. QED
  BY <1>1, DeliveryInductive, PTL

\* An event is dead-lettered exactly at its max_attempts-th failure.
THEOREM RetriesAreLimited == Spec => []RetryLimit
<1>1. Parts => RetryLimit
  BY DEF Parts
<1>. QED
  BY <1>1, DeliveryInductive, PTL

\* Every step of the workers is at most one step of the promise: settled
\* events are final, what is delivered was accepted, failures are counted.
THEOREM OutboxKeepsPromise == Spec => KeepsPromise
<1> DEFINE Attempted == [e \in Events |-> outbox[e].attempts]
           Delivered == {e \in Events : outbox[e].delivered}
           Dead == {e \in Events : outbox[e].dead}
<1>1. Init => Promise!Init
  BY DEF Init, NewRow, Promise!Init
<1>2. ASSUME TypeOK, Parts, [Next]_vars
      PROVE  [Promise!Next]_(Promise!vars)
  <2>1. ASSUME NEW e \in Events, Publish(e)
        PROVE  Promise!Publish(e)
    <3>1. outbox' = outbox
      <4>1. outbox[e] = NewRow
        BY <1>2, <2>1 DEF Publish, Parts, NothingUnpublished
      <4>. QED
        BY <1>2, <2>1, <4>1 DEF Publish, TypeOK
    <3>. QED
      BY <2>1, <3>1 DEF Publish, Promise!Publish
  <2>2. ASSUME NEW p \in Workers, Claim(p)
        PROVE  UNCHANGED Promise!vars
    <3>1. \A e \in Events : outbox[e] \in Row
      BY <1>2 DEF TypeOK
    <3>2. \A e \in Events : /\ outbox'[e].attempts = outbox[e].attempts
                            /\ outbox'[e].delivered = outbox[e].delivered
                            /\ outbox'[e].dead = outbox[e].dead
      <4>1. PICK chosen \in SUBSET Events :
              outbox' = [e \in Events |->
                IF e \in chosen
                  THEN [outbox[e] EXCEPT !.owner = p, !.lease = Lease]
                  ELSE outbox[e]]
        BY <2>2 DEF Claim, ClaimPendingNotifications
      <4>. QED
        BY <3>1, <4>1 DEF Row
    <3>. QED
      BY <2>2, <3>2 DEF Claim, ClaimPendingNotifications, Promise!vars
  <2>3. ASSUME NEW p \in Workers, Send(p)
        PROVE  (\E e \in Events : Promise!Accept(e)) \/ UNCHANGED Promise!vars
    <3>1. PICK e \in Events : /\ e \in batch[p]
                              /\ \/ accepted' = accepted \cup {e}
                                 \/ accepted' = accepted
                              /\ UNCHANGED <<outbox, published>>
      BY <2>3 DEF Send, SendReturns, SendRaises, IsNext
    <3>2. e \in published
      BY <1>2, <3>1 DEF TypeOK
    <3>. QED
      BY <3>1, <3>2 DEF Promise!Accept, Promise!vars
  <2>4. ASSUME NEW p \in Workers, Write(p)
        PROVE  (\E e \in Events : Promise!Deliver(e) \/ Promise!FailAttempt(e))
               \/ UNCHANGED Promise!vars
    <3>1. PICK e \in Events : /\ IsNext(p, e)
                              /\ RowWrite(p, e)
                              /\ UNCHANGED <<published, accepted>>
      BY <2>4, WriteEffect
    <3>2. \A f \in Events \ {e} : outbox'[f] = outbox[f]
      BY <1>2, <3>1, RowWriteEffect
    <3>3. outbox[e].owner = p =>
            /\ e \in published /\ ~ outbox[e].delivered /\ ~ outbox[e].dead
            /\ claimed[p][e] = outbox[e].attempts
      BY <1>2, <3>1, DeliveryAssumption
      DEF Parts, TokenMeansPending, CopyIsCurrent, HoldsToken, IsNext
    <3>4. CASE /\ outbox'[e].attempts = outbox[e].attempts
               /\ outbox'[e].delivered = outbox[e].delivered
               /\ outbox'[e].dead = outbox[e].dead
      <4>1. \A f \in Events : /\ outbox'[f].attempts = outbox[f].attempts
                              /\ outbox'[f].delivered = outbox[f].delivered
                              /\ outbox'[f].dead = outbox[f].dead
        BY <3>2, <3>4
      <4>. QED
        BY <3>1, <4>1 DEF Promise!vars
    <3>5. CASE /\ outbox'[e].attempts = outbox[e].attempts + 1
               /\ outbox'[e].delivered = TRUE
               /\ outbox'[e].dead = outbox[e].dead
               /\ outbox[e].owner = p
               /\ pc[p] = "mark"
      <4>1. e \in accepted
        BY <1>2, <3>1, <3>5 DEF Parts, MarkedWasSent
      <4>2. Promise!Open(e)
        BY <3>3, <3>5 DEF Promise!Open
      <4>3. Delivered' = Delivered \cup {e}
        BY <3>2, <3>5
      <4>4. Dead' = Dead
        BY <3>2, <3>5
      <4>5. Attempted' = [Attempted EXCEPT ![e] = @ + 1]
        BY <3>2, <3>5
      <4>. QED
        BY <3>1, <4>1, <4>2, <4>3, <4>4, <4>5 DEF Promise!Deliver
    <3>6. CASE /\ outbox'[e].attempts = outbox[e].attempts + 1
               /\ outbox'[e].delivered = outbox[e].delivered
               /\ outbox'[e].dead = IsLastAttempt(p, e)
               /\ outbox[e].owner = p
      <4>1. Promise!Open(e)
        BY <3>3, <3>6 DEF Promise!Open
      <4>2. Delivered' = Delivered
        BY <3>2, <3>6
      <4>3. Attempted' = [Attempted EXCEPT ![e] = @ + 1]
        BY <3>2, <3>6
      <4>4. Dead' = IF IsLastAttempt(p, e) THEN Dead \cup {e} ELSE Dead
        BY <3>2, <3>3, <3>6
      <4>5. MaxAttempts # Nil => outbox[e].attempts < MaxAttempts
        <5>1. outbox[e].attempts \in Nat
          BY <1>2 DEF TypeOK, Row
        <5>2. ASSUME MaxAttempts # Nil
              PROVE  /\ outbox[e].attempts <= MaxAttempts
                     /\ outbox[e].attempts # MaxAttempts
                     /\ MaxAttempts \in Nat
          BY <1>2, <3>3, <3>6, <5>2, DeliveryAssumption DEF Parts, RetryLimit
        <5>. QED
          BY <5>1, <5>2
      <4>6. IsLastAttempt(p, e)
              <=> MaxAttempts # Nil /\ outbox[e].attempts + 1 = MaxAttempts
        <5>1. outbox[e].attempts \in Nat
          BY <1>2 DEF TypeOK, Row
        <5>. QED
          BY <3>3, <3>6, <4>5, <5>1, DeliveryAssumption DEF IsLastAttempt
      <4>. QED
        BY <3>1, <4>1, <4>2, <4>3, <4>4, <4>5, <4>6 DEF Promise!FailAttempt
    <3>. QED
      BY <1>2, <3>1, <3>4, <3>5, <3>6, RowWriteEffect
  <2>5. ASSUME NEW p \in Workers, Crash(p)
        PROVE  UNCHANGED Promise!vars
    BY <2>5 DEF Crash, Promise!vars
  <2>6. CASE Tick
    <3>1. \A e \in Events : outbox[e] \in Row
      BY <1>2 DEF TypeOK
    <3>2. \A e \in Events : /\ outbox'[e].attempts = outbox[e].attempts
                            /\ outbox'[e].delivered = outbox[e].delivered
                            /\ outbox'[e].dead = outbox[e].dead
      BY <2>6, <3>1 DEF Tick, Row
    <3>. QED
      BY <2>6, <3>2 DEF Tick, Promise!vars
  <2>7. CASE UNCHANGED vars
    BY <2>7 DEF vars, Promise!vars
  <2>. QED
    BY <1>2, <2>1, <2>2, <2>3, <2>4, <2>5, <2>6, <2>7 DEF Next, Promise!Next
<1>3. TypeOK /\ Parts /\ [Next]_vars => [Promise!Next]_(Promise!vars)
  BY <1>2
<1>. QED
  BY <1>1, <1>3, DeliveryInductive, PTL DEF Spec, Promise!Spec, KeepsPromise

===============================================================================
