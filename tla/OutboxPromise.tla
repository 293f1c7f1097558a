---------------------------- MODULE OutboxPromise ----------------------------
(***************************************************************************)
(* What the outbox promises about each notification, whatever the workers,  *)
(* leases and retries: an event is settled once, as delivered or as dead,   *)
(* and never changes again; it is delivered only after the receiver had it  *)
(* (at least once, perhaps again later); it is dead after exactly           *)
(* max_attempts recorded attempts that all failed.                          *)
(***************************************************************************)
EXTENDS Integers

CONSTANTS
    Events,       \* ids of outbox events
    MaxAttempts,  \* NotificationPolicy.max_attempts, or Nil for None
    Nil

VARIABLES
    published,    \* events whose intent is committed
    accepted,     \* events the receiver got, once or more
    attempted,    \* attempts recorded of each event
    delivered,    \* events settled as delivered
    dead          \* events settled as dead-lettered

vars == <<published, accepted, attempted, delivered, dead>>

Open(e) == e \in published \ (delivered \cup dead)

Init ==
    /\ published = {}
    /\ accepted = {}
    /\ attempted = [e \in Events |-> 0]
    /\ delivered = {}
    /\ dead = {}

Publish(e) ==
    /\ e \notin published
    /\ published' = published \cup {e}
    /\ UNCHANGED <<accepted, attempted, delivered, dead>>

\* A send that arrives, also one that is late or repeated.
Accept(e) ==
    /\ e \in published
    /\ accepted' = accepted \cup {e}
    /\ UNCHANGED <<published, attempted, delivered, dead>>

Deliver(e) ==
    /\ Open(e)
    /\ e \in accepted
    /\ delivered' = delivered \cup {e}
    /\ attempted' = [attempted EXCEPT ![e] = @ + 1]
    /\ UNCHANGED <<published, accepted, dead>>

FailAttempt(e) ==
    /\ Open(e)
    /\ MaxAttempts # Nil => attempted[e] < MaxAttempts
    /\ attempted' = [attempted EXCEPT ![e] = @ + 1]
    /\ dead' = IF MaxAttempts # Nil /\ attempted[e] + 1 = MaxAttempts
                 THEN dead \cup {e} ELSE dead
    /\ UNCHANGED <<published, accepted, delivered>>

Next ==
    \E e \in Events : Publish(e) \/ Accept(e) \/ Deliver(e) \/ FailAttempt(e)

Spec == Init /\ [][Next]_vars

===============================================================================
