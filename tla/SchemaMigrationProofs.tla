------------------------- MODULE SchemaMigrationProofs -------------------------
(* Proofs about SchemaMigration, for any set of processes, releases and files.  *)
(* The safety properties follow from one inductive invariant: while a process   *)
(* is between the grant of the lock and its commit the ledger cannot change, so *)
(* that what it applies is exactly what its release has more.                   *)
EXTENDS SchemaMigration, FiniteSetTheorems, TLAPS

-------------------------------------------------------------------------------
(* Types *)

\* The migrations of a release: finitely many, one for a version.
LEMMA FilesOfRelease ==
  ASSUME NEW r \in Releases
  PROVE  /\ IsFiniteSet(Files[r])
         /\ Files[r] \subseteq AllFiles
         /\ \A f \in Files[r] : f \in Nat \X Nat /\ f[1] \in Versions
         /\ \A f, g \in Files[r] : f[1] = g[1] => f = g
BY FilesAssumption DEF AllFiles, Versions

\* Only a transaction that applies has anything pending or staged, migrations of
\* the release of its process, so that the rows it adds are finitely many.
StagedIsOwn ==
    \A p \in Processes :
        IF at[p] = "apply"
        THEN pending[p] \subseteq Code(p) /\ staged[p] \subseteq Code(p)
        ELSE pending[p] = {} /\ staged[p] = {}

LEMMA InitTypes == Init => TypeOK /\ StagedIsOwn
<1> SUFFICES ASSUME Init PROVE TypeOK /\ StagedIsOwn
  OBVIOUS
<1>1. ledger \subseteq AllFiles /\ created \in BOOLEAN
  BY FilesOfRelease DEF Init
<1>2. runs \in [Versions -> Nat] /\ lock \in Processes \cup {Nil}
  BY DEF Init
<1>3. command \in [Processes -> Commands] /\ release \in [Processes -> Releases]
  BY DEF Init, Commands
<1>4. at \in [Processes -> Places]
  BY DEF Init, Places
<1>5. pending \in [Processes -> SUBSET AllFiles] /\ staged \in [Processes -> SUBSET AllFiles]
  BY DEF Init
<1>6. StagedIsOwn
  BY DEF Init, StagedIsOwn
<1> QED
  BY <1>1, <1>2, <1>3, <1>4, <1>5, <1>6 DEF TypeOK

\* A transaction that ends without a commit.
LEMMA AbandonTypes ==
  ASSUME TypeOK, StagedIsOwn, NEW p \in Processes, Abandon(p)
  PROVE  TypeOK' /\ StagedIsOwn'
<1>1. TypeOK'
  BY DEF Abandon, Move, Places, TypeOK
<1>2. StagedIsOwn'
  BY DEF Abandon, Move, TypeOK, StagedIsOwn, Code
<1> QED
  BY <1>1, <1>2

LEMMA NextTypes ==
  ASSUME TypeOK, StagedIsOwn, [Next]_vars
  PROVE  TypeOK' /\ StagedIsOwn'
<1>1. CASE UNCHANGED vars
  BY <1>1 DEF TypeOK, StagedIsOwn, Code, vars
<1>2. ASSUME NEW p \in Processes, Invoke(p) \/ Progress(p) \/ Finish(p) \/ Fail(p)
      PROVE  TypeOK' /\ StagedIsOwn'
  <2> USE DEF Move, schema, transaction
  <2>a. release[p] \in Releases /\ Code(p) \subseteq AllFiles
    BY FilesOfRelease DEF Code, TypeOK
  <2>1. CASE Invoke(p)
    <3>1. PICK c \in Commands, r \in Releases :
            /\ command' = [command EXCEPT ![p] = c]
            /\ release' = [release EXCEPT ![p] = r]
      BY <2>1 DEF Invoke
    <3>2. TypeOK'
      BY <2>1, <3>1 DEF Invoke, Places, TypeOK
    <3>3. StagedIsOwn'
      BY <2>1, <3>1 DEF Invoke, TypeOK, StagedIsOwn, Code
    <3> QED
      BY <3>2, <3>3
  <2>2. CASE Built(p)
    BY <2>2 DEF Built, TypeOK, StagedIsOwn, Code, Places
  <2>3. CASE TakeLock(p)
    BY <2>3 DEF TakeLock, TypeOK, StagedIsOwn, Code, Places
  <2>4. CASE Verify(p)
    <3>1. CASE Disagrees(p)
      BY <2>4, <3>1, AbandonTypes DEF Verify
    <3>2. CASE ~ Disagrees(p)
      <4>1. Pending(p) \subseteq Code(p)
        BY DEF Pending
      <4>2. TypeOK'
        BY <2>4, <3>2, <4>1, <2>a DEF Verify, TypeOK, Places
      <4>3. StagedIsOwn'
        BY <2>4, <3>2, <4>1 DEF Verify, TypeOK, StagedIsOwn, Code
      <4> QED
        BY <4>2, <4>3
    <3> QED
      BY <3>1, <3>2
  <2>5. CASE Apply(p)
    <3>1. PICK f \in pending[p] :
            /\ pending' = [pending EXCEPT ![p] = @ \ {f}]
            /\ staged' = [staged EXCEPT ![p] = @ \cup {f}]
      BY <2>5 DEF Apply
    <3>2. TypeOK'
      BY <2>5, <3>1 DEF Apply, TypeOK
    <3>3. StagedIsOwn'
      BY <2>5, <3>1 DEF Apply, TypeOK, StagedIsOwn, Code
    <3> QED
      BY <3>2, <3>3
  <2>6. CASE CommitMigration(p)
    <3>1. staged[p] \subseteq Code(p) /\ IsFiniteSet(staged[p])
      BY <2>6, <2>a, FilesOfRelease, FS_Subset DEF CommitMigration, StagedIsOwn, Code
    <3>2. \A v : Cardinality({f \in staged[p] : f[1] = v}) \in Nat
      BY <3>1, FS_Subset, FS_CardinalityType
    <3>3. runs' \in [Versions -> Nat]
      <4> DEFINE more(v) == Cardinality({f \in staged[p] : f[1] = v})
      <4>1. runs' = [v \in Versions |-> runs[v] + more(v)]
        BY <2>6 DEF CommitMigration
      <4>2. \A v \in Versions : more(v) \in Nat
        BY <3>2
      <4>3. runs \in [Versions -> Nat]
        BY DEF TypeOK
      <4> HIDE DEF more
      <4>4. \A v \in Versions : runs[v] + more(v) \in Nat
        BY <4>2, <4>3
      <4> QED
        BY <4>1, <4>4
    <3>4. TypeOK'
      BY <2>6, <2>a, <3>1, <3>3 DEF CommitMigration, TypeOK, Places
    <3>5. StagedIsOwn'
      BY <2>6 DEF CommitMigration, TypeOK, StagedIsOwn, Code
    <3> QED
      BY <3>4, <3>5
  <2>7. CASE LookForLedger(p)
    BY <2>7 DEF LookForLedger, TypeOK, StagedIsOwn, Code, Places
  <2>8. CASE ReadRows(p)
    BY <2>8 DEF ReadRows, TypeOK, StagedIsOwn, Code, Places
  <2>9. CASE Finish(p)
    BY <2>9 DEF Finish, TypeOK, StagedIsOwn, Code, Places
  <2>10. CASE Fail(p)
    BY <2>10, AbandonTypes DEF Fail
  <2> QED
    BY <1>2, <2>1, <2>2, <2>3, <2>4, <2>5, <2>6, <2>7, <2>8, <2>9, <2>10 DEF Progress
<1> QED
  BY <1>1, <1>2 DEF Next

\* Types: every reachable state of the schema and of the commands is well typed.
THEOREM TypeCorrect == Spec => []TypeOK
<1>1. TypeOK /\ StagedIsOwn /\ [Next]_vars => (TypeOK /\ StagedIsOwn)'
  BY NextTypes
<1> QED
  BY InitTypes, <1>1, PTL DEF Spec

-------------------------------------------------------------------------------
(* The inductive invariant                                                      *)

LEMMA InitInvariant == Init => IInv
<1> SUFFICES ASSUME Init PROVE IInv
  OBVIOUS
<1>1. LockIsHeld /\ TransactionIsExact /\ ReadyIsMigrated
  BY FilesAssumption DEF Init, LockIsHeld, TransactionIsExact, ReadyIsMigrated
<1>2. LedgerIsRelease
  BY DEF Init, LedgerIsRelease
<1>3. AppliedOnce
  <2>1. \A f, g \in ledger : f[1] = g[1] => f = g
    BY FilesOfRelease DEF Init
  <2>2. \A v \in Versions : runs[v] = IF \E f \in ledger : f[1] = v THEN 1 ELSE 0
    BY DEF Init
  <2> QED
    BY <2>1, <2>2 DEF AppliedOnce
<1> QED
  BY <1>1, <1>2, <1>3 DEF IInv

\* A command that goes on without touching the schema or a transaction.
LEMMA QuietStep ==
  ASSUME TypeOK, IInv, NEW p \in Processes, NEW place,
         UNCHANGED <<ledger, runs, pending, staged>>,
         at' = [at EXCEPT ![p] = place], at[p] \notin {"verify", "apply"},
         \A q \in Processes : q # p => release'[q] = release[q],
         place # "apply",
         IF place = "verify" THEN lock = Nil /\ lock' = p ELSE lock' = lock,
         place = "ready" => Code(p)' \subseteq ledger
  PROVE  IInv'
<1>1. LockIsHeld'
  BY FilesAssumption DEF TypeOK, IInv, LockIsHeld
<1>2. LedgerIsRelease' /\ AppliedOnce'
  BY DEF IInv, LedgerIsRelease, AppliedOnce
<1>3. TransactionIsExact'
  BY DEF TypeOK, IInv, TransactionIsExact, Code
<1>4. ReadyIsMigrated'
  BY DEF TypeOK, IInv, ReadyIsMigrated, Code
<1> QED
  BY <1>1, <1>2, <1>3, <1>4 DEF IInv

LEMMA AbandonInvariant ==
  ASSUME TypeOK, IInv, NEW p \in Processes, Abandon(p)
  PROVE  IInv'
<1> USE DEF Abandon, Move
<1>1. LockIsHeld' /\ LedgerIsRelease' /\ AppliedOnce'
  BY FilesAssumption DEF TypeOK, IInv, LockIsHeld, LedgerIsRelease, AppliedOnce
<1>2. TransactionIsExact'
  BY DEF TypeOK, IInv, TransactionIsExact, Code
<1>3. ReadyIsMigrated'
  BY DEF TypeOK, IInv, ReadyIsMigrated, Code
<1> QED
  BY <1>1, <1>2, <1>3 DEF IInv

\* What is pending for a release that has every row of the ledger.
LEMMA PendingIsRest ==
  ASSUME TypeOK, NEW p \in Processes, ledger \subseteq Code(p)
  PROVE  Pending(p) = Code(p) \ ledger
<1>1. release[p] \in Releases
  BY DEF TypeOK
<1> QED
  BY <1>1, FilesOfRelease DEF Pending, Code

\* A commit makes the ledger that of the release of its process.
LEMMA CommitLedger ==
  ASSUME TypeOK, IInv, NEW p \in Processes, CommitMigration(p)
  PROVE  /\ release[p] \in Releases
         /\ ledger \subseteq Code(p)
         /\ staged[p] = Code(p) \ ledger
         /\ ledger' = Code(p)
BY DEF CommitMigration, AllApplied, TypeOK, IInv, TransactionIsExact

LEMMA CommitInvariant ==
  ASSUME TypeOK, IInv, NEW p \in Processes, CommitMigration(p)
  PROVE  IInv'
<1>a. /\ release[p] \in Releases
      /\ ledger \subseteq Code(p)
      /\ staged[p] = Code(p) \ ledger
      /\ ledger' = Code(p)
  BY CommitLedger
<1>1. \A q \in Processes \ {p} : at[q] \notin {"verify", "apply"}
  BY DEF IInv, LockIsHeld, CommitMigration
<1>2. LockIsHeld' /\ LedgerIsRelease'
  BY <1>a, <1>1, FilesAssumption
     DEF TypeOK, IInv, LockIsHeld, LedgerIsRelease, Code, CommitMigration, Move
<1>3. TransactionIsExact'
  BY <1>1 DEF TypeOK, IInv, TransactionIsExact, CommitMigration, Move
<1>4. ReadyIsMigrated'
  BY <1>a, <1>1 DEF TypeOK, IInv, ReadyIsMigrated, Code, CommitMigration, Move
<1>5. AppliedOnce'
  <2>1. \A f, g \in Code(p) : f[1] = g[1] => f = g
    BY <1>a, FilesOfRelease DEF Code
  <2>2. ASSUME NEW v \in Versions
        PROVE  runs'[v] = IF \E f \in Code(p) : f[1] = v THEN 1 ELSE 0
    <3> DEFINE new == {f \in staged[p] : f[1] = v}
               more(w) == Cardinality({f \in staged[p] : f[1] = w})
    <3>1. runs'[v] = runs[v] + Cardinality(new)
      <4>1. runs' = [w \in Versions |-> runs[w] + more(w)]
        BY DEF CommitMigration
      <4>2. more(v) = Cardinality(new)
        OBVIOUS
      <4> HIDE DEF more, new
      <4> QED
        BY <4>1, <4>2
    <3>2. runs[v] = IF \E f \in ledger : f[1] = v THEN 1 ELSE 0
      BY DEF IInv, AppliedOnce
    <3>3. CASE \E f \in ledger : f[1] = v
      <4>1. new = {}
        BY <3>3, <2>1, <1>a
      <4>2. \E f \in Code(p) : f[1] = v
        BY <3>3, <1>a
      <4>3. Cardinality(new) = 0
        BY <4>1, FS_EmptySet
      <4> HIDE DEF new
      <4> QED
        BY <4>2, <4>3, <3>1, <3>2, <3>3
    <3>4. CASE (\E f \in Code(p) : f[1] = v) /\ ~ \E f \in ledger : f[1] = v
      <4>1. PICK f \in Code(p) : f[1] = v
        BY <3>4
      <4>2. new = {f}
        BY <3>4, <4>1, <2>1, <1>a
      <4>3. Cardinality(new) = 1
        BY <4>2, FS_Singleton
      <4> HIDE DEF new
      <4> QED
        BY <4>3, <3>1, <3>2, <3>4
    <3>5. CASE ~ \E f \in Code(p) : f[1] = v
      <4>1. new = {}
        BY <3>5, <1>a
      <4>2. ~ \E f \in ledger : f[1] = v
        BY <3>5, <1>a
      <4>3. Cardinality(new) = 0
        BY <4>1, FS_EmptySet
      <4> HIDE DEF new
      <4> QED
        BY <4>2, <4>3, <3>1, <3>2, <3>5
    <3> QED
      BY <3>3, <3>4, <3>5
  <2> QED
    BY <1>a, <2>1, <2>2 DEF AppliedOnce
<1> QED
  BY <1>2, <1>3, <1>4, <1>5 DEF IInv

LEMMA VerifyInvariant ==
  ASSUME TypeOK, IInv, NEW p \in Processes, Verify(p)
  PROVE  IInv'
<1>1. CASE Disagrees(p)
  BY <1>1, AbandonInvariant DEF Verify
<1>2. CASE ~ Disagrees(p)
  <2>1. ledger \subseteq Code(p)
    BY <1>2 DEF Disagrees
  <2>2. Pending(p) = Code(p) \ ledger
    BY <2>1, PendingIsRest
  <2> USE <1>2 DEF Verify, Move, schema
  <2>3. LockIsHeld' /\ LedgerIsRelease' /\ AppliedOnce'
    BY DEF TypeOK, IInv, LockIsHeld, LedgerIsRelease, AppliedOnce
  <2>4. TransactionIsExact'
    BY <2>1, <2>2 DEF TypeOK, IInv, TransactionIsExact, Code
  <2>5. ReadyIsMigrated'
    BY DEF TypeOK, IInv, ReadyIsMigrated, Code
  <2> QED
    BY <2>3, <2>4, <2>5 DEF IInv
<1> QED
  BY <1>1, <1>2

LEMMA ApplyInvariant ==
  ASSUME TypeOK, IInv, NEW p \in Processes, Apply(p)
  PROVE  IInv'
<1> USE DEF Apply, schema
<1>1. PICK f \in pending[p] :
        /\ pending' = [pending EXCEPT ![p] = @ \ {f}]
        /\ staged' = [staged EXCEPT ![p] = @ \cup {f}]
  OBVIOUS
<1>2. LockIsHeld' /\ LedgerIsRelease' /\ AppliedOnce'
  BY DEF TypeOK, IInv, LockIsHeld, LedgerIsRelease, AppliedOnce
<1>3. TransactionIsExact'
  BY <1>1 DEF TypeOK, IInv, TransactionIsExact, Code
<1>4. ReadyIsMigrated'
  BY DEF TypeOK, IInv, ReadyIsMigrated, Code
<1> QED
  BY <1>2, <1>3, <1>4 DEF IInv

LEMMA NextInvariant ==
  ASSUME TypeOK, IInv, [Next]_vars
  PROVE  IInv'
<1>1. CASE UNCHANGED vars
  <2> USE <1>1 DEF vars, IInv
  <2>1. LockIsHeld' /\ LedgerIsRelease' /\ AppliedOnce'
    BY DEF LockIsHeld, LedgerIsRelease, AppliedOnce
  <2>2. TransactionIsExact' /\ ReadyIsMigrated'
    BY DEF TransactionIsExact, ReadyIsMigrated, Code
  <2> QED
    BY <2>1, <2>2
<1>2. ASSUME NEW p \in Processes, Invoke(p) \/ Progress(p) \/ Finish(p) \/ Fail(p)
      PROVE  IInv'
  <2> USE DEF Move, schema, transaction
  <2>1. CASE Invoke(p)
    <3>1. \A q \in Processes : q # p => release'[q] = release[q]
      BY <2>1 DEF Invoke, TypeOK
    <3> QED
      BY <2>1, <3>1, QuietStep DEF Invoke
  <2>2. CASE Built(p)
    BY <2>2, QuietStep DEF Built
  <2>3. CASE TakeLock(p)
    <3>1. \A q \in Processes : lock # q
      BY <2>3, FilesAssumption DEF TakeLock
    <3> QED
      BY <2>3, <3>1, QuietStep DEF TakeLock
  <2>4. CASE Verify(p)
    BY <2>4, VerifyInvariant
  <2>5. CASE Apply(p)
    BY <2>5, ApplyInvariant
  <2>6. CASE CommitMigration(p)
    BY <2>6, CommitInvariant
  <2>7. CASE LookForLedger(p)
    BY <2>7, QuietStep DEF LookForLedger
  <2>8. CASE ReadRows(p)
    <3>1. CASE UpToDate(p)
      <4>1. ledger \subseteq Code(p) /\ Pending(p) = {}
        BY <3>1 DEF UpToDate, Disagrees
      <4>2. Code(p)' \subseteq ledger
        BY <2>8, <4>1, PendingIsRest DEF ReadRows, Code
      <4> QED
        BY <2>8, <3>1, <4>2, QuietStep DEF ReadRows
    <3>2. CASE ~ UpToDate(p)
      BY <2>8, <3>2, QuietStep DEF ReadRows
    <3> QED
      BY <3>1, <3>2
  <2>9. CASE Finish(p)
    BY <2>9, QuietStep DEF Finish
  <2>10. CASE Fail(p)
    BY <2>10, AbandonInvariant DEF Fail
  <2> QED
    BY <1>2, <2>1, <2>2, <2>3, <2>4, <2>5, <2>6, <2>7, <2>8, <2>9, <2>10 DEF Progress
<1> QED
  BY <1>1, <1>2 DEF Next

\* Every reachable state satisfies the inductive invariant.
THEOREM Invariance == Spec => []IInv
<1>1. IInv /\ TypeOK /\ [Next]_vars => IInv'
  BY NextInvariant
<1> QED
  BY InitInvariant, TypeCorrect, <1>1, PTL DEF Spec

-------------------------------------------------------------------------------
(* What the runs check                                                          *)

\* The SQL of a version takes effect exactly once: two migrate commands never
\* both apply a file, and no row is recorded for SQL that was rolled back.
THEOREM AppliedOnceHolds == Spec => []AppliedOnce
<1>1. IInv => AppliedOnce
  BY DEF IInv
<1> QED
  BY Invariance, <1>1, PTL

\* One migrate command at a time is in its transaction, and it holds the advisory
\* lock; when nobody is, the lock is free: a command that waits for it waits for
\* one that is under way, and neither an error nor a crash leaves it locked.
THEOREM OneMigrationAtATime == Spec => []LockIsHeld
<1>1. IInv => LockIsHeld
  BY DEF IInv
<1> QED
  BY Invariance, <1>1, PTL

\* A started service, or a status that says up to date, finds every migration of
\* its code applied for as long as it runs.
THEOREM ReadyIsMigratedHolds == Spec => []ReadyIsMigrated
<1>1. IInv => ReadyIsMigrated
  BY DEF IInv
<1> QED
  BY Invariance, <1>1, PTL

\* The ledger only ever moves from one whole release to another that contains it.
THEOREM WholeReleasesHold == Spec => WholeReleases
<1> DEFINE Whole == ledger' # ledger =>
                      \E r \in Releases : ledger' = Files[r] /\ ledger \subseteq Files[r]
<1>1. TypeOK /\ IInv /\ [Next]_vars => [Whole]_vars
  <2> SUFFICES ASSUME TypeOK, IInv, Next, ledger' # ledger
               PROVE  \E r \in Releases : ledger' = Files[r] /\ ledger \subseteq Files[r]
    OBVIOUS
  <2>1. PICK p \in Processes : Invoke(p) \/ Progress(p) \/ Finish(p) \/ Fail(p)
    BY DEF Next
  <2>2. CommitMigration(p)
    BY <2>1 DEF Progress, Invoke, Built, TakeLock, Verify, Apply, LookForLedger,
                ReadRows, Finish, Fail, Abandon, schema
  <2> QED
    BY <2>2, CommitLedger DEF Code
<1> QED
  BY <1>1, TypeCorrect, Invariance, PTL DEF Spec, WholeReleases

===============================================================================
