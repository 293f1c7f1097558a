--------------------------- MODULE SchemaMigration ---------------------------
(* Commands of several releases of the code over the schema of one Postgres     *)
(* runtime store (migrations.py, adapters/postgres/migrations, cli.py):         *)
(* `store migrate` applies what its release has pending, `run` refuses to start *)
(* over a schema that is not the one of its release, `store status` reports.    *)
(*                                                                              *)
(* A migration file is a version and its checksum. migrate is one transaction   *)
(* that starts by waiting for the advisory lock of the schema; every statement  *)
(* sees what was committed before it. A process may crash between any two       *)
(* steps: the server rolls its transaction back and frees the lock.             *)
EXTENDS Naturals, FiniteSets

CONSTANTS Processes,
          Releases,     \* releases of the code
          Files,        \* release -> its migrations, <<version, checksum>>
          Nil           \* nobody holds the lock

Versions == {f[1] : f \in UNION {Files[r] : r \in Releases}}
AllFiles == UNION {Files[r] : r \in Releases}

\* load_migrations refuses two files of one version.
ASSUME FilesAssumption ==
    /\ Nil \notin Processes
    /\ \A r \in Releases : IsFiniteSet(Files[r]) /\ Files[r] \subseteq Nat \X Nat
    /\ \A r \in Releases : \A f, g \in Files[r] : f[1] = g[1] => f = g

VARIABLES ledger,       \* the rows of schema_migrations
          created,      \* whether that table exists
          runs,         \* version -> how often its SQL took effect
          lock,         \* who holds the advisory lock of the schema
          command,      \* process -> the command it runs
          release,      \* process -> the release of its code
          at,           \* process -> where the command is
          pending,      \* process -> migrations its transaction has yet to apply
          staged        \* process -> migrations its transaction has applied

vars == <<ledger, created, runs, lock, command, release, at, pending, staged>>
schema == <<ledger, created, runs, lock>>
transaction == <<pending, staged>>

Commands == {"migrate", "run", "status"}

\* "ready" is what run and status conclude when nothing is pending.
Places == {"idle", "build", "lock", "verify", "apply", "look", "rows", "ready"}

TypeOK ==
    /\ ledger \subseteq AllFiles
    /\ created \in BOOLEAN
    /\ runs \in [Versions -> Nat]
    /\ lock \in Processes \cup {Nil}
    /\ command \in [Processes -> Commands]
    /\ release \in [Processes -> Releases]
    /\ at \in [Processes -> Places]
    /\ pending \in [Processes -> SUBSET AllFiles]
    /\ staged \in [Processes -> SUBSET AllFiles]

-------------------------------------------------------------------------------
(* verify_migrations                                                            *)

Code(p) == Files[release[p]]

\* A row of a version the code does not know, or with another checksum.
Disagrees(p) == \E row \in ledger : row \notin Code(p)

Pending(p) == {f \in Code(p) : \A row \in ledger : row[1] # f[1]}

-------------------------------------------------------------------------------
(* The commands                                                                 *)

Move(p, place) == at' = [at EXCEPT ![p] = place]

\* Mutant: the lock belongs to the session and outlives the transaction.
MutKeepLock(p) ==
    /\ Move(p, "idle")
    /\ pending' = [pending EXCEPT ![p] = {}]
    /\ staged' = [staged EXCEPT ![p] = {}]
    /\ UNCHANGED <<schema, command, release>>

\* A transaction that ends without a commit leaves nothing behind.
Abandon(p) ==
    /\ Move(p, "idle")
    /\ lock' = IF lock = p THEN Nil ELSE lock
    /\ pending' = [pending EXCEPT ![p] = {}]
    /\ staged' = [staged EXCEPT ![p] = {}]
    /\ UNCHANGED <<ledger, created, runs, command, release>>

\* A process is started with some command of some release.
Invoke(p) ==
    /\ at[p] = "idle"
    /\ \E c \in Commands, r \in Releases :
          /\ command' = [command EXCEPT ![p] = c]
          /\ release' = [release EXCEPT ![p] = r]
    /\ Move(p, "build")
    /\ UNCHANGED <<schema, transaction>>

\* The configuration is resolved, the store and the other roles are built.
Built(p) ==
    /\ at[p] = "build"
    /\ Move(p, IF command[p] = "migrate" THEN "lock" ELSE "look")
    /\ UNCHANGED <<schema, transaction, command, release>>

\* Mutant: the lock is not waited for.
MutNoLock(p) ==
    /\ at[p] = "lock"
    /\ Move(p, "verify")
    /\ UNCHANGED <<schema, transaction, command, release>>

\* pg_advisory_xact_lock.
TakeLock(p) ==
    /\ at[p] = "lock" /\ lock = Nil
    /\ lock' = p
    /\ Move(p, "verify")
    /\ UNCHANGED <<ledger, created, runs, transaction, command, release>>

\* What is pending is found under the lock; a ledger that disagrees with the
\* code ends the transaction.
Verify(p) ==
    /\ at[p] = "verify"
    /\ IF Disagrees(p) THEN Abandon(p)
       ELSE /\ pending' = [pending EXCEPT ![p] = Pending(p)]
            /\ Move(p, "apply")
            /\ UNCHANGED <<schema, staged, command, release>>

\* The next file in version order runs, and its row is inserted.
Apply(p) ==
    /\ at[p] = "apply"
    /\ \E f \in pending[p] :
          /\ \A g \in pending[p] : f[1] <= g[1]
          /\ pending' = [pending EXCEPT ![p] = @ \ {f}]
          /\ staged' = [staged EXCEPT ![p] = @ \cup {f}]
    /\ UNCHANGED <<schema, at, command, release>>

\* Mutant: the transaction is committed after every file.
MutCommitEach(p) == staged[p] # {} \/ pending[p] = {}

\* When the transaction may be committed.
AllApplied(p) == pending[p] = {}

\* The commit: the files that ran, their rows and the ledger itself.
CommitMigration(p) ==
    /\ at[p] = "apply" /\ AllApplied(p)
    /\ ledger' = ledger \cup staged[p]
    /\ created' = TRUE
    /\ runs' = [v \in Versions |->
                  runs[v] + Cardinality({f \in staged[p] : f[1] = v})]
    /\ lock' = IF lock = p THEN Nil ELSE lock
    /\ staged' = [staged EXCEPT ![p] = {}]
    /\ pending' = [pending EXCEPT ![p] = {}]
    /\ Move(p, "idle")
    /\ UNCHANGED <<command, release>>

\* applied_migrations of run and status, without a lock: is there a ledger?
\* Without one everything is pending: run refuses, status says so.
LookForLedger(p) ==
    /\ at[p] = "look"
    /\ Move(p, IF created THEN "rows" ELSE "idle")
    /\ UNCHANGED <<schema, transaction, command, release>>

\* Mutant: a pending migration does not keep the command from going on.
MutPendingIsFine(p) == ~Disagrees(p)

\* What ensure_ready and status take for a schema that is up to date.
UpToDate(p) == ~Disagrees(p) /\ Pending(p) = {}

\* ensure_ready refuses a schema with pending migrations, or one the code
\* disagrees with. (status has read the rows once before, only to show them.)
ReadRows(p) ==
    /\ at[p] = "rows"
    /\ Move(p, IF UpToDate(p) THEN "ready" ELSE "idle")
    /\ UNCHANGED <<schema, transaction, command, release>>

\* A service ends, a status is printed.
Finish(p) ==
    /\ at[p] = "ready"
    /\ Move(p, "idle")
    /\ UNCHANGED <<schema, transaction, command, release>>

\* A crash, an error of the database, SQL that fails, a configuration that
\* cannot be built: the command ends, its open transaction is rolled back.
Fail(p) == at[p] # "idle" /\ Abandon(p)

Progress(p) ==
    \/ Built(p) \/ TakeLock(p) \/ Verify(p) \/ Apply(p) \/ CommitMigration(p)
    \/ LookForLedger(p) \/ ReadRows(p)

Next == \E p \in Processes : Invoke(p) \/ Progress(p) \/ Finish(p) \/ Fail(p)

\* An empty database, or one that some release has migrated.
Init ==
    /\ \/ ledger = {} /\ created = FALSE
       \/ created = TRUE /\ \E r \in Releases : ledger = Files[r]
    /\ runs = [v \in Versions |-> IF \E f \in ledger : f[1] = v THEN 1 ELSE 0]
    /\ lock = Nil
    /\ command \in [Processes -> {"migrate"}]
    /\ \E r \in Releases : release = [p \in Processes |-> r]
    /\ at = [p \in Processes |-> "idle"]
    /\ pending = [p \in Processes |-> {}]
    /\ staged = [p \in Processes |-> {}]

Spec == Init /\ [][Next]_vars

\* A command that is not blocked goes on, and one that waits for the lock gets it
\* if it becomes free again and again (waiters queue up in the server).
FairSpec == Spec /\ \A p \in Processes : WF_vars(Progress(p)) /\ SF_vars(TakeLock(p))
-------------------------------------------------------------------------------
(* Properties                                                                   *)

\* "Either every pending file is applied and recorded, or nothing is": the ledger
\* changes from one release to a later one in a single step, by a release that
\* has every row that was there; two migrate commands, of the same release or of
\* diverging ones, never mix.
WholeReleases ==
    [][ledger' # ledger =>
          \E r \in Releases : ledger' = Files[r] /\ ledger \subseteq Files[r]]_vars

\* The SQL of a version has taken effect exactly once if the ledger has its row,
\* and never otherwise, with no two rows for a version: the second of two
\* concurrent migrate calls finds nothing pending.
AppliedOnce ==
    /\ \A f, g \in ledger : f[1] = g[1] => f = g
    /\ \A v \in Versions : runs[v] = IF \E f \in ledger : f[1] = v THEN 1 ELSE 0

\* A service that has started, and a status that says up to date, find every
\* migration of their code applied, unmodified, for as long as they run.
ReadyIsMigrated ==
    \A p \in Processes : at[p] = "ready" => Code(p) \subseteq ledger

\* Every command gets past its start: it ends or its service is running, however
\* many others migrate, fail or crash while holding the lock.
CommandsEnd ==
    \A p \in Processes : at[p] # "idle" ~> at[p] \in {"idle", "ready"}
-------------------------------------------------------------------------------
(* Why it is correct: the inductive invariant                                   *)

\* The advisory lock is held from its grant to the end of the transaction and no
\* longer: whoever waits for it waits for a transaction under way, and a crash
\* leaves nothing locked.
LockIsHeld == \A p \in Processes : at[p] \in {"verify", "apply"} <=> lock = p

\* The ledger is that of a whole release, or there is none yet.
LedgerIsRelease == ledger = {} \/ \E r \in Releases : ledger = Files[r]

\* What a transaction has applied and has yet to apply is what the ledger, which
\* nobody else can change, lacks of the release.
TransactionIsExact ==
    \A p \in Processes :
        IF at[p] = "apply"
        THEN ledger \subseteq Code(p) /\ pending[p] \cup staged[p] = Code(p) \ ledger
        ELSE pending[p] = {} /\ staged[p] = {}

IInv ==
    /\ LockIsHeld
    /\ LedgerIsRelease
    /\ TransactionIsExact
    /\ AppliedOnce
    /\ ReadyIsMigrated
================================================================================
