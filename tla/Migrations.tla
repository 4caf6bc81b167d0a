----------------------------- MODULE Migrations -----------------------------
(***************************************************************************)
(* Opening the database (internal/database/db.go and migrations.go).  The  *)
(* API and the workers all migrate the schema when they start, in one      *)
(* transaction each, under an advisory lock that ends with it.  A file's   *)
(* name and its SQL are its position in the order of names; the database   *)
(* may be one an older version has left with the first files applied.      *)
(***************************************************************************)
EXTENDS Integers, Sequences

CONSTANTS
  Process,  \* processes that open the database
  Files,    \* how many migration files there are; their order is that of names
  MaxCuts,  \* bound: how often an Open is cut off, or a process stops
  Nobody    \* no process

ASSUME FilesAssumption == Files \in Nat
ASSUME CutsAssumption == MaxCuts \in Nat
ASSUME NobodyAssumption == Nobody \notin Process

VARIABLES
  schema,    \* the files whose SQL made the committed schema, in order
  recorded,  \* the committed rows of schema_migrations
  lock,      \* the process that holds the advisory lock
  opening,   \* opening[p]: where process p is in Open
  tx,        \* tx[p]: file p is at, and what its transaction adds to schema and recorded
  cuts       \* how often a process was cut off

migrationVars == <<schema, recorded, lock, opening, tx, cuts>>

First(n) == [i \in 1 .. n |-> i]

NewTx == [file |-> 1, schema |-> <<>>, recorded |-> {}]

MigrationInit ==
  /\ \E n \in 0 .. Files : schema = First(n) /\ recorded = 1 .. n
  /\ lock = Nobody
  /\ opening = [p \in Process |-> "down"]
  /\ tx = [p \in Process |-> NewTx]
  /\ cuts = 0

\* The pool is made and pinged, and the transaction begun.
BeginMigrations(p) ==
  /\ opening[p] \in {"down", "cut"}
  /\ opening' = [opening EXCEPT ![p] = "begun"]
  /\ UNCHANGED <<schema, recorded, lock, tx, cuts>>

\* Mutant: the lock is not waited for.
LockMigrations_NoWait(p) ==
  /\ opening[p] = "begun"
  /\ lock' = p
  /\ opening' = [opening EXCEPT ![p] = "checking"]
  /\ UNCHANGED <<schema, recorded, tx, cuts>>

\* pg_advisory_xact_lock, and the table of versions if there is none.
LockMigrations(p) ==
  /\ opening[p] = "begun" /\ lock = Nobody
  /\ lock' = p
  /\ opening' = [opening EXCEPT ![p] = "checking"]
  /\ UNCHANGED <<schema, recorded, tx, cuts>>

\* What a statement of p's transaction sees: committed rows and its own.
SeenBy(p) == recorded \cup tx[p].recorded

SkipFile(p) ==
  /\ opening[p] = "checking" /\ tx[p].file \in SeenBy(p)
  /\ tx' = [tx EXCEPT ![p].file = @ + 1]
  /\ UNCHANGED <<schema, recorded, lock, opening, cuts>>

ApplyFile(p) ==
  /\ opening[p] = "checking" /\ tx[p].file \in 1 .. Files \ SeenBy(p)
  /\ tx' = [tx EXCEPT ![p] = [@ EXCEPT !.schema = Append(tx[p].schema, tx[p].file)]]
  /\ opening' = [opening EXCEPT ![p] = "recording"]
  /\ UNCHANGED <<schema, recorded, lock, cuts>>

\* A transaction that ends lets go of the lock.
Unlocked(p) == IF lock = p THEN Nobody ELSE lock

\* Mutant: a file that was applied is not recorded.
RecordFile_Forgotten(p) ==
  /\ opening[p] = "recording"
  /\ opening' = [opening EXCEPT ![p] = "checking"]
  /\ tx' = [tx EXCEPT ![p].file = @ + 1]
  /\ UNCHANGED <<schema, recorded, lock, cuts>>

\* version is the primary key: the row of another process that committed meanwhile
\* would fail the insert, and with it Open.
RecordFile(p) ==
  LET fails == tx[p].file \in recorded
  IN /\ opening[p] = "recording"
     /\ opening' = [opening EXCEPT ![p] = IF fails THEN "conflict" ELSE "checking"]
     /\ lock' = IF fails THEN Unlocked(p) ELSE lock
     /\ tx' = [tx EXCEPT ![p] = [@ EXCEPT !.file = tx[p].file + 1,
                                          !.recorded = tx[p].recorded \cup {tx[p].file}]]
     /\ UNCHANGED <<schema, recorded, cuts>>

\* The commit may be reported as failed though it took place: Open fails then.
CommitMigrations(p) ==
  /\ opening[p] = "checking" /\ tx[p].file > Files
  /\ schema' = schema \o tx[p].schema
  /\ recorded' = SeenBy(p)
  /\ lock' = Unlocked(p)
  /\ \/ opening' = [opening EXCEPT ![p] = "ready"] /\ UNCHANGED cuts
     \/ /\ cuts < MaxCuts /\ cuts' = cuts + 1
        /\ opening' = [opening EXCEPT ![p] = "cut"]
  /\ tx' = [tx EXCEPT ![p] = NewTx]

\* A statement fails, the context is cancelled, or the process dies: the transaction
\* is rolled back.  A process may be started again.
Cut(p) ==
  /\ opening[p] \in {"begun", "checking", "recording"} /\ cuts < MaxCuts
  /\ cuts' = cuts + 1
  /\ opening' = [opening EXCEPT ![p] = "cut"]
  /\ lock' = Unlocked(p)
  /\ tx' = [tx EXCEPT ![p] = NewTx]
  /\ UNCHANGED <<schema, recorded>>

Migrate(p) ==
  \/ LockMigrations(p) \/ SkipFile(p) \/ ApplyFile(p) \/ RecordFile(p)
  \/ CommitMigrations(p)

Open(p) == BeginMigrations(p) \/ Migrate(p) \/ Cut(p)

MigrationNext == \E p \in Process : Open(p)

MigrationSpec == MigrationInit /\ [][MigrationNext]_migrationVars

----------------------------------------------------------------------------
(* Properties.                                                             *)

MigrationTypeOK ==
  /\ schema \in Seq(Nat) /\ recorded \subseteq Nat
  /\ lock \in Process \cup {Nobody}
  /\ opening \in [Process -> {"down", "begun", "checking", "recording", "ready", "cut",
                              "conflict"}]
  /\ tx \in [Process -> [file : Nat, schema : Seq(Nat), recorded : SUBSET Nat]]
  /\ cuts \in Nat

\* Every file was applied at most once and after all before it, schema_migrations
\* says exactly which, and a process whose database is open has a schema that is
\* complete, whoever else starts, fails or dies while migrating.
MigratedInOrder ==
  /\ schema = First(Len(schema)) /\ recorded = 1 .. Len(schema)
  /\ \A p \in Process : opening[p] = "ready" => Len(schema) = Files

\* Processes may start together: none fails because another is migrating.
StartsTogether == \A p \in Process : opening[p] # "conflict"
=============================================================================
