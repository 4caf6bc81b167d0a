-------------------------- MODULE MigrationsProofs --------------------------
(***************************************************************************)
(* Proofs about Migrations, for any number of processes and files and any  *)
(* number of cuts.                                                         *)
(*                                                                         *)
(* That the schema is in order is not inductive by itself: what a          *)
(* transaction adds must follow what is committed, and must still do so    *)
(* when it commits.  Lock says that only the holder of the advisory lock   *)
(* is past it, so that nothing is committed meanwhile, and Progress what   *)
(* the holder's transaction has done so far.                               *)
(***************************************************************************)
EXTENDS Migrations, TLAPS

Working == {"checking", "recording"}

\* Who is past the lock holds it.
Lock == \A p \in Process : opening[p] \in Working => lock = p

\* How far a transaction t is, at place o of Open, when n files are committed: it goes
\* on where they end.
Continues(o, t, n) ==
  LET m == Len(t.schema)
  IN IF o \in Working
     THEN /\ n + m <= Files
          /\ t.schema = [i \in 1 .. m |-> n + i]
          /\ IF o = "checking"
             THEN /\ t.file <= n + m + 1 /\ t.file >= 1
                  /\ m > 0 => t.file = n + m + 1
                  /\ t.recorded = n + 1 .. n + m
             ELSE /\ m > 0 /\ t.file = n + m
                  /\ t.recorded = n + 1 .. n + m - 1
     ELSE t = NewTx

Progress == \A p \in Process : Continues(opening[p], tx[p], Len(schema))

MigrationInv ==
  /\ MigrationTypeOK /\ MigratedInOrder /\ StartsTogether
  /\ Len(schema) <= Files
  /\ Lock /\ Progress

----------------------------------------------------------------------------

LEMMA MigrationInvInit == MigrationInit => MigrationInv
<1>. SUFFICES ASSUME MigrationInit PROVE MigrationInv
  OBVIOUS
<1>1. PICK n \in 0 .. Files : schema = First(n) /\ recorded = 1 .. n
  BY DEF MigrationInit
<1>2. n \in Nat /\ schema \in Seq(Nat) /\ Len(schema) = n
  BY <1>1, FilesAssumption DEF First
<1>3. MigrationTypeOK
  BY <1>1, <1>2, FilesAssumption DEF MigrationInit, MigrationTypeOK, NewTx
<1>4. MigratedInOrder /\ StartsTogether /\ Len(schema) <= Files
  BY <1>1, <1>2, FilesAssumption DEF MigrationInit, MigratedInOrder, StartsTogether
<1>5. Lock /\ Progress
  BY DEF MigrationInit, Lock, Progress, Continues, Working
<1>. QED BY <1>3, <1>4, <1>5 DEF MigrationInv

\* A step of p that leaves what is committed alone keeps the invariant if it keeps
\* p's part of it.
LEMMA LocalStep ==
  ASSUME MigrationInv, NEW p \in Process,
         NEW o \in {"begun", "checking", "recording", "cut"},
         NEW t \in [file : Nat, schema : Seq(Nat), recorded : SUBSET Nat],
         opening' = [opening EXCEPT ![p] = o],
         tx' = [tx EXCEPT ![p] = t],
         lock' \in Process \cup {Nobody},
         \A q \in Process \ {p} : opening[q] \in Working => lock' = q,
         o \in Working => lock' = p,
         UNCHANGED <<schema, recorded>>,
         cuts' \in Nat,
         Continues(o, t, Len(schema))
  PROVE  MigrationInv'
<1>1. MigrationTypeOK'
  BY DEF MigrationInv, MigrationTypeOK
<1>2. \A q \in Process \ {p} : opening'[q] = opening[q] /\ tx'[q] = tx[q]
  BY DEF MigrationInv, MigrationTypeOK
<1>3. opening'[p] = o /\ tx'[p] = t
  BY DEF MigrationInv, MigrationTypeOK
<1>4. MigratedInOrder' /\ StartsTogether' /\ (Len(schema) <= Files)'
  BY <1>2, <1>3 DEF MigrationInv, MigratedInOrder, StartsTogether
<1>5. Lock'
  BY <1>2, <1>3 DEF Lock
<1>6. Progress'
  BY <1>2, <1>3 DEF MigrationInv, Progress
<1>. QED BY <1>1, <1>4, <1>5, <1>6 DEF MigrationInv

LEMMA BeginStep ==
  ASSUME MigrationInv, NEW p \in Process, BeginMigrations(p)
  PROVE  MigrationInv'
<1>1. tx[p] = NewTx /\ tx' = [tx EXCEPT ![p] = NewTx]
  BY DEF BeginMigrations, MigrationInv, MigrationTypeOK, Progress, Continues, Working
<1>2. NewTx \in [file : Nat, schema : Seq(Nat), recorded : SUBSET Nat]
  BY DEF NewTx
<1>3. Continues("begun", NewTx, Len(schema))
  BY DEF Continues, Working
<1>4. \A q \in Process \ {p} : opening[q] \in Working => lock' = q
  BY DEF BeginMigrations, MigrationInv, Lock
<1>. QED
  BY <1>1, <1>2, <1>3, <1>4, LocalStep
     DEF BeginMigrations, MigrationInv, MigrationTypeOK, Working

LEMMA LockStep ==
  ASSUME MigrationInv, NEW p \in Process, LockMigrations(p)
  PROVE  MigrationInv'
<1>1. tx[p] = NewTx /\ tx' = [tx EXCEPT ![p] = NewTx]
  BY DEF LockMigrations, MigrationInv, MigrationTypeOK, Progress, Continues, Working
<1>2. /\ NewTx \in [file : Nat, schema : Seq(Nat), recorded : SUBSET Nat]
      /\ NewTx.file = 1 /\ NewTx.schema = <<>> /\ NewTx.recorded = {}
  BY DEF NewTx
<1>3. Len(schema) \in Nat /\ Len(schema) <= Files
  BY DEF MigrationInv, MigrationTypeOK
<1>4. Continues("checking", NewTx, Len(schema))
  BY <1>2, <1>3 DEF Continues, Working
<1>5. \A q \in Process \ {p} : opening[q] \notin Working
  BY NobodyAssumption DEF LockMigrations, MigrationInv, Lock
<1>. QED
  BY <1>1, <1>2, <1>4, <1>5, LocalStep DEF LockMigrations, MigrationInv, MigrationTypeOK

\* The transaction of p, when p is at work and sees the files it has added.
LEMMA AtWork ==
  ASSUME MigrationInv, NEW p \in Process, opening[p] \in Working
  PROVE  /\ lock = p
         /\ \A q \in Process \ {p} : opening[q] \notin Working
         /\ Len(schema) \in Nat /\ Len(tx[p].schema) \in Nat
         /\ recorded = 1 .. Len(schema)
         /\ tx[p] \in [file : Nat, schema : Seq(Nat), recorded : SUBSET Nat]
         /\ tx[p].file \in Nat /\ tx[p].schema \in Seq(Nat) /\ tx[p].recorded \in SUBSET Nat
         /\ Continues(opening[p], tx[p], Len(schema))
<1>1. tx[p] \in [file : Nat, schema : Seq(Nat), recorded : SUBSET Nat] /\ schema \in Seq(Nat)
  BY DEF MigrationInv, MigrationTypeOK
<1>. QED BY <1>1 DEF MigrationInv, MigratedInOrder, Lock, Progress

LEMMA SkipStep ==
  ASSUME MigrationInv, NEW p \in Process, SkipFile(p)
  PROVE  MigrationInv'
<1>. DEFINE t == [tx[p] EXCEPT !.file = @ + 1]
            n == Len(schema)
            m == Len(tx[p].schema)
<1>1. opening[p] = "checking" /\ tx[p].file \in SeenBy(p)
  BY DEF SkipFile
<1>2. /\ n \in Nat /\ m \in Nat /\ tx[p].file \in Nat /\ recorded = 1 .. n
      /\ Continues("checking", tx[p], n)
  BY <1>1, AtWork DEF Working
<1>3. /\ t.file = tx[p].file + 1 /\ t.schema = tx[p].schema
      /\ t.recorded = tx[p].recorded
      /\ t \in [file : Nat, schema : Seq(Nat), recorded : SUBSET Nat]
  <2>1. /\ tx[p] \in [file : Nat, schema : Seq(Nat), recorded : SUBSET Nat]
        /\ tx[p].file \in Nat /\ tx[p].schema \in Seq(Nat) /\ tx[p].recorded \in SUBSET Nat
    BY <1>1, AtWork DEF Working
  <2>. HIDE DEF n, m
  <2>. QED BY <2>1
<1>4. m = 0 /\ tx[p].file <= n
  BY <1>1, <1>2 DEF Continues, Working, SeenBy
<1>. HIDE DEF t
<1>5. t.schema = [i \in 1 .. m |-> n + i] /\ t.recorded = n + 1 .. n + m /\ n + m <= Files
  BY <1>2, <1>3 DEF Continues, Working
<1>6. t.file \in Nat /\ t.file >= 1 /\ t.file <= n + m + 1
  BY <1>2, <1>3, <1>4 DEF Continues, Working
<1>7. Continues("checking", t, n)
  BY <1>2, <1>3, <1>4, <1>5, <1>6 DEF Continues, Working
<1>8. tx' = [tx EXCEPT ![p] = t] /\ opening' = [opening EXCEPT ![p] = "checking"]
  BY <1>1 DEF SkipFile, MigrationInv, MigrationTypeOK, t
<1>. QED
  BY <1>1, <1>3, <1>7, <1>8, AtWork, LocalStep
     DEF SkipFile, MigrationInv, MigrationTypeOK, Working

\* A record with some of its fields changed, written out.
LEMMA WithSchema ==
  ASSUME NEW t \in [file : Nat, schema : Seq(Nat), recorded : SUBSET Nat], NEW s
  PROVE  [t EXCEPT !.schema = s] = [file |-> t.file, schema |-> s, recorded |-> t.recorded]
OBVIOUS

LEMMA WithRecorded ==
  ASSUME NEW t \in [file : Nat, schema : Seq(Nat), recorded : SUBSET Nat], NEW f, NEW r
  PROVE  [t EXCEPT !.file = f, !.recorded = r]
           = [file |-> f, schema |-> t.schema, recorded |-> r]
<1>. DEFINE u == [file |-> f, schema |-> t.schema, recorded |-> t.recorded]
<1>1. [t EXCEPT !.file = f] = u
  OBVIOUS
<1>2. [u EXCEPT !.recorded = r] = [file |-> f, schema |-> t.schema, recorded |-> r]
  OBVIOUS
<1>. HIDE DEF u
<1>. QED BY <1>1, <1>2, Zenon

\* One more file applied, and one more recorded.
LEMMA OneMoreApplied ==
  ASSUME NEW n \in Nat, NEW m \in Nat
  PROVE  Append([i \in 1 .. m |-> n + i], n + m + 1) = [i \in 1 .. m + 1 |-> n + i]
OBVIOUS

LEMMA OneMoreRecorded ==
  ASSUME NEW n \in Nat, NEW m \in Nat, m > 0
  PROVE  (n + 1 .. n + m - 1) \cup {n + m} = n + 1 .. n + m
OBVIOUS

LEMMA ApplyStep ==
  ASSUME MigrationInv, NEW p \in Process, ApplyFile(p)
  PROVE  MigrationInv'
<1>. DEFINE t == [file |-> tx[p].file, schema |-> Append(tx[p].schema, tx[p].file),
                  recorded |-> tx[p].recorded]
            n == Len(schema)
            m == Len(tx[p].schema)
<1>1. opening[p] = "checking" /\ tx[p].file \in 1 .. Files /\ tx[p].file \notin SeenBy(p)
  BY DEF ApplyFile
<1>2. /\ n \in Nat /\ m \in Nat /\ Continues("checking", tx[p], n) /\ recorded = 1 .. n
      /\ tx[p].schema \in Seq(Nat) /\ tx[p].file \in Nat
  BY <1>1, AtWork DEF Working
<1>3. /\ t.file = tx[p].file /\ t.schema = Append(tx[p].schema, tx[p].file)
      /\ t.recorded = tx[p].recorded
      /\ t \in [file : Nat, schema : Seq(Nat), recorded : SUBSET Nat]
  <2>1. /\ tx[p] \in [file : Nat, schema : Seq(Nat), recorded : SUBSET Nat]
        /\ tx[p].file \in Nat /\ tx[p].schema \in Seq(Nat) /\ tx[p].recorded \in SUBSET Nat
    BY <1>1, AtWork DEF Working
  <2>. HIDE DEF n, m
  <2>. QED BY <2>1
<1>4. tx[p].file = n + m + 1
  BY <1>1, <1>2 DEF Continues, Working, SeenBy
<1>5. tx' = [tx EXCEPT ![p] = t]
  <2>1. tx' = [tx EXCEPT ![p] = [tx[p] EXCEPT !.schema = Append(tx[p].schema, tx[p].file)]]
    BY DEF ApplyFile, MigrationInv, MigrationTypeOK
  <2>2. tx[p] \in [file : Nat, schema : Seq(Nat), recorded : SUBSET Nat]
    BY DEF MigrationInv, MigrationTypeOK
  <2>3. [tx[p] EXCEPT !.schema = Append(tx[p].schema, tx[p].file)] = t
    BY <2>2, WithSchema, Zenon
  <2>. QED BY <2>1, <2>3
<1>. HIDE DEF t
<1>6. Len(t.schema) = m + 1
  BY <1>2, <1>3
<1>7. t.schema = [i \in 1 .. m + 1 |-> n + i]
  <2>1. tx[p].schema = [i \in 1 .. m |-> n + i]
    BY <1>2 DEF Continues, Working
  <2>. HIDE DEF n, m
  <2>. QED BY <1>2, <1>3, <1>4, <2>1, OneMoreApplied
<1>8. n + m + 1 <= Files /\ t.recorded = n + 1 .. n + m
  BY <1>1, <1>2, <1>3, <1>4, FilesAssumption DEF Continues, Working
<1>9. Continues("recording", t, n)
  <2>0. /\ n \in Nat /\ m \in Nat /\ t.file = n + m + 1 /\ n + m + 1 <= Files
    BY <1>2, <1>3, <1>4, <1>8
  <2>. HIDE DEF n, m
  <2>1. /\ n + Len(t.schema) <= Files /\ Len(t.schema) > 0
        /\ t.file = n + Len(t.schema) /\ n + Len(t.schema) - 1 = n + m
    BY <2>0, <1>6, FilesAssumption
  <2>2. t.recorded = n + 1 .. n + Len(t.schema) - 1
    BY <1>8, <2>1
  <2>3. t.schema = [i \in 1 .. Len(t.schema) |-> n + i]
    BY <1>6, <1>7
  <2>. QED BY <2>1, <2>2, <2>3 DEF Continues, Working
<1>. QED
  BY <1>1, <1>3, <1>5, <1>9, AtWork, LocalStep
     DEF ApplyFile, MigrationInv, MigrationTypeOK, Working

\* Nobody else has recorded the file meanwhile.
LEMMA RecordStep ==
  ASSUME MigrationInv, NEW p \in Process, RecordFile(p)
  PROVE  MigrationInv'
<1>. DEFINE t == [file |-> tx[p].file + 1, schema |-> tx[p].schema,
                  recorded |-> tx[p].recorded \cup {tx[p].file}]
            n == Len(schema)
            m == Len(tx[p].schema)
<1>1. opening[p] = "recording"
  BY DEF RecordFile
<1>2. /\ n \in Nat /\ m \in Nat /\ tx[p].file \in Nat /\ recorded = 1 .. n
      /\ Continues("recording", tx[p], n)
  BY <1>1, AtWork DEF Working
<1>3. /\ t.file = tx[p].file + 1 /\ t.schema = tx[p].schema
      /\ t.recorded = tx[p].recorded \cup {tx[p].file}
      /\ t \in [file : Nat, schema : Seq(Nat), recorded : SUBSET Nat]
  <2>1. /\ tx[p] \in [file : Nat, schema : Seq(Nat), recorded : SUBSET Nat]
        /\ tx[p].file \in Nat /\ tx[p].schema \in Seq(Nat) /\ tx[p].recorded \in SUBSET Nat
    BY <1>1, AtWork DEF Working
  <2>. HIDE DEF n, m
  <2>. QED BY <2>1
<1>4. tx[p].file = n + m /\ m > 0 /\ tx[p].file \notin recorded
  BY <1>2 DEF Continues, Working
<1>5. /\ tx' = [tx EXCEPT ![p] = t] /\ opening' = [opening EXCEPT ![p] = "checking"]
      /\ lock' = lock /\ UNCHANGED <<schema, recorded, cuts>>
  <2>1. tx' = [tx EXCEPT ![p] = [tx[p] EXCEPT !.file = tx[p].file + 1,
                                    !.recorded = tx[p].recorded \cup {tx[p].file}]]
    BY DEF RecordFile, MigrationInv, MigrationTypeOK
  <2>2. tx[p] \in [file : Nat, schema : Seq(Nat), recorded : SUBSET Nat]
    BY DEF MigrationInv, MigrationTypeOK
  <2>3. [tx[p] EXCEPT !.file = tx[p].file + 1,
                      !.recorded = tx[p].recorded \cup {tx[p].file}] = t
    BY <2>2, WithRecorded, Zenon
  <2>4. /\ opening' = [opening EXCEPT ![p] = "checking"]
        /\ lock' = lock /\ UNCHANGED <<schema, recorded, cuts>>
    BY <1>4 DEF RecordFile
  <2>. QED BY <2>1, <2>3, <2>4
<1>. HIDE DEF t
<1>6. t.recorded = n + 1 .. n + m
  <2>1. tx[p].recorded = n + 1 .. n + m - 1
    BY <1>2 DEF Continues, Working
  <2>. HIDE DEF n, m
  <2>. QED BY <1>2, <1>3, <1>4, <2>1, OneMoreRecorded
<1>7. Continues("checking", t, n)
  <2>1. /\ n + m <= Files /\ tx[p].schema = [i \in 1 .. m |-> n + i]
    BY <1>2 DEF Continues, Working
  <2>2. /\ n \in Nat /\ m \in Nat /\ t.file = n + m + 1
    BY <1>2, <1>3, <1>4
  <2>3. Len(t.schema) = m
    BY <1>3
  <2>4. t.schema = [i \in 1 .. Len(t.schema) |-> n + i]
    BY <1>3, <2>1
  <2>. HIDE DEF n, m
  <2>5. /\ n + Len(t.schema) <= Files /\ t.file = n + Len(t.schema) + 1
        /\ t.recorded = n + 1 .. n + Len(t.schema)
        /\ t.file <= n + Len(t.schema) + 1 /\ t.file >= 1
    BY <1>6, <2>1, <2>2, <2>3
  <2>. QED BY <2>4, <2>5 DEF Continues, Working
<1>. QED
  BY <1>1, <1>3, <1>5, <1>7, AtWork, LocalStep DEF MigrationInv, MigrationTypeOK, Working

LEMMA CutStep ==
  ASSUME MigrationInv, NEW p \in Process, Cut(p)
  PROVE  MigrationInv'
<1>1. NewTx \in [file : Nat, schema : Seq(Nat), recorded : SUBSET Nat]
  BY DEF NewTx
<1>2. Continues("cut", NewTx, Len(schema))
  BY DEF Continues, Working
<1>3. \A q \in Process \ {p} : opening[q] \in Working => lock' = q
  BY DEF Cut, Unlocked, MigrationInv, Lock
<1>4. lock' \in Process \cup {Nobody} /\ cuts' \in Nat
  BY DEF Cut, Unlocked, MigrationInv, MigrationTypeOK
<1>. QED
  BY <1>1, <1>2, <1>3, <1>4, LocalStep DEF Cut, Working

\* What is committed is what was, and the files the transaction has added; nobody else
\* is at work.
LEMMA CommitStep ==
  ASSUME MigrationInv, NEW p \in Process, CommitMigrations(p)
  PROVE  MigrationInv'
<1>. DEFINE n == Len(schema)
            m == Len(tx[p].schema)
<1>1. /\ opening[p] = "checking" /\ tx[p].file > Files
      /\ schema' = schema \o tx[p].schema /\ recorded' = SeenBy(p)
      /\ lock' = Unlocked(p) /\ tx' = [tx EXCEPT ![p] = NewTx]
  BY DEF CommitMigrations
<1>2. PICK o \in {"ready", "cut"} : opening' = [opening EXCEPT ![p] = o]
  BY DEF CommitMigrations
<1>3. /\ n \in Nat /\ m \in Nat /\ Continues("checking", tx[p], n) /\ recorded = 1 .. n
      /\ tx[p].schema \in Seq(Nat) /\ schema \in Seq(Nat) /\ tx[p].file \in Nat
      /\ n <= Files
  BY <1>1, AtWork DEF Working, MigrationInv, MigrationTypeOK
<1>4. n + m = Files
  <2>1. n + m <= Files /\ tx[p].file <= n + m + 1
    BY <1>3 DEF Continues, Working
  <2>2. tx[p].file > Files /\ tx[p].file \in Nat
    BY <1>1, <1>3
  <2>3. n \in Nat /\ m \in Nat
    BY <1>3
  <2>. HIDE DEF n, m
  <2>. QED BY <2>1, <2>2, <2>3, FilesAssumption
<1>5. /\ schema' \in Seq(Nat) /\ Len(schema') = Files
  BY <1>1, <1>3, <1>4
<1>6. schema' = First(Files)
  <2>1. schema = [i \in 1 .. n |-> i]
    BY DEF MigrationInv, MigratedInOrder, First
  <2>2. tx[p].schema = [i \in 1 .. m |-> n + i]
    BY <1>3 DEF Continues, Working
  <2>3. schema \o tx[p].schema = [i \in 1 .. n + m |-> i]
    BY <1>3, <2>1, <2>2, SMTT(30)
  <2>. QED BY <1>1, <1>4, <2>3 DEF First
<1>7. recorded' = 1 .. Files
  BY <1>1, <1>3, <1>4 DEF Continues, Working, SeenBy
<1>8. NewTx \in [file : Nat, schema : Seq(Nat), recorded : SUBSET Nat]
  BY DEF NewTx
<1>9. cuts' \in Nat /\ lock' \in Process \cup {Nobody}
  BY <1>1 DEF CommitMigrations, MigrationInv, MigrationTypeOK, Unlocked
<1>10. MigrationTypeOK'
  BY <1>1, <1>2, <1>5, <1>7, <1>8, <1>9, FilesAssumption DEF MigrationInv, MigrationTypeOK
<1>11. /\ \A q \in Process \ {p} : opening[q] \notin Working
       /\ \A q \in Process : opening'[q] \notin Working
  BY <1>1, <1>2, AtWork DEF Working, MigrationInv, MigrationTypeOK
<1>12. MigratedInOrder' /\ StartsTogether' /\ (Len(schema) <= Files)'
  BY <1>2, <1>5, <1>6, <1>7, FilesAssumption
     DEF MigrationInv, MigrationTypeOK, MigratedInOrder, StartsTogether
<1>13. \A q \in Process : tx'[q] = NewTx
  BY <1>1, <1>11 DEF MigrationInv, MigrationTypeOK, Progress, Continues
<1>14. Lock' /\ Progress'
  BY <1>11, <1>13 DEF Lock, Progress, Continues
<1>. QED BY <1>5, <1>10, <1>12, <1>14 DEF MigrationInv

LEMMA MigrationInvStep == MigrationInv /\ [MigrationNext]_migrationVars => MigrationInv'
<1>. SUFFICES ASSUME MigrationInv, [MigrationNext]_migrationVars PROVE MigrationInv'
  OBVIOUS
<1>1. ASSUME NEW p \in Process, Open(p) PROVE MigrationInv'
  BY <1>1, BeginStep, LockStep, SkipStep, ApplyStep, RecordStep, CommitStep, CutStep
     DEF Open, Migrate
<1>2. CASE UNCHANGED migrationVars
  BY <1>2 DEF migrationVars, MigrationInv, MigrationTypeOK, MigratedInOrder, StartsTogether,
              Lock, Progress
<1>. QED BY <1>1, <1>2 DEF MigrationNext

\* The invariant the properties below follow from.
THEOREM MigrationInvariance == MigrationSpec => []MigrationInv
BY MigrationInvInit, MigrationInvStep, PTL DEF MigrationSpec

\* Variables keep their types, for any number of processes and migration files.
THEOREM MigrationTypeCorrect == MigrationSpec => []MigrationTypeOK
<1>1. MigrationInv => MigrationTypeOK
  BY DEF MigrationInv
<1>. QED BY <1>1, MigrationInvariance, PTL

\* However many processes migrate, fail and start again, each file is applied at most
\* once and in order, is recorded if and only if it was applied, and nobody has an open
\* database without the whole schema.
THEOREM SchemaInOrder == MigrationSpec => []MigratedInOrder
<1>1. MigrationInv => MigratedInOrder
  BY DEF MigrationInv
<1>. QED BY <1>1, MigrationInvariance, PTL

\* The advisory lock keeps any number of processes that start together from failing
\* on each other's rows.
THEOREM AllStartTogether == MigrationSpec => []StartsTogether
<1>1. MigrationInv => StartsTogether
  BY DEF MigrationInv
<1>. QED BY <1>1, MigrationInvariance, PTL
=============================================================================
