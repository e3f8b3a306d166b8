------------------------------ MODULE Migrations ------------------------------
(***************************************************************************)
(* The start of an API instance: main() calls db.Migrate, which applies    *)
(* the files of internal/db/migrations in order, each in a transaction     *)
(* with its row of schema_migrations, and serves only when all are there.  *)
(*                                                                         *)
(* Several instances start against one database.  An action is one call to *)
(* PostgreSQL and the code up to the next.  A transaction is seen by       *)
(* others at its commit, so `recorded' and `history' change there; an      *)
(* error or a death before it rolls back and leaves nothing.  The locks    *)
(* that the statements of a file take only delay others and are left out.  *)
(* A file is its place in the sorted directory.                            *)
(*                                                                         *)
(* A definition X_Y before a definition X is a mutation of X.              *)
(***************************************************************************)
EXTENDS Integers, Sequences

CONSTANTS
  Instances, \* servers that start against one database
  NumFiles,  \* files in internal/db/migrations
  MaxFaults  \* bound: failing calls and deaths of instances together

ASSUME FilesAssumption == NumFiles \in Nat /\ MaxFaults \in Nat

Files == 1 .. NumFiles

VARIABLES
  at,       \* instance -> its next call, "down" when it does not run
  file,     \* instance -> the file its loop is at
  recorded, \* table schema_migrations
  history,  \* the files whose content took effect, in the order of commit
  faults    \* calls that failed and instances that died so far

schema == <<recorded, history>>
migrationVars == <<at, file, recorded, history, faults>>

MigrationsTypeOK ==
  /\ at \in [Instances -> {"down", "check", "exec", "record", "commit", "serve"}]
  /\ file \in [Instances -> 1 .. NumFiles + 1]
  /\ recorded \in SUBSET Files
  /\ history \in Seq(Files)
  /\ faults \in 0 .. MaxFaults

MigrationsInit ==
  /\ at = [i \in Instances |-> "down"]
  /\ file = [i \in Instances |-> 1]
  /\ recorded = {}
  /\ history = <<>>
  /\ faults = 0

-----------------------------------------------------------------------------

Goto(i, next) == at' = [at EXCEPT ![i] = next]

\* CREATE TABLE IF NOT EXISTS schema_migrations, then the sorted directory.
Boot(i) ==
  /\ at[i] = "down"
  /\ Goto(i, "check")
  /\ file' = [file EXCEPT ![i] = 1]
  /\ UNCHANGED <<schema, faults>>

Advance(i) == file' = [file EXCEPT ![i] = @ + 1]

\* The look-up is not part of the transaction that applies the file.
Check_Ignored(i) ==
  /\ at[i] = "check" /\ file[i] \in Files
  /\ Goto(i, "exec")
  /\ UNCHANGED <<file, schema, faults>>

Check(i) ==
  /\ at[i] = "check" /\ file[i] \in Files
  /\ IF file[i] \in recorded
       THEN Advance(i) /\ UNCHANGED at
       ELSE Goto(i, "exec") /\ UNCHANGED file
  /\ UNCHANGED <<schema, faults>>

\* Begin and the content of the file.
Execute(i) ==
  /\ at[i] = "exec"
  /\ Goto(i, "record")
  /\ UNCHANGED <<file, schema, faults>>

\* The content may fail over its own effects: 007 renames bridge_links.
ExecuteRefused(i) ==
  /\ at[i] = "exec" /\ file[i] \in recorded
  /\ Goto(i, "down")
  /\ UNCHANGED <<file, schema, faults>>

\* The insert of the version waits for another transaction that inserted it
\* and is refused when that one committed: version is the primary key.
Record_OnConflictDoNothing(i) ==
  /\ at[i] = "record"
  /\ ~\E j \in Instances \ {i} : at[j] = "commit" /\ file[j] = file[i]
  /\ Goto(i, "commit")
  /\ UNCHANGED <<file, schema, faults>>

Record(i) ==
  /\ at[i] = "record"
  /\ ~\E j \in Instances \ {i} : at[j] = "commit" /\ file[j] = file[i]
  /\ Goto(i, IF file[i] \in recorded THEN "down" ELSE "commit")
  /\ UNCHANGED <<file, schema, faults>>

Apply(i) ==
  /\ recorded' = recorded \cup {file[i]}
  /\ history' = Append(history, file[i])

Commit(i) ==
  /\ at[i] = "commit"
  /\ Apply(i)
  /\ Advance(i) /\ Goto(i, "check")
  /\ UNCHANGED faults

\* Migrate returned nil and main() goes on to ListenAndServe.
Serve(i) ==
  /\ at[i] = "check" /\ file[i] \notin Files
  /\ Goto(i, "serve")
  /\ UNCHANGED <<file, schema, faults>>

Fault(i) ==
  /\ faults < MaxFaults /\ faults' = faults + 1
  /\ at[i] # "down" /\ Goto(i, "down")
  /\ UNCHANGED file

\* A call failed and main() exits, or the instance dies.
Stop(i) == Fault(i) /\ UNCHANGED schema

\* The connection breaks when PostgreSQL has committed.
CommitUnheard(i) == at[i] = "commit" /\ Fault(i) /\ Apply(i)

MigrationStep(i) ==
  \/ Boot(i) \/ Check(i) \/ Execute(i) \/ ExecuteRefused(i)
  \/ Record(i) \/ Commit(i) \/ Serve(i)

-----------------------------------------------------------------------------

\* However many instances start and die, each file takes effect once and in
\* order, and schema_migrations names just those (migrate.go:38-77): the
\* check before the transaction is stale, the primary key is what decides.
AppliedOnceInOrder ==
  /\ history = [k \in 1 .. Len(history) |-> k]
  /\ recorded = 1 .. Len(history)

=============================================================================
