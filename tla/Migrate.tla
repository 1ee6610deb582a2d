------------------------------ MODULE Migrate ------------------------------
(***************************************************************************)
(* infra/migrate.py: the runs of the migration runner, by any number of    *)
(* operators at a time (README.md step 4, .github/workflows/ci.yml), on    *)
(* one PostgreSQL server.  The files are 1, 2, ... in the order of their   *)
(* numeric prefixes; a deployment between two runs may add one at the end. *)
(*                                                                         *)
(* A run is at one of these places, and can raise or be killed at each:    *)
(*                                                                         *)
(*   connect   in ensure_airflow_db, then in get_connection and CREATE     *)
(*             TABLE IF NOT EXISTS of schema_migrations, committed at once *)
(*   read      reading the versions applied, and the directory             *)
(*   files     at the head of the loop over the files                      *)
(*   commit    the SQL of a file and the INSERT of its version are         *)
(*             executed, in a transaction that is still open               *)
(*   ok, failed   ended, with exit status 0 or 1                           *)
(***************************************************************************)
EXTENDS Naturals, Sequences

CONSTANTS
    Runner,    \* the operators
    MaxFiles   \* bound: migration files

ASSUME MigrateAssumption == MaxFiles \in Nat

VARIABLES
    files,      \* the number of migration files there are
    airflow,    \* the airflow database: "absent" or "present"
    recorded,   \* public.schema_migrations
    ran,        \* history: the files whose SQL took effect, in that order
    at,         \* where each run is
    applied,    \* the versions it read
    next,       \* the file its loop is at
    list        \* the number of files it found, or the last run had found

migrateVars == <<files, airflow, recorded, ran, at, applied, next, list>>

Place == {"off", "connect", "read", "files", "commit", "ok", "failed"}
Ended == {"off", "ok", "failed"}

MigrateTypeOK ==
    /\ files \in 0..MaxFiles
    /\ airflow \in {"absent", "present"}
    /\ recorded \subseteq 1..files
    /\ ran \in Seq(1..files)
    /\ at \in [Runner -> Place]
    /\ applied \in [Runner -> SUBSET Nat]
    /\ list \in [Runner -> 0..files]
    /\ next \in [Runner -> 1..(files + 1)]
    /\ \A r \in Runner : next[r] <= list[r] + 1 /\ applied[r] \subseteq 1..list[r]
    /\ \A r \in Runner : at[r] = "commit" => next[r] <= list[r]
    /\ \A r \in Runner : at[r] \in Ended => next[r] = 1 /\ applied[r] = {}

MigrateInit ==
    /\ files \in 0..MaxFiles
    /\ airflow = "absent"
    /\ recorded = {} /\ ran = <<>>
    /\ at = [r \in Runner |-> "off"]
    /\ applied = [r \in Runner |-> {}]
    /\ list = [r \in Runner |-> 0]
    /\ next = [r \in Runner |-> 1]

----------------------------------------------------------------------------

Goes(r, from, to) == at[r] = from /\ at' = [at EXCEPT ![r] = to]

\* Somebody runs the script, for the first time or again.
RunsScript(r) ==
    /\ at[r] \in Ended
    /\ at' = [at EXCEPT ![r] = "connect"]
    /\ list' = [list EXCEPT ![r] = 0]
    /\ UNCHANGED <<files, airflow, recorded, ran, applied, next>>

\* What psycopg2 raises in ensure_airflow_db, another run that creates that
\* database at the same time included, is a warning.
Connects(r) ==
    /\ Goes(r, "connect", "read")
    /\ airflow' \in {airflow, "present"}
    /\ UNCHANGED <<files, recorded, ran, applied, next, list>>

ReadsApplied(r) ==
    /\ Goes(r, "read", "files")
    /\ applied' = [applied EXCEPT ![r] = recorded]
    /\ list' = [list EXCEPT ![r] = files]
    /\ UNCHANGED <<files, airflow, recorded, ran, next>>

Pending(r) == at[r] = "files" /\ next[r] <= list[r] /\ next[r] \notin applied[r]

Skips(r) ==
    /\ at[r] = "files"
    /\ next[r] \in applied[r]
    /\ next' = [next EXCEPT ![r] = @ + 1]
    /\ UNCHANGED <<files, airflow, recorded, ran, at, applied, list>>

\* The file is being applied by another run: its locks, or the row of its
\* version, make this run wait for the end of that transaction.
Locked(r) == \E q \in Runner \ {r} : at[q] = "commit" /\ next[q] = next[r]

\* Mutant: schema_migrations has no primary key.
ExecutesAnyway(r) ==
    /\ Pending(r) /\ ~Locked(r)
    /\ at' = [at EXCEPT ![r] = "commit"]
    /\ UNCHANGED <<files, airflow, recorded, ran, applied, next, list>>

\* Both statements succeed.  If the version was recorded since it was read,
\* the INSERT violates the primary key instead, and the run Fails.
Executes(r) ==
    /\ Pending(r) /\ ~Locked(r)
    /\ next[r] \notin recorded
    /\ at' = [at EXCEPT ![r] = "commit"]
    /\ UNCHANGED <<files, airflow, recorded, ran, applied, next, list>>

TakesEffect(r) ==
    /\ recorded' = recorded \cup {next[r]}
    /\ ran' = Append(ran, next[r])

Commits(r) ==
    /\ Goes(r, "commit", "files")
    /\ TakesEffect(r)
    /\ next' = [next EXCEPT ![r] = @ + 1]
    /\ UNCHANGED <<files, airflow, applied, list>>

\* The process is gone, and its variables with it.
Exits(r, status) ==
    /\ at' = [at EXCEPT ![r] = status]
    /\ applied' = [applied EXCEPT ![r] = {}]
    /\ next' = [next EXCEPT ![r] = 1]

Succeeds(r) ==
    /\ at[r] = "files" /\ next[r] > list[r]
    /\ Exits(r, "ok")
    /\ UNCHANGED <<files, airflow, recorded, ran, list>>

\* Mutant: an error in a file is reported and the loop goes on.
FailsOnly(r) ==
    /\ at[r] \notin Ended
    /\ at' = [at EXCEPT ![r] = IF @ = "commit" THEN "files" ELSE "failed"]
    /\ next' = [next EXCEPT ![r] = IF at[r] = "commit" THEN @ + 1 ELSE @]
    /\ UNCHANGED <<files, airflow, recorded, ran, applied, list>>

\* The run is killed; or it cannot connect, two runs create the table at the
\* same time, a statement of a file fails, its version was recorded since the
\* versions were read, or the connection is lost: it exits with 1.  The server
\* rolls back the open transaction, unless the COMMIT was on its way.
Fails(r) ==
    /\ at[r] \notin Ended
    /\ Exits(r, "failed")
    /\ list' = [list EXCEPT ![r] = 0]
    /\ \/ UNCHANGED <<recorded, ran>>
       \/ at[r] = "commit" /\ TakesEffect(r)
    /\ UNCHANGED <<files, airflow>>

\* A new version of the repository has one more file.
FileAdded ==
    /\ files < MaxFiles
    /\ files' = files + 1
    /\ UNCHANGED <<airflow, recorded, ran, at, applied, next, list>>

----------------------------------------------------------------------------

RunStep(r) ==
    \/ RunsScript(r)
    \/ Connects(r)
    \/ ReadsApplied(r)
    \/ Skips(r)
    \/ Executes(r)
    \/ Commits(r)
    \/ Succeeds(r)
    \/ Fails(r)

MigrateNext == FileAdded \/ \E r \in Runner : RunStep(r)

MigrateSpec == MigrateInit /\ [][MigrateNext]_migrateVars

----------------------------------------------------------------------------

\* The migrations that took effect are the first ones, in order, each exactly
\* once, and these are the ones recorded, whatever runs overlap, fail between
\* two files, lose the answer to a COMMIT or are repeated.
SchemaIsPrefix ==
    /\ recorded = 1..Len(ran)
    /\ \A i \in 1..Len(ran) : ran[i] = i

\* "Exits 0 on success, 1 on failure", migrate.py:11: a run that ends with 0
\* leaves every file it found applied, by itself or by another run.
SuccessMeansApplied == \A r \in Runner : at[r] = "ok" => 1..list[r] \subseteq recorded

============================================================================
