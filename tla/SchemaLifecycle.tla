-------------------------- MODULE SchemaLifecycle --------------------------
(***************************************************************************)
(* The life of the PostgreSQL schema: `alembic upgrade head` before each   *)
(* rollout, adopt_legacy_schema.py for a database older than Alembic, the  *)
(* dumps of the backup CronJob, their restore into a database of a new     *)
(* name, and the cutover to it.                                            *)
(*                                                                         *)
(* A database is the set of what it holds: facts of its schema (that a     *)
(* table is there, a column with its type affinity and nullability, a key, *)
(* an index), the rows of the application, and the Stamp of Alembic's one  *)
(* revision.                                                               *)
(***************************************************************************)
EXTENDS Naturals, FiniteSets

CONSTANTS
    Facts,       \* facts a schema may hold
    Kind,        \* Kind[f]: what f is a fact about
    Baseline,    \* the facts of Base.metadata, which are those of revision head
    Schemas,     \* schemas a database may have before Alembic
    Rows,        \* rows the application may write
    Databases,   \* names
    Main,        \* the name DATABASE_URL and POSTGRES_DB begin with
    Migrations, Adoptions, Backups, Restores  \* executions of each program

Stamp == "alembic_version"
NoBackup == "none"
Runs == Migrations \union Adoptions \union Backups \union Restores
Contents == SUBSET (Facts \union Rows \union {Stamp})

(* The order in which _inspect_schema compares; one table stands for all.  *)
Checks == <<"table", "column", "primary key", "unique", "index",
            "foreign key">>
Kinds == {Checks[i] : i \in DOMAIN Checks}
Exact == {"table", "column", "primary key"}

ASSUME SchemaAssumption ==
    /\ Kind \in [Facts -> Kinds]
    /\ Baseline \subseteq Facts
    /\ \E f \in Baseline : Kind[f] = "table"
    /\ Schemas \subseteq SUBSET Facts
    /\ Facts \cap Rows = {} /\ Stamp \notin Facts \union Rows
    /\ Main \in Databases
ASSUME ProgramsAssumption ==
    /\ Migrations \cap (Adoptions \union Backups \union Restores) = {}
    /\ Adoptions \cap (Backups \union Restores) = {}
    /\ Backups \cap Restores = {}

VARIABLES
    exists,   \* names in pg_database
    db,       \* db[d]: what database d holds
    active,   \* the name in DATABASE_URL
    serving,  \* is the application rolled out on it?
    used,     \* databases the application has ever been started on
    source,   \* the name in POSTGRES_DB, which the backups connect to
    pc,       \* pc[x]: where run x is
    on,       \* on[x]: the database x works on
    step,     \* step[a]: the next comparison of adoption a
    issues,   \* issues[a]: has a found one?
    dump,     \* dump[b]: the file of backup b
    stored,   \* backups whose object is in the bucket
    from,     \* from[r]: the object restore r has downloaded
    raced     \* history: DDL by hand between comparison and stamp

vars == <<exists, db, active, serving, used, source, pc, on, step, issues,
          dump, stored, from, raced>>

InKind(s, k) == {f \in s \cap Facts : Kind[f] = k}
Stamped(d) == Stamp \in db[d]
Complete(s) == Stamp \in s /\ Baseline \subseteq s
Goto(x, place) == pc' = [pc EXCEPT ![x] = place]
Put(d, s) == db' = [db EXCEPT ![d] = s]

(* A program ends; its variables and its files are gone.                   *)
Exit(x) ==
    /\ Goto(x, "failed")
    /\ on' = [on EXCEPT ![x] = Main]
    /\ from' = [r \in Restores |-> IF r = x THEN NoBackup ELSE from[r]]

Init ==
    /\ exists = {Main}
    /\ \E s \in Schemas \union {Baseline \union {Stamp}} :
           db = [d \in Databases |-> IF d = Main THEN s ELSE {}]
    /\ active = Main
    /\ serving = FALSE
    /\ used = {}
    /\ source = Main
    /\ pc = [x \in Runs |-> "idle"]
    /\ on = [x \in Runs |-> Main]
    /\ step = [a \in Adoptions |-> 1]
    /\ issues = [a \in Adoptions |-> FALSE]
    /\ dump = [b \in Backups |-> {}]
    /\ stored = {}
    /\ from = [r \in Restores |-> NoBackup]
    /\ raced = FALSE

-----------------------------------------------------------------------------
(* alembic upgrade head: one transaction.                                  *)

(* At head there is nothing to do.                                         *)
MigrateStart(m) ==
    /\ pc[m] = "idle"
    /\ on' = [on EXCEPT ![m] = active]
    /\ Goto(m, IF Stamped(active) THEN "succeeded" ELSE "creating")
    /\ UNCHANGED <<exists, db, active, serving, used, source, step, issues,
                   dump, stored, from, raced>>

(* CREATE TABLE fails if one of the tables is there, whoever made it.      *)
MigrateCommit(m) ==
    /\ pc[m] = "creating"
    /\ InKind(Baseline, "table") \cap db[on[m]] = {}
    /\ Put(on[m], db[on[m]] \union Baseline \union {Stamp})
    /\ Goto(m, "succeeded")
    /\ UNCHANGED <<exists, active, serving, used, source, on, step, issues,
                   dump, stored, from, raced>>

(* The application starts when the step before it has succeeded.           *)
Rollout(m) ==
    /\ pc[m] = "succeeded" /\ on[m] = active
    /\ serving' = TRUE
    /\ used' = used \union {active}
    /\ UNCHANGED <<exists, db, active, source, pc, on, step, issues, dump,
                   stored, from, raced>>

(* Before any cutover, a temporary API instance is pointed at a restored   *)
(* database.                                                               *)
Trial(r) ==
    /\ pc[r] = "succeeded"
    /\ used' = used \union {on[r]}
    /\ UNCHANGED <<exists, db, active, serving, source, pc, on, step, issues,
                   dump, stored, from, raced>>

(* A transaction of the application adds and deletes rows; pods of an      *)
(* earlier rollout may still run when DATABASE_URL names another database. *)
Write(d, rows) ==
    /\ d \in used
    /\ Put(d, rows \union (db[d] \ Rows))
    /\ UNCHANGED <<exists, active, serving, used, source, pc, on, step, issues,
                   dump, stored, from, raced>>

(* Someone prepares a database that Alembic does not know yet.             *)
ByHand(s) ==
    /\ ~Stamped(active) /\ ~serving
    /\ Put(active, s \union (db[active] \ Facts))
    /\ raced' = (raced \/ \E a \in Adoptions : /\ pc[a] = "checking"
                                               /\ on[a] = active)
    /\ UNCHANGED <<exists, active, serving, used, source, pc, on, step, issues,
                   dump, stored, from>>

-----------------------------------------------------------------------------
(* adopt_legacy_schema.py.  Each query of _inspect_schema sees the moment  *)
(* it runs at.                                                             *)
AdoptStart(a) ==
    /\ pc[a] = "idle"
    /\ on' = [on EXCEPT ![a] = active]
    /\ Goto(a, "checking")
    /\ UNCHANGED <<exists, db, active, serving, used, source, step, issues,
                   dump, stored, from, raced>>

(* Mutant: indexes, keys and columns alike may be missing.                 *)
DiffersLeniently(s, k) == InKind(s, k) \ InKind(Baseline, k) # {}

(* Tables, columns and primary key have to be those expected; constraints  *)
(* and indexes may be more.                                                *)
Differs(s, k) ==
    \/ InKind(Baseline, k) \ InKind(s, k) # {}
    \/ k \in Exact /\ InKind(s, k) \ InKind(Baseline, k) # {}

AdoptCompare(a) ==
    /\ pc[a] = "checking" /\ step[a] \in DOMAIN Checks
    /\ issues' = [issues EXCEPT ![a] = @ \/ Differs(db[on[a]], Checks[step[a]])]
    /\ step' = [step EXCEPT ![a] = @ + 1]
    /\ UNCHANGED <<exists, db, active, serving, used, source, pc, on, dump,
                   stored, from, raced>>

(* With --stamp, in a connection of its own.                               *)
AdoptStamp(a) ==
    /\ pc[a] = "checking" /\ step[a] \notin DOMAIN Checks
    /\ ~issues[a]
    /\ Put(on[a], db[on[a]] \union {Stamp})
    /\ Goto(a, "succeeded")
    /\ UNCHANGED <<exists, active, serving, used, source, on, step, issues,
                   dump, stored, from, raced>>

-----------------------------------------------------------------------------
(* The CronJob: pods one after another (concurrencyPolicy, backoffLimit).  *)

(* Mutant: the revision is not asked for.                                  *)
BackupAnything(b) ==
    /\ pc[b] = "idle"
    /\ \A c \in Backups : pc[c] \in {"idle", "succeeded", "failed"}
    /\ on' = [on EXCEPT ![b] = source]
    /\ Goto(b, "revised")
    /\ UNCHANGED <<exists, db, active, serving, used, source, step, issues,
                   dump, stored, from, raced>>

(* psql connects to PGDATABASE, the POSTGRES_DB of the Secret, and fails   *)
(* without the table, and the script with it.                              *)
BackupRevision(b) ==
    /\ pc[b] = "idle"
    /\ \A c \in Backups : pc[c] \in {"idle", "succeeded", "failed"}
    /\ Stamped(source)
    /\ on' = [on EXCEPT ![b] = source]
    /\ Goto(b, "revised")
    /\ UNCHANGED <<exists, db, active, serving, used, source, step, issues,
                   dump, stored, from, raced>>

(* pg_dump: one snapshot.                                                  *)
BackupDump(b) ==
    /\ pc[b] = "revised"
    /\ dump' = [dump EXCEPT ![b] = db[on[b]]]
    /\ Goto(b, "dumped")
    /\ UNCHANGED <<exists, db, active, serving, used, source, on, step, issues,
                   stored, from, raced>>

(* The object is there, whether curl hears of it or the pod fails and is   *)
(* followed by another.                                                    *)
BackupUpload(b) ==
    /\ pc[b] = "dumped"
    /\ stored' = stored \union {b}
    /\ Goto(b, "succeeded")
    /\ UNCHANGED <<exists, db, active, serving, used, source, on, step, issues,
                   dump, from, raced>>

-----------------------------------------------------------------------------
(* restore_postgres.sh and restore-job.yaml.                               *)
RestoreDownload(r, b, d) ==
    /\ pc[r] = "idle" /\ b \in stored
    /\ on' = [on EXCEPT ![r] = d]
    /\ from' = [from EXCEPT ![r] = b]
    /\ Goto(r, "downloaded")
    /\ UNCHANGED <<exists, db, active, serving, used, source, step, issues,
                   dump, stored, raced>>

(* Mutant: createdb is forgotten.                                          *)
RestoreCheckOnly(r) ==
    /\ pc[r] = "downloaded"
    /\ on[r] \notin exists
    /\ Goto(r, "restoring")
    /\ UNCHANGED <<exists, db, active, serving, used, source, on, step, issues,
                   dump, stored, from, raced>>

(* The name is refused if it is taken.  The test is a pipe whose status is *)
(* that of grep: a psql that fails lets the name pass.                     *)
RestoreCheck(r) ==
    /\ pc[r] = "downloaded"
    /\ \/ Goto(r, "checked") /\ UNCHANGED <<on, from>>
       \/ on[r] \in exists /\ Exit(r)
    /\ UNCHANGED <<exists, db, active, serving, used, source, step, issues,
                   dump, stored, raced>>

(* Mutant: CREATE DATABASE only for a name that is free.                   *)
RestoreCreateOrUse(r) ==
    /\ pc[r] = "checked"
    /\ exists' = exists \union {on[r]}
    /\ Goto(r, "restoring")
    /\ UNCHANGED <<db, active, serving, used, source, on, step, issues, dump,
                   stored, from, raced>>

(* createdb fails if the name is taken by now.                             *)
RestoreCreate(r) ==
    /\ pc[r] = "checked"
    /\ on[r] \notin exists
    /\ exists' = exists \union {on[r]}
    /\ Goto(r, "restoring")
    /\ UNCHANGED <<db, active, serving, used, source, on, step, issues, dump,
                   stored, from, raced>>

(* Mutant: pg_restore without --exit-on-error.                             *)
RestoreOnError(r) ==
    /\ pc[r] = "restoring"
    /\ \E error \in SUBSET (dump[from[r]] \cap Facts) :
           Put(on[r], db[on[r]] \union (dump[from[r]] \ error))
    /\ Goto(r, "restored")
    /\ UNCHANGED <<exists, active, serving, used, source, on, step, issues,
                   dump, stored, from, raced>>

RestoreDump(r) ==
    /\ pc[r] = "restoring"
    /\ Put(on[r], db[on[r]] \union dump[from[r]])
    /\ Goto(r, "restored")
    /\ UNCHANGED <<exists, active, serving, used, source, on, step, issues,
                   dump, stored, from, raced>>

(* pg_restore writes tables, then rows and the stamp, then the rest; an    *)
(* error or the end of the process leaves what is there (bound: in whole   *)
(* sections of the file).                                                  *)
Tables(s) == InKind(s, "table") \union InKind(s, "column")
RestoreBreak(r) ==
    /\ pc[r] = "restoring"
    /\ \E part \in {{}, Tables(dump[from[r]]),
                    Tables(dump[from[r]]) \union (dump[from[r]] \ Facts)} :
           Put(on[r], db[on[r]] \union part)
    /\ Exit(r)
    /\ UNCHANGED <<exists, active, serving, used, source, step, issues, dump,
                   stored, raced>>

(* `Restore complete`, after the revision has been read.                   *)
RestoreReport(r) ==
    /\ pc[r] = "restored"
    /\ Stamped(on[r])
    /\ Goto(r, "succeeded")
    /\ UNCHANGED <<exists, db, active, serving, used, source, on, step, issues,
                   dump, stored, from, raced>>

(* The operator points DATABASE_URL at the restored database; a rollout    *)
(* follows, with its migration first.                                      *)
Cutover(r) ==
    /\ pc[r] = "succeeded" /\ on[r] # active
    /\ active' = on[r]
    /\ serving' = FALSE
    /\ UNCHANGED <<exists, db, used, source, pc, on, step, issues, dump,
                   stored, from, raced>>

(* POSTGRES_DB is another key: the backups follow sooner, later or never.  *)
PointBackups(r) ==
    /\ pc[r] = "succeeded" /\ on[r] # source
    /\ source' = on[r]
    /\ UNCHANGED <<exists, db, active, serving, used, pc, on, step, issues,
                   dump, stored, from, raced>>

-----------------------------------------------------------------------------
(* An error, a refusal or the end of a program outside its writes; also an *)
(* adoption with issues, or without --stamp.                               *)
Stop(x) ==
    /\ pc[x] \notin {"idle", "restoring", "succeeded", "failed"}
    /\ Exit(x)
    /\ step' = [a \in Adoptions |-> IF a = x THEN 1 ELSE step[a]]
    /\ issues' = [a \in Adoptions |-> a # x /\ issues[a]]
    /\ dump' = [b \in Backups |-> IF b = x THEN {} ELSE dump[b]]
    /\ UNCHANGED <<exists, db, active, serving, used, source, stored, raced>>

Next ==
    \/ \E m \in Migrations : MigrateStart(m) \/ MigrateCommit(m) \/ Rollout(m)
    \/ \E a \in Adoptions : AdoptStart(a) \/ AdoptCompare(a) \/ AdoptStamp(a)
    \/ \E b \in Backups : BackupRevision(b) \/ BackupDump(b) \/ BackupUpload(b)
    \/ \E r \in Restores, b \in Backups, d \in Databases :
           RestoreDownload(r, b, d)
    \/ \E r \in Restores :
           \/ RestoreCheck(r) \/ RestoreCreate(r) \/ RestoreDump(r)
           \/ RestoreBreak(r) \/ RestoreReport(r) \/ Cutover(r)
           \/ PointBackups(r) \/ Trial(r)
    \/ \E d \in Databases, rows \in SUBSET Rows : Write(d, rows)
    \/ \E s \in Schemas : ByHand(s)
    \/ \E x \in Runs : Stop(x)

Spec == Init /\ [][Next]_vars

-----------------------------------------------------------------------------
(* The values the state of the lifecycle ranges over; a database that does *)
(* not exist holds nothing.                                                *)
TypeOK ==
    /\ exists \subseteq Databases
    /\ db \in [Databases -> Contents]
    /\ \A d \in Databases \ exists : db[d] = {}
    /\ active \in exists
    /\ serving \in BOOLEAN
    /\ used \subseteq exists
    /\ source \in exists
    /\ pc \in [Runs -> {"idle", "creating", "checking", "revised", "dumped",
                        "downloaded", "checked", "restoring", "restored",
                        "succeeded", "failed"}]
    /\ on \in [Runs -> Databases]
    /\ step \in [Adoptions -> Nat \ {0}]
    /\ issues \in [Adoptions -> BOOLEAN]
    /\ dump \in [Backups -> Contents]
    /\ stored \subseteq Backups
    /\ from \in [Restores -> Backups \union {NoBackup}]
    /\ raced \in BOOLEAN

(* The application never serves, and no object is stored, from a database  *)
(* that is stamped but lacks a part of the schema, whichever of a          *)
(* migration, an adoption and a restore has stamped it, unless the schema  *)
(* was changed by hand while an adoption ran (README.md, "An incompatible  *)
(* or unknown schema is not stamped").                                     *)
StampMeansSchema ==
    ~raced => /\ serving => Complete(db[active])
              /\ \A b \in stored : Complete(dump[b])

(* `Restore complete` of restore_postgres.sh: the database holds what the  *)
(* object held, no more and no less, until the application is started on   *)
(* it, although other restores may want the same name, others may have     *)
(* broken off, and migrations, adoptions and backups run beside it.        *)
RestoreExact ==
    \A r \in Restores :
        pc[r] = "succeeded" /\ on[r] \notin used => db[on[r]] = dump[from[r]]

(* A restore works on a database of its own: never one that another        *)
(* restore has begun, nor one the application or the backups connect to,   *)
(* even if the test for the name has passed them all.                      *)
OwnDatabase ==
    \A r \in Restores :
        pc[r] \in {"restoring", "restored"} =>
            /\ on[r] \notin used \union {active, source}
            /\ \A s \in Restores \ {r} :
                   on[s] = on[r] =>
                       pc[s] \notin {"restoring", "restored", "succeeded"}
=============================================================================
