------------------------------ MODULE Backfill ------------------------------
(***************************************************************************)
(* scripts/backfill_demo_90d.py: a run counts the rows of every domain     *)
(* table, creates the demo dataset when there are none, and otherwise      *)
(* reports NOOP for an exact dataset and BLOCKED for anything else.  It    *)
(* races with other runs, with seed_demo.py and with the worker's tasks.   *)
(*                                                                         *)
(* A table is abstracted to the groups of rows in it: the rows a run       *)
(* created, those of the seed, those that tasks added "later", or the      *)
(* "part" that demo.clean left.  Statements of a run read the committed    *)
(* state of one table each (READ COMMITTED); its writes show at commit.    *)
(***************************************************************************)
EXTENDS Naturals, Sequences, FiniteSets

CONSTANTS
    Runs,      \* executions of the script
    MaxWrites  \* bound: transactions of the worker and the API

Tables == <<"users", "sites", "meters", "tariffs", "imported", "exported",
            "reactive", "max_power", "kpis">>
TableNames == {Tables[i] : i \in DOMAIN Tables}
ReadingTables == {"imported", "exported", "reactive", "max_power"}

ASSUME RunsAssumption ==
    /\ Runs \cap {"seed", "later", "part"} = {}
    /\ MaxWrites \in Nat

VARIABLES
    db,      \* db[t]: the row groups committed to table t
    owner,   \* runs whose insert of the owner's unique name is uncommitted
    pc,      \* pc[r]: where run r is
    next,    \* next[r]: the table its next statement reads
    seen,    \* seen[r]: whether a count was not zero
    report,  \* report[r]: the status it printed
    seed,    \* where the run of seed_demo.py is
    writes,  \* transactions of the worker and the API so far
    calm     \* history: runs since whose start nobody committed

vars == <<db, owner, pc, next, seen, report, seed, writes, calm>>

Empty == \A t \in TableNames : db[t] = {}
Exact == \E b \in Runs : \A t \in TableNames : db[t] = {b}
ExactTable(t) == \E b \in Runs : db[t] = {b}

Init ==
    /\ db = [t \in TableNames |-> {}]
    /\ owner = {}
    /\ pc = [r \in Runs |-> "idle"]
    /\ next = [r \in Runs |-> 1]
    /\ seen = [r \in Runs |-> FALSE]
    /\ report = [r \in Runs |-> "none"]
    /\ seed = "idle"
    /\ writes = 0
    /\ calm = {}

-----------------------------------------------------------------------------
(* A run of the script.                                                    *)

Start(r) ==
    /\ pc[r] = "idle"
    /\ pc' = [pc EXCEPT ![r] = "count"]
    /\ calm' = calm \union {r}
    /\ UNCHANGED <<db, owner, next, seen, report, seed, writes>>

End(r, status) ==
    /\ pc' = [pc EXCEPT ![r] = "done"]
    /\ report' = [report EXCEPT ![r] = status]

(* Mutants: the last count decides alone; the check starts where the count *)
(* ended.                                                                  *)
CountLast(r) ==
    LET some == db[Tables[next[r]]] # {}
        last == next[r] = Len(Tables)
    IN  /\ pc[r] = "count"
        /\ seen' = [seen EXCEPT ![r] = some]
        /\ next' = [next EXCEPT ![r] = IF last THEN 1 ELSE @ + 1]
        /\ pc' = [pc EXCEPT ![r] = CASE ~last -> "count"
                                     [] last /\ some -> "check"
                                     [] last /\ ~some -> "create"]
        /\ UNCHANGED <<db, owner, report, seed, calm, writes>>
CountOn(r) ==
    LET some == seen[r] \/ db[Tables[next[r]]] # {}
        last == next[r] = Len(Tables)
    IN  /\ pc[r] = "count"
        /\ seen' = [seen EXCEPT ![r] = some]
        /\ next' = [next EXCEPT ![r] = @ + 1]
        /\ pc' = [pc EXCEPT ![r] = CASE ~last -> "count"
                                     [] last /\ some -> "check"
                                     [] last /\ ~some -> "create"]
        /\ UNCHANGED <<db, owner, report, seed, calm, writes>>

Count(r) ==
    LET some == seen[r] \/ db[Tables[next[r]]] # {}
        last == next[r] = Len(Tables)
    IN  /\ pc[r] = "count"
        /\ seen' = [seen EXCEPT ![r] = some]
        /\ next' = [next EXCEPT ![r] = IF last THEN 1 ELSE @ + 1]
        /\ pc' = [pc EXCEPT ![r] = CASE ~last -> "count"
                                     [] last /\ some -> "check"
                                     [] last /\ ~some -> "create"]
        /\ UNCHANGED <<db, owner, report, seed, calm, writes>>

(* _known_topology_is_exact and _reading_shape_is_complete.                *)
CheckOn(r) ==
    /\ pc[r] = "check"
    /\ ExactTable(Tables[next[r]])
    /\ IF next[r] < Len(Tables)
       THEN next' = [next EXCEPT ![r] = @ + 1] /\ UNCHANGED <<pc, report>>
       ELSE End(r, "NOOP") /\ UNCHANGED next
    /\ UNCHANGED <<db, owner, seen, seed, calm, writes>>

Block(r) ==
    /\ pc[r] = "check"
    /\ ~ExactTable(Tables[next[r]])
    /\ End(r, "BLOCKED")
    /\ UNCHANGED <<db, owner, next, seen, seed, calm, writes>>

(* Mutant: the owner's username is not unique.                             *)
InsertOwnerAgain(r) ==
    /\ pc[r] = "create"
    /\ owner' = owner \union {r}
    /\ pc' = [pc EXCEPT ![r] = "inserted"]
    /\ UNCHANGED <<db, next, seen, report, seed, calm, writes>>

(* The first flush of _create_dataset.  The unique username makes it wait  *)
(* for the transaction of another run to end.                              *)
InsertOwner(r) ==
    /\ pc[r] = "create"
    /\ owner = {}
    /\ db["users"] \cap Runs = {}
    /\ owner' = {r}
    /\ pc' = [pc EXCEPT ![r] = "inserted"]
    /\ UNCHANGED <<db, next, seen, report, seed, calm, writes>>

(* IntegrityError: rolled back, FAILED.                                    *)
OwnerExists(r) ==
    /\ pc[r] = "create"
    /\ owner = {}
    /\ db["users"] \cap Runs # {}
    /\ End(r, "FAILED")
    /\ UNCHANGED <<db, owner, next, seen, seed, calm, writes>>

Commit(r) ==
    /\ pc[r] = "inserted"
    /\ db' = [t \in TableNames |-> db[t] \union {r}]
    /\ owner' = owner \ {r}
    /\ pc' = [pc EXCEPT ![r] = "committed"]
    /\ calm' = {}
    /\ UNCHANGED <<next, seen, report, seed, writes>>

(* The cache is cleaned, whatever comes of it, and the run reports.        *)
CleanCache(r) ==
    /\ pc[r] = "committed"
    /\ End(r, "CREATED")
    /\ UNCHANGED <<db, owner, next, seen, seed, calm, writes>>

(* Mutant: the transaction is not rolled back.                             *)
DieIdle(r) ==
    /\ pc[r] \notin {"idle", "done"}
    /\ End(r, "FAILED")
    /\ UNCHANGED <<db, owner, next, seen, seed, calm, writes>>

(* A database error or the end of the process: the open transaction is     *)
(* rolled back; what was committed stays, and its cache is not cleaned.    *)
Die(r) ==
    /\ pc[r] \notin {"idle", "done"}
    /\ End(r, "FAILED")
    /\ owner' = owner \ {r}
    /\ UNCHANGED <<db, next, seen, seed, calm, writes>>

-----------------------------------------------------------------------------
(* Other writers.                                                          *)

(* seed_demo.py looks at the users only, and writes no KPIs.               *)
SeedCheck ==
    /\ seed = "idle"
    /\ seed' = IF db["users"] = {} THEN "seeding" ELSE "done"
    /\ UNCHANGED <<db, owner, pc, next, seen, report, calm, writes>>

SeedCommit ==
    /\ seed = "seeding"
    /\ seed' = "done"
    /\ db' = [t \in TableNames |-> IF t = "kpis" THEN db[t]
                                   ELSE db[t] \union {"seed"}]
    /\ calm' = {}
    /\ UNCHANGED <<owner, pc, next, seen, report, writes>>

Write(ts, new) ==
    /\ db' = [t \in TableNames |-> IF t \in ts THEN new[t] ELSE db[t]]
    /\ calm' = {}
    /\ writes < MaxWrites
    /\ writes' = writes + 1
    /\ UNCHANGED <<owner, pc, next, seen, report, seed>>

AddLater == [t \in TableNames |-> db[t] \union {"later"}]

(* create_meter; kpis.refresh on a day without a row; demo.generate.       *)
CreateMeter == db["sites"] # {} /\ Write({"meters"}, AddLater)
RefreshKpis == db["sites"] # {} /\ Write({"kpis"}, AddLater)
GenerateDemo == db["meters"] # {} /\ Write(ReadingTables, AddLater)

(* demo.clean: all rows or some.  Its four deletes read one after another, *)
(* so a dataset committed between them loses rows of the later tables only.*)
CleanDemo ==
    \E first \in 5..8, left \in {{}, {"part"}} :
        LET hit == {Tables[i] : i \in first..8}
        IN  /\ \A t \in hit : db[t] # {}
            /\ Write(hit, [t \in hit |-> left])

-----------------------------------------------------------------------------
Go(r) == \/ Count(r) \/ CheckOn(r) \/ Block(r) \/ InsertOwner(r)
         \/ OwnerExists(r) \/ Commit(r) \/ CleanCache(r)

Next ==
    \/ \E r \in Runs : Start(r) \/ Go(r) \/ Die(r)
    \/ SeedCheck \/ SeedCommit
    \/ CreateMeter \/ RefreshKpis \/ GenerateDemo \/ CleanDemo

Spec == Init /\ [][Next]_vars

(* A run that has started goes on: the database answers or fails.          *)
FairSpec == Spec /\ \A r \in Runs : WF_vars(Go(r))

-----------------------------------------------------------------------------
Groups == Runs \union {"seed", "later", "part"}

(* The values the state of the script ranges over.                         *)
TypeOK ==
    /\ db \in [TableNames -> SUBSET Groups]
    /\ owner \in SUBSET Runs
    /\ pc \in [Runs -> {"idle", "count", "check", "create", "inserted",
                        "committed", "done"}]
    /\ next \in [Runs -> DOMAIN Tables]
    /\ seen \in [Runs -> BOOLEAN]
    /\ report \in [Runs -> {"none", "CREATED", "NOOP", "BLOCKED", "FAILED"}]
    /\ seed \in {"idle", "seeding", "done"}
    /\ writes \in Nat
    /\ calm \subseteq Runs

(* "Create the bounded, deterministic portfolio demo dataset exactly       *)
(* once": however runs overlap and die, no table has the rows of two, the  *)
(* run that reports CREATED is the one that wrote them, and NOOP is only   *)
(* reported beside the dataset of another run.                             *)
ExactlyOnce ==
    /\ \A r, s \in Runs, t \in TableNames : {r, s} \subseteq db[t] => r = s
    /\ \A r \in Runs :
           /\ report[r] = "CREATED" => r \in db["users"]
           /\ report[r] = "NOOP" => \E s \in Runs \ {r} : s \in db["users"]
           /\ report[r] \in {"NOOP", "BLOCKED"} => r \notin db["users"]

(* docs/deployment.md:61 for a run nobody writes beside: it writes only    *)
(* into empty tables, NOOP means exactly the demo dataset, and BLOCKED     *)
(* neither that nor an empty database.                                     *)
CalmVerdict ==
    [][\A r \in calm :
           /\ Commit(r) => Empty
           /\ report'[r] # report[r] =>
                  /\ report'[r] = "NOOP" => Exact
                  /\ report'[r] = "BLOCKED" => ~Exact /\ ~Empty]_vars

(* Every run ends, although runs wait for each other on the owner's name.  *)
RunsEnd == \A r \in Runs : pc[r] = "count" ~> pc[r] = "done"

(* docs/deployment.md:61 as written: "It writes only when all application  *)
(* domain tables are empty".                                               *)
WritesOnlyWhenEmpty == [][\A r \in Runs : Commit(r) => Empty]_vars
=============================================================================
