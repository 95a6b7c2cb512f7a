------------------------------ MODULE Readings ------------------------------
(***************************************************************************)
(* The readings of a meter and the daily KPIs of its site, as the worker's *)
(* database tasks change them: kpis.refresh, demo.generate and demo.clean, *)
(* beside the backfill and the seed, which commit the first dataset.       *)
(*                                                                         *)
(* Time is counted in hours.  A table is a number of rows per hour; the    *)
(* value of a KPI is the rows it was computed from.  One meter of one site *)
(* stands for all: every task treats each meter and each site alike in one *)
(* transaction.  Statements of a task read what is committed when they run *)
(* (READ COMMITTED); its writes show at its commit.  A worker that is lost *)
(* is given the task again, while its COMMIT may still be on the way.      *)
(***************************************************************************)
EXTENDS Naturals, Sequences

CONSTANTS
    DayHours,   \* hours of a day
    Window,     \* hours of the dataset of the backfill or the seed
    Days,       \* days demo.generate appends
    Keep,       \* days demo.clean keeps
    Start,      \* hour the clock starts at
    MaxNow,     \* bound: clock
    MaxJobs,    \* bound: tasks accepted
    MaxLosses   \* bound: lost workers

(* Hours are counted from one so early that neither the dataset nor a      *)
(* cutoff comes before it: the days to keep may be fewer than those of the *)
(* dataset (the backfill's 90) or more (the seed's 7), or any number that  *)
(* a request asks for.                                                     *)
ASSUME ReadingsAssumption ==
    /\ {DayHours, Window, Days, Keep} \subseteq Nat \ {0}
    /\ Start \in Nat /\ Window <= Start /\ Keep * DayHours <= Start
    /\ MaxNow \in Nat /\ MaxJobs \in Nat /\ MaxLosses \in Nat
    /\ Start <= MaxNow

Energy == <<"imported", "exported", "reactive">>
Tables == {"imported", "exported", "reactive", "power"}
Columns == Tables \ {"reactive"}    \* what a KPI is computed from
(* Mutant: a line of the list of tables copied and not changed.            *)
CleanOrderSlip == <<"imported", "exported", "exported", "power">>
CleanOrder == Energy \o <<"power">>

(* To the last hour that demo.generate can reach, redelivered runs         *)
(* included.                                                               *)
Hours == 0..(MaxNow + (MaxJobs + MaxLosses) * Days * DayHours)
Day(h) == h \div DayHours
Midnight(h) == Day(h) * DayHours
Series == [Hours -> Nat]
NoRows == [h \in Hours |-> 0]

VARIABLES
    now,     \* the hour in progress
    rows,    \* rows[t]: the rows of table t per hour
    kpi,     \* kpi[d]: the KPI rows of day d
    site,    \* is there a site with a meter?
    script,  \* the transaction of the backfill or the seed
    job,     \* the run of the worker's task
    orphan,  \* a lost worker's run whose COMMIT is still on the way
    jobs,    \* tasks accepted so far
    losses,  \* workers lost so far
    late,    \* history: a COMMIT arrived after its worker was lost
    torn,    \* history: the dataset was committed under a demo.clean
    calm     \* history: nobody else committed since the run began
vars == <<now, rows, kpi, site, script, job, orphan, jobs, losses, late, torn,
          calm>>
history == <<late, torn, calm>>

NoJob == [task |-> "none", step |-> 0, at |-> 0, got |-> [t \in Tables |-> NoRows],
          site |-> FALSE, old |-> {}]
NoScript == [pc |-> "idle", at |-> 0]

Init ==
    /\ now = Start
    /\ rows = [t \in Tables |-> NoRows]
    /\ kpi = [d \in {Day(h) : h \in Hours} |-> {}]
    /\ site = FALSE
    /\ script = NoScript
    /\ job = NoJob
    /\ orphan = NoJob
    /\ jobs = 0
    /\ losses = 0
    /\ late = FALSE
    /\ torn = FALSE
    /\ calm = TRUE

Tick ==
    /\ now < MaxNow
    /\ now' = now + 1
    /\ UNCHANGED <<rows, kpi, site, script, job, orphan, jobs, losses, history>>

OfDay(series, d) == [h \in Hours |-> IF Day(h) = d THEN series[h] ELSE 0]
At(hs) == [h \in Hours |-> IF h \in hs THEN 1 ELSE 0]
Plus(a, b) == [h \in Hours |-> a[h] + b[h]]
Minus(a, b) == [h \in Hours |-> a[h] - b[h]]
Filled(series) == {h \in Hours : series[h] > 0}
Last(series) == CHOOSE h \in Filled(series) : \A g \in Filled(series) : g <= h

-----------------------------------------------------------------------------
(* The first dataset.                                                      *)

(* Both scripts look for existing data first, and find none.               *)
ScriptStart(kind) ==
    /\ script.pc = "idle"
    /\ ~site
    /\ script' = [pc |-> kind, at |-> now]
    /\ UNCHANGED <<now, rows, kpi, site, job, orphan, jobs, losses, history>>

Commits ==
    /\ site' = TRUE
    /\ script' = [script EXCEPT !.pc = "done"]
    /\ calm' = FALSE
    /\ torn' = (torn \/ (job.task = "clean" /\ job.step > 0))
    /\ UNCHANGED <<now, job, orphan, jobs, losses, late>>

(* The window ends with the last completed hour; a power row at midnight   *)
(* and a KPI row for each of its dates.                                    *)
Backfill ==
    LET window == (script.at - Window)..(script.at - 1)
        new == [t \in Tables |-> At(IF t = "power"
                                    THEN {Midnight(h) : h \in window}
                                    ELSE window)]
    IN  /\ script.pc = "backfill"
        /\ rows' = new
        /\ kpi' = [d \in DOMAIN kpi |->
                       IF \E h \in window : Day(h) = d
                       THEN {[t \in Columns |-> OfDay(new[t], d)]}
                       ELSE kpi[d]]
        /\ Commits

(* The seed includes the hour in progress and writes no KPIs.              *)
Seed ==
    LET window == (script.at - Window + 1)..script.at
        days == {h \in window : (script.at - h) % DayHours = 0}
    IN  /\ script.pc = "seed"
        /\ rows' = [t \in Tables |-> At(IF t = "power" THEN days ELSE window)]
        /\ Commits
        /\ UNCHANGED kpi

-----------------------------------------------------------------------------
(* The worker's tasks.  at is what a run computes from the clock or the    *)
(* readings: the target day, the first new hour, the cutoff.               *)

(* Celery hands the worker, which has --concurrency=1, its next message.   *)
Begin(task) ==
    /\ job.task = "none"
    /\ jobs < MaxJobs
    /\ jobs' = jobs + 1
    /\ job' = [NoJob EXCEPT !.task = task]
    /\ UNCHANGED <<now, rows, kpi, site, script, orphan, losses, history>>

Running(task, step) == job.task = task /\ job.step = step
World == <<now, rows, kpi, site, script, orphan, jobs, losses, late, torn>>
Proceed(new) == job' = new /\ UNCHANGED <<World, calm>>
Finish == job' = NoJob /\ UNCHANGED <<World, calm>>

(* kpis.refresh: three aggregates of yesterday, then the sites, then the   *)
(* row to update (old).                                                    *)
RefreshStart ==
    /\ Running("refresh", 0)
    /\ job' = [job EXCEPT !.step = 1, !.at = Day(now) - 1]
    /\ calm' = TRUE
    /\ UNCHANGED World

RefreshAggregate(t, step) ==
    /\ Running("refresh", step)
    /\ Proceed([job EXCEPT !.step = step + 1,
                           !.got[t] = OfDay(rows[t], job.at)])

RefreshSites ==
    /\ Running("refresh", 4)
    /\ Proceed([job EXCEPT !.step = IF site THEN 5 ELSE 6, !.site = site])

RefreshExisting ==
    /\ Running("refresh", 5)
    /\ Proceed([job EXCEPT !.step = 6, !.old = kpi[job.at]])

(* demo.generate: the meters, then the last imported reading.              *)
GenerateMeters ==
    /\ Running("generate", 0)
    /\ IF site THEN Proceed([job EXCEPT !.step = 1]) ELSE Finish

(* Mutant: the new readings start from the clock.                          *)
GenerateFromNow ==
    /\ Running("generate", 1)
    /\ Proceed([job EXCEPT !.step = 6, !.at = now + 1])

GenerateLast ==
    /\ Running("generate", 1)
    /\ Proceed([job EXCEPT
           !.step = 6,
           !.at = 1 + IF Filled(rows["imported"]) = {} THEN now
                      ELSE Last(rows["imported"])])

Generated(first) ==
    LET hours == first..(first + Days * DayHours - 1)
        days == {first + d * DayHours : d \in 0..(Days - 1)}
    IN  [t \in Tables |-> At(IF t = "power" THEN days ELSE hours)]

(* Mutant: the days to keep are taken for hours.                           *)
CleanStartHours ==
    /\ Running("clean", 0)
    /\ Proceed([job EXCEPT !.step = 1, !.at = now - Keep])

(* demo.clean: the cutoff, then a DELETE for each table, which waits for a *)
(* lost run that deleted the same rows and has not ended.                  *)
CleanStart ==
    /\ Running("clean", 0)
    /\ Proceed([job EXCEPT !.step = 1, !.at = now - Keep * DayHours])

CleanTable(n) ==
    /\ Running("clean", n)
    /\ LET t == CleanOrder[n]
           old == [h \in Hours |-> IF h <= job.at THEN rows[t][h] ELSE 0]
       IN  /\ orphan.task = "clean" =>
                  Filled(old) \cap Filled(orphan.got[t]) = {}
           /\ Proceed([job EXCEPT !.step = IF n = 4 THEN 6 ELSE n + 1,
                                  !.got[t] = old])

(* Mutants: NULLs for a site without readings; an existing row is kept.    *)
UpsertNulls(j) ==
    kpi' = [kpi EXCEPT ![j.at] =
                {[t \in Columns |-> IF Filled(j.got[t]) = {} THEN <<>>
                                    ELSE j.got[t]]}]
UpsertOnce(j) ==
    kpi' = IF kpi[j.at] = {}
           THEN [kpi EXCEPT ![j.at] = {[t \in Columns |-> j.got[t]]}] ELSE kpi

(* The session updates the columns that differ from the row it has read,   *)
(* and inserts all of them if there was none.                              *)
Changed(j) == {t \in Columns : \A row \in j.old : row[t] # j.got[t]}
Upsert(j) ==
    kpi' = [kpi EXCEPT ![j.at] =
                {[t \in Columns |-> IF t \in Changed(j) THEN j.got[t]
                                    ELSE (CHOOSE row \in @ : TRUE)[t]]}]

(* What the COMMIT of run j does; inserting a KPI row that another run has *)
(* inserted since fails and rolls back, and the task raises.               *)
Apply(j) ==
    CASE j.task = "refresh" ->
             /\ IF ~j.site \/ (j.old = {} /\ kpi[j.at] # {})
                THEN UNCHANGED kpi ELSE Upsert(j)
             /\ UNCHANGED rows
      [] j.task = "generate" ->
             /\ rows' = [t \in Tables |-> Plus(rows[t], Generated(j.at)[t])]
             /\ UNCHANGED kpi
      [] j.task = "clean" ->
             /\ rows' = [t \in Tables |-> Minus(rows[t], j.got[t])]
             /\ UNCHANGED kpi

(* The row that a lost run has written and not committed yet is locked.    *)
Locked == /\ job.at = orphan.at
          /\ \A j \in {job, orphan} :
                 j.task = "refresh" /\ j.site /\ Changed(j) # {}

Commit ==
    /\ job.step = 6
    /\ ~Locked
    /\ Apply(job)
    /\ job' = [job EXCEPT !.step = 7]
    /\ UNCHANGED <<now, site, script, orphan, jobs, losses, history>>

Done ==
    /\ job.step = 7
    /\ Finish

-----------------------------------------------------------------------------
(* Faults.                                                                 *)

(* The worker is lost, before or after its commit, and is given the task   *)
(* again; a COMMIT it had sent may still be on the way.                    *)
Lose ==
    /\ job.task # "none"
    /\ losses < MaxLosses
    /\ losses' = losses + 1
    /\ orphan' \in IF job.step = 6 /\ orphan = NoJob THEN {orphan, job} ELSE {orphan}
    /\ job' = [NoJob EXCEPT !.task = job.task]
    /\ UNCHANGED <<now, rows, kpi, site, script, jobs, history>>

OrphanCommit ==
    /\ orphan # NoJob
    /\ Apply(orphan)
    /\ orphan' = NoJob
    /\ late' = TRUE
    /\ calm' = FALSE
    /\ UNCHANGED <<now, site, script, job, jobs, losses, torn>>

OrphanRollback ==
    /\ orphan # NoJob
    /\ orphan' = NoJob
    /\ UNCHANGED <<now, rows, kpi, site, script, job, jobs, losses, history>>

-----------------------------------------------------------------------------
Refresh == \/ RefreshStart \/ RefreshAggregate("imported", 1)
           \/ RefreshAggregate("exported", 2) \/ RefreshAggregate("power", 3)
           \/ RefreshSites \/ RefreshExisting
Generate == GenerateMeters \/ GenerateLast
Clean == CleanStart \/ \E n \in 1..4 : CleanTable(n)

Next ==
    \/ Tick
    \/ (\E kind \in {"backfill", "seed"} : ScriptStart(kind)) \/ Backfill \/ Seed
    \/ \E task \in {"refresh", "generate", "clean"} : Begin(task)
    \/ Refresh \/ Generate \/ Clean \/ Commit \/ Done
    \/ Lose \/ OrphanCommit \/ OrphanRollback

Spec == Init /\ [][Next]_vars

-----------------------------------------------------------------------------
Jobs == [task : {"none", "refresh", "generate", "clean"}, step : 0..7,
         at : Nat, got : [Tables -> Series], site : BOOLEAN,
         old : SUBSET [Columns -> Series]]

(* The values the state of the worker's tables ranges over.                *)
TypeOK ==
    /\ now \in Nat
    /\ rows \in [Tables -> Series]
    /\ kpi \in [{Day(h) : h \in Hours} -> SUBSET [Columns -> Series]]
    /\ site \in BOOLEAN
    /\ script \in [pc : {"idle", "backfill", "seed", "done"}, at : Nat]
    /\ {job, orphan} \subseteq Jobs
    /\ jobs \in Nat /\ losses \in Nat
    /\ {late, torn, calm} \subseteq BOOLEAN

(* "Append new synthetic demo readings": however often demo.generate and   *)
(* demo.clean run, are lost and run again, the readings of a meter are one *)
(* series without a gap or a second row for an hour, as long as no COMMIT  *)
(* arrives after its worker was lost.                                      *)
OneSeries ==
    ~late => \A t \in Tables :
                 LET hs == Filled(rows[t])
                 IN  /\ \A h \in hs : rows[t][h] = 1
                     /\ t # "power" =>
                            \A g, h \in hs : g..h \subseteq hs

(* The three energy tables of a meter cover the same hours, so that its    *)
(* charts and its KPIs compare like with like, unless the dataset was      *)
(* committed between two deletes of a demo.clean.                          *)
Aligned ==
    ~late /\ ~torn => \A n \in 2..3 : rows[Energy[n]] = rows["imported"]

Target == [t \in Columns |-> OfDay(rows[t], job.at)]

(* A refresh beside which nobody commits leaves yesterday's row equal to   *)
(* the aggregates of yesterday's readings, also when it is the second of a *)
(* redelivered task and only updates what the first has inserted.          *)
CalmRefresh ==
    [][Commit /\ job.task = "refresh" /\ calm /\ site =>
           kpi'[job.at] = {Target}]_vars

Rolling == INSTANCE RollingReadings WITH
               Energy <- {"imported", "exported", "reactive"},
               Length <- Days * DayHours, Recent <- Keep * DayHours,
               clock <- now, hours <- [t \in Tables |-> Filled(rows[t])],
               loose <- late

(* To a reader of the readings, every demo.generate is one append of whole *)
(* blocks and every demo.clean one cut at the front, whatever is lost and  *)
(* run again; and no task ever deletes a reading of the days to keep, a    *)
(* COMMIT that arrives late included.                                      *)
KeepsRolling == Rolling!Spec

(* app/tasks/refresh_kpis.py:18: "Aggregate imported/exported energy and   *)
(* average max power per site for the given date [and upsert]", whoever    *)
(* else writes: no lost worker is needed to refute it.                     *)
RefreshAggregates ==
    [][Commit /\ job.task = "refresh" /\ site =>
           (kpi' # kpi => kpi'[job.at] = {Target})]_vars

(* app/tasks/demo_data.py:65: "Daily max power values for new days": a day *)
(* has one power row, the day demo.generate starts in included.            *)
OnePowerRowPerDay ==
    \A g, h \in Filled(rows["power"]) : Day(g) = Day(h) => g = h
=============================================================================
