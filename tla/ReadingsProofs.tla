--------------------------- MODULE ReadingsProofs ---------------------------
(***************************************************************************)
(* What the worker's database tasks keep true of the readings and the      *)
(* KPIs, for any window, number of days, of tasks and of lost workers.     *)
(***************************************************************************)
EXTENDS Readings, FiniteSetTheorems, TLAPS

(* The clock and the scripts.  The site exists once a script has committed.*)
ClockInv == /\ now \in Start..MaxNow
            /\ script.pc \in {"backfill", "seed"} => script.at \in Start..now
            /\ site <=> script.pc = "done"

(* What a run knows at each of its steps: a lost run has sent its COMMIT;  *)
(* a refresh has a day that has a KPI entry, and keeps a row it has read.  *)
RunOK(j) ==
    /\ j.step < 6 => j.old = {}
    /\ j.task = "generate" /\ j.step > 0 => site
    /\ j.task = "refresh" /\ j.step > 0 =>
           /\ j.at \in DOMAIN kpi
           /\ j.old # {} => kpi[j.at] # {}
RunsInv ==
    /\ job.task = "none" => job.step = 0
    /\ orphan # NoJob => orphan.task # "none" /\ orphan.step = 6
    /\ RunOK(job) /\ RunOK(orphan)

(* No site, no readings.                                                   *)
EmptyInv == ~site => rows = [t \in Tables |-> NoRows]

(* What a demo.clean has deleted and not committed is still there, and no  *)
(* two runs have deleted the same rows.                                    *)
Deletes(j) == j.task = "clean" /\ j.step # 7
Intact(j) ==
    Deletes(j) => \A t \in Tables, h \in Hours : j.got[t][h] <= rows[t][h]
DeletedInv ==
    /\ Intact(job) /\ Intact(orphan)
    /\ Deletes(job) /\ Deletes(orphan) =>
           \A t \in Tables, h \in Hours : job.got[t][h] = 0 \/ orphan.got[t][h] = 0

BaseInv == TypeOK /\ ClockInv /\ RunsInv /\ EmptyInv /\ DeletedInv

(* The readings as sets of hours.                                          *)
Has(t) == Filled(rows[t])
EnergyTables == {"imported", "exported", "reactive"}

(* While no COMMIT arrives late, an hour has one row; an energy table is   *)
(* an interval that ends with the imported energy's; no power row comes    *)
(* after it.                                                               *)
IntervalInv ==
    /\ \A t \in Tables, h \in Hours : rows[t][h] <= 1
    /\ \A t \in EnergyTables :
           /\ Has(t) \subseteq Has("imported")
           /\ \A g \in Has(t), h \in Has("imported") : g <= h => h \in Has(t)
    /\ \A g, h \in Has("imported") : g..h \subseteq Has("imported")
    /\ \A h \in Has("power") : \E g \in Has("imported") : h <= g

(* A demo.generate about to commit starts after the last reading.          *)
NextInv ==
    job.task = "generate" /\ job.step = 6 =>
        /\ \A h \in Has("imported") : h < job.at
        /\ Has("imported") # {} => job.at > 0 /\ job.at - 1 \in Has("imported")

(* A demo.clean has deleted all rows up to its cutoff from a table, or has *)
(* seen this and the earlier tables empty, before a script committed.      *)
Old(t) == [h \in Hours |-> IF h <= job.at THEN rows[t][h] ELSE 0]
Passed(n) == job.task = "clean" /\ job.step # 7 /\ n < job.step
CutInv ==
    \A n \in 1..4 : Passed(n) =>
        \/ job.got[CleanOrder[n]] = Old(CleanOrder[n])
        \/ \A m \in 1..n : job.got[CleanOrder[m]] = NoRows

SeriesInv == ~late => IntervalInv /\ NextInv /\ CutInv

AlignedInv ==
    ~late /\ ~torn =>
        /\ \A t \in EnergyTables : rows[t] = rows["imported"]
        /\ \A n \in 1..4 : Passed(n) => job.got[CleanOrder[n]] = Old(CleanOrder[n])

(* How far the readings reach: a run, or a lost run, that has not committed*)
(* and each of the earlier ones may add a block of hours.                  *)
Block == Days * DayHours
JobPending == IF job.task # "none" /\ job.step # 7 THEN 1 ELSE 0
OrphanPending == IF orphan # NoJob THEN 1 ELSE 0
Pending == JobPending + OrphanPending
Used == (jobs + losses) - Pending
Reach == MaxNow + Used * Block
Starts(j) == j.task = "generate" /\ j.step = 6
ReachInv ==
    /\ jobs <= MaxJobs /\ losses <= MaxLosses /\ Pending <= jobs + losses
    /\ \A t \in Tables : \A h \in Has(t) : h <= Reach
    /\ Starts(job) => job.at <= Reach + 1
    /\ Starts(orphan) => orphan.at <= Reach + 1

(* A demo.clean has deleted nothing of the days to keep.                   *)
Kept == Keep * DayHours
RecentRun(j) ==
    Deletes(j) => /\ j.step = 0 \/ j.at + Kept <= now
                  /\ \A t \in Tables, h \in Hours :
                         j.got[t][h] > 0 => h + Kept <= now
RecentInv == RecentRun(job) /\ RecentRun(orphan)

(* A day has at most one KPI row.                                          *)
KpiDays == {Day(h) : h \in Hours}
OneRowInv == \A d \in KpiDays : \A r, s \in kpi[d] : r = s

(* What a refresh has read is still so, if nobody else has committed.      *)
Order == <<"imported", "exported", "power">>
ReadInv ==
    job.task = "refresh" /\ job.step \in 1..6 /\ calm =>
        /\ \A n \in 1..3 : n < job.step => job.got[Order[n]] = OfDay(rows[Order[n]], job.at)
        /\ job.step > 4 => job.site = site
        /\ job.step = 6 /\ site => job.old = kpi[job.at]

-----------------------------------------------------------------------------
(* Hours and days.                                                         *)
LEMMA Bounds ==
  /\ DayHours \in Nat \ {0} /\ Window \in Nat \ {0} /\ Days \in Nat \ {0}
  /\ Keep * DayHours \in Nat /\ DayHours <= Keep * DayHours
  /\ Start \in Nat /\ MaxNow \in Nat /\ Start <= MaxNow
  /\ Keep * DayHours <= Start /\ Window <= Start
  /\ Hours \subseteq Nat /\ 0..MaxNow \subseteq Hours
  /\ \A h \in Hours : 0..h \subseteq Hours
<1>1. /\ DayHours \in Nat \ {0} /\ Window \in Nat \ {0} /\ Days \in Nat \ {0}
      /\ Keep \in Nat \ {0} /\ MaxNow \in Nat /\ MaxJobs \in Nat /\ MaxLosses \in Nat
      /\ Start \in Nat /\ Start <= MaxNow
      /\ Keep * DayHours <= Start /\ Window <= Start
  BY ReadingsAssumption
<1>2. Keep * DayHours \in Nat /\ DayHours <= Keep * DayHours
  BY <1>1
<1>3. (MaxJobs + MaxLosses) * Days \in Nat
  BY <1>1
<1>4. (MaxJobs + MaxLosses) * Days * DayHours \in Nat
  BY <1>1, <1>3
<1> QED
  BY <1>1, <1>2, <1>4 DEF Hours

LEMMA Yesterday ==
  ASSUME NEW h \in Start..MaxNow
  PROVE  Day(h) - 1 \in Nat /\ Day(h) - 1 \in {Day(g) : g \in Hours}
<1>1. h \in Nat /\ h >= DayHours /\ h - DayHours \in Hours
  BY Bounds
<1>2. Day(h - DayHours) = Day(h) - 1 /\ Day(h) >= 1 /\ Day(h) \in Nat
  BY <1>1, Bounds DEF Day
<1> QED
  BY <1>1, <1>2

LEMMA MidnightBefore ==
  ASSUME NEW h \in Nat
  PROVE  Midnight(h) \in Nat /\ Midnight(h) <= h
  BY Bounds DEF Midnight, Day

(* The days that demo.generate appends begin in the hours it appends.      *)
LEMMA DayStarts ==
  ASSUME NEW first \in Nat
  PROVE  {first + d * DayHours : d \in 0..(Days - 1)}
             \subseteq first..(first + Days * DayHours - 1)
<1>1. ASSUME NEW d \in 0..(Days - 1)
      PROVE  d * DayHours \in Nat /\ d * DayHours <= Days * DayHours - 1
             /\ Days * DayHours \in Nat
  BY <1>1, Bounds
<1> QED
  BY <1>1

(* A set of hours that is not empty has a last one: one whose later hours  *)
(* do not include those of another.                                        *)
LEMMA Greatest ==
  ASSUME NEW K \in Nat, NEW S \in SUBSET (0..K), S # {}
  PROVE  \E h \in S : \A g \in S : g <= h
<1> DEFINE After(h) == (h + 1)..K
           T == {After(h) : h \in S}
<1>1. IsWellFoundedOn(StrictSubsetOrdering(0..K), FiniteSubsetsOf(0..K))
  BY FS_StrictSubsetOrderingWellFounded
<1>2. T \subseteq FiniteSubsetsOf(0..K) /\ T # {}
  <2>1. IsFiniteSet(0..K)
    BY FS_Interval
  <2>2. \A h \in S : After(h) \in SUBSET (0..K)
    OBVIOUS
  <2>3. \A h \in S : After(h) \in FiniteSubsetsOf(0..K)
    BY <2>1, <2>2, FS_FiniteSubsetsOfFinite
  <2> QED
    BY <2>3
<1> HIDE DEF T
<1>3. PICK x \in T : \A y \in T : <<y, x>> \notin StrictSubsetOrdering(0..K)
  BY <1>1, <1>2, WFMin
<1>4. PICK h \in S : x = After(h)
  BY DEF T
<1>5. ASSUME NEW g \in S, g > h PROVE FALSE
  <2>1. After(g) \in T /\ After(g) \in SUBSET (0..K) /\ x \in SUBSET (0..K)
    BY <1>4 DEF T
  <2>2. After(g) \subseteq x /\ g \in x /\ g \notin After(g)
    BY <1>4, <1>5
  <2> QED
    BY <1>3, <2>1, <2>2 DEF StrictSubsetOrdering
<1> QED
  BY <1>5

LEMMA LastIsGreatest ==
  ASSUME NEW series \in Series, Filled(series) # {}
  PROVE  /\ Last(series) \in Filled(series)
         /\ \A g \in Filled(series) : g <= Last(series)
<1>1. \E h \in Filled(series) : \A g \in Filled(series) : g <= h
  <2>1. (MaxJobs + MaxLosses) * Days \in Nat
    BY ReadingsAssumption
  <2>2. (MaxJobs + MaxLosses) * Days * DayHours \in Nat
    BY <2>1, Bounds
  <2>3. MaxNow + (MaxJobs + MaxLosses) * Days * DayHours \in Nat
    BY <2>2, Bounds
  <2>4. Filled(series) \in SUBSET (0..(MaxNow + (MaxJobs + MaxLosses) * Days * DayHours))
    BY DEF Filled, Hours
  <2> QED
    BY <2>3, <2>4, Greatest
<1> QED
  BY <1>1 DEF Last

(* The operators on series.                                                *)
LEMMA NewSeries ==
  NoRows \in Series /\ \A hs : At(hs) \in Series
  BY DEF Series, NoRows, At

LEMMA SeriesTypes ==
  ASSUME NEW a \in Series, NEW b \in Series
  PROVE  /\ \A d : OfDay(a, d) \in Series
         /\ Plus(a, b) \in Series
         /\ (\A h \in Hours : b[h] <= a[h]) => Minus(a, b) \in Series
  BY DEF Series, OfDay, Plus, Minus

LEMMA NoJobType == NoJob \in Jobs
  BY NewSeries DEF NoJob, Jobs

-----------------------------------------------------------------------------
(* What a COMMIT does.                                                     *)
Kinds == {"refresh", "generate", "clean"}
UpsertedRow(j) ==
    [t \in Columns |-> IF t \in Changed(j) THEN j.got[t]
                       ELSE (CHOOSE row \in kpi[j.at] : TRUE)[t]]
Refreshable(j) == /\ j.at \in KpiDays
                  /\ j.old # {} => kpi[j.at] # {}

LEMMA UpsertFacts ==
  ASSUME TypeOK, NEW j \in Jobs, Refreshable(j), Upsert(j)
  PROVE  /\ UpsertedRow(j) \in [Columns -> Series]
         /\ kpi' = [kpi EXCEPT ![j.at] = {UpsertedRow(j)}]
<1>1. /\ kpi[j.at] \in SUBSET [Columns -> Series]
      /\ j.got \in [Tables -> Series] /\ j.old \in SUBSET [Columns -> Series]
  BY DEF TypeOK, Jobs, Refreshable, KpiDays
<1>2. ASSUME NEW t \in Columns, t \notin Changed(j)
      PROVE  (CHOOSE row \in kpi[j.at] : TRUE) \in kpi[j.at]
  <2>1. j.old # {}
    BY <1>2 DEF Changed
  <2>2. kpi[j.at] # {}
    BY <2>1 DEF Refreshable
  <2> QED
    BY <2>2
<1>3. ASSUME NEW t \in Columns
      PROVE  UpsertedRow(j)[t] \in Series
  <2>1. CASE t \in Changed(j)
    BY <1>1, <2>1 DEF UpsertedRow, Columns
  <2>2. CASE t \notin Changed(j)
    BY <1>1, <1>2, <2>2 DEF UpsertedRow
  <2> QED
    BY <2>1, <2>2
<1> QED
  BY <1>3 DEF Upsert, UpsertedRow

(* The hypotheses of a COMMIT, which the invariant gives.                  *)
Committable(j) ==
    /\ j \in Jobs /\ j.task \in Kinds
    /\ j.task = "refresh" => Refreshable(j)
    /\ j.task = "clean" => \A t \in Tables, h \in Hours : j.got[t][h] <= rows[t][h]

LEMMA ApplyFacts ==
  ASSUME TypeOK, NEW j, Committable(j), Apply(j)
  PROVE  /\ rows' \in [Tables -> Series]
         /\ kpi' \in [KpiDays -> SUBSET [Columns -> Series]]
         /\ j.task = "refresh" => rows' = rows
         /\ j.task = "generate" => \A t \in Tables, h \in Hours :
                rows'[t][h] = rows[t][h] + Generated(j.at)[t][h]
         /\ j.task = "clean" => \A t \in Tables, h \in Hours :
                rows'[t][h] = rows[t][h] - j.got[t][h]
         /\ \A d \in KpiDays : kpi[d] # {} => kpi'[d] # {}
<1>1. /\ rows \in [Tables -> Series] /\ j.got \in [Tables -> Series]
      /\ kpi \in [KpiDays -> SUBSET [Columns -> Series]]
  BY DEF TypeOK, Committable, Jobs, KpiDays
<1>2. CASE j.task = "refresh"
  <2>1. rows' = rows
    BY <1>2 DEF Apply
  <2>2. CASE UNCHANGED kpi
    BY <1>1, <1>2, <2>1, <2>2
  <2>3. CASE Upsert(j)
    <3>1. Refreshable(j) /\ j \in Jobs
      BY <1>2 DEF Committable
    <3>2. /\ UpsertedRow(j) \in [Columns -> Series]
          /\ kpi' = [kpi EXCEPT ![j.at] = {UpsertedRow(j)}]
      BY <2>3, <3>1, UpsertFacts
    <3> QED
      BY <1>1, <1>2, <2>1, <3>2
  <2> QED
    BY <1>2, <2>2, <2>3 DEF Apply
<1>3. CASE j.task = "generate"
  <2>1. /\ rows' = [t \in Tables |-> Plus(rows[t], Generated(j.at)[t])]
        /\ kpi' = kpi
    BY <1>3 DEF Apply
  <2>2. \A t \in Tables : Generated(j.at)[t] \in Series
    BY NewSeries DEF Generated
  <2>3. \A t \in Tables : Plus(rows[t], Generated(j.at)[t]) \in Series
    BY <1>1, <2>2, SeriesTypes
  <2> QED
    BY <1>1, <1>3, <2>1, <2>3 DEF Plus
<1>4. CASE j.task = "clean"
  <2>1. /\ rows' = [t \in Tables |-> Minus(rows[t], j.got[t])]
        /\ kpi' = kpi
    BY <1>4 DEF Apply
  <2>2. \A t \in Tables : Minus(rows[t], j.got[t]) \in Series
    BY <1>1, <1>4, SeriesTypes DEF Committable
  <2> QED
    BY <1>1, <1>4, <2>1, <2>2 DEF Minus
<1> QED
  BY <1>2, <1>3, <1>4 DEF Committable, Kinds

(* A run that reaches its COMMIT, or has sent it, can be committed.        *)
LEMMA JobCommittable ==
  ASSUME BaseInv, job.step = 6
  PROVE  Committable(job)
<1>1. job \in Jobs /\ job.task \in Kinds
  BY DEF BaseInv, TypeOK, RunsInv, Jobs, Kinds
<1>2. DOMAIN kpi = KpiDays
  BY DEF BaseInv, TypeOK, KpiDays
<1> QED
  BY <1>1, <1>2 DEF BaseInv, RunsInv, RunOK, DeletedInv, Intact, Deletes,
  Committable, Refreshable

LEMMA OrphanCommittable ==
  ASSUME BaseInv, orphan # NoJob
  PROVE  Committable(orphan)
<1>1. orphan \in Jobs /\ orphan.task \in Kinds /\ orphan.step = 6
  BY DEF BaseInv, TypeOK, RunsInv, Jobs, Kinds
<1>2. DOMAIN kpi = KpiDays
  BY DEF BaseInv, TypeOK, KpiDays
<1> QED
  BY <1>1, <1>2 DEF BaseInv, RunsInv, RunOK, DeletedInv, Intact, Deletes,
  Committable, Refreshable

-----------------------------------------------------------------------------
(* What the other actions do.                                              *)
LEMMA ScriptFacts ==
  ASSUME BaseInv, Backfill \/ Seed
  PROVE  /\ ~site /\ rows = [t \in Tables |-> NoRows]
         /\ rows' \in [Tables -> Series]
         /\ kpi' \in [KpiDays -> SUBSET [Columns -> Series]]
         /\ \A d \in KpiDays : kpi[d] # {} => kpi'[d] # {}
<1>1. ~site /\ rows = [t \in Tables |-> NoRows]
  BY DEF BaseInv, ClockInv, EmptyInv, Backfill, Seed
<1>2. kpi \in [KpiDays -> SUBSET [Columns -> Series]]
  BY DEF BaseInv, TypeOK, KpiDays
<1>3. CASE Seed
  <2>1. rows' \in [Tables -> Series]
    BY <1>3, NewSeries DEF Seed
  <2> QED
    BY <1>1, <1>2, <1>3, <2>1 DEF Seed
<1>4. CASE Backfill
  <2> DEFINE window == (script.at - Window)..(script.at - 1)
             new == [t \in Tables |-> At(IF t = "power"
                                         THEN {Midnight(h) : h \in window}
                                         ELSE window)]
  <2>1. /\ rows' = new
        /\ kpi' = [d \in DOMAIN kpi |->
                       IF \E h \in window : Day(h) = d
                       THEN {[t \in Columns |-> OfDay(new[t], d)]}
                       ELSE kpi[d]]
    BY <1>4 DEF Backfill
  <2>2. new \in [Tables -> Series]
    BY NewSeries
  <2> HIDE DEF new, window
  <2>3. \A d : [t \in Columns |-> OfDay(new[t], d)] \in [Columns -> Series]
    BY <2>2, SeriesTypes DEF Columns
  <2> QED
    BY <1>1, <1>2, <2>1, <2>2, <2>3
<1> QED
  BY <1>3, <1>4

(* The updates that the steps of a run make to it.                         *)
LEMMA JobUpdates ==
  ASSUME NEW j \in Jobs, NEW s \in 0..7
  PROVE  /\ [j EXCEPT !.step = s] \in Jobs
         /\ \A n \in Nat : [j EXCEPT !.step = s, !.at = n] \in Jobs
         /\ \A b \in BOOLEAN : [j EXCEPT !.step = s, !.site = b] \in Jobs
         /\ \A o \in SUBSET [Columns -> Series] :
                [j EXCEPT !.step = s, !.old = o] \in Jobs
         /\ \A t \in Tables, a \in Series :
                [j EXCEPT !.step = s, !.got[t] = a] \in Jobs
<1>1. /\ [j EXCEPT !.step = s] \in Jobs
      /\ \A n \in Nat : [j EXCEPT !.step = s, !.at = n] \in Jobs
      /\ \A b \in BOOLEAN : [j EXCEPT !.step = s, !.site = b] \in Jobs
      /\ \A o \in SUBSET [Columns -> Series] :
             [j EXCEPT !.step = s, !.old = o] \in Jobs
  BY DEF Jobs
<1>2. ASSUME NEW t \in Tables, NEW a \in Series
      PROVE  [j EXCEPT !.step = s, !.got[t] = a] \in Jobs
  BY DEF Jobs
<1> QED
  BY <1>1, <1>2

(* A step of a run reads, and changes the run only.                        *)
Reads == Refresh \/ Generate \/ Clean

LEMMA ReadFacts ==
  ASSUME BaseInv, Reads
  PROVE  /\ UNCHANGED World
         /\ job' \in Jobs
         /\ job'.task \in {job.task, "none"} /\ job.task # "none"
<1> DEFINE Read == /\ UNCHANGED World /\ job' \in Jobs
                   /\ job'.task \in {job.task, "none"} /\ job.task # "none"
<1>1. /\ job \in Jobs /\ rows \in [Tables -> Series] /\ now \in Nat
      /\ kpi \in [KpiDays -> SUBSET [Columns -> Series]] /\ site \in BOOLEAN
      /\ now \in Start..MaxNow
  BY DEF BaseInv, TypeOK, ClockInv, KpiDays
<1>10. 1 \in 0..7 /\ 5 \in 0..7 /\ 6 \in 0..7 
  OBVIOUS
<1>2. ASSUME RefreshStart PROVE Read
  <2>1. Day(now) - 1 \in Nat
    BY <1>1, Yesterday
  <2>2. [job EXCEPT !.step = 1, !.at = Day(now) - 1] \in Jobs
    BY <1>1, <2>1, <1>10, JobUpdates
  <2> QED
    BY <1>1, <1>2, <2>2 DEF RefreshStart, Running, Jobs
<1>3. ASSUME NEW n \in 1..3, NEW t \in Tables, RefreshAggregate(t, n)
      PROVE  Read
  <2>1. OfDay(rows[t], job.at) \in Series
    BY <1>1, SeriesTypes
  <2>2. [job EXCEPT !.step = n + 1, !.got[t] = OfDay(rows[t], job.at)] \in Jobs
    <3>1. n + 1 \in 0..7
      OBVIOUS
    <3> QED
      BY <1>1, <2>1, <3>1, JobUpdates
  <2> QED
    BY <1>1, <1>3, <2>2 DEF RefreshAggregate, Running, Proceed, Jobs
<1>4. ASSUME RefreshSites PROVE Read
  <2>1. [job EXCEPT !.step = IF site THEN 5 ELSE 6, !.site = site] \in Jobs
    <3>1. (IF site THEN 5 ELSE 6) \in 0..7
      OBVIOUS
    <3> QED
      BY <1>1, <3>1, JobUpdates
  <2> QED
    BY <1>1, <1>4, <2>1 DEF RefreshSites, Running, Proceed, Jobs
<1>5. ASSUME RefreshExisting PROVE Read
  <2>1. job.at \in KpiDays
    BY <1>1, <1>5 DEF RefreshExisting, Running, BaseInv, RunsInv, RunOK
  <2>2. [job EXCEPT !.step = 6, !.old = kpi[job.at]] \in Jobs
    BY <1>1, <2>1, <1>10, JobUpdates
  <2> QED
    BY <1>1, <1>5, <2>2 DEF RefreshExisting, Running, Proceed, Jobs
<1>6. ASSUME GenerateMeters PROVE Read
  <2>1. CASE site
    <3>1. [job EXCEPT !.step = 1] \in Jobs
      BY <1>1, <1>10, JobUpdates
    <3> QED
      BY <1>1, <1>6, <2>1, <3>1 DEF GenerateMeters, Running, Proceed, Jobs
  <2>2. CASE ~site
    <3>1. job' = NoJob /\ UNCHANGED World /\ job.task # "none"
      BY <1>6, <2>2 DEF GenerateMeters, Running, Finish
    <3> QED
      BY <3>1, NoJobType DEF NoJob
  <2> QED
    BY <2>1, <2>2
<1>7. ASSUME GenerateLast PROVE Read
  <2> DEFINE next == 1 + IF Filled(rows["imported"]) = {} THEN now
                         ELSE Last(rows["imported"])
  <2>1. rows["imported"] \in Series
    BY <1>1 DEF Tables
  <2>2. next \in Nat
    <3>1. Filled(rows["imported"]) # {} => Last(rows["imported"]) \in Hours
      BY <2>1, LastIsGreatest DEF Filled
    <3>2. CASE Filled(rows["imported"]) = {}
      BY <1>1, <3>2
    <3>3. CASE Filled(rows["imported"]) # {}
      <4>1. Last(rows["imported"]) \in Nat
        BY <3>1, <3>3, Bounds
      <4> QED
        BY <3>3, <4>1
    <3> QED
      BY <3>2, <3>3
  <2> HIDE DEF next
  <2>3. [job EXCEPT !.step = 6, !.at = next] \in Jobs
    BY <1>1, <2>2, <1>10, JobUpdates
  <2> QED
    BY <1>1, <1>7, <2>3 DEF GenerateLast, next, Running, Proceed, Jobs
<1>8. ASSUME CleanStart PROVE Read
  <2>1. now - Keep * DayHours \in Nat
    BY <1>1, Bounds
  <2>2. [job EXCEPT !.step = 1, !.at = now - Keep * DayHours] \in Jobs
    BY <1>1, <2>1, <1>10, JobUpdates
  <2> QED
    BY <1>1, <1>8, <2>2 DEF CleanStart, Running, Proceed, Jobs
<1>9. ASSUME NEW n \in 1..4, CleanTable(n) PROVE Read
  <2>1. CleanOrder[n] \in Tables
    BY DEF CleanOrder, Energy, Tables
  <2>2. Old(CleanOrder[n]) \in Series
    BY <1>1, <2>1 DEF Old, Series
  <2>3. /\ Running("clean", n)
        /\ Proceed([job EXCEPT !.step = IF n = 4 THEN 6 ELSE n + 1,
                               !.got[CleanOrder[n]] = Old(CleanOrder[n])])
    BY <1>9 DEF CleanTable, Old
  <2>4. [job EXCEPT !.step = IF n = 4 THEN 6 ELSE n + 1,
                    !.got[CleanOrder[n]] = Old(CleanOrder[n])] \in Jobs
    <3>1. (IF n = 4 THEN 6 ELSE n + 1) \in 0..7
      OBVIOUS
    <3> QED
      BY <1>1, <2>1, <2>2, <3>1, JobUpdates
  <2> QED
    BY <1>1, <2>3, <2>4 DEF Running, Proceed, Jobs
<1> QED
  BY <1>2, <1>3, <1>4, <1>5, <1>6, <1>7, <1>8, <1>9
  DEF Reads, Refresh, Generate, Clean, Tables

-----------------------------------------------------------------------------
(* Types.                                                                  *)
LEMMA TypeStep ==
  BaseInv /\ [Next]_vars => TypeOK'
<1> SUFFICES ASSUME BaseInv, [Next]_vars PROVE TypeOK'
  OBVIOUS
<1>1. TypeOK /\ DOMAIN kpi = KpiDays
  BY DEF BaseInv, TypeOK, KpiDays
<1>2. CASE Tick
  BY <1>1, <1>2 DEF Tick, TypeOK, history
<1>3. ASSUME NEW kind \in {"backfill", "seed"}, ScriptStart(kind) PROVE TypeOK'
  BY <1>1, <1>3 DEF ScriptStart, TypeOK, history
<1>4. CASE Backfill \/ Seed
  <2>1. /\ site' = TRUE /\ calm' = FALSE /\ torn' \in BOOLEAN
        /\ script' = [script EXCEPT !.pc = "done"]
        /\ UNCHANGED <<now, job, orphan, jobs, losses, late>>
    BY <1>1, <1>4 DEF Backfill, Seed, Commits, TypeOK
  <2>2. /\ rows' \in [Tables -> Series]
        /\ kpi' \in [KpiDays -> SUBSET [Columns -> Series]]
    BY <1>4, ScriptFacts
  <2>3. script' \in [pc : {"idle", "backfill", "seed", "done"}, at : Nat]
    BY <1>1, <2>1 DEF TypeOK
  <2> QED
    BY <1>1, <2>1, <2>2, <2>3 DEF TypeOK, KpiDays
<1>5. ASSUME NEW task \in Kinds, Begin(task) PROVE TypeOK'
  <2>1. job' \in Jobs
    <3>1. [NoJob EXCEPT !.task = task] \in Jobs
      BY NoJobType DEF Jobs, Kinds
    <3> QED
      BY <1>5, <3>1 DEF Begin
  <2> QED
    BY <1>1, <1>5, <2>1 DEF Begin, TypeOK, history
<1>6. CASE Reads
  <2>1. UNCHANGED World /\ job' \in Jobs
    BY <1>6, ReadFacts
  <2>2. calm' \in BOOLEAN
    BY <1>1, <1>6 DEF Reads, Refresh, Generate, Clean, RefreshStart, RefreshAggregate,
       RefreshSites, RefreshExisting, GenerateMeters, GenerateLast, CleanStart,
       CleanTable, Proceed, Finish, TypeOK
  <2> QED
    BY <1>1, <2>1, <2>2 DEF World, TypeOK
<1>7. CASE Commit
  <2>1. Committable(job)
    BY <1>7, JobCommittable DEF Commit
  <2>2. /\ rows' \in [Tables -> Series]
        /\ kpi' \in [KpiDays -> SUBSET [Columns -> Series]]
    BY <1>1, <1>7, <2>1, ApplyFacts DEF Commit
  <2>3. job' \in Jobs
    <3>1. 7 \in 0..7
      OBVIOUS
    <3>2. [job EXCEPT !.step = 7] \in Jobs
      BY <2>1, <3>1, JobUpdates DEF Committable
    <3> QED
      BY <1>7, <3>2 DEF Commit
  <2> QED
    BY <1>1, <1>7, <2>2, <2>3 DEF Commit, TypeOK, KpiDays, history
<1>8. CASE Done
  BY <1>1, <1>8, NoJobType DEF Done, Finish, World, TypeOK
<1>9. CASE Lose
  <2>1. job' \in Jobs
    <3>1. job.task \in {"none", "refresh", "generate", "clean"}
      BY <1>1 DEF TypeOK, Jobs
    <3>2. [NoJob EXCEPT !.task = job.task] \in Jobs
      BY <3>1, NoJobType DEF Jobs
    <3> QED
      BY <1>9, <3>2 DEF Lose
  <2>2. orphan' \in {orphan, job}
    BY <1>9 DEF Lose
  <2> QED
    BY <1>1, <1>9, <2>1, <2>2 DEF Lose, TypeOK, history
<1>10. CASE OrphanCommit
  <2>1. Committable(orphan)
    BY <1>10, OrphanCommittable DEF OrphanCommit
  <2>2. /\ rows' \in [Tables -> Series]
        /\ kpi' \in [KpiDays -> SUBSET [Columns -> Series]]
    BY <1>1, <1>10, <2>1, ApplyFacts DEF OrphanCommit
  <2> QED
    BY <1>1, <1>10, <2>2, NoJobType DEF OrphanCommit, TypeOK, KpiDays
<1>11. CASE OrphanRollback
  BY <1>1, <1>11, NoJobType DEF OrphanRollback, TypeOK, history
<1>12. CASE UNCHANGED vars
  BY <1>1, <1>12 DEF vars, history, TypeOK
<1> QED
  BY <1>2, <1>3, <1>4, <1>5, <1>6, <1>7, <1>8, <1>9, <1>10, <1>11, <1>12
  DEF Next, Reads, Kinds

-----------------------------------------------------------------------------
(* The clock, the scripts and the empty tables.                            *)
LEMMA ClockStep ==
  BaseInv /\ [Next]_vars => ClockInv'
<1> SUFFICES ASSUME BaseInv, [Next]_vars PROVE ClockInv'
  OBVIOUS
<1>1. ClockInv /\ Start \in Nat /\ MaxNow \in Nat /\ now \in Nat
      /\ script \in [pc : {"idle", "backfill", "seed", "done"}, at : Nat]
      /\ site \in BOOLEAN
  BY Bounds DEF BaseInv, TypeOK
<1>2. CASE Tick
  BY <1>1, <1>2 DEF Tick, ClockInv
<1>3. ASSUME NEW kind \in {"backfill", "seed"}, ScriptStart(kind) PROVE ClockInv'
  BY <1>1, <1>3 DEF ScriptStart, ClockInv
<1>4. CASE Backfill \/ Seed
  BY <1>1, <1>4 DEF Backfill, Seed, Commits, ClockInv
<1>5. CASE UNCHANGED <<now, site, script>>
  BY <1>1, <1>5 DEF ClockInv
<1>6. ASSUME Reads PROVE UNCHANGED <<now, site, script>>
  BY <1>6, ReadFacts DEF World
<1>7. ASSUME \/ \E task \in {"refresh", "generate", "clean"} : Begin(task)
             \/ Commit \/ Done \/ Lose \/ OrphanCommit \/ OrphanRollback
             \/ UNCHANGED vars
      PROVE  UNCHANGED <<now, site, script>>
  BY <1>7 DEF Begin, Commit, Done, Finish, World, Lose, OrphanCommit,
     OrphanRollback, vars
<1> QED
  BY <1>2, <1>3, <1>4, <1>5, <1>6, <1>7 DEF Next, Reads

-----------------------------------------------------------------------------
(* The runs.                                                               *)

(* The site and the KPI rows stay.                                         *)
LEMMA OnlyMore ==
  ASSUME BaseInv, [Next]_vars
  PROVE  /\ DOMAIN kpi = KpiDays /\ DOMAIN kpi' = KpiDays
         /\ site => site'
         /\ \A d \in KpiDays : kpi[d] # {} => kpi'[d] # {}
<1>1. DOMAIN kpi = KpiDays /\ DOMAIN kpi' = KpiDays
  <2>1. TypeOK /\ TypeOK'
    BY TypeStep DEF BaseInv
  <2> QED
    BY <2>1 DEF TypeOK, KpiDays
<1>2. CASE Backfill \/ Seed
  BY <1>1, <1>2, ScriptFacts DEF Backfill, Seed, Commits
<1>3. ASSUME Commit PROVE UNCHANGED site /\ \A d \in KpiDays : kpi[d] # {} => kpi'[d] # {}
  <2>1. Committable(job) /\ TypeOK
    BY <1>3, JobCommittable DEF Commit, BaseInv
  <2> QED
    BY <1>3, <2>1, ApplyFacts DEF Commit
<1>4. ASSUME OrphanCommit PROVE UNCHANGED site /\ \A d \in KpiDays : kpi[d] # {} => kpi'[d] # {}
  <2>1. Committable(orphan) /\ TypeOK
    BY <1>4, OrphanCommittable DEF OrphanCommit, BaseInv
  <2> QED
    BY <1>4, <2>1, ApplyFacts DEF OrphanCommit
<1>5. ASSUME Reads PROVE UNCHANGED <<site, kpi>>
  BY <1>5, ReadFacts DEF World
<1>6. ASSUME \/ Tick \/ \E kind \in {"backfill", "seed"} : ScriptStart(kind)
             \/ \E task \in {"refresh", "generate", "clean"} : Begin(task)
             \/ Done \/ Lose \/ OrphanRollback \/ UNCHANGED vars
      PROVE  UNCHANGED <<site, kpi>>
  BY <1>6 DEF Tick, ScriptStart, Begin, Done, Finish, World, Lose, OrphanRollback, vars
<1> QED
  BY <1>1, <1>2, <1>3, <1>4, <1>5, <1>6 DEF Next, Reads

LEMMA RunStaysOK ==
  ASSUME BaseInv, [Next]_vars
  PROVE  /\ job' = job => RunOK(job)'
         /\ orphan' = orphan => RunOK(orphan)'
         /\ orphan' = job => RunOK(orphan)'
<1>1. RunOK(job) /\ RunOK(orphan)
  BY DEF BaseInv, RunsInv
<1> QED
  BY <1>1, OnlyMore DEF RunOK

LEMMA RunsStep ==
  BaseInv /\ [Next]_vars => RunsInv'
<1> SUFFICES ASSUME BaseInv, [Next]_vars PROVE RunsInv'
  OBVIOUS
<1>1. /\ RunsInv /\ job \in Jobs /\ orphan \in Jobs /\ DOMAIN kpi = KpiDays
      /\ RunOK(job) /\ RunOK(orphan)
  BY OnlyMore DEF BaseInv, TypeOK, RunsInv
<1>2. RunOK(NoJob)' /\ NoJob.task = "none" /\ NoJob.step = 0
  BY DEF RunOK, NoJob
<1>3. CASE UNCHANGED <<job, orphan>>
  BY <1>1, <1>3, RunStaysOK DEF RunsInv
<1>4. ASSUME NEW task \in Kinds, Begin(task) PROVE RunsInv'
  <2>1. /\ job'.task = task /\ job'.step = 0 /\ job'.old = {}
        /\ orphan' = orphan
    BY <1>4 DEF Begin, NoJob
  <2>2. RunOK(job)'
    BY <2>1 DEF RunOK
  <2> QED
    BY <1>1, <2>1, <2>2, RunStaysOK DEF RunsInv, Kinds
<1>5. CASE Reads
  <2>1. UNCHANGED <<site, kpi, orphan, now>> /\ job.task # "none"
    BY <1>5, ReadFacts DEF World
  <2>2. CASE RefreshStart
    <3>1. job'.task = "refresh" /\ job'.step = 1 /\ job'.at = Day(now) - 1
          /\ job'.old = job.old /\ job.step = 0
      BY <1>1, <2>2 DEF RefreshStart, Running, Jobs
    <3>2. job'.at \in KpiDays /\ job'.old = {}
      BY <1>1, <3>1, Yesterday DEF BaseInv, ClockInv, KpiDays, RunOK
    <3>3. RunOK(job)'
      BY <2>1, <3>1, <3>2, <1>1 DEF RunOK
    <3> QED
      BY <1>1, <2>1, <3>1, <3>3, RunStaysOK DEF RunsInv
  <2>3. ASSUME NEW n \in 1..3, NEW t \in Tables, RefreshAggregate(t, n)
        PROVE  RunsInv'
    <3>1. job'.task = "refresh" /\ job'.step = n + 1 /\ job'.at = job.at
          /\ job'.old = job.old /\ job.step = n /\ job.task = "refresh"
      BY <1>1, <2>3 DEF RefreshAggregate, Running, Proceed, Jobs
    <3>2. RunOK(job)'
      BY <1>1, <2>1, <3>1 DEF RunOK
    <3> QED
      BY <1>1, <2>1, <3>1, <3>2, RunStaysOK DEF RunsInv
  <2>4. CASE RefreshSites
    <3>1. job'.task = "refresh" /\ job'.step \in {5, 6} /\ job'.at = job.at
          /\ job'.old = job.old /\ job.step = 4 /\ job.task = "refresh"
      BY <1>1, <2>4 DEF RefreshSites, Running, Proceed, Jobs
    <3>2. RunOK(job)'
      BY <1>1, <2>1, <3>1 DEF RunOK
    <3> QED
      BY <1>1, <2>1, <3>1, <3>2, RunStaysOK DEF RunsInv
  <2>5. CASE RefreshExisting
    <3>1. job'.task = "refresh" /\ job'.step = 6 /\ job'.at = job.at
          /\ job'.old = kpi[job.at] /\ job.step = 5 /\ job.task = "refresh"
      BY <1>1, <2>5 DEF RefreshExisting, Running, Proceed, Jobs
    <3>2. RunOK(job)'
      BY <1>1, <2>1, <3>1 DEF RunOK
    <3> QED
      BY <1>1, <2>1, <3>1, <3>2, RunStaysOK DEF RunsInv
  <2>6. CASE Generate
    <3>1. \/ job' = NoJob
          \/ /\ site /\ job'.task = "generate" /\ job'.old = job.old
             /\ job.step < 6 /\ job'.step > 0
      <4>1. CASE GenerateMeters /\ ~site
        BY <4>1 DEF GenerateMeters, Finish
      <4>2. CASE GenerateMeters /\ site
        BY <1>1, <4>2 DEF GenerateMeters, Running, Proceed, Jobs
      <4>3. CASE GenerateLast
        BY <1>1, <4>3 DEF GenerateLast, Running, Proceed, Jobs, RunOK
      <4> QED
        BY <2>6, <4>1, <4>2, <4>3 DEF Generate
    <3>2. RunOK(job)'
      BY <1>1, <1>2, <2>1, <3>1 DEF RunOK
    <3> QED
      BY <1>1, <1>2, <2>1, <3>1, <3>2, RunStaysOK DEF RunsInv
  <2>7. CASE Clean
    <3>1. job'.task = "clean" /\ job'.old = job.old /\ job.step < 6
      <4>1. CASE CleanStart
        BY <1>1, <4>1 DEF CleanStart, Running, Proceed, Jobs
      <4>2. ASSUME NEW n \in 1..4, CleanTable(n)
            PROVE  job'.task = "clean" /\ job'.old = job.old /\ job.step < 6
        BY <1>1, <4>2 DEF CleanTable, Running, Proceed, Jobs
      <4> QED
        BY <2>7, <4>1, <4>2 DEF Clean
    <3>2. RunOK(job)'
      BY <1>1, <3>1 DEF RunOK
    <3> QED
      BY <1>1, <2>1, <3>1, <3>2, RunStaysOK DEF RunsInv
  <2> QED
    BY <1>5, <2>2, <2>3, <2>4, <2>5, <2>6, <2>7 DEF Reads, Refresh, Tables
<1>6. CASE Commit
  <2>1. job'.task = job.task /\ job'.step = 7 /\ job'.at = job.at
        /\ job'.old = job.old /\ job.step = 6 /\ orphan' = orphan
    BY <1>1, <1>6 DEF Commit, Jobs
  <2>2. RunOK(job)'
    BY <1>1, <2>1, OnlyMore DEF RunOK
  <2> QED
    BY <1>1, <2>1, <2>2, RunStaysOK DEF RunsInv
<1>7. CASE Done
  <2>1. job' = NoJob /\ orphan' = orphan
    BY <1>7 DEF Done, Finish, World
  <2> QED
    BY <1>1, <1>2, <2>1, RunStaysOK DEF RunsInv, RunOK
<1>8. CASE Lose
  <2>1. /\ job'.task = job.task /\ job'.step = 0 /\ job'.old = {}
        /\ orphan' = orphan \/ (orphan' = job /\ job.step = 6)
        /\ job.task # "none"
    BY <1>8 DEF Lose, NoJob
  <2>2. RunOK(job)'
    BY <2>1 DEF RunOK
  <2> QED
    BY <1>1, <2>1, <2>2, RunStaysOK DEF RunsInv
<1>9. CASE OrphanCommit \/ OrphanRollback
  <2>1. orphan' = NoJob /\ job' = job
    BY <1>9 DEF OrphanCommit, OrphanRollback
  <2> QED
    BY <1>1, <1>2, <2>1, RunStaysOK DEF RunsInv, RunOK
<1>10. ASSUME \/ Tick \/ \E kind \in {"backfill", "seed"} : ScriptStart(kind)
              \/ Backfill \/ Seed \/ UNCHANGED vars
       PROVE  UNCHANGED <<job, orphan>>
  BY <1>10 DEF Tick, ScriptStart, Backfill, Seed, Commits, vars
<1> QED
  BY <1>3, <1>4, <1>5, <1>6, <1>7, <1>8, <1>9, <1>10 DEF Next, Reads, Kinds

LEMMA EmptyStep ==
  BaseInv /\ [Next]_vars => EmptyInv'
<1> SUFFICES ASSUME BaseInv, [Next]_vars PROVE EmptyInv'
  OBVIOUS
<1>1. EmptyInv /\ TypeOK /\ RunOK(job) /\ RunOK(orphan)
  BY DEF BaseInv, RunsInv
<1>2. ASSUME NEW j \in {job, orphan}, Committable(j), j.step = 6, Apply(j), site' = site
      PROVE  EmptyInv'
  <2> SUFFICES ASSUME ~site PROVE rows' = [t \in Tables |-> NoRows]
    BY <1>2 DEF EmptyInv
  <2>1. rows = [t \in Tables |-> NoRows] /\ j.task # "generate"
    BY <1>1, <1>2 DEF EmptyInv, RunOK
  <2>2. rows' \in [Tables -> Series]
    BY <1>1, <1>2, ApplyFacts
  <2>3. CASE j.task = "refresh"
    BY <1>1, <1>2, <2>1, <2>3, ApplyFacts
  <2>4. CASE j.task = "clean"
    <3>1. \A t \in Tables, h \in Hours : rows'[t][h] = rows[t][h] - j.got[t][h]
      BY <1>1, <1>2, <2>4, ApplyFacts
    <3>2. \A t \in Tables, h \in Hours : j.got[t][h] <= rows[t][h] /\ j.got[t][h] \in Nat
      BY <1>2, <2>4 DEF Committable, Jobs, Series
    <3>3. \A t \in Tables, h \in Hours : rows[t][h] = 0
      BY <2>1 DEF NoRows
    <3>4. \A t \in Tables, h \in Hours : rows'[t][h] = 0
      BY <3>1, <3>2, <3>3
    <3> QED
      BY <2>2, <3>4 DEF NoRows, Series
  <2> QED
    BY <1>2, <2>1, <2>3, <2>4 DEF Committable, Kinds
<1>3. CASE Commit
  BY <1>2, <1>3, JobCommittable DEF Commit
<1>4. CASE OrphanCommit
  <2>1. orphan.step = 6
    BY <1>4 DEF OrphanCommit, BaseInv, RunsInv
  <2> QED
    BY <1>2, <1>4, <2>1, OrphanCommittable DEF OrphanCommit
<1>5. CASE Backfill \/ Seed
  BY <1>5 DEF Backfill, Seed, Commits, EmptyInv
<1>6. CASE UNCHANGED <<rows, site>>
  BY <1>1, <1>6 DEF EmptyInv
<1>7. ASSUME Reads PROVE UNCHANGED <<rows, site>>
  BY <1>7, ReadFacts DEF World
<1>8. ASSUME \/ Tick \/ \E kind \in {"backfill", "seed"} : ScriptStart(kind)
             \/ \E task \in {"refresh", "generate", "clean"} : Begin(task)
             \/ Done \/ Lose \/ OrphanRollback \/ UNCHANGED vars
      PROVE  UNCHANGED <<rows, site>>
  BY <1>8 DEF Tick, ScriptStart, Begin, Done, Finish, World, Lose, OrphanRollback, vars
<1> QED
  BY <1>3, <1>4, <1>5, <1>6, <1>7, <1>8 DEF Next, Reads

-----------------------------------------------------------------------------
(* What the cleaning runs have deleted.                                    *)
LEMMA DeletedStep ==
  BaseInv /\ [Next]_vars => DeletedInv'
<1> SUFFICES ASSUME BaseInv, [Next]_vars PROVE DeletedInv'
  OBVIOUS
<1>1. /\ DeletedInv /\ TypeOK /\ job \in Jobs /\ orphan \in Jobs
      /\ Intact(job) /\ Intact(orphan)
      /\ rows \in [Tables -> Series]
  BY DEF BaseInv, DeletedInv, TypeOK
<1>2. \A t \in Tables, h \in Hours :
          /\ rows[t][h] \in Nat /\ job.got[t][h] \in Nat /\ orphan.got[t][h] \in Nat
  BY <1>1 DEF Jobs, Series
<1>3. CASE UNCHANGED <<rows, job, orphan>>
  BY <1>1, <1>3 DEF DeletedInv, Intact, Deletes
<1>4. CASE Backfill \/ Seed
  <2>1. rows' \in [Tables -> Series] /\ rows = [t \in Tables |-> NoRows]
    BY <1>4, ScriptFacts
  <2>2. UNCHANGED <<job, orphan>>
    BY <1>4 DEF Backfill, Seed, Commits
  <2>3. \A t \in Tables, h \in Hours : rows[t][h] = 0 /\ rows'[t][h] \in Nat
    BY <2>1 DEF NoRows, Series
  <2>4. \A t \in Tables, h \in Hours : rows[t][h] <= rows'[t][h]
    BY <2>3
  <2>5. Intact(job)' /\ Intact(orphan)'
    <3>1. \A t \in Tables, h \in Hours : rows'[t][h] \in Nat
      BY <2>3
    <3> QED
      BY <1>1, <1>2, <2>2, <2>4, <3>1 DEF Intact, Deletes
  <2> QED
    BY <1>1, <2>2, <2>5 DEF DeletedInv, Deletes
<1>5. ASSUME UNCHANGED <<rows, orphan>>, NEW kind, job' = [NoJob EXCEPT !.task = kind]
      PROVE  DeletedInv'
  <2>1. job'.got = [t \in Tables |-> NoRows]
    BY <1>5 DEF NoJob
  <2>2. \A t \in Tables, h \in Hours : job'.got[t][h] = 0
    BY <2>1 DEF NoRows
  <2>3. Intact(orphan)' /\ Intact(job)'
    BY <1>1, <1>2, <1>5, <2>2 DEF Intact, Deletes
  <2> QED
    BY <2>2, <2>3 DEF DeletedInv
<1>6. CASE Reads
  <2>1. UNCHANGED <<rows, orphan>>
    BY <1>6, ReadFacts DEF World
  <2>2. Intact(orphan)'
    BY <1>1, <2>1 DEF Intact, Deletes
  <2>3. CASE job'.task # "clean"
    BY <2>2, <2>3 DEF DeletedInv, Intact, Deletes
  <2>4. CASE CleanStart
    <3>1. /\ job.task = "clean" /\ job.step = 0 /\ job'.task = "clean"
          /\ job'.got = job.got
      BY <1>1, <2>4 DEF CleanStart, Running, Proceed, Jobs
    <3> QED
      BY <1>1, <2>1, <2>2, <3>1 DEF DeletedInv, Intact, Deletes
  <2>5. ASSUME NEW n \in 1..4, CleanTable(n) PROVE DeletedInv'
    <3> DEFINE t == CleanOrder[n]
    <3>1. t \in Tables
      BY DEF CleanOrder, Energy, Tables
    <3>2. /\ job.task = "clean" /\ job.step = n /\ job'.task = "clean"
          /\ job'.got = [job.got EXCEPT ![t] = Old(t)]
          /\ orphan.task = "clean" => Filled(Old(t)) \cap Filled(orphan.got[t]) = {}
      BY <1>1, <2>5 DEF CleanTable, Running, Proceed, Jobs, Old
    <3>3. job.got \in [Tables -> Series]
      BY <1>1 DEF Jobs
    <3> HIDE DEF t
    <3>4. /\ \A u \in Tables \ {t} : job'.got[u] = job.got[u]
          /\ job'.got[t] = Old(t)
      BY <3>1, <3>2, <3>3
    <3>5. \A h \in Hours : Old(t)[h] \in {0, rows[t][h]}
      BY DEF Old
    <3>6. Deletes(job)
      BY <3>2 DEF Deletes
    <3>7. Intact(job)'
      <4>1. \A u \in Tables, h \in Hours : job'.got[u][h] <= rows[u][h]
        <5> TAKE u \in Tables, h \in Hours
        <5>1. CASE u = t
          BY <1>2, <3>4, <3>5, <5>1
        <5>2. CASE u # t
          BY <1>1, <3>4, <3>6, <5>2 DEF Intact
        <5> QED
          BY <5>1, <5>2
      <4> QED
        BY <2>1, <4>1 DEF Intact
    <3>8. ASSUME Deletes(orphan), NEW u \in Tables, NEW h \in Hours
          PROVE  job'.got[u][h] = 0 \/ orphan.got[u][h] = 0
      <4>1. CASE u = t
        <5>1. h \notin Filled(Old(t)) \/ h \notin Filled(orphan.got[t])
          BY <3>2, <3>8 DEF Deletes
        <5>2. Old(t)[h] \in Nat
          BY <1>2, <3>1, <3>5
        <5> QED
          BY <1>2, <3>1, <3>4, <4>1, <5>1, <5>2 DEF Filled
      <4>2. CASE u # t
        BY <1>1, <3>4, <3>6, <3>8, <4>2 DEF DeletedInv
      <4> QED
        BY <4>1, <4>2
    <3> QED
      BY <2>1, <2>2, <3>7, <3>8 DEF DeletedInv, Deletes
  <2>6. ASSUME Refresh \/ Generate PROVE job'.task # "clean"
    <3>1. job.task # "clean"
      BY <2>6 DEF Refresh, Generate, RefreshStart, RefreshAggregate, RefreshSites,
         RefreshExisting, GenerateMeters, GenerateLast, Running
    <3> QED
      BY <1>6, <3>1, ReadFacts
  <2> QED
    BY <1>6, <2>3, <2>4, <2>5, <2>6 DEF Reads, Clean
<1>7. CASE Commit
  <2>1. job'.step = 7 /\ orphan' = orphan /\ job.step = 6
    BY <1>1, <1>7 DEF Commit, Jobs
  <2>2. Committable(job)
    BY <2>1, JobCommittable
  <2>3. Intact(orphan)'
    <3> SUFFICES ASSUME Deletes(orphan), NEW t \in Tables, NEW h \in Hours
                 PROVE  orphan.got[t][h] <= rows'[t][h]
      BY <2>1 DEF Intact, Deletes
    <3>1. orphan.got[t][h] <= rows[t][h]
      BY <1>1 DEF Intact
    <3>2. CASE job.task = "refresh"
      BY <1>1, <1>7, <2>2, <3>1, <3>2, ApplyFacts DEF Commit
    <3>3. CASE job.task = "generate"
      <4>1. rows'[t][h] = rows[t][h] + Generated(job.at)[t][h]
        BY <1>1, <1>7, <2>2, <3>3, ApplyFacts DEF Commit
      <4>2. Generated(job.at)[t][h] \in Nat
        BY DEF Generated, At
      <4> QED
        BY <1>2, <3>1, <4>1, <4>2
    <3>4. CASE job.task = "clean"
      <4>1. rows'[t][h] = rows[t][h] - job.got[t][h]
        BY <1>1, <1>7, <2>2, <3>4, ApplyFacts DEF Commit
      <4>2. job.got[t][h] = 0 \/ orphan.got[t][h] = 0
        BY <1>1, <2>1, <3>4 DEF DeletedInv, Deletes
      <4>3. job.got[t][h] <= rows[t][h]
        BY <2>2, <3>4 DEF Committable
      <4> QED
        BY <1>2, <3>1, <4>1, <4>2, <4>3
    <3> QED
      BY <2>2, <3>2, <3>3, <3>4 DEF Committable, Kinds
  <2> QED
    BY <2>1, <2>3 DEF DeletedInv, Intact, Deletes
<1>8. CASE OrphanCommit
  <2>1. orphan' = NoJob /\ job' = job
    BY <1>8 DEF OrphanCommit
  <2>2. Committable(orphan)
    BY <1>8, OrphanCommittable DEF OrphanCommit
  <2>3. Intact(job)'
    <3> SUFFICES ASSUME Deletes(job), NEW t \in Tables, NEW h \in Hours
                 PROVE  job.got[t][h] <= rows'[t][h]
      BY <2>1 DEF Intact, Deletes
    <3>1. job.got[t][h] <= rows[t][h]
      BY <1>1 DEF Intact
    <3>2. CASE orphan.task = "refresh"
      BY <1>1, <1>8, <2>2, <3>1, <3>2, ApplyFacts DEF OrphanCommit
    <3>3. CASE orphan.task = "generate"
      <4>1. rows'[t][h] = rows[t][h] + Generated(orphan.at)[t][h]
        BY <1>1, <1>8, <2>2, <3>3, ApplyFacts DEF OrphanCommit
      <4>2. Generated(orphan.at)[t][h] \in Nat
        BY DEF Generated, At
      <4> QED
        BY <1>2, <3>1, <4>1, <4>2
    <3>4. CASE orphan.task = "clean"
      <4>1. rows'[t][h] = rows[t][h] - orphan.got[t][h]
        BY <1>1, <1>8, <2>2, <3>4, ApplyFacts DEF OrphanCommit
      <4>2. orphan.step = 6
        BY <1>8 DEF OrphanCommit, BaseInv, RunsInv
      <4>3. job.got[t][h] = 0 \/ orphan.got[t][h] = 0
        BY <1>1, <3>4, <4>2 DEF DeletedInv, Deletes
      <4>4. orphan.got[t][h] <= rows[t][h]
        BY <2>2, <3>4 DEF Committable
      <4> QED
        BY <1>2, <3>1, <4>1, <4>3, <4>4
    <3> QED
      BY <2>2, <3>2, <3>3, <3>4 DEF Committable, Kinds
  <2>4. ~Deletes(orphan)'
    BY <2>1 DEF Deletes, NoJob
  <2> QED
    BY <2>3, <2>4 DEF DeletedInv, Intact
<1>9. CASE OrphanRollback
  <2>1. orphan' = NoJob /\ job' = job /\ rows' = rows
    BY <1>9 DEF OrphanRollback
  <2>2. ~Deletes(orphan)'
    BY <2>1 DEF Deletes, NoJob
  <2> QED
    BY <1>1, <2>1, <2>2 DEF DeletedInv, Intact, Deletes
<1>10. CASE Done
  <2>1. UNCHANGED <<rows, orphan>> /\ job'.task = "none"
    BY <1>10 DEF Done, Finish, World, NoJob
  <2> QED
    BY <1>1, <2>1 DEF DeletedInv, Intact, Deletes
<1>11. CASE Lose
  <2>1. job' = [NoJob EXCEPT !.task = job.task] /\ rows' = rows
    BY <1>11 DEF Lose
  <2>2. CASE orphan' = orphan
    BY <1>5, <2>1, <2>2
  <2>3. CASE orphan' = job
    <3>1. \A t \in Tables, h \in Hours : job'.got[t][h] = 0
      BY <2>1 DEF NoJob, NoRows
    <3>2. Intact(orphan)' /\ Intact(job)'
      BY <1>1, <1>2, <2>1, <2>3, <3>1 DEF Intact, Deletes
    <3> QED
      BY <3>1, <3>2 DEF DeletedInv
  <2> QED
    BY <1>11, <2>2, <2>3 DEF Lose
<1>12. ASSUME NEW task \in Kinds, Begin(task) PROVE DeletedInv'
  BY <1>5, <1>12 DEF Begin
<1>13. ASSUME \/ Tick \/ \E kind \in {"backfill", "seed"} : ScriptStart(kind)
              \/ UNCHANGED vars
       PROVE  UNCHANGED <<rows, job, orphan>>
  BY <1>13 DEF Tick, ScriptStart, vars
<1> QED
  BY <1>3, <1>4, <1>6, <1>7, <1>8, <1>9, <1>10, <1>11, <1>12, <1>13
  DEF Next, Reads, Kinds

LEMMA InitBase == Init => BaseInv
<1> SUFFICES ASSUME Init PROVE BaseInv
  OBVIOUS
<1>1. TypeOK
  BY NewSeries, NoJobType, Bounds DEF Init, TypeOK, NoScript
<1>2. ClockInv
  BY Bounds DEF Init, ClockInv, NoScript
<1>3. RunsInv
  BY DEF Init, RunsInv, RunOK, NoJob
<1>4. EmptyInv
  BY DEF Init, EmptyInv
<1>5. DeletedInv
  BY DEF Init, DeletedInv, Intact, Deletes, NoJob
<1> QED
  BY <1>1, <1>2, <1>3, <1>4, <1>5 DEF BaseInv

LEMMA BaseStep == BaseInv /\ [Next]_vars => BaseInv'
  BY TypeStep, ClockStep, RunsStep, EmptyStep, DeletedStep DEF BaseInv

LEMMA BaseHolds == Spec => []BaseInv
  BY InitBase, BaseStep, PTL DEF Spec

(* The state of the worker's tables has its types: no task deletes a row   *)
(* twice, looks up a KPI row that is gone or computes a day or a cutoff    *)
(* before the first.                                                       *)
THEOREM TypeCorrect == Spec => []TypeOK
<1>1. BaseInv => TypeOK
  BY DEF BaseInv
<1> QED
  BY <1>1, BaseHolds, PTL

-----------------------------------------------------------------------------
(* A refresh beside which nobody commits.                                  *)
LEMMA OneRowStep ==
  ASSUME BaseInv, OneRowInv, [Next]_vars
  PROVE  OneRowInv'
<1>1. TypeOK /\ kpi \in [KpiDays -> SUBSET [Columns -> Series]]
  BY DEF BaseInv, TypeOK, KpiDays
<1>2. CASE UNCHANGED kpi
  BY <1>2 DEF OneRowInv
<1>3. ASSUME NEW j, Committable(j), Apply(j) PROVE OneRowInv'
  <2>1. CASE j.task = "refresh" /\ ~UNCHANGED kpi
    <3>1. Refreshable(j) /\ j \in Jobs /\ Upsert(j)
      BY <1>3, <2>1 DEF Committable, Apply
    <3>2. kpi' = [kpi EXCEPT ![j.at] = {UpsertedRow(j)}]
      BY <1>1, <3>1, UpsertFacts
    <3> QED
      BY <1>1, <3>2 DEF OneRowInv
  <2>2. CASE j.task # "refresh"
    BY <1>2, <1>3, <2>2 DEF Committable, Kinds, Apply
  <2> QED
    BY <1>2, <2>1, <2>2
<1>4. CASE Commit
  BY <1>3, <1>4, JobCommittable DEF Commit
<1>5. CASE OrphanCommit
  BY <1>3, <1>5, OrphanCommittable DEF OrphanCommit
<1>6. CASE Backfill
  <2>1. PICK row, days : kpi' = [d \in DOMAIN kpi |->
                                     IF d \in days THEN {row[d]} ELSE kpi[d]]
    <3> DEFINE window == (script.at - Window)..(script.at - 1)
               new == [t \in Tables |-> At(IF t = "power"
                                           THEN {Midnight(h) : h \in window}
                                           ELSE window)]
               row == [d \in KpiDays |-> [t \in Columns |-> OfDay(new[t], d)]]
               days == {d \in KpiDays : \E h \in window : Day(h) = d}
    <3>1. kpi' = [d \in DOMAIN kpi |->
                      IF \E h \in window : Day(h) = d
                      THEN {[t \in Columns |-> OfDay(new[t], d)]}
                      ELSE kpi[d]]
      BY <1>6 DEF Backfill
    <3>2. kpi' = [d \in DOMAIN kpi |-> IF d \in days THEN {row[d]} ELSE kpi[d]]
      <4> HIDE DEF new, window
      <4> QED
        BY <1>1, <3>1
    <3> QED
      BY <3>2
  <2> QED
    BY <1>1, <2>1 DEF OneRowInv
<1>7. ASSUME Reads PROVE UNCHANGED kpi
  BY <1>7, ReadFacts DEF World
<1>8. ASSUME \/ Tick \/ \E kind \in {"backfill", "seed"} : ScriptStart(kind)
             \/ Seed \/ \E task \in {"refresh", "generate", "clean"} : Begin(task)
             \/ Done \/ Lose \/ OrphanRollback \/ UNCHANGED vars
      PROVE  UNCHANGED kpi
  BY <1>8 DEF Tick, ScriptStart, Seed, Begin, Done, Finish, World, Lose,
     OrphanRollback, vars
<1> QED
  BY <1>2, <1>4, <1>5, <1>6, <1>7, <1>8 DEF Next, Reads

LEMMA ReadStep ==
  ASSUME BaseInv, ReadInv, [Next]_vars
  PROVE  ReadInv'
<1>1. /\ job \in Jobs /\ job.got \in [Tables -> Series]
  BY DEF BaseInv, TypeOK, Jobs
<1>2. CASE UNCHANGED <<rows, kpi, site, job, calm>>
  BY <1>2 DEF ReadInv
<1>3. CASE calm' = FALSE \/ job'.task # "refresh" \/ job'.step \in {0, 7}
  BY <1>3 DEF ReadInv
<1>4. CASE Reads
  <2>1. UNCHANGED <<rows, kpi, site>>
    BY <1>4, ReadFacts DEF World
  <2>2. CASE RefreshStart
    <3>1. job'.step = 1
      BY <1>1, <2>2 DEF RefreshStart, Running, Jobs
    <3> QED
      BY <3>1 DEF ReadInv
  <2>3. ASSUME NEW n \in 1..3, RefreshAggregate(Order[n], n) PROVE ReadInv'
    <3>1. /\ job.task = "refresh" /\ job.step = n /\ job'.step = n + 1
          /\ job'.at = job.at /\ calm' = calm
          /\ job'.got = [job.got EXCEPT ![Order[n]] = OfDay(rows[Order[n]], job.at)]
      BY <1>1, <2>3 DEF RefreshAggregate, Running, Proceed, Jobs
    <3>2. Order[n] \in Tables
      BY DEF Order, Tables
    <3>3. job'.got[Order[n]] = OfDay(rows[Order[n]], job.at)
      BY <1>1, <3>1, <3>2
    <3>4. \A m \in 1..3 : m # n => job'.got[Order[m]] = job.got[Order[m]]
      BY <1>1, <3>1 DEF Order, Tables
    <3>5. ASSUME calm, NEW m \in 1..3, m < n + 1
          PROVE  job'.got[Order[m]] = OfDay(rows[Order[m]], job.at)
      <4>1. CASE m = n
        BY <3>3, <4>1
      <4>2. CASE m # n
        <5>1. m < job.step /\ job.step \in 1..6
          BY <3>1, <3>5, <4>2
        <5> QED
          BY <3>1, <3>4, <3>5, <4>2, <5>1 DEF ReadInv
      <4> QED
        BY <4>1, <4>2
    <3> QED
      BY <2>1, <3>1, <3>5 DEF ReadInv
  <2>4. CASE RefreshSites
    <3>1. /\ job.task = "refresh" /\ job.step = 4 /\ calm' = calm
          /\ job'.step = IF site THEN 5 ELSE 6
          /\ job'.at = job.at /\ job'.site = site /\ job'.got = job.got
      BY <1>1, <2>4 DEF RefreshSites, Running, Proceed, Jobs
    <3> QED
      BY <2>1, <3>1 DEF ReadInv
  <2>5. CASE RefreshExisting
    <3>1. /\ job.task = "refresh" /\ job.step = 5 /\ calm' = calm /\ job'.step = 6
          /\ job'.at = job.at /\ job'.site = job.site /\ job'.got = job.got
          /\ job'.old = kpi[job.at]
      BY <1>1, <2>5 DEF RefreshExisting, Running, Proceed, Jobs
    <3> QED
      BY <2>1, <3>1 DEF ReadInv
  <2>6. CASE Generate \/ Clean
    <3>1. job.task # "refresh"
      BY <2>6 DEF Generate, Clean, GenerateMeters, GenerateLast, CleanStart,
         CleanTable, Running
    <3> QED
      BY <1>3, <1>4, <3>1, ReadFacts
  <2>7. Order[1] = "imported" /\ Order[2] = "exported" /\ Order[3] = "power"
    BY DEF Order
  <2>8. ASSUME Refresh
        PROVE  RefreshStart \/ (\E n \in 1..3 : RefreshAggregate(Order[n], n))
               \/ RefreshSites \/ RefreshExisting
    BY <2>7, <2>8 DEF Refresh
  <2> QED
    BY <1>4, <2>2, <2>3, <2>4, <2>5, <2>6, <2>8 DEF Reads
<1>5. ASSUME Backfill \/ Seed \/ OrphanCommit PROVE calm' = FALSE
  BY <1>5 DEF Backfill, Seed, Commits, OrphanCommit
<1>6. ASSUME Commit PROVE job'.step = 7
  BY <1>1, <1>6 DEF Commit, Jobs
<1>7. ASSUME \/ \E task \in {"refresh", "generate", "clean"} : Begin(task)
             \/ Done \/ Lose
      PROVE  job'.step = 0
  BY <1>7 DEF Begin, Done, Finish, Lose, NoJob
<1>8. ASSUME \/ Tick \/ \E kind \in {"backfill", "seed"} : ScriptStart(kind)
             \/ OrphanRollback \/ UNCHANGED vars
      PROVE  UNCHANGED <<rows, kpi, site, job, calm>>
  BY <1>8 DEF Tick, ScriptStart, OrphanRollback, vars, history
<1> QED
  BY <1>2, <1>3, <1>4, <1>5, <1>6, <1>7, <1>8 DEF Next, Reads

LEMMA ReadsHold == Spec => [](BaseInv /\ OneRowInv /\ ReadInv)
<1>1. Init => BaseInv /\ OneRowInv /\ ReadInv
  <2> SUFFICES ASSUME Init PROVE OneRowInv /\ ReadInv
    BY InitBase
  <2>1. OneRowInv
    BY DEF Init, OneRowInv, KpiDays
  <2>2. ReadInv
    BY DEF Init, ReadInv, NoJob
  <2> QED
    BY <2>1, <2>2
<1>2. BaseInv /\ OneRowInv /\ ReadInv /\ [Next]_vars
          => (BaseInv /\ OneRowInv /\ ReadInv)'
  BY BaseStep, OneRowStep, ReadStep
<1> QED
  BY <1>1, <1>2, PTL DEF Spec

(* A refresh beside which nobody commits leaves yesterday's row equal to   *)
(* the aggregates of yesterday's readings, on whatever row it has found.   *)
THEOREM CalmRefreshIsExact == Spec => CalmRefresh
<1>1. ASSUME BaseInv, OneRowInv, ReadInv, Commit, job.task = "refresh", calm, site
      PROVE  kpi'[job.at] = {Target}
  <2>1. job.step = 6 /\ Apply(job) /\ Committable(job) /\ TypeOK
    BY <1>1, JobCommittable DEF Commit, BaseInv
  <2>2. Refreshable(job) /\ job \in Jobs /\ kpi \in [KpiDays -> SUBSET [Columns -> Series]]
    BY <1>1, <2>1 DEF Committable, TypeOK, KpiDays
  <2>3. /\ \A n \in 1..3 : job.got[Order[n]] = OfDay(rows[Order[n]], job.at)
        /\ job.site /\ job.old = kpi[job.at]
    <3>1. job.step \in 1..6 /\ job.step > 4 /\ \A n \in 1..3 : n < job.step
      BY <2>1
    <3> QED
      BY <1>1, <2>1, <3>1 DEF ReadInv
  <2>4. \A t \in Columns : job.got[t] = OfDay(rows[t], job.at)
    <3>1. /\ job.got[Order[1]] = OfDay(rows[Order[1]], job.at)
          /\ job.got[Order[2]] = OfDay(rows[Order[2]], job.at)
          /\ job.got[Order[3]] = OfDay(rows[Order[3]], job.at)
      BY <2>3
    <3> QED
      BY <3>1 DEF Order, Columns, Tables
  <2>5. Upsert(job)
    BY <1>1, <2>1, <2>3 DEF Apply
  <2>6. kpi' = [kpi EXCEPT ![job.at] = {UpsertedRow(job)}]
    BY <2>1, <2>2, <2>5, UpsertFacts
  <2>7. ASSUME NEW t \in Columns PROVE UpsertedRow(job)[t] = job.got[t]
    <3>1. CASE t \in Changed(job)
      BY <3>1 DEF UpsertedRow
    <3>2. CASE t \notin Changed(job)
      <4>1. PICK row \in kpi[job.at] : row[t] = job.got[t]
        BY <2>3, <3>2 DEF Changed
      <4>2. (CHOOSE r \in kpi[job.at] : TRUE) = row
        BY <1>1, <2>2, <4>1 DEF OneRowInv, Refreshable
      <4> QED
        BY <3>2, <4>1, <4>2 DEF UpsertedRow
    <3> QED
      BY <3>1, <3>2
  <2>8. UpsertedRow(job) = Target
    <3>1. \A t \in Columns : UpsertedRow(job)[t] = Target[t]
      BY <2>4, <2>7 DEF Target
    <3> QED
      BY <3>1 DEF UpsertedRow, Target
  <2> QED
    BY <2>2, <2>6, <2>8 DEF Refreshable
<1> QED
  BY <1>1, ReadsHold, PTL DEF CalmRefresh, Spec

-----------------------------------------------------------------------------
(* The readings as intervals.                                              *)
LEMMA RowsOf ==
  ASSUME BaseInv
  PROVE  /\ rows \in [Tables -> Series]
         /\ \A t \in Tables, h \in Hours :
                rows[t][h] \in Nat /\ (h \in Has(t) <=> rows[t][h] > 0)
         /\ \A t : Has(t) \subseteq Hours
         /\ Hours \subseteq Nat
  BY Bounds DEF BaseInv, TypeOK, Series, Has, Filled

(* The steps in which the tables, the run and the history stay.            *)
LEMMA QuietReadings ==
  ASSUME \/ Tick \/ \E kind \in {"backfill", "seed"} : ScriptStart(kind)
         \/ OrphanRollback \/ UNCHANGED vars
  PROVE  UNCHANGED <<rows, job, site, late, torn>>
  BY DEF Tick, ScriptStart, OrphanRollback, vars, history

LEMMA RestartedRun ==
  ASSUME \/ \E task \in {"refresh", "generate", "clean"} : Begin(task)
         \/ Done \/ Lose
  PROVE  job'.step = 0 /\ UNCHANGED <<rows, late, torn>>
  BY DEF Begin, Done, Finish, World, Lose, NoJob, history

(* An orphan is a run that was lost.                                       *)
LEMMA OrphanFrom ==
  ASSUME BaseInv, [Next]_vars
  PROVE  orphan' \in {orphan, job, NoJob}
<1>1. Reads => orphan' = orphan
  BY ReadFacts DEF World
<1>2. ASSUME \/ Tick \/ \E kind \in {"backfill", "seed"} : ScriptStart(kind)
             \/ Backfill \/ Seed
             \/ \E task \in {"refresh", "generate", "clean"} : Begin(task)
             \/ Commit \/ Done \/ UNCHANGED vars
      PROVE  orphan' = orphan
  BY <1>2 DEF Tick, ScriptStart, Backfill, Seed, Commits, Begin, Commit, Done,
     Finish, World, vars
<1>3. Lose \/ OrphanCommit \/ OrphanRollback => orphan' \in {orphan, job, NoJob}
  BY DEF Lose, OrphanCommit, OrphanRollback
<1> QED
  BY <1>1, <1>2, <1>3 DEF Next, Reads

(* The dataset of a script.                                                *)
LEMMA Dataset ==
  ASSUME BaseInv, Backfill \/ Seed
  PROVE  \E lo \in Nat, hi \in Hours, days \in SUBSET Nat :
             /\ lo <= hi /\ hi <= now /\ lo..hi \subseteq Hours
             /\ \A h \in days : h <= hi
             /\ rows' = [t \in Tables |-> At(IF t = "power" THEN days ELSE lo..hi)]
<1>1. /\ script.at \in Start..MaxNow /\ script.at \in Nat /\ script.at <= now
      /\ now \in Nat
  BY Bounds DEF BaseInv, ClockInv, Backfill, Seed
<1>2. CASE Backfill
  <2> DEFINE lo == script.at - Window
             hi == script.at - 1
             days == {Midnight(h) : h \in lo..hi}
  <2>1. lo \in Nat /\ hi \in 0..MaxNow /\ hi <= now /\ lo <= hi
    BY <1>1, Bounds
  <2>2. lo..hi \subseteq 0..MaxNow
    BY <2>1, Bounds
  <2>3. \A h \in days : h \in Nat /\ h <= hi
    <3>1. \A g \in lo..hi : Midnight(g) \in Nat /\ Midnight(g) <= g /\ g <= hi /\ g \in Nat
      BY <2>1, MidnightBefore
    <3>2. hi \in Nat
      BY <2>1
    <3> HIDE DEF lo, hi
    <3> QED
      BY <3>1, <3>2
  <2>4. rows' = [t \in Tables |-> At(IF t = "power" THEN days ELSE lo..hi)]
    BY <1>2 DEF Backfill
  <2>5. hi \in Hours /\ hi <= now /\ lo..hi \subseteq Hours
    BY <2>1, <2>2, Bounds
  <2> HIDE DEF lo, hi, days
  <2> QED
    BY <2>1, <2>3, <2>4, <2>5
<1>3. CASE Seed
  <2> DEFINE lo == script.at - Window + 1
             hi == script.at
             days == {h \in lo..hi : (script.at - h) % DayHours = 0}
  <2>1. lo \in Nat /\ hi \in 0..MaxNow /\ hi <= now /\ lo <= hi
    BY <1>1, Bounds
  <2>2. lo..hi \subseteq 0..MaxNow
    BY <2>1, Bounds
  <2>3. \A h \in days : h \in Nat /\ h <= hi
    BY <2>1
  <2>4. rows' = [t \in Tables |-> At(IF t = "power" THEN days ELSE lo..hi)]
    BY <1>3 DEF Seed
  <2>5. hi \in Hours /\ hi <= now /\ lo..hi \subseteq Hours
    BY <2>1, <2>2, Bounds
  <2> HIDE DEF lo, hi, days
  <2> QED
    BY <2>1, <2>3, <2>4, <2>5
<1> QED
  BY <1>2, <1>3

LEMMA DatasetInterval ==
  ASSUME BaseInv, Backfill \/ Seed
  PROVE  IntervalInv'
<1>1. PICK lo \in Nat, hi \in Hours, days \in SUBSET Nat :
          /\ lo <= hi /\ lo..hi \subseteq Hours
          /\ \A h \in days : h <= hi
          /\ rows' = [t \in Tables |-> At(IF t = "power" THEN days ELSE lo..hi)]
  BY Dataset
<1>2. hi \in Nat
  BY Bounds
<1>3. \A t \in EnergyTables, h \in Hours : rows'[t][h] = IF h \in lo..hi THEN 1 ELSE 0
  BY <1>1 DEF EnergyTables, Tables, At
<1>4. \A h \in Hours : rows'["power"][h] = IF h \in days THEN 1 ELSE 0
  BY <1>1 DEF Tables, At
<1>5. \A t \in EnergyTables : Has(t)' = lo..hi
  BY <1>1, <1>3 DEF Has, Filled
<1>6. \A h \in Has("power")' : h \in days
  BY <1>4 DEF Has, Filled
<1>7. \A t \in Tables, h \in Hours : rows'[t][h] <= 1
  BY <1>3, <1>4 DEF Tables, EnergyTables
<1>8. Has("imported")' = lo..hi
  BY <1>5 DEF EnergyTables
<1>9. \A h \in Has("power")' : \E g \in Has("imported")' : h <= g
  <2>1. hi \in lo..hi
    BY <1>1, <1>2
  <2> QED
    BY <1>1, <1>6, <1>8, <2>1
<1>10. \A g, h \in lo..hi : g..h \subseteq lo..hi
  BY <1>2
<1> QED
  BY <1>5, <1>7, <1>8, <1>9, <1>10 DEF IntervalInv

(* What the COMMIT of a demo.generate adds comes after all that is there.  *)
NewHours == job.at..(job.at + Days * DayHours - 1)
NewDays == {job.at + d * DayHours : d \in 0..(Days - 1)}
Added(t) == IF t = "power" THEN NewDays ELSE NewHours

LEMMA GenerateAdds ==
  ASSUME BaseInv, IntervalInv, NextInv, Commit, job.task = "generate"
  PROVE  /\ job.at \in Nat /\ NewDays \subseteq NewHours
         /\ \A t \in Tables : \A h \in Has(t) : h < job.at
         /\ Has("imported") # {} => job.at > 0 /\ job.at - 1 \in Has("imported")
         /\ \A t \in Tables, h \in Hours :
                rows'[t][h] = rows[t][h] + IF h \in Added(t) THEN 1 ELSE 0
         /\ \A t \in Tables : Has(t)' = Has(t) \union (Added(t) \intersect Hours)
<1>1. /\ job.step = 6 /\ job \in Jobs /\ job.at \in Nat /\ Apply(job)
      /\ Committable(job) /\ TypeOK
  BY JobCommittable DEF Commit, BaseInv, TypeOK, Jobs
<1>2. NewDays \subseteq NewHours
  BY <1>1, DayStarts DEF NewDays, NewHours
<1>3. \A t \in Tables, h \in Hours :
          rows'[t][h] = rows[t][h] + IF h \in Added(t) THEN 1 ELSE 0
  <2>1. \A t \in Tables, h \in Hours :
            rows'[t][h] = rows[t][h] + Generated(job.at)[t][h]
    BY <1>1, ApplyFacts
  <2>2. \A t \in Tables : Generated(job.at)[t] = At(Added(t))
    BY DEF Generated, Added, NewDays, NewHours
  <2> QED
    BY <2>1, <2>2 DEF At
<1>4. /\ \A h \in Has("imported") : h < job.at
      /\ Has("imported") # {} => job.at > 0 /\ job.at - 1 \in Has("imported")
  BY <1>1 DEF NextInv
<1>5. \A t \in Tables : \A h \in Has(t) : h < job.at
  <2>1. \A t \in EnergyTables : Has(t) \subseteq Has("imported")
    BY DEF IntervalInv
  <2>2. ASSUME NEW h \in Has("power") PROVE h < job.at
    <3>1. PICK g \in Has("imported") : h <= g
      BY DEF IntervalInv
    <3>2. g \in Nat /\ h \in Nat /\ g < job.at
      BY <1>4, RowsOf
    <3> QED
      BY <1>1, <3>1, <3>2
  <2> QED
    BY <1>4, <2>1, <2>2 DEF Tables, EnergyTables
<1>6. \A t \in Tables : Has(t)' = Has(t) \union (Added(t) \intersect Hours)
  <2> TAKE t \in Tables
  <2>1. \A h \in Hours : rows'[t][h] > 0 <=> h \in Has(t) \/ h \in Added(t)
    BY <1>3, RowsOf
  <2> QED
    BY <2>1, RowsOf DEF Has, Filled
<1> QED
  BY <1>1, <1>2, <1>3, <1>4, <1>5, <1>6

(* demo.generate appends right after the last reading.                     *)
LEMMA GenerateInterval ==
  ASSUME BaseInv, IntervalInv, NextInv, Commit, job.task = "generate"
  PROVE  IntervalInv'
<1> DEFINE first == job.at
           new == NewHours
           days == NewDays
           Add(t) == Added(t)
<1>1. first \in Nat
  BY GenerateAdds
<1>2. days \subseteq new
  BY GenerateAdds
<1>3. \A h \in new : h >= first
  BY <1>1 DEF NewHours
<1>5. /\ \A h \in Has("imported") : h < first
      /\ Has("imported") # {} => first > 0 /\ first - 1 \in Has("imported")
  BY GenerateAdds DEF Tables
<1>6. \A t \in Tables : \A h \in Has(t) : h < first
  BY GenerateAdds
<1>7. \A t \in Tables : \A h \in Add(t) : h >= first
  BY <1>2, <1>3 DEF Added
<1>8. \A t \in Tables, h \in Hours :
          rows'[t][h] = rows[t][h] + IF h \in Add(t) THEN 1 ELSE 0
  BY GenerateAdds
<1> HIDE DEF first, new, days, Add
<1>9. \A t \in Tables, h \in Hours : rows'[t][h] <= 1
  <2> TAKE t \in Tables, h \in Hours
  <2>1. rows[t][h] \in Nat /\ rows[t][h] <= 1 /\ h \in Nat
    BY RowsOf DEF IntervalInv
  <2>2. h \in Add(t) => rows[t][h] = 0
    <3>1. h \in Add(t) => h \notin Has(t)
      BY <1>1, <1>6, <1>7, <2>1
    <3> QED
      BY <2>1, <3>1, RowsOf
  <2> QED
    BY <1>8, <2>1, <2>2
<1>10. \A t \in Tables : Has(t)' = Has(t) \union (Add(t) \intersect Hours)
  BY GenerateAdds DEF Add
<1>11. \A t \in EnergyTables : t \in Tables /\ Add(t) = new
  BY DEF EnergyTables, Tables, Add, Added, new
<1>12. Add("power") = days /\ "power" \in Tables /\ "imported" \in EnergyTables
  BY DEF Tables, Add, Added, days, EnergyTables
<1>13. Has("imported")' = Has("imported") \union (new \intersect Hours)
  BY <1>10, <1>11, <1>12
<1>14. ASSUME NEW t \in EnergyTables
       PROVE  /\ Has(t)' \subseteq Has("imported")'
              /\ \A g \in Has(t)', h \in Has("imported")' : g <= h => h \in Has(t)'
  <2>1. Has(t)' = Has(t) \union (new \intersect Hours) /\ Has(t) \subseteq Has("imported")
    BY <1>10, <1>11 DEF IntervalInv
  <2>2. ASSUME NEW g \in Has(t)', NEW h \in Has("imported")', g <= h, h \notin new
        PROVE  h \in Has(t)'
    <3>1. h \in Has("imported") /\ h < first /\ h \in Nat
      BY <1>5, <1>13, <2>2, RowsOf
    <3>2. g \notin new
      <4>1. g \in Nat
        BY <2>1, RowsOf
      <4> QED
        BY <1>1, <1>3, <2>2, <3>1, <4>1 DEF first, new, NewHours
    <3> QED
      BY <2>1, <2>2, <3>1, <3>2 DEF IntervalInv
  <2>3. ASSUME NEW h \in Has("imported")', h \in new PROVE h \in Has(t)'
    BY <1>13, <2>1, <2>3, RowsOf
  <2> QED
    BY <1>13, <2>1, <2>2, <2>3
<1>15. \A g, h \in Has("imported")' : g..h \subseteq Has("imported")'
  <2> SUFFICES ASSUME NEW g \in Has("imported")', NEW h \in Has("imported")',
                      NEW x \in g..h
               PROVE  x \in Has("imported")'
    OBVIOUS
  <2>1. g \in Hours /\ h \in Hours /\ g \in Nat /\ h \in Nat /\ x \in Nat
    BY <1>13, RowsOf
  <2>2. x \in Hours
    BY <2>1, Bounds
  <2>3. CASE x < first
    <3>1. g \in Has("imported")
      BY <1>1, <1>3, <1>13, <2>1, <2>3 DEF first, new, NewHours
    <3>2. first - 1 \in Has("imported")
      BY <1>5, <3>1
    <3>3. x \in g..(first - 1)
      BY <1>1, <2>1, <2>3
    <3> QED
      BY <1>13, <3>1, <3>2, <3>3 DEF IntervalInv
  <2>4. CASE x >= first
    <3>1. h \in new
      <4>1. h >= first
        BY <1>1, <2>1, <2>4
      <4> QED
        BY <1>1, <1>5, <1>13, <2>1, <4>1
    <3>2. x \in new
      <4>1. Days * DayHours \in Nat
        BY Bounds
      <4> QED
        BY <1>1, <2>1, <2>4, <3>1, <4>1 DEF new, NewHours, first
    <3> QED
      BY <1>13, <2>2, <3>2
  <2> QED
    BY <1>1, <2>1, <2>3, <2>4
<1>16. \A h \in Has("power")' : \E g \in Has("imported")' : h <= g
  <2> SUFFICES ASSUME NEW h \in Has("power")' PROVE \E g \in Has("imported")' : h <= g
    OBVIOUS
  <2>1. CASE h \in Has("power")
    BY <1>13, <2>1 DEF IntervalInv
  <2>2. CASE h \in days /\ h \in Hours
    <3>1. h \in Has("imported")' /\ h \in Nat
      BY <1>2, <1>13, <2>2, RowsOf DEF days, new
    <3> QED
      BY <3>1
  <2> QED
    BY <1>10, <1>12, <2>1, <2>2
<1> QED
  BY <1>9, <1>14, <1>15, <1>16 DEF IntervalInv

(* demo.clean cuts each table at its cutoff, or leaves it and all that it  *)
(* has read before.                                                        *)
LEMMA CleanCuts ==
  ASSUME BaseInv, CutInv, Commit, job.task = "clean"
  PROVE  /\ \A t \in Tables : Has(t)' \in {Has(t), {h \in Has(t) : h > job.at}}
         /\ \A n \in 1..4 :
                \/ Has(CleanOrder[n])' = {h \in Has(CleanOrder[n]) : h > job.at}
                \/ \A m \in 1..n : Has(CleanOrder[m])' = Has(CleanOrder[m])
         /\ \A t \in Tables, h \in Hours : rows'[t][h] <= rows[t][h]
<1>1. /\ job.step = 6 /\ job \in Jobs /\ job.at \in Nat /\ Apply(job)
      /\ Committable(job) /\ TypeOK
  BY JobCommittable DEF Commit, BaseInv, TypeOK, Jobs
<1>2. \A t \in Tables, h \in Hours :
          rows'[t][h] = rows[t][h] - job.got[t][h] /\ job.got[t][h] \in Nat
  BY <1>1, ApplyFacts DEF Jobs, Series
<1>3. \A n \in 1..4 : CleanOrder[n] \in Tables
  BY DEF CleanOrder, Energy, Tables
<1>4. ASSUME NEW t \in Tables, job.got[t] = Old(t)
      PROVE  Has(t)' = {h \in Has(t) : h > job.at}
  <2>1. \A h \in Hours : rows'[t][h] = IF h <= job.at THEN 0 ELSE rows[t][h]
    BY <1>2, <1>4, RowsOf DEF Old
  <2>2. \A h \in Hours : rows'[t][h] > 0 <=> h > job.at /\ rows[t][h] > 0
    BY <1>1, <2>1, RowsOf
  <2> QED
    BY <2>2 DEF Has, Filled
<1>5. ASSUME NEW t \in Tables, job.got[t] = NoRows
      PROVE  Has(t)' = Has(t)
  <2>1. \A h \in Hours : rows'[t][h] = rows[t][h]
    BY <1>2, <1>5, RowsOf DEF NoRows
  <2> QED
    BY <2>1 DEF Has, Filled
<1>6. ASSUME NEW n \in 1..4
      PROVE  \/ job.got[CleanOrder[n]] = Old(CleanOrder[n])
             \/ \A m \in 1..n : job.got[CleanOrder[m]] = NoRows
  <2>1. Passed(n)
    BY <1>1 DEF Passed, CutInv
  <2> QED
    BY <2>1 DEF CutInv
<1>7. ASSUME NEW n \in 1..4
      PROVE  \/ Has(CleanOrder[n])' = {h \in Has(CleanOrder[n]) : h > job.at}
             \/ \A m \in 1..n : Has(CleanOrder[m])' = Has(CleanOrder[m])
  <2>1. CASE job.got[CleanOrder[n]] = Old(CleanOrder[n])
    <3>1. Has(CleanOrder[n])' = {h \in Has(CleanOrder[n]) : h > job.at}
      BY <1>3, <1>4, <2>1
    <3> QED
      BY <3>1
  <2>2. CASE \A m \in 1..n : job.got[CleanOrder[m]] = NoRows
    <3>1. ASSUME NEW m \in 1..n PROVE Has(CleanOrder[m])' = Has(CleanOrder[m])
      <4>1. m \in 1..4
        OBVIOUS
      <4> QED
        BY <1>3, <1>5, <2>2, <4>1
    <3> QED
      BY <3>1
  <2> QED
    BY <1>6, <2>1, <2>2
<1>8. ASSUME NEW t \in Tables
      PROVE  Has(t)' \in {Has(t), {h \in Has(t) : h > job.at}}
  <2>1. PICK n \in 1..4 : t = CleanOrder[n]
    BY DEF CleanOrder, Energy, Tables
  <2>2. n \in 1..n
    OBVIOUS
  <2> QED
    BY <1>6, <1>4, <1>5, <2>1, <2>2
<1>9. \A t \in Tables, h \in Hours : rows'[t][h] <= rows[t][h]
  BY <1>2, RowsOf
<1> QED
  BY <1>7, <1>8, <1>9

LEMMA CleanInterval ==
  ASSUME BaseInv, IntervalInv, CutInv, Commit, job.task = "clean"
  PROVE  IntervalInv'
<1> DEFINE Cut(t) == Has(t)' = {h \in Has(t) : h > job.at}
           Whole(t) == Has(t)' = Has(t)
<1>1. job.at \in Nat
  BY DEF BaseInv, TypeOK, Jobs
<1>2. \A n \in 1..4 : Cut(CleanOrder[n]) \/ \A m \in 1..n : Whole(CleanOrder[m])
  BY CleanCuts
<1>3. Cut("imported") \/ Whole("imported")
  BY CleanCuts DEF Tables
<1>4. \A t \in Tables \ {"imported"} : Cut(t) \/ (Whole(t) /\ Whole("imported"))
  <2>1. CleanOrder[1] = "imported" /\ CleanOrder[2] = "exported"
        /\ CleanOrder[3] = "reactive" /\ CleanOrder[4] = "power"
    BY DEF CleanOrder, Energy
  <2>2. ASSUME NEW n \in 1..4
        PROVE  Cut(CleanOrder[n]) \/ (Whole(CleanOrder[n]) /\ Whole(CleanOrder[1]))
    <3>1. 1 \in 1..n /\ n \in 1..n
      OBVIOUS
    <3> QED
      BY <1>2, <3>1
  <2> HIDE DEF Cut, Whole
  <2> QED
    BY <2>1, <2>2 DEF Tables
<1>5. \A t \in Tables : Has(t) \subseteq Nat
  BY RowsOf
<1>6. \A t \in Tables, h \in Hours : rows'[t][h] <= 1
  <2> TAKE t \in Tables, h \in Hours
  <2>1. rows[t][h] \in Nat /\ rows[t][h] <= 1
    BY RowsOf DEF IntervalInv
  <2>2. rows'[t][h] <= rows[t][h]
    BY CleanCuts
  <2>3. rows'[t][h] \in Nat
    <3>1. TypeOK'
      BY TypeStep DEF Next
    <3> QED
      BY <3>1 DEF TypeOK, Series
  <2> QED
    BY <2>1, <2>2, <2>3
<1>7. ASSUME NEW t \in EnergyTables
      PROVE  /\ Has(t)' \subseteq Has("imported")'
             /\ \A g \in Has(t)', h \in Has("imported")' : g <= h => h \in Has(t)'
  <2>1. /\ Has(t) \subseteq Has("imported")
        /\ \A g \in Has(t), h \in Has("imported") : g <= h => h \in Has(t)
    BY DEF IntervalInv
  <2>2. CASE t = "imported"
    BY <2>2
  <2>3. CASE t # "imported"
    <3>1. t \in Tables \ {"imported"} /\ "imported" \in Tables
      BY <2>3 DEF Tables, EnergyTables
    <3>2. CASE Cut(t) /\ Cut("imported")
      BY <1>1, <1>5, <2>1, <3>1, <3>2
    <3>3. CASE Cut(t) /\ Whole("imported")
      <4>1. ASSUME NEW g \in Has(t)', NEW h \in Has("imported")', g <= h
            PROVE  h \in Has(t)'
        <5>1. g \in Has(t) /\ g > job.at /\ h \in Has("imported")
          BY <3>3, <4>1
        <5>2. h \in Has(t) /\ h \in Nat /\ g \in Nat
          BY <1>5, <2>1, <3>1, <4>1, <5>1
        <5>3. h > job.at
          BY <1>1, <4>1, <5>1, <5>2
        <5> QED
          BY <3>3, <5>2, <5>3
      <4> QED
        BY <2>1, <3>3, <4>1
    <3>4. CASE Whole(t) /\ Whole("imported")
      BY <2>1, <3>4
    <3> QED
      BY <1>3, <1>4, <3>1, <3>2, <3>3, <3>4
  <2> QED
    BY <2>2, <2>3
<1>8. \A g, h \in Has("imported")' : g..h \subseteq Has("imported")'
  <2>1. \A g, h \in Has("imported") : g..h \subseteq Has("imported")
    BY DEF IntervalInv
  <2>2. CASE Whole("imported")
    BY <2>1, <2>2
  <2>3. CASE Cut("imported")
    <3> SUFFICES ASSUME NEW g \in Has("imported")', NEW h \in Has("imported")',
                        NEW x \in g..h
                 PROVE  x \in Has("imported")'
      OBVIOUS
    <3>1. g \in Has("imported") /\ h \in Has("imported") /\ g > job.at
      BY <2>3
    <3>2. x \in Has("imported") /\ g \in Nat /\ x \in Nat /\ x >= g
      BY <1>5, <2>1, <3>1 DEF Tables
    <3>3. x > job.at
      BY <1>1, <3>1, <3>2
    <3> QED
      BY <2>3, <3>2, <3>3
  <2> QED
    BY <1>3, <2>2, <2>3
<1>9. ASSUME NEW h \in Has("power")'
      PROVE  \E g \in Has("imported")' : h <= g
  <2>1. "power" \in Tables \ {"imported"} /\ "imported" \in Tables
    BY DEF Tables
  <2>2. h \in Has("power") /\ (Cut("power") => h > job.at)
    BY <1>4, <1>9, <2>1
  <2>3. PICK g \in Has("imported") : h <= g
    BY <2>2 DEF IntervalInv
  <2>4. h \in Nat /\ g \in Nat
    BY <1>5, <2>1, <2>2
  <2>5. g \in Has("imported")'
    BY <1>1, <1>3, <1>4, <2>1, <2>2, <2>3, <2>4
  <2> QED
    BY <2>3, <2>5
<1> QED
  BY <1>6, <1>7, <1>8, <1>9 DEF IntervalInv

LEMMA IntervalStep ==
  ASSUME BaseInv, IntervalInv, NextInv, CutInv, [Next]_vars, ~late'
  PROVE  IntervalInv'
<1>1. CASE UNCHANGED rows
  BY <1>1 DEF IntervalInv, Has
<1>2. CASE Backfill \/ Seed
  BY <1>2, DatasetInterval
<1>3. CASE Commit
  <2>1. Committable(job) /\ TypeOK /\ Apply(job)
    BY <1>3, JobCommittable DEF Commit, BaseInv
  <2>2. job.task = "refresh" => rows' = rows
    BY <2>1, ApplyFacts
  <2> QED
    BY <1>1, <1>3, <2>1, <2>2, GenerateInterval, CleanInterval DEF Committable, Kinds
<1>4. ~OrphanCommit
  BY DEF OrphanCommit
<1>5. Reads => UNCHANGED rows
  BY ReadFacts DEF World
<1> QED
  BY <1>1, <1>2, <1>3, <1>4, <1>5, QuietReadings, RestartedRun DEF Next, Reads

-----------------------------------------------------------------------------
(* What generate and clean know.                                           *)
LEMMA NextStep ==
  ASSUME BaseInv, NextInv, [Next]_vars, ~late'
  PROVE  NextInv'
<1>1. job \in Jobs /\ now \in Nat /\ rows["imported"] \in Series
  BY DEF BaseInv, TypeOK, Tables
<1>2. CASE UNCHANGED <<rows, job>>
  BY <1>2 DEF NextInv, Has
<1>3. CASE job'.step # 6 \/ job'.task # "generate"
  BY <1>3 DEF NextInv
<1>4. CASE Backfill \/ Seed
  <2>1. job' = job /\ ~site /\ RunOK(job)
    BY <1>4, ScriptFacts DEF Backfill, Seed, Commits, BaseInv, RunsInv
  <2> QED
    BY <1>3, <2>1 DEF RunOK
<1>5. CASE GenerateLast
  <2>1. rows' = rows
    BY <1>5 DEF GenerateLast, Proceed, World
  <2>2. job'.at = 1 + IF Filled(rows["imported"]) = {} THEN now
                      ELSE Last(rows["imported"])
    BY <1>1, <1>5 DEF GenerateLast, Proceed, Jobs
  <2>3. CASE Has("imported") = {}
    BY <2>1, <2>3 DEF NextInv, Has
  <2>4. CASE Has("imported") # {}
    <3>1. /\ Last(rows["imported"]) \in Has("imported")
          /\ \A h \in Has("imported") : h <= Last(rows["imported"])
      BY <1>1, <2>4, LastIsGreatest DEF Has
    <3>2. job'.at = 1 + Last(rows["imported"])
      BY <2>2, <2>4 DEF Has
    <3>3. Last(rows["imported"]) \in Nat /\ Has("imported") \subseteq Nat
      BY <3>1, RowsOf
    <3>4. /\ job'.at > 0 /\ job'.at - 1 = Last(rows["imported"])
          /\ \A h \in Has("imported") : h < job'.at
      BY <3>1, <3>2, <3>3
    <3>5. Has("imported")' = Has("imported")
      BY <2>1 DEF Has
    <3> QED
      BY <3>1, <3>4, <3>5 DEF NextInv
  <2> QED
    BY <2>3, <2>4
<1>6. ASSUME GenerateMeters PROVE job'.step # 6
  <2>1. CASE site
    BY <1>1, <1>6, <2>1 DEF GenerateMeters, Proceed, Jobs
  <2>2. CASE ~site
    BY <1>6, <2>2 DEF GenerateMeters, Finish, NoJob
  <2> QED
    BY <2>1, <2>2
<1>7. ASSUME Refresh \/ Clean PROVE job'.task # "generate"
  <2>1. job.task # "generate"
    BY <1>7 DEF Refresh, Clean, RefreshStart, RefreshAggregate, RefreshSites,
       RefreshExisting, CleanStart, CleanTable, Running
  <2> QED
    BY <1>7, <2>1, ReadFacts DEF Reads
<1>8. ASSUME Commit PROVE job'.step # 6
  BY <1>1, <1>8 DEF Commit, Jobs
<1>9. ~OrphanCommit
  BY DEF OrphanCommit
<1> QED
  BY <1>2, <1>3, <1>4, <1>5, <1>6, <1>7, <1>8, <1>9, QuietReadings, RestartedRun
  DEF Next, Generate

LEMMA CleanTableFacts ==
  ASSUME BaseInv, NEW n \in 1..4, CleanTable(n)
  PROVE  /\ rows' = rows /\ job'.at = job.at /\ UNCHANGED <<late, torn>>
         /\ job.task = "clean" /\ job.step = n
         /\ job'.got[CleanOrder[n]] = Old(CleanOrder[n])
         /\ \A m \in 1..4 : m # n => job'.got[CleanOrder[m]] = job.got[CleanOrder[m]]
         /\ \A m \in 1..4 : Passed(m)' => m = n \/ (m < n /\ Passed(m))
         /\ \A t : Old(t)' = Old(t)
<1>1. job \in Jobs /\ job.got \in [Tables -> Series]
  BY DEF BaseInv, TypeOK, Jobs
<1>2. CleanOrder[1] = "imported" /\ CleanOrder[2] = "exported"
      /\ CleanOrder[3] = "reactive" /\ CleanOrder[4] = "power"
  BY DEF CleanOrder, Energy
<1>3. \A m \in 1..4 : CleanOrder[m] \in Tables /\ (m # n => CleanOrder[m] # CleanOrder[n])
  <2>1. \A k, m \in 1..4 : m # k => CleanOrder[m] # CleanOrder[k]
    BY <1>2
  <2> QED
    BY <1>2, <2>1 DEF Tables
<1>4. /\ rows' = rows /\ late' = late /\ torn' = torn
      /\ job.task = "clean" /\ job.step = n
      /\ job'.at = job.at /\ job'.task = "clean"
      /\ job'.step = IF n = 4 THEN 6 ELSE n + 1
      /\ job'.got = [job.got EXCEPT ![CleanOrder[n]] = Old(CleanOrder[n])]
  BY <1>1 DEF CleanTable, Running, Proceed, World, Jobs, Old
<1>5. /\ job'.got[CleanOrder[n]] = Old(CleanOrder[n])
      /\ \A m \in 1..4 : m # n => job'.got[CleanOrder[m]] = job.got[CleanOrder[m]]
  BY <1>1, <1>3, <1>4
<1>6. \A m \in 1..4 : Passed(m)' => m = n \/ (m < n /\ Passed(m))
  BY <1>4 DEF Passed
<1>7. \A t : Old(t)' = Old(t)
  BY <1>4 DEF Old
<1> QED
  BY <1>4, <1>5, <1>6, <1>7

LEMMA CutStep ==
  ASSUME BaseInv, CutInv, [Next]_vars, ~late'
  PROVE  CutInv'
<1>1. job \in Jobs
  BY DEF BaseInv, TypeOK
<1>2. CASE UNCHANGED <<rows, job>>
  BY <1>2 DEF CutInv, Passed, Old
<1>3. CASE job'.task # "clean" \/ job'.step \in {0, 1, 7}
  BY <1>3 DEF CutInv, Passed
<1>4. CASE Backfill \/ Seed
  <2>1. job' = job /\ rows = [t \in Tables |-> NoRows]
    BY <1>4, ScriptFacts DEF Backfill, Seed, Commits
  <2>2. \A n \in 1..4 : Old(CleanOrder[n]) = NoRows
    <3>1. \A t \in Tables, h \in Hours : rows[t][h] = 0
      BY <2>1 DEF NoRows
    <3>2. \A t \in Tables : Old(t) = NoRows
      BY <3>1 DEF Old, NoRows
    <3> QED
      BY <3>2 DEF CleanOrder, Energy, Tables
  <2>3. ASSUME NEW n \in 1..4, Passed(n)', NEW m \in 1..n
        PROVE  job'.got[CleanOrder[m]] = NoRows
    <3>1. m \in 1..4 /\ Passed(m) /\ m \in 1..m
      BY <1>1, <2>1, <2>3 DEF Passed, Jobs
    <3> QED
      BY <2>1, <2>2, <3>1 DEF CutInv
  <2> QED
    BY <2>3 DEF CutInv
<1>5. ASSUME CleanStart PROVE job'.step = 1
  BY <1>1, <1>5 DEF CleanStart, Proceed, Jobs
<1>6. ASSUME NEW n \in 1..4, CleanTable(n) PROVE CutInv'
  <2> SUFFICES ASSUME NEW k \in 1..4, Passed(k)'
               PROVE  \/ job'.got[CleanOrder[k]] = Old(CleanOrder[k])'
                      \/ \A m \in 1..k : job'.got[CleanOrder[m]] = NoRows
    BY DEF CutInv
  <2>1. CASE k = n
    BY <1>6, <2>1, CleanTableFacts
  <2>2. CASE k < n /\ Passed(k)
    <3>1. \A m \in 1..k : m \in 1..4 /\ m # n
      BY <2>2
    <3>2. \A m \in 1..k : job'.got[CleanOrder[m]] = job.got[CleanOrder[m]]
      BY <1>6, <3>1, CleanTableFacts
    <3>3. k \in 1..k
      OBVIOUS
    <3>4. Old(CleanOrder[k])' = Old(CleanOrder[k])
      BY <1>6, CleanTableFacts
    <3> QED
      BY <2>2, <3>2, <3>3, <3>4 DEF CutInv
  <2> QED
    BY <1>6, <2>1, <2>2, CleanTableFacts
<1>7. ASSUME Refresh \/ Generate PROVE job'.task # "clean"
  <2>1. job.task # "clean"
    BY <1>7 DEF Refresh, Generate, RefreshStart, RefreshAggregate, RefreshSites,
       RefreshExisting, GenerateMeters, GenerateLast, Running
  <2> QED
    BY <1>7, <2>1, ReadFacts DEF Reads
<1>8. ASSUME Commit PROVE job'.step = 7
  BY <1>1, <1>8 DEF Commit, Jobs
<1>9. ~OrphanCommit
  BY DEF OrphanCommit
<1> QED
  BY <1>2, <1>3, <1>4, <1>5, <1>6, <1>7, <1>8, <1>9, QuietReadings, RestartedRun
  DEF Next, Clean

LEMMA SeriesStep ==
  ASSUME BaseInv, SeriesInv, [Next]_vars
  PROVE  SeriesInv'
<1> SUFFICES ASSUME ~late' PROVE IntervalInv' /\ NextInv' /\ CutInv'
  BY DEF SeriesInv
<1>1. ~late
  <2>1. CASE OrphanCommit
    BY <2>1 DEF OrphanCommit
  <2>2. Reads => late' = late
    BY ReadFacts DEF World
  <2>3. Commit \/ Backfill \/ Seed => late' = late
    BY DEF Commit, Backfill, Seed, Commits, history
  <2> QED
    BY <2>1, <2>2, <2>3, QuietReadings, RestartedRun DEF Next, Reads
<1> QED
  BY <1>1, IntervalStep, NextStep, CutStep DEF SeriesInv

LEMMA SeriesHolds == Spec => [](BaseInv /\ SeriesInv)
<1>1. Init => BaseInv /\ SeriesInv
  <2> SUFFICES ASSUME Init PROVE SeriesInv
    BY InitBase
  <2>1. rows = [t \in Tables |-> NoRows] /\ job = NoJob
    BY DEF Init
  <2>2. \A t \in Tables, h \in Hours : rows[t][h] = 0
    BY <2>1 DEF NoRows
  <2>3. \A t \in Tables : Has(t) = {}
    BY <2>2 DEF Has, Filled
  <2>4. IntervalInv
    BY <2>2, <2>3 DEF IntervalInv, EnergyTables, Tables
  <2>5. NextInv /\ CutInv
    BY <2>1 DEF NextInv, CutInv, Passed, NoJob
  <2> QED
    BY <2>4, <2>5 DEF SeriesInv
<1>2. BaseInv /\ SeriesInv /\ [Next]_vars => (BaseInv /\ SeriesInv)'
  BY BaseStep, SeriesStep
<1> QED
  BY <1>1, <1>2, PTL DEF Spec

(* However often demo.generate and demo.clean run, are lost and run again, *)
(* the readings of a meter are one series without a gap or a second row    *)
(* for an hour, as long as no COMMIT arrives after its worker was lost.    *)
THEOREM OneSeriesPerMeter == Spec => []OneSeries
<1>1. ASSUME BaseInv, SeriesInv, ~late, NEW t \in Tables
      PROVE  /\ \A h \in Filled(rows[t]) : rows[t][h] = 1
             /\ t # "power" => \A g, h \in Filled(rows[t]) : g..h \subseteq Filled(rows[t])
  <2>1. IntervalInv
    BY <1>1 DEF SeriesInv
  <2>2. ASSUME NEW h \in Filled(rows[t]) PROVE rows[t][h] = 1
    <3>1. h \in Hours /\ rows[t][h] > 0
      BY DEF Filled
    <3>2. rows[t][h] \in Nat /\ rows[t][h] <= 1
      BY <1>1, <2>1, <3>1, RowsOf DEF IntervalInv
    <3> QED
      BY <3>1, <3>2
  <2>3. ASSUME t # "power", NEW g \in Has(t), NEW h \in Has(t), NEW x \in g..h
        PROVE  x \in Has(t)
    <3>1. t \in EnergyTables
      BY <2>3 DEF EnergyTables, Tables
    <3>2. g \in Has("imported") /\ h \in Has("imported")
      BY <2>1, <2>3, <3>1 DEF IntervalInv
    <3>3. x \in Has("imported")
      BY <2>1, <2>3, <3>2 DEF IntervalInv
    <3>4. g <= x
      BY <1>1, <2>3, RowsOf
    <3> QED
      BY <2>1, <3>1, <3>3, <3>4 DEF IntervalInv
  <2> QED
    BY <2>2, <2>3 DEF Has
<1>2. BaseInv /\ SeriesInv => OneSeries
  BY <1>1 DEF OneSeries
<1> QED
  BY <1>2, SeriesHolds, PTL

-----------------------------------------------------------------------------
(* The energy tables of a meter.                                           *)
LEMMA AlignedStep ==
  ASSUME BaseInv, AlignedInv, [Next]_vars
  PROVE  AlignedInv'
<1> SUFFICES ASSUME ~late', ~torn'
             PROVE  /\ \A t \in EnergyTables : rows'[t] = rows'["imported"]
                    /\ \A n \in 1..4 : Passed(n)' =>
                           job'.got[CleanOrder[n]] = Old(CleanOrder[n])'
  BY DEF AlignedInv
<1> DEFINE Goal == /\ \A t \in EnergyTables : rows'[t] = rows'["imported"]
                   /\ \A n \in 1..4 : Passed(n)' =>
                          job'.got[CleanOrder[n]] = Old(CleanOrder[n])'
<1>1. job \in Jobs /\ EnergyTables \subseteq Tables
  BY DEF BaseInv, TypeOK, EnergyTables, Tables
<1>2. ~late /\ ~torn
  <2>1. CASE OrphanCommit
    BY <2>1 DEF OrphanCommit
  <2>2. Reads => UNCHANGED <<late, torn>>
    BY ReadFacts DEF World
  <2>3. Commit => UNCHANGED <<late, torn>>
    BY DEF Commit, history
  <2>4. Backfill \/ Seed => late' = late /\ (torn => torn')
    BY DEF Backfill, Seed, Commits
  <2> QED
    BY <2>1, <2>2, <2>3, <2>4, QuietReadings, RestartedRun DEF Next, Reads
<1>3. /\ \A t \in EnergyTables : rows[t] = rows["imported"]
      /\ \A n \in 1..4 : Passed(n) => job.got[CleanOrder[n]] = Old(CleanOrder[n])
  BY <1>2 DEF AlignedInv
<1>4. ASSUME UNCHANGED <<rows, job>> PROVE Goal
  BY <1>3, <1>4 DEF Passed, Old
<1>5. ASSUME UNCHANGED rows, job'.task # "clean" \/ job'.step \in {0, 1, 7}
      PROVE  Goal
  BY <1>3, <1>5 DEF Passed
<1>6. ASSUME Backfill \/ Seed PROVE Goal
  <2>1. job' = job /\ ~(job.task = "clean" /\ job.step > 0)
    BY <1>6 DEF Backfill, Seed, Commits
  <2>2. \A n \in 1..4 : ~Passed(n)'
    BY <1>1, <2>1 DEF Passed, Jobs
  <2>3. PICK lo \in Nat, hi \in Hours, days \in SUBSET Nat :
            rows' = [t \in Tables |-> At(IF t = "power" THEN days ELSE lo..hi)]
    BY <1>6, Dataset
  <2>4. \A t \in EnergyTables : rows'[t] = At(lo..hi)
    BY <2>3 DEF EnergyTables, Tables
  <2>5. "imported" \in EnergyTables
    BY DEF EnergyTables
  <2> QED
    BY <2>2, <2>4, <2>5
<1>7. ASSUME NEW n \in 1..4, CleanTable(n) PROVE Goal
  <2>1. ASSUME NEW k \in 1..4, Passed(k)'
        PROVE  job'.got[CleanOrder[k]] = Old(CleanOrder[k])'
    <3>1. CASE k = n
      BY <1>7, <3>1, CleanTableFacts
    <3>2. CASE k # n /\ Passed(k)
      BY <1>3, <1>7, <3>2, CleanTableFacts
    <3> QED
      BY <1>7, <2>1, <3>1, <3>2, CleanTableFacts
  <2>2. rows' = rows
    BY <1>7, CleanTableFacts
  <2> QED
    BY <1>3, <2>1, <2>2
<1>8. ASSUME Commit PROVE Goal
  <2>1. /\ job'.step = 7 /\ job.step = 6 /\ Committable(job) /\ Apply(job) /\ TypeOK
    BY <1>1, <1>8, JobCommittable DEF Commit, Jobs, BaseInv
  <2>2. \A n \in 1..4 : ~Passed(n)'
    BY <2>1 DEF Passed
  <2>3. "imported" \in Tables /\ "imported" \in EnergyTables
    BY DEF Tables, EnergyTables
  <2>4. CASE job.task = "refresh"
    BY <1>3, <2>1, <2>2, <2>4, ApplyFacts
  <2>5. CASE job.task = "generate"
    <3>1. rows' = [t \in Tables |-> Plus(rows[t], Generated(job.at)[t])]
      BY <2>1, <2>5 DEF Apply
    <3>2. \A t \in EnergyTables : Generated(job.at)[t] = Generated(job.at)["imported"]
      BY DEF Generated, EnergyTables, Tables
    <3>3. \A t \in EnergyTables :
              rows'[t] = Plus(rows["imported"], Generated(job.at)["imported"])
      BY <1>1, <1>3, <3>1, <3>2
    <3> QED
      BY <2>2, <2>3, <3>3
  <2>6. CASE job.task = "clean"
    <3>1. rows' = [t \in Tables |-> Minus(rows[t], job.got[t])]
      BY <2>1, <2>6 DEF Apply
    <3>2. \A n \in 1..4 : job.got[CleanOrder[n]] = Old(CleanOrder[n])
      BY <1>3, <2>1, <2>6 DEF Passed
    <3>3. \A t \in EnergyTables : job.got[t] = Old(t)
      <4>1. \A t \in EnergyTables : \E n \in 1..4 : t = CleanOrder[n]
        BY DEF EnergyTables, CleanOrder, Energy
      <4> QED
        BY <3>2, <4>1
    <3>4. \A t \in EnergyTables : Old(t) = Old("imported")
      BY <1>3 DEF Old
    <3>5. \A t \in EnergyTables : rows'[t] = Minus(rows["imported"], Old("imported"))
      BY <1>1, <1>3, <3>1, <3>3, <3>4
    <3> QED
      BY <2>2, <2>3, <3>5
  <2> QED
    BY <2>1, <2>4, <2>5, <2>6 DEF Committable, Kinds
<1>9. ASSUME CleanStart PROVE UNCHANGED rows /\ job'.step = 1
  BY <1>1, <1>9 DEF CleanStart, Proceed, World, Jobs
<1>10. ASSUME Refresh \/ Generate PROVE UNCHANGED rows /\ job'.task # "clean"
  <2>1. job.task # "clean"
    BY <1>10 DEF Refresh, Generate, RefreshStart, RefreshAggregate, RefreshSites,
       RefreshExisting, GenerateMeters, GenerateLast, Running
  <2> QED
    BY <1>10, <2>1, ReadFacts DEF Reads, World
<1>11. ~OrphanCommit
  BY DEF OrphanCommit
<1> QED
  BY <1>4, <1>5, <1>6, <1>7, <1>8, <1>9, <1>10, <1>11, QuietReadings, RestartedRun
  DEF Next, Clean

(* The three energy tables of a meter cover the same hours, unless a COMMIT*)
(* was late or the dataset was committed between two deletes.              *)
THEOREM EnergyTablesAligned == Spec => []Aligned
<1>1. Init => BaseInv /\ AlignedInv
  <2> SUFFICES ASSUME Init PROVE AlignedInv
    BY InitBase
  <2>1. \A n \in 1..4 : ~Passed(n)
    BY DEF Init, Passed, NoJob
  <2>2. \A t \in EnergyTables : rows[t] = rows["imported"]
    BY DEF Init, EnergyTables, Tables
  <2> QED
    BY <2>1, <2>2 DEF AlignedInv
<1>2. BaseInv /\ AlignedInv /\ [Next]_vars => (BaseInv /\ AlignedInv)'
  BY BaseStep, AlignedStep
<1>3. AlignedInv => Aligned
  BY DEF AlignedInv, Aligned, EnergyTables, Energy
<1> QED
  BY <1>1, <1>2, <1>3, PTL DEF Spec

-----------------------------------------------------------------------------
(* The one cause of a late COMMIT is a lost worker: without one, what the  *)
(* theorems above say under ~late holds as it stands.                      *)
THEOREM LateNeedsALoss == Spec => [](losses = 0 => ~late)
<1> DEFINE Inv == losses = 0 => ~late /\ orphan = NoJob
<1>1. Init => Inv
  BY DEF Init
<1>2. BaseInv /\ Inv /\ [Next]_vars => Inv'
  <2> SUFFICES ASSUME BaseInv, Inv, [Next]_vars, losses' = 0
               PROVE  ~late' /\ orphan' = NoJob
    OBVIOUS
  <2>1. losses \in Nat
    BY DEF BaseInv, TypeOK
  <2>2. ~Lose
    BY <2>1 DEF Lose
  <2>3. Reads => UNCHANGED <<losses, late, orphan>>
    BY ReadFacts DEF World
  <2>4. ASSUME OrphanCommit PROVE FALSE
    BY <2>4 DEF OrphanCommit
  <2>5. ASSUME OrphanRollback PROVE FALSE
    BY <2>5 DEF OrphanRollback
  <2>6. ASSUME \/ Tick \/ \E kind \in {"backfill", "seed"} : ScriptStart(kind)
               \/ Backfill \/ Seed
               \/ \E task \in {"refresh", "generate", "clean"} : Begin(task)
               \/ Commit \/ Done \/ UNCHANGED vars
        PROVE  UNCHANGED <<losses, late, orphan>>
    BY <2>6 DEF Tick, ScriptStart, Backfill, Seed, Commits, Begin, Commit, Done,
       Finish, World, history, vars
  <2> QED
    BY <2>2, <2>3, <2>4, <2>5, <2>6 DEF Next, Reads
<1> QED
  BY <1>1, <1>2, BaseHolds, PTL DEF Spec

-----------------------------------------------------------------------------
(* No reading is beyond Hours: MaxNow, and a block for each run that has   *)
(* committed (Used) or may yet do so.                                      *)
LEMMA Blocks ==
  ASSUME NEW u \in Nat, NEW v \in Nat, u <= v
  PROVE  /\ Block \in Nat /\ u * Block \in Nat /\ v * Block \in Nat
         /\ u * Block <= v * Block
         /\ (u + 1) * Block = u * Block + Block
<1>1. Block \in Nat
  BY Bounds DEF Block
<1> HIDE DEF Block
<1>2. PICK d \in Nat : v = u + d
  <2>1. v - u \in Nat /\ v = u + (v - u)
    OBVIOUS
  <2> QED
    BY <2>1
<1>3. v * Block = u * Block + d * Block /\ d * Block \in Nat /\ u * Block \in Nat
  BY <1>1, <1>2
<1> QED
  BY <1>1, <1>3

LEMMA LastHour ==
  ASSUME NEW u \in Nat, u < MaxJobs + MaxLosses,
         NEW h \in Nat, h < MaxNow + u * Block + 1 + Block
  PROVE  h \in Hours
<1>1. MaxJobs + MaxLosses \in Nat /\ MaxNow \in Nat
  BY ReadingsAssumption
<1>2. /\ u * Block \in Nat /\ (u + 1) * Block = u * Block + Block /\ Block \in Nat
      /\ (u + 1) * Block <= (MaxJobs + MaxLosses) * Block
      /\ (MaxJobs + MaxLosses) * Block \in Nat
  <2>1. u + 1 \in Nat /\ u + 1 <= MaxJobs + MaxLosses /\ u <= u + 1
    BY <1>1
  <2> QED
    BY <1>1, <2>1, Blocks
<1>3. (MaxJobs + MaxLosses) * Block = (MaxJobs + MaxLosses) * Days * DayHours
  <2>1. MaxJobs + MaxLosses \in Nat /\ Days \in Nat /\ DayHours \in Nat
    BY <1>1, Bounds
  <2> QED
    BY <2>1 DEF Block
<1> QED
  BY <1>1, <1>2, <1>3 DEF Hours

(* Used never goes back, and a COMMIT uses up one run: a loss puts its run *)
(* back among the pending ones, beside the orphan it may leave.            *)
LEMMA UsedStep ==
  ASSUME BaseInv, ReachInv, [Next]_vars
  PROVE  /\ Used \in Nat /\ Used' \in Nat /\ Used <= Used'
         /\ jobs' <= MaxJobs /\ losses' <= MaxLosses /\ Pending' <= jobs' + losses'
         /\ Commit \/ OrphanCommit => Used' = Used + 1
<1>1. /\ jobs \in Nat /\ losses \in Nat /\ job \in Jobs /\ orphan \in Jobs
      /\ jobs <= MaxJobs /\ losses <= MaxLosses /\ Pending <= jobs + losses
      /\ MaxJobs \in Nat /\ MaxLosses \in Nat
      /\ job.task = "none" => job.step = 0
      /\ NoJob.task = "none"
  BY ReadingsAssumption DEF BaseInv, TypeOK, ReachInv, RunsInv, NoJob
<1>2. jobs' \in Nat /\ losses' \in Nat
  BY TypeStep DEF TypeOK
<1>3. PICK p \in 0..1, q \in 0..1, p1 \in 0..1, q1 \in 0..1 :
          /\ p = JobPending /\ q = OrphanPending
          /\ p1 = JobPending' /\ q1 = OrphanPending'
  BY DEF JobPending, OrphanPending
<1>4. Pending = p + q /\ Pending' = p1 + q1
  BY <1>3 DEF Pending
<1> DEFINE Earlier == jobs + losses + p1 + q1
           Later == jobs' + losses' + p + q
           Advance == Earlier <= Later /\ jobs' <= MaxJobs /\ losses' <= MaxLosses
<1>6. ASSUME Commit PROVE Earlier + 1 = Later /\ Advance
  <2>1. UNCHANGED <<jobs, losses, orphan>> /\ JobPending' = 0 /\ JobPending = 1
    BY <1>1, <1>6 DEF Commit, Jobs, JobPending
  <2>2. OrphanPending' = OrphanPending
    BY <2>1 DEF OrphanPending
  <2> QED
    BY <1>1, <1>3, <2>1, <2>2
<1>7. ASSUME OrphanCommit PROVE Earlier + 1 = Later /\ Advance
  <2>1. UNCHANGED <<jobs, losses, job>> /\ OrphanPending' = 0 /\ OrphanPending = 1
    BY <1>7 DEF OrphanCommit, OrphanPending
  <2>2. JobPending' = JobPending
    BY <2>1 DEF JobPending
  <2> QED
    BY <1>1, <1>3, <2>1, <2>2
<1>8. ASSUME UNCHANGED <<jobs, losses, orphan>>, JobPending' = 0 \/ JobPending = 1
      PROVE  Advance
  <2>1. OrphanPending' = OrphanPending
    BY <1>8 DEF OrphanPending
  <2>2. q1 = q /\ (p1 = 0 \/ p = 1)
    BY <1>3, <1>8, <2>1
  <2> QED
    BY <1>1, <1>8, <2>2
<1>9. ASSUME UNCHANGED <<jobs, losses, job>>, orphan' \in {orphan, NoJob} PROVE Advance
  <2>1. JobPending' = JobPending /\ (OrphanPending' = 0 \/ OrphanPending' = OrphanPending)
    BY <1>9 DEF JobPending, OrphanPending
  <2>2. p1 = p /\ (q1 = 0 \/ q1 = q)
    BY <1>3, <2>1
  <2> QED
    BY <1>1, <1>9, <2>2
<1>10. ASSUME NEW task \in Kinds, Begin(task) PROVE Advance
  <2>1. jobs' = jobs + 1 /\ jobs' <= MaxJobs /\ UNCHANGED <<losses, orphan>>
    BY <1>1, <1>10 DEF Begin
  <2>2. OrphanPending' = OrphanPending
    BY <2>1 DEF OrphanPending
  <2>3. q1 = q
    BY <1>3, <2>2
  <2> QED
    BY <1>1, <2>1, <2>3
<1>11. ASSUME Lose PROVE Advance
  <2>1. jobs' = jobs /\ losses' = losses + 1 /\ losses' <= MaxLosses
    BY <1>1, <1>11 DEF Lose
  <2>2. orphan' = orphan \/ (job.task # "none" /\ job.step = 6)
    BY <1>11 DEF Lose
  <2>3. OrphanPending' = OrphanPending \/ JobPending = 1
    BY <2>2 DEF JobPending, OrphanPending
  <2>4. q1 = q \/ p = 1
    BY <1>3, <2>3
  <2> QED
    BY <1>1, <2>1, <2>4
<1>12. ASSUME Reads PROVE UNCHANGED <<jobs, losses, orphan>> /\ JobPending = 1
  <2>1. UNCHANGED <<jobs, losses, orphan>> /\ job.task # "none"
    BY <1>12, ReadFacts DEF World
  <2>2. job.step < 6
    BY <1>12 DEF Reads, Refresh, Generate, Clean, RefreshStart, RefreshAggregate,
       RefreshSites, RefreshExisting, GenerateMeters, GenerateLast, CleanStart,
       CleanTable, Running
  <2> QED
    BY <2>1, <2>2 DEF JobPending
<1>13. ASSUME Done PROVE UNCHANGED <<jobs, losses, orphan>> /\ JobPending' = 0
  BY <1>1, <1>13 DEF Done, Finish, World, JobPending
<1>14. ASSUME \/ Tick \/ \E kind \in {"backfill", "seed"} : ScriptStart(kind)
              \/ Backfill \/ Seed \/ OrphanRollback \/ UNCHANGED vars
       PROVE  UNCHANGED <<jobs, losses, job>> /\ orphan' \in {orphan, NoJob}
  BY <1>14 DEF Tick, ScriptStart, Backfill, Seed, Commits, OrphanRollback, vars
<1>15. Advance
  BY <1>6, <1>7, <1>8, <1>9, <1>10, <1>11, <1>12, <1>13, <1>14 DEF Next, Reads, Kinds
<1>16. PICK a \in Nat, b \in Nat : a = jobs + losses /\ b = jobs' + losses'
  <2>1. PICK m \in Nat, n \in Nat : m = jobs' /\ n = losses'
    BY <1>2
  <2>2. m + n \in Nat /\ jobs + losses \in Nat
    BY <1>1
  <2> QED
    BY <2>1, <2>2
<1>17. /\ p + q <= a /\ a + p1 + q1 <= b + p + q
       /\ Used = a - (p + q) /\ Used' = b - (p1 + q1)
  <2>1. jobs + losses + p1 + q1 = a + p1 + q1
    BY <1>16
  <2>2. jobs' + losses' + p + q = b + p + q
    BY <1>16
  <2>3. a + p1 + q1 <= b + p + q
    BY <1>15, <2>1, <2>2
  <2>4. p + q <= a
    BY <1>1, <1>4, <1>16
  <2>5. Used = a - (p + q)
    BY <1>4, <1>16 DEF Used
  <2>6. Used' = b - (p1 + q1)
    BY <1>4, <1>16 DEF Used
  <2> QED
    BY <2>3, <2>4, <2>5, <2>6
<1>18. /\ a - (p + q) \in Nat /\ b - (p1 + q1) \in Nat
       /\ a - (p + q) <= b - (p1 + q1) /\ p1 + q1 <= b
  <2>1. p + q <= a /\ a + p1 + q1 <= b + p + q
    BY <1>17
  <2> QED
    BY <2>1
<1>19. Used \in Nat /\ Used' \in Nat /\ Used <= Used' /\ Pending' <= jobs' + losses'
  BY <1>4, <1>16, <1>17, <1>18
<1>20. ASSUME Commit \/ OrphanCommit PROVE Used' = Used + 1
  <2>1. Earlier + 1 = Later
    BY <1>6, <1>7, <1>20
  <2>2. a + p1 + q1 + 1 = b + p + q
    BY <1>16, <2>1
  <2>3. b - (p1 + q1) = a - (p + q) + 1
    BY <2>2
  <2> QED
    BY <1>17, <2>3
<1> QED
  BY <1>15, <1>19, <1>20

(* A COMMIT reaches a block further at most.                               *)
LEMMA CommitReach ==
  ASSUME BaseInv, ReachInv, NEW j, Committable(j), Apply(j), Used \in Nat,
         j.task = "generate" => j.at <= Reach + 1,
         NEW t \in Tables, NEW h \in Has(t)'
  PROVE  h <= Reach + Block
<1>1. /\ Reach \in Nat /\ Block \in Nat
      /\ rows \in [Tables -> Series] /\ rows' \in [Tables -> Series]
      /\ h \in Hours /\ h \in Nat /\ rows'[t][h] > 0 /\ TypeOK /\ j \in Jobs
      /\ j.at \in Nat /\ j.got \in [Tables -> Series]
  <2>1. Reach \in Nat /\ Block \in Nat
    <3>1. Used * Block \in Nat /\ Block \in Nat
      BY Blocks
    <3> QED
      BY <3>1, Bounds DEF Reach
  <2>2. rows' \in [Tables -> Series] /\ h \in Hours /\ h \in Nat
    BY ApplyFacts, Bounds DEF BaseInv, Has, Filled
  <2>3. rows'[t][h] > 0
    BY DEF Has, Filled
  <2> QED
    BY <2>1, <2>2, <2>3 DEF BaseInv, TypeOK, Committable, Jobs
<1>2. h \in Has(t) => h <= Reach + Block
  <2>1. h \in Has(t) => h <= Reach
    BY DEF ReachInv, Reach
  <2> QED
    BY <1>1, <2>1
<1>3. rows[t][h] \in Nat /\ (rows[t][h] > 0 => h \in Has(t))
  BY <1>1 DEF Has, Filled, Series
<1>4. CASE j.task = "refresh"
  BY <1>1, <1>2, <1>3, <1>4, ApplyFacts
<1>5. CASE j.task = "clean"
  <2>1. rows'[t][h] = rows[t][h] - j.got[t][h] /\ j.got[t][h] \in Nat
    BY <1>1, <1>5, ApplyFacts DEF Series
  <2>2. rows[t][h] > 0
    BY <1>1, <1>3, <2>1
  <2> QED
    BY <1>2, <1>3, <2>2
<1>6. CASE j.task = "generate"
  <2>1. rows'[t][h] = rows[t][h] + Generated(j.at)[t][h]
    BY <1>1, <1>6, ApplyFacts
  <2> DEFINE new == j.at..(j.at + Days * DayHours - 1)
             days == {j.at + d * DayHours : d \in 0..(Days - 1)}
  <2>2. Generated(j.at)[t][h] = IF h \in (IF t = "power" THEN days ELSE new) THEN 1 ELSE 0
    BY <1>1 DEF Generated, At
  <2>3. days \subseteq new
    BY <1>1, DayStarts
  <2> HIDE DEF days, new
  <2>4. rows[t][h] > 0 \/ h \in new
    BY <1>1, <1>3, <2>1, <2>2, <2>3
  <2>5. h \in new => h <= j.at + Block - 1
    BY <1>1 DEF new, Block
  <2>6. h \in new => h <= Reach + Block
    BY <1>1, <1>6, <2>5
  <2> QED
    BY <1>2, <1>3, <2>4, <2>6
<1> QED
  BY <1>4, <1>5, <1>6 DEF Committable, Kinds

LEMMA ReachGrows ==
  ASSUME BaseInv, ReachInv, [Next]_vars
  PROVE  /\ Reach \in Nat /\ Reach' \in Nat /\ Block \in Nat
         /\ MaxNow <= Reach /\ Reach <= Reach'
         /\ Commit \/ OrphanCommit => Reach' = Reach + Block
<1>1. PICK u \in Nat, v \in Nat : u = Used /\ v = Used' /\ u <= v
  BY UsedStep
<1>2. /\ Block \in Nat /\ u * Block \in Nat /\ v * Block \in Nat
      /\ u * Block <= v * Block /\ (u + 1) * Block = u * Block + Block
  BY <1>1, Blocks
<1>3. Reach = MaxNow + u * Block /\ Reach' = MaxNow + v * Block
  BY <1>1 DEF Reach, Block
<1>4. Commit \/ OrphanCommit => v = u + 1
  BY <1>1, UsedStep
<1>5. MaxNow \in Nat
  BY Bounds
<1> HIDE DEF Block
<1>6. PICK x \in Nat, y \in Nat, b \in Nat :
          x = u * Block /\ y = v * Block /\ b = Block /\ x <= y
  BY <1>2
<1>7. Reach = MaxNow + x /\ Reach' = MaxNow + y
  BY <1>3, <1>6
<1>8. Commit \/ OrphanCommit => y = x + b
  BY <1>2, <1>4, <1>6
<1>9. MaxNow + x \in Nat /\ MaxNow + y \in Nat /\ MaxNow <= MaxNow + x
      /\ MaxNow + x <= MaxNow + y
      /\ (y = x + b => MaxNow + y = (MaxNow + x) + b)
  BY <1>5, <1>6
<1> QED
  BY <1>2, <1>6, <1>7, <1>8, <1>9

LEMMA RowsReach ==
  ASSUME BaseInv, ReachInv, [Next]_vars
  PROVE  \A t \in Tables : \A h \in Has(t)' : h <= Reach'
<1> SUFFICES ASSUME NEW t \in Tables, NEW h \in Has(t)' PROVE h <= Reach'
  OBVIOUS
<1>1. /\ Reach \in Nat /\ Reach' \in Nat /\ MaxNow <= Reach /\ Reach <= Reach'
      /\ h \in Nat /\ now \in Nat /\ MaxNow \in Nat /\ now <= MaxNow /\ Used \in Nat
  <2>1. /\ Reach \in Nat /\ Reach' \in Nat /\ MaxNow <= Reach /\ Reach <= Reach'
        /\ Used \in Nat
    BY ReachGrows, UsedStep
  <2>2. now \in Nat /\ MaxNow \in Nat /\ now <= MaxNow
    BY Bounds DEF BaseInv, TypeOK, ClockInv
  <2>3. h \in Nat
    BY Bounds DEF Has, Filled
  <2> QED
    BY <2>1, <2>2, <2>3
<1>2. CASE rows' = rows
  <2>1. h \in Has(t)
    BY <1>2 DEF Has
  <2>2. h <= Reach
    BY <2>1 DEF ReachInv, Reach
  <2> QED
    BY <1>1, <2>2
<1>3. CASE Backfill \/ Seed
  <2>1. PICK lo \in Nat, hi \in Hours, days \in SUBSET Nat :
            /\ hi <= now /\ \A g \in days : g <= hi
            /\ rows' = [s \in Tables |-> At(IF s = "power" THEN days ELSE lo..hi)]
    BY <1>3, Dataset
  <2>2. h \in (IF t = "power" THEN days ELSE lo..hi)
    BY <2>1 DEF Has, Filled, At
  <2>3. hi \in Nat /\ h <= hi
    BY <2>1, <2>2, Bounds
  <2> QED
    BY <1>1, <2>1, <2>3
<1>4. CASE Commit
  BY <1>1, <1>4, JobCommittable, CommitReach, ReachGrows
  DEF Commit, ReachInv, Starts, Reach
<1>5. CASE OrphanCommit
  BY <1>1, <1>5, OrphanCommittable, CommitReach, ReachGrows
  DEF OrphanCommit, ReachInv, Starts, Reach, BaseInv, RunsInv
<1>6. Reads => rows' = rows
  BY ReadFacts DEF World
<1> QED
  BY <1>2, <1>3, <1>4, <1>5, <1>6, QuietReadings, RestartedRun DEF Next, Reads

LEMMA StartsReach ==
  ASSUME BaseInv, ReachInv, [Next]_vars
  PROVE  /\ Starts(job)' => job'.at <= Reach' + 1
         /\ Starts(orphan)' => orphan'.at <= Reach' + 1
<1>1. /\ Reach \in Nat /\ Reach' \in Nat /\ MaxNow <= Reach /\ Reach <= Reach'
      /\ job \in Jobs /\ orphan \in Jobs /\ now \in Nat /\ now <= MaxNow /\ MaxNow \in Nat
      /\ job.at \in Nat /\ orphan.at \in Nat
      /\ Starts(job) => job.at <= Reach + 1
      /\ Starts(orphan) => orphan.at <= Reach + 1
      /\ rows["imported"] \in Series
  BY ReachGrows, Bounds DEF BaseInv, TypeOK, ClockInv, ReachInv, Reach, Jobs, Tables
<1>2. \A n \in Nat : n <= Reach + 1 => n <= Reach' + 1
  <2>1. \A a, b, n \in Nat : a <= b /\ n <= a + 1 => n <= b + 1
    OBVIOUS
  <2> QED
    BY <1>1, <2>1
<1>3. ASSUME job' = job PROVE Starts(job)' => job'.at <= Reach' + 1
  BY <1>1, <1>2, <1>3 DEF Starts
<1>4. ASSUME orphan' \in {orphan, job, NoJob}
      PROVE  Starts(orphan)' => orphan'.at <= Reach' + 1
  BY <1>1, <1>2, <1>4 DEF Starts, NoJob
<1>5. ASSUME GenerateLast PROVE job'.at <= Reach' + 1
  <2>1. job'.at = 1 + IF Has("imported") = {} THEN now ELSE Last(rows["imported"])
    BY <1>1, <1>5 DEF GenerateLast, Proceed, Jobs, Has
  <2>2. ASSUME Has("imported") # {}
        PROVE  Last(rows["imported"]) \in Nat /\ Last(rows["imported"]) <= Reach
    <3>1. Last(rows["imported"]) \in Has("imported")
      BY <1>1, <2>2, LastIsGreatest DEF Has
    <3> QED
      BY <3>1, Bounds DEF ReachInv, Reach, Has, Filled, Tables
  <2>3. PICK n \in Nat : job'.at = 1 + n /\ n <= Reach
    BY <1>1, <2>1, <2>2
  <2>4. n + 1 \in Nat /\ n + 1 <= Reach + 1 /\ job'.at = n + 1
    BY <1>1, <2>3
  <2> QED
    BY <1>2, <2>4
<1>6. ASSUME GenerateMeters \/ Commit PROVE job'.step # 6
  <2>1. CASE GenerateMeters
    BY <1>1, <2>1 DEF GenerateMeters, Proceed, Finish, Jobs, NoJob
  <2>2. CASE Commit
    BY <1>1, <2>2 DEF Commit, Jobs
  <2> QED
    BY <1>6, <2>1, <2>2
<1>7. ASSUME Refresh \/ Clean PROVE job'.task # "generate"
  <2>1. job.task # "generate"
    BY <1>7 DEF Refresh, Clean, RefreshStart, RefreshAggregate, RefreshSites,
       RefreshExisting, CleanStart, CleanTable, Running
  <2> QED
    BY <1>7, <2>1, ReadFacts DEF Reads
<1>8. Starts(job)' => job'.at <= Reach' + 1
  <2>1. Backfill \/ Seed \/ OrphanCommit => job' = job
    BY DEF Backfill, Seed, Commits, OrphanCommit
  <2> QED
    BY <1>3, <1>5, <1>6, <1>7, <2>1, QuietReadings, RestartedRun
    DEF Next, Generate, Starts
<1>9. orphan' \in {orphan, job, NoJob}
  BY OrphanFrom
<1> QED
  BY <1>4, <1>8, <1>9

LEMMA ReachStep ==
  ASSUME BaseInv, ReachInv, [Next]_vars
  PROVE  ReachInv'
BY RowsReach, StartsReach, UsedStep DEF ReachInv, Reach

LEMMA ReachHolds == Spec => [](BaseInv /\ ReachInv)
<1>1. Init => BaseInv /\ ReachInv
  <2> SUFFICES ASSUME Init PROVE ReachInv
    BY InitBase
  <2>1. jobs = 0 /\ losses = 0 /\ Pending = 0 /\ ~Starts(job) /\ ~Starts(orphan)
    BY DEF Init, Pending, JobPending, OrphanPending, Starts, NoJob
  <2>2. \A t \in Tables : Has(t) = {}
    BY DEF Init, Has, Filled, NoRows
  <2> QED
    BY <2>1, <2>2, ReadingsAssumption DEF ReachInv
<1>2. BaseInv /\ ReachInv /\ [Next]_vars => (BaseInv /\ ReachInv)'
  BY BaseStep, ReachStep
<1> QED
  BY <1>1, <1>2, PTL DEF Spec

LEMMA StartsFit ==
  ASSUME BaseInv, ReachInv, NEW j \in {job, orphan}, Starts(j)
  PROVE  j.at..(j.at + Days * DayHours - 1) \subseteq Hours
<1>1. /\ j.at \in Nat /\ j.at <= MaxNow + Used * Block + 1
      /\ MaxNow \in Nat /\ MaxJobs \in Nat /\ MaxLosses \in Nat
      /\ jobs \in Nat /\ losses \in Nat /\ jobs <= MaxJobs /\ losses <= MaxLosses
  BY ReadingsAssumption DEF BaseInv, TypeOK, ReachInv, Reach, Jobs
<1>2. Pending \in 1..2 /\ Pending <= jobs + losses
  <2>1. JobPending \in 0..1 /\ OrphanPending \in 0..1
    BY DEF JobPending, OrphanPending
  <2>2. JobPending = 1 \/ OrphanPending = 1
    BY DEF JobPending, OrphanPending, Starts, NoJob
  <2> QED
    BY <2>1, <2>2 DEF Pending, ReachInv
<1>3. Used \in Nat /\ Used < MaxJobs + MaxLosses
  BY <1>1, <1>2 DEF Used
<1>4. Used * Block \in Nat /\ Block \in Nat
  BY <1>3, Blocks
<1> SUFFICES ASSUME NEW h \in j.at..(j.at + Days * DayHours - 1) PROVE h \in Hours
  OBVIOUS
<1>5. h \in Nat /\ h < j.at + Block
  BY <1>1, <1>4 DEF Block
<1> HIDE DEF Block
<1>6. h < MaxNow + Used * Block + 1 + Block
  BY <1>1, <1>4, <1>5
<1> QED
  BY <1>3, <1>5, <1>6, LastHour

(* The table of hours loses no reading: what a demo.generate that is about *)
(* to commit, redelivered or lost, will append lies within Hours.          *)
THEOREM HoursSuffice ==
  Spec => [](\A j \in {job, orphan} :
                 Starts(j) => j.at..(j.at + Days * DayHours - 1) \subseteq Hours)
<1> DEFINE Fits(j) == Starts(j) => j.at..(j.at + Days * DayHours - 1) \subseteq Hours
<1>1. BaseInv /\ ReachInv => \A j \in {job, orphan} : Fits(j)
  BY StartsFit
<1> QED
  BY <1>1, ReachHolds, PTL

-----------------------------------------------------------------------------
(* The days to keep are kept.                                              *)
LEMMA RecentStep ==
  ASSUME BaseInv, RecentInv, [Next]_vars
  PROVE  RecentInv'
<1>1. /\ job \in Jobs /\ orphan \in Jobs /\ now \in Nat /\ Kept \in Nat /\ Kept <= now
      /\ now' \in {now, now + 1} /\ Hours \subseteq Nat
  <2>1. now' \in {now, now + 1}
    <3>1. Reads => now' = now
      BY ReadFacts DEF World
    <3>2. now' \in {now, now + 1}
      BY <3>1 DEF Next, Reads, Tick, ScriptStart, Backfill, Seed, Commits, Begin, Commit,
         Done, Finish, World, Lose, OrphanCommit, OrphanRollback, vars
    <3> QED
      BY <3>2
  <2>2. Kept \in Nat /\ Kept <= Start /\ Start <= now /\ Start \in Nat /\ now \in Nat
    BY Bounds DEF Kept, BaseInv, TypeOK, ClockInv
  <2> QED
    BY <2>1, <2>2, Bounds DEF BaseInv, TypeOK
<1>2. ASSUME NEW j \in Jobs, RecentRun(j)
      PROVE  Deletes(j) => /\ j.step = 0 \/ j.at + Kept <= now'
                           /\ \A t \in Tables, h \in Hours :
                                  j.got[t][h] > 0 => h + Kept <= now'
  <2> SUFFICES ASSUME Deletes(j) PROVE /\ j.step = 0 \/ j.at + Kept <= now'
                                       /\ \A t \in Tables, h \in Hours :
                                              j.got[t][h] > 0 => h + Kept <= now'
    OBVIOUS
  <2>1. \A n \in Nat : n + Kept <= now => n + Kept <= now'
    BY <1>1
  <2>2. j.at \in Nat
    BY DEF Jobs
  <2> QED
    BY <1>1, <1>2, <2>1, <2>2 DEF RecentRun
<1>3. ASSUME NEW j \in {job, orphan}
      PROVE  /\ job' = j => RecentRun(job)'
             /\ orphan' = j => RecentRun(orphan)'
  <2>1. Deletes(j) => /\ j.step = 0 \/ j.at + Kept <= now'
                      /\ \A t \in Tables, h \in Hours :
                             j.got[t][h] > 0 => h + Kept <= now'
    BY <1>1, <1>2, <1>3 DEF RecentInv
  <2> QED
    BY <2>1 DEF RecentRun, Deletes, Kept
<1>4. RecentRun(NoJob)' /\ (orphan' = NoJob => RecentRun(orphan)')
  BY DEF RecentRun, Deletes, NoJob
<1>5. ASSUME job'.task # "clean" \/ job'.step = 7 PROVE RecentRun(job)'
  BY <1>5 DEF RecentRun, Deletes
<1>6. ASSUME NEW kind, job' = [NoJob EXCEPT !.task = kind] PROVE RecentRun(job)'
  <2>1. job'.step = 0 /\ \A t \in Tables, h \in Hours : job'.got[t][h] = 0
    BY <1>6 DEF NoJob, NoRows
  <2> QED
    BY <2>1 DEF RecentRun
<1>7. ASSUME CleanStart PROVE RecentRun(job)'
  <2>1. /\ job'.at = now - Kept /\ job'.got = job.got /\ now' = now
        /\ job.task = "clean" /\ job.step = 0
    BY <1>1, <1>7 DEF CleanStart, Proceed, Running, World, Jobs, Kept
  <2>2. job'.at + Kept <= now'
    BY <1>1, <2>1
  <2>3. \A t \in Tables, h \in Hours : job'.got[t][h] > 0 => h + Kept <= now'
    BY <2>1 DEF RecentInv, RecentRun, Deletes
  <2> QED
    BY <2>2, <2>3 DEF RecentRun, Kept
<1>8. ASSUME NEW n \in 1..4, CleanTable(n) PROVE RecentRun(job)'
  <2>1. /\ job.task = "clean" /\ job.step = n /\ now' = now /\ job'.at = job.at
        /\ CleanOrder[n] \in Tables /\ job.at \in Nat
        /\ job'.got = [job.got EXCEPT ![CleanOrder[n]] =
               [h \in Hours |-> IF h <= job.at THEN rows[CleanOrder[n]][h] ELSE 0]]
    BY <1>1, <1>8 DEF CleanTable, Proceed, Running, World, Jobs, CleanOrder, Energy, Tables
  <2>2. job.at + Kept <= now /\ job.got \in [Tables -> Series]
    BY <1>1, <2>1 DEF RecentInv, RecentRun, Deletes, Jobs
  <2>3. ASSUME NEW t \in Tables, NEW h \in Hours, job'.got[t][h] > 0
        PROVE  h + Kept <= now
    <3>1. CASE t # CleanOrder[n]
      <4>1. job.got[t][h] > 0
        BY <2>1, <2>2, <2>3, <3>1
      <4> QED
        BY <2>1, <4>1 DEF RecentInv, RecentRun, Deletes
    <3>2. CASE t = CleanOrder[n]
      <4>1. h <= job.at
        BY <2>1, <2>2, <2>3, <3>2
      <4> QED
        BY <1>1, <2>1, <2>2, <4>1
    <3> QED
      BY <3>1, <3>2
  <2> QED
    BY <2>1, <2>2, <2>3 DEF RecentRun, Kept
<1>9. ASSUME Refresh \/ Generate PROVE job'.task # "clean"
  <2>1. job.task # "clean"
    BY <1>9 DEF Refresh, Generate, RefreshStart, RefreshAggregate, RefreshSites,
       RefreshExisting, GenerateMeters, GenerateLast, Running
  <2> QED
    BY <1>9, <2>1, ReadFacts DEF Reads
<1>10. ASSUME Commit PROVE job'.step = 7
  BY <1>1, <1>10 DEF Commit, Jobs
<1>11. RecentRun(job)'
  <2>1. ASSUME \/ Tick \/ \E kind \in {"backfill", "seed"} : ScriptStart(kind)
               \/ Backfill \/ Seed \/ OrphanCommit \/ OrphanRollback \/ UNCHANGED vars
        PROVE  job' = job
    BY <2>1 DEF Tick, ScriptStart, Backfill, Seed, Commits, OrphanCommit,
       OrphanRollback, vars
  <2>2. ASSUME NEW task \in Kinds, Begin(task) PROVE RecentRun(job)'
    BY <1>6, <2>2 DEF Begin
  <2>3. Lose => RecentRun(job)'
    BY <1>6 DEF Lose
  <2>4. Done => RecentRun(job)'
    BY <1>5 DEF Done, Finish, NoJob
  <2> QED
    BY <1>3, <1>5, <1>7, <1>8, <1>9, <1>10, <2>1, <2>2, <2>3, <2>4
    DEF Next, Clean, Kinds
<1>12. orphan' \in {orphan, job, NoJob}
  BY OrphanFrom
<1> QED
  BY <1>3, <1>4, <1>11, <1>12 DEF RecentInv

(* A reading of the days to keep stays, whoever commits.                   *)
LEMMA RecentStays ==
  ASSUME BaseInv, RecentInv, [Next]_vars,
         NEW t \in Tables, NEW h \in Has(t), h > now - Kept
  PROVE  h \in Has(t)'
<1>1. /\ rows[t][h] > 0 /\ rows[t][h] \in Nat /\ h \in Hours /\ h \in Nat
      /\ TypeOK /\ now \in Nat /\ Kept \in Nat
  BY RowsOf, Bounds DEF BaseInv, TypeOK, Kept
<1>2. CASE rows' = rows
  BY <1>2 DEF Has
<1>3. CASE Backfill \/ Seed
  BY <1>1, <1>3, ScriptFacts DEF NoRows
<1>4. ASSUME NEW j \in {job, orphan}, Committable(j), Apply(j), j.step = 6
      PROVE  h \in Has(t)'
  <2>1. rows'[t][h] > 0
    <3>1. CASE j.task = "refresh"
      BY <1>1, <1>4, <3>1, ApplyFacts
    <3>2. CASE j.task = "generate"
      <4>1. Generated(j.at)[t][h] \in Nat
        BY <1>1 DEF Generated, At
      <4> QED
        BY <1>1, <1>4, <3>2, <4>1, ApplyFacts
    <3>3. CASE j.task = "clean"
      <4>1. j.got[t][h] \in Nat
        BY <1>1, <1>4 DEF Committable, Jobs, Series
      <4>2. ~(j.got[t][h] > 0)
        <5>1. j.got[t][h] > 0 => h + Kept <= now
          BY <1>1, <1>4, <3>3 DEF RecentInv, RecentRun, Deletes
        <5>2. ~(h + Kept <= now)
          BY <1>1
        <5> QED
          BY <5>1, <5>2
      <4> QED
        BY <1>1, <1>4, <3>3, <4>1, <4>2, ApplyFacts
    <3> QED
      BY <1>4, <3>1, <3>2, <3>3 DEF Committable, Kinds
  <2> QED
    BY <1>1, <2>1 DEF Has, Filled
<1>5. Commit => h \in Has(t)'
  BY <1>4, JobCommittable DEF Commit
<1>6. OrphanCommit => h \in Has(t)'
  BY <1>4, OrphanCommittable DEF OrphanCommit, BaseInv, RunsInv
<1>7. Reads => rows' = rows
  BY ReadFacts DEF World
<1> QED
  BY <1>2, <1>3, <1>5, <1>6, <1>7, QuietReadings, RestartedRun DEF Next, Reads

-----------------------------------------------------------------------------
(* Every step is one of RollingReadings, or none.                          *)
Rolled == [t \in Tables |-> Filled(rows[t])]

LEMMA RolledIs ==
  \A t \in Tables : Rolled[t] = Has(t) /\ Rolled'[t] = Has(t)'
BY DEF Rolled, Has

LEMMA LoadRolls ==
  ASSUME BaseInv, Backfill \/ Seed
  PROVE  Rolling!Load
<1>1. PICK lo \in Nat, hi \in Hours, days \in SUBSET Nat :
          /\ lo <= hi /\ hi <= now /\ lo..hi \subseteq Hours
          /\ \A h \in days : h <= hi
          /\ rows' = [t \in Tables |-> At(IF t = "power" THEN days ELSE lo..hi)]
  BY Dataset
<1>2. hi \in Nat /\ now \in Nat /\ lo \in 0..now /\ hi \in 0..now
  BY <1>1, Bounds DEF BaseInv, TypeOK
<1>3. \A t \in Tables : Rolled[t] = {}
  BY ScriptFacts DEF Rolled, Filled, NoRows
<1>4. \A t \in Tables : Rolled'[t] = Hours \intersect (IF t = "power" THEN days ELSE lo..hi)
  BY <1>1 DEF Rolled, Filled, At
<1>5. \A t \in EnergyTables : Rolled'[t] = lo..hi
  BY <1>1, <1>4 DEF EnergyTables, Tables
<1>6. ASSUME NEW t \in Tables, NEW h \in Rolled'[t] PROVE h \in 0..hi
  <2>1. h \in (IF t = "power" THEN days ELSE lo..hi)
    BY <1>4, <1>6
  <2>2. CASE t = "power"
    <3>1. h \in days
      BY <2>1, <2>2
    <3>2. h \in Nat /\ h <= hi
      BY <1>1, <3>1
    <3> QED
      BY <1>2, <3>2
  <2>3. CASE t # "power"
    BY <1>1, <1>2, <2>1, <2>3
  <2> QED
    BY <2>2, <2>3
<1>7. UNCHANGED <<now, late>>
  BY DEF Backfill, Seed, Commits
<1> QED
  BY <1>2, <1>3, <1>5, <1>6, <1>7 DEF Rolling!Load, Rolled, EnergyTables

LEMMA AppendRolls ==
  ASSUME BaseInv, IntervalInv, NextInv, ReachInv, Commit, job.task = "generate"
  PROVE  Rolling!Append
<1>1. /\ NewHours \subseteq Hours /\ job.at \in Nat /\ job.at \in NewHours
      /\ Days * DayHours \in Nat \ {0}
  <2>1. job.at \in Nat /\ NewHours \subseteq Hours
    BY GenerateAdds, StartsFit DEF Commit, Starts, NewHours
  <2>2. Days * DayHours \in Nat \ {0}
    BY Bounds
  <2> QED
    BY <2>1, <2>2 DEF NewHours
<1>2. \A t \in EnergyTables : Has(t)' = Has(t) \union NewHours
  BY <1>1, GenerateAdds DEF EnergyTables, Tables, Added
<1>3. ASSUME NEW t \in EnergyTables, Has(t) # {} PROVE job.at - 1 \in Has(t)
  <2>1. Has(t) \subseteq Has("imported") /\ t \in Tables
    BY DEF IntervalInv, EnergyTables, Tables
  <2>2. job.at - 1 \in Has("imported")
    BY <1>3, <2>1, GenerateAdds
  <2>3. PICK g \in Has(t) : g <= job.at - 1
    BY <1>1, <1>3, <2>1, GenerateAdds, RowsOf
  <2> QED
    BY <2>2, <2>3 DEF IntervalInv
<1>4. ASSUME NEW t \in Tables
      PROVE  /\ Has(t) \subseteq 0..(job.at - 1)
             /\ Has(t) \subseteq Has(t)' /\ Has(t)' \subseteq Has(t) \union NewHours
  <2>1. Has(t)' = Has(t) \union (Added(t) \intersect Hours) /\ Added(t) \subseteq NewHours
    BY GenerateAdds DEF Added
  <2>2. \A h \in Has(t) : h \in Nat /\ h < job.at
    BY GenerateAdds, RowsOf
  <2> QED
    BY <1>1, <2>1, <2>2
<1>5. UNCHANGED <<now, late>>
  BY DEF Commit, history
<1>6. "imported" \in EnergyTables /\ EnergyTables \subseteq Tables
  BY DEF EnergyTables, Tables
<1>7. job.at \in UNION {Rolled'[t] : t \in EnergyTables}
  BY <1>1, <1>2, <1>6, RolledIs
<1>8. \A t \in EnergyTables : /\ Rolled'[t] = Rolled[t] \union NewHours
                              /\ Rolled[t] # {} => job.at - 1 \in Rolled[t]
  BY <1>2, <1>3, <1>6, RolledIs
<1>9. \A t \in Tables : /\ Rolled[t] \subseteq 0..(job.at - 1)
                         /\ Rolled[t] \subseteq Rolled'[t]
                         /\ Rolled'[t] \subseteq Rolled[t] \union NewHours
  BY <1>4, RolledIs
<1> QED
  BY <1>5, <1>7, <1>8, <1>9 DEF Rolling!Append, Rolled, EnergyTables, NewHours

LEMMA CleanRolls ==
  ASSUME BaseInv, CutInv, RecentInv, Commit, job.task = "clean"
  PROVE  Rolling!Clean
<1>1. \A t \in Tables : Has(t)' \in {Has(t), {h \in Has(t) : h > job.at}}
  BY CleanCuts
<1>2. job.at \in 0..(now - Kept)
  <2>1. job.at \in Nat /\ now \in Nat /\ Kept \in Nat /\ job.step = 6
    BY Bounds DEF BaseInv, TypeOK, Jobs, Kept, Commit
  <2>2. job.at + Kept <= now
    BY <2>1 DEF RecentInv, RecentRun, Deletes
  <2> QED
    BY <2>1, <2>2
<1>3. \A t \in Tables : Rolled'[t] \in {Rolled[t], {h \in Rolled[t] : h > job.at}}
  BY <1>1, RolledIs
<1>4. UNCHANGED <<now, late>>
  BY DEF Commit, history
<1> QED
  BY <1>2, <1>3, <1>4 DEF Rolling!Clean, Rolled, Kept

LEMMA RollingStep ==
  ASSUME BaseInv, SeriesInv, ReachInv, RecentInv, [Next]_vars
  PROVE  [Rolling!Next]_(Rolling!vars)
<1>1. now' \in {now, now + 1} /\ {late, late'} \subseteq BOOLEAN
  <2>1. Reads => now' = now
    BY ReadFacts DEF World
  <2> QED
    BY <2>1, TypeStep DEF Next, Reads, Tick, ScriptStart, Backfill, Seed, Commits, Begin,
       Commit, Done, Finish, World, Lose, OrphanCommit, OrphanRollback, vars,
       BaseInv, TypeOK
<1>2. CASE late'
  <2>1. \A t \in Tables : \A h \in Rolled[t] : h > now - Kept => h \in Rolled'[t]
    BY RecentStays, RolledIs
  <2> QED
    BY <1>1, <1>2, <2>1 DEF Rolling!Next, Rolling!Late, Rolled, Kept
<1>3. CASE ~late'
  <2>1. ~OrphanCommit
    BY <1>3 DEF OrphanCommit
  <2>2. ~late
    <3>1. Reads => late' = late
      BY ReadFacts DEF World
    <3>2. Commit \/ Backfill \/ Seed => late' = late
      BY DEF Commit, Backfill, Seed, Commits, history
    <3> QED
      BY <1>3, <2>1, <3>1, <3>2, QuietReadings, RestartedRun DEF Next, Reads
  <2>3. IntervalInv /\ NextInv /\ CutInv
    BY <2>2 DEF SeriesInv
  <2>4. CASE Tick
    BY <2>4 DEF Tick, history, Rolling!Next, Rolling!Tick
  <2>5. CASE Backfill \/ Seed
    BY <2>5, LoadRolls DEF Rolling!Next
  <2>6. CASE Commit
    <3>1. job.task \in Kinds
      BY <2>6, JobCommittable DEF Commit, Committable
    <3>2. CASE job.task = "generate"
      BY <2>3, <2>6, <3>2, AppendRolls DEF Rolling!Next
    <3>3. CASE job.task = "clean"
      BY <2>3, <2>6, <3>3, CleanRolls DEF Rolling!Next
    <3>4. CASE job.task = "refresh"
      BY <2>6, <3>4, JobCommittable, ApplyFacts
      DEF Commit, history, BaseInv, Rolling!vars
    <3> QED
      BY <3>1, <3>2, <3>3, <3>4 DEF Kinds
  <2>7. CASE UNCHANGED <<now, rows, late>>
    BY <2>7 DEF Rolling!vars
  <2>8. Reads => UNCHANGED <<now, rows, late>>
    BY ReadFacts DEF World
  <2>9. ASSUME \/ \E kind \in {"backfill", "seed"} : ScriptStart(kind)
               \/ \E task \in {"refresh", "generate", "clean"} : Begin(task)
               \/ Done \/ Lose \/ OrphanRollback \/ UNCHANGED vars
        PROVE  UNCHANGED <<now, rows, late>>
    BY <2>9 DEF ScriptStart, Begin, Done, Finish, World, Lose, OrphanRollback,
       history, vars
  <2> QED
    BY <2>1, <2>4, <2>5, <2>6, <2>7, <2>8, <2>9 DEF Next, Reads
<1> QED
  BY <1>1, <1>2, <1>3

(* Each demo.generate is one append of whole blocks right behind the last  *)
(* reading, each demo.clean one cut at the front, whatever is lost and run *)
(* again, until a COMMIT is late; and no reading of the days to keep is    *)
(* ever deleted, not even then.                                            *)
THEOREM ImplementsRolling == Spec => KeepsRolling
<1> DEFINE Inv == BaseInv /\ SeriesInv /\ ReachInv /\ RecentInv
<1>1. Init => Rolling!Init /\ RecentInv
  <2> SUFFICES ASSUME Init PROVE Rolling!Init /\ RecentInv
    OBVIOUS
  <2>1. RecentInv
    BY DEF Init, RecentInv, RecentRun, Deletes, NoJob
  <2>2. now \in Nat /\ late = FALSE
    BY Bounds DEF Init
  <2>3. [t \in Tables |-> Filled(rows[t])] = [t \in Tables |-> {}]
    BY DEF Init, Filled, NoRows
  <2> QED
    BY <2>1, <2>2, <2>3 DEF Rolling!Init
<1>2. RecentInv /\ BaseInv /\ [Next]_vars => RecentInv'
  BY RecentStep
<1>3. Inv /\ [Next]_vars => [Rolling!Next]_(Rolling!vars)
  BY RollingStep
<1> QED
  BY <1>1, <1>2, <1>3, BaseHolds, SeriesHolds, ReachHolds, PTL
  DEF Spec, KeepsRolling, Rolling!Spec
=============================================================================
