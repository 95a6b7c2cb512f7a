--------------------------- MODULE BackfillProofs ---------------------------
(***************************************************************************)
(* Theorems about Backfill, for any number of runs and foreign writes: the *)
(* dataset is created once, reports are true, and a run nobody writes      *)
(* beside decides by the whole state of the database.                      *)
(***************************************************************************)
EXTENDS Backfill, TLAPS

(* The rows of a run are nowhere unless its owner is among the users.      *)
OwnerFirst == \A r \in Runs, t \in TableNames : r \in db[t] => r \in db["users"]

(* The unique name: one transaction at a time, and only the first commits. *)
UniqueName ==
    /\ \A r, s \in owner : r = s
    /\ \A r, s \in Runs : {r, s} \subseteq db["users"] => r = s
    /\ owner # {} => db["users"] \cap Runs = {}
    /\ \A r \in Runs : pc[r] = "inserted" <=> r \in owner

(* What a run has done, by where it is.                                    *)
Progress == \A r \in Runs :
    /\ pc[r] \notin {"committed", "done"} => r \notin db["users"]
    /\ pc[r] = "committed" => r \in db["users"]
    /\ pc[r] # "done" => report[r] = "none"

(* What a run that nobody wrote beside has seen is how things are.         *)
CalmInv == \A r \in calm :
    /\ pc[r] = "count" =>
           (seen[r] <=> \E i \in 1..(next[r] - 1) : db[Tables[i]] # {})
    /\ pc[r] \in {"create", "inserted"} => Empty
    /\ pc[r] = "check" =>
           ~Empty /\ \A i \in 1..(next[r] - 1) : ExactTable(Tables[i])
Fresh == \A r \in Runs : pc[r] = "idle" => next[r] = 1 /\ ~seen[r]

(* The inductive invariant.                                                *)
IInv == /\ TypeOK /\ OwnerFirst /\ UniqueName /\ Progress /\ ExactlyOnce
        /\ CalmInv /\ Fresh

-----------------------------------------------------------------------------
LEMMA TablesFacts ==
  /\ Len(Tables) = 9 /\ DOMAIN Tables = 1..9
  /\ \A i \in 1..9 : Tables[i] \in TableNames
  /\ \A t \in TableNames : \E i \in 1..9 : t = Tables[i]
  /\ "users" \in TableNames /\ Tables[1] = "users" /\ Tables[9] = "kpis"
<1>1. Len(Tables) = 9 /\ DOMAIN Tables = 1..9
  BY DEF Tables
<1>2. /\ \A i \in 1..9 : Tables[i] \in TableNames
      /\ \A t \in TableNames : \E i \in 1..9 : t = Tables[i]
  BY <1>1 DEF TableNames
<1>3. Tables[1] = "users" /\ Tables[9] = "kpis"
  BY DEF Tables
<1> QED
  BY <1>1, <1>2, <1>3

LEMMA InitIInv == Init => IInv
<1> SUFFICES ASSUME Init PROVE IInv
  OBVIOUS
<1>1. TypeOK
  BY TablesFacts DEF Init, TypeOK
<1>2. OwnerFirst /\ UniqueName /\ Progress /\ CalmInv /\ Fresh
  BY TablesFacts DEF Init, OwnerFirst, UniqueName, Progress, CalmInv, Fresh
<1>3. ExactlyOnce
  BY TablesFacts DEF Init, ExactlyOnce
<1> QED
  BY <1>1, <1>2, <1>3 DEF IInv

(* The transactions of the seed, the API and the worker.                   *)
Foreign == SeedCommit \/ CreateMeter \/ RefreshKpis \/ GenerateDemo \/ CleanDemo

(* They add no rows of a run and take no user away.                        *)
LEMMA ForeignWrites ==
  ASSUME TypeOK, Foreign
  PROVE  /\ db' \in [TableNames -> SUBSET Groups]
         /\ \A r \in Runs, t \in TableNames : r \in db'[t] => r \in db[t]
         /\ \A r \in Runs : r \in db'["users"] <=> r \in db["users"]
         /\ seed' \in {"idle", "seeding", "done"} /\ writes' \in Nat
         /\ calm' = {}
         /\ UNCHANGED <<owner, pc, next, seen, report>>
<1> USE RunsAssumption, TablesFacts
<1>1. CASE SeedCommit
  BY <1>1 DEF SeedCommit, TypeOK, Groups
<1>2. CASE CreateMeter
  BY <1>2 DEF CreateMeter, Write, AddLater, TypeOK, Groups
<1>3. CASE RefreshKpis
  BY <1>3 DEF RefreshKpis, Write, AddLater, TypeOK, Groups
<1>4. CASE GenerateDemo
  BY <1>4 DEF GenerateDemo, Write, AddLater, ReadingTables, TypeOK, Groups
<1>5. CASE CleanDemo
  <2>1. PICK first \in 5..8, left \in {{}, {"part"}} :
            Write({Tables[i] : i \in first..8},
                  [t \in {Tables[i] : i \in first..8} |-> left])
    BY <1>5 DEF CleanDemo
  <2>2. \A i \in first..8 : Tables[i] # "users"
    BY DEF Tables
  <2> DEFINE hit == {Tables[i] : i \in first..8}
  <2>3. "users" \notin hit
    BY <2>2
  <2>4. db' = [t \in TableNames |-> IF t \in hit THEN left ELSE db[t]]
    BY <2>1 DEF Write
  <2>5. /\ seed' = seed /\ writes' = writes + 1 /\ calm' = {}
        /\ UNCHANGED <<owner, pc, next, seen, report>>
    BY <2>1 DEF Write
  <2> HIDE DEF hit
  <2> QED
    BY <2>3, <2>4, <2>5 DEF TypeOK, Groups
<1> QED
  BY <1>1, <1>2, <1>3, <1>4, <1>5 DEF Foreign

-----------------------------------------------------------------------------
LEMMA TypeStep == TypeOK /\ [Next]_vars => TypeOK'
<1> SUFFICES ASSUME TypeOK, [Next]_vars PROVE TypeOK'
  OBVIOUS
<1> USE TablesFacts
<1>1. ASSUME NEW r \in Runs, Start(r) PROVE TypeOK'
  BY <1>1 DEF Start, TypeOK
<1>2. ASSUME NEW r \in Runs, Count(r) PROVE TypeOK'
  <2> DEFINE last == next[r] = Len(Tables)
             some == seen[r] \/ db[Tables[next[r]]] # {}
  <2>1. seen' \in [Runs -> BOOLEAN]
    BY <1>2 DEF Count, TypeOK
  <2>2. next' \in [Runs -> DOMAIN Tables]
    BY <1>2 DEF Count, TypeOK
  <2>3. pc' = [pc EXCEPT ![r] = IF ~last THEN "count"
                                ELSE IF some THEN "check" ELSE "create"]
    BY <1>2 DEF Count
  <2> HIDE DEF last, some
  <2>4. pc' \in [Runs -> {"idle", "count", "check", "create", "inserted",
                          "committed", "done"}]
    BY <2>3 DEF TypeOK
  <2> QED
    BY <1>2, <2>1, <2>2, <2>4 DEF Count, TypeOK
<1>3. ASSUME NEW r \in Runs, CheckOn(r) \/ Block(r) PROVE TypeOK'
  BY <1>3 DEF CheckOn, Block, End, TypeOK
<1>4. ASSUME NEW r \in Runs, InsertOwner(r) \/ OwnerExists(r) \/ CleanCache(r)
      PROVE TypeOK'
  BY <1>4 DEF InsertOwner, OwnerExists, CleanCache, End, TypeOK
<1>5. ASSUME NEW r \in Runs, Commit(r) PROVE TypeOK'
  BY <1>5 DEF Commit, TypeOK, Groups
<1>6. ASSUME NEW r \in Runs, Die(r) PROVE TypeOK'
  BY <1>6 DEF Die, End, TypeOK
<1>7. CASE SeedCheck
  BY <1>7 DEF SeedCheck, TypeOK
<1>8. CASE Foreign
  BY <1>8, ForeignWrites DEF TypeOK
<1>9. CASE UNCHANGED vars
  BY <1>9 DEF vars, TypeOK
<1> QED
  BY <1>1, <1>2, <1>3, <1>4, <1>5, <1>6, <1>7, <1>8, <1>9
  DEF Next, Go, Foreign

(* What the name, the rows and the reports say is preserved together.      *)
Names == OwnerFirst /\ UniqueName /\ Progress /\ ExactlyOnce

(* A step of run r that commits nothing and does not touch the name.       *)
LEMMA QuietStep ==
  ASSUME TypeOK, Names, NEW r \in Runs, NEW to,
         pc[r] \notin {"inserted", "committed", "done"},
         to \notin {"inserted", "committed", "done"},
         pc' = [pc EXCEPT ![r] = to], UNCHANGED <<db, owner, report>>
  PROVE  Names'
<1> USE DEF TypeOK
<1>1. OwnerFirst'
  BY DEF Names, OwnerFirst
<1>2. UniqueName'
  BY DEF Names, UniqueName
<1>3. Progress'
  BY DEF Names, Progress
<1>4. ExactlyOnce'
  BY DEF Names, ExactlyOnce
<1> QED
  BY <1>1, <1>2, <1>3, <1>4 DEF Names

(* A run ends with a report that its rows bear out.                        *)
LEMMA EndStep ==
  ASSUME TypeOK, Names, NEW r \in Runs, NEW status, End(r, status),
         status # "none", UNCHANGED db,
         owner' = owner \ {r},
         status = "CREATED" => r \in db["users"],
         status = "NOOP" => \E s \in Runs \ {r} : s \in db["users"],
         status \in {"NOOP", "BLOCKED"} => r \notin db["users"]
  PROVE  Names'
<1> USE DEF TypeOK, End
<1>1. OwnerFirst'
  BY DEF Names, OwnerFirst
<1>2. UniqueName'
  BY DEF Names, UniqueName
<1>3. Progress'
  BY DEF Names, Progress
<1>4. ExactlyOnce'
  BY DEF Names, ExactlyOnce
<1> QED
  BY <1>1, <1>2, <1>3, <1>4 DEF Names

LEMMA NamesStep == TypeOK /\ Names /\ [Next]_vars => Names'
<1> SUFFICES ASSUME TypeOK, Names, [Next]_vars PROVE Names'
  OBVIOUS
<1> USE TablesFacts
<1>1. ASSUME NEW r \in Runs, Start(r) PROVE Names'
  BY <1>1, QuietStep DEF Start
<1>2. ASSUME NEW r \in Runs, Count(r) PROVE Names'
  <2>1. PICK to \in {"count", "check", "create"} : pc' = [pc EXCEPT ![r] = to]
    BY <1>2 DEF Count
  <2> QED
    BY <1>2, <2>1, QuietStep DEF Count
<1>3. ASSUME NEW r \in Runs, CheckOn(r) PROVE Names'
  <2>1. r \notin db["users"] /\ owner \ {r} = owner
    BY <1>3 DEF CheckOn, Names, Progress, UniqueName, TypeOK
  <2>2. CASE next[r] < Len(Tables)
    BY <1>3, <2>2 DEF CheckOn, Names, OwnerFirst, UniqueName, Progress,
                      ExactlyOnce
  <2>3. CASE ~(next[r] < Len(Tables))
    <3>1. PICK s \in Runs : db[Tables[next[r]]] = {s}
      BY <1>3 DEF CheckOn, ExactTable
    <3>2. s \in db["users"]
      BY <3>1 DEF Names, OwnerFirst, TypeOK
    <3> QED
      BY <1>3, <2>1, <2>3, <3>2, EndStep DEF CheckOn
  <2> QED
    BY <2>2, <2>3
<1>4. ASSUME NEW r \in Runs, Block(r) PROVE Names'
  <2>1. r \notin db["users"] /\ owner \ {r} = owner
    BY <1>4 DEF Block, Names, Progress, UniqueName, TypeOK
  <2> QED
    BY <1>4, <2>1, EndStep DEF Block
<1>5. ASSUME NEW r \in Runs, InsertOwner(r) PROVE Names'
  BY <1>5 DEF InsertOwner, Names, OwnerFirst, UniqueName, Progress,
              ExactlyOnce, TypeOK
<1>6. ASSUME NEW r \in Runs, OwnerExists(r) PROVE Names'
  <2>1. owner \ {r} = owner
    BY <1>6 DEF OwnerExists
  <2> QED
    BY <1>6, <2>1, EndStep DEF OwnerExists
(* Only the holder of the name commits, and only while no run has.         *)
<1>7. ASSUME NEW r \in Runs, Commit(r) PROVE Names'
  <2>1. r \in owner /\ db["users"] \cap Runs = {}
    BY <1>7 DEF Commit, Names, UniqueName
  <2>2. \A s \in Runs, t \in TableNames : s \in db'[t] <=> s = r
    BY <1>7, <2>1 DEF Commit, Names, OwnerFirst, TypeOK
  <2>3. OwnerFirst'
    BY <2>2 DEF OwnerFirst
  <2>4. UniqueName'
    BY <1>7, <2>1, <2>2 DEF Commit, Names, UniqueName, TypeOK
  <2>5. Progress'
    BY <1>7, <2>1, <2>2 DEF Commit, Names, Progress, TypeOK
  <2>6. ExactlyOnce'
    BY <1>7, <2>1, <2>2 DEF Commit, Names, ExactlyOnce, Progress, TypeOK
  <2> QED
    BY <2>3, <2>4, <2>5, <2>6 DEF Names
<1>8. ASSUME NEW r \in Runs, CleanCache(r) PROVE Names'
  <2>1. r \in db["users"] /\ owner \ {r} = owner
    BY <1>8 DEF CleanCache, Names, Progress, UniqueName
  <2> QED
    BY <1>8, <2>1, EndStep DEF CleanCache
<1>9. ASSUME NEW r \in Runs, Die(r) PROVE Names'
  BY <1>9, EndStep DEF Die
<1>10. CASE Foreign
  BY <1>10, ForeignWrites DEF Names, OwnerFirst, UniqueName, Progress,
                              ExactlyOnce, TypeOK
<1>11. CASE SeedCheck \/ UNCHANGED vars
  BY <1>11 DEF SeedCheck, vars, Names, OwnerFirst, UniqueName, Progress,
               ExactlyOnce
<1> QED
  BY <1>1, <1>2, <1>3, <1>4, <1>5, <1>6, <1>7, <1>8, <1>9, <1>10, <1>11
  DEF Next, Go, Foreign

-----------------------------------------------------------------------------
LEMMA FreshStep == TypeOK /\ Fresh /\ [Next]_vars => Fresh'
<1> SUFFICES ASSUME TypeOK, Fresh, [Next]_vars PROVE Fresh'
  OBVIOUS
<1> USE DEF Fresh, TypeOK
<1>1. ASSUME NEW r \in Runs, Start(r) \/ Count(r) PROVE Fresh'
  BY <1>1 DEF Start, Count
<1>2. ASSUME NEW r \in Runs,
             CheckOn(r) \/ Block(r) \/ InsertOwner(r) \/ OwnerExists(r)
             \/ Commit(r) \/ CleanCache(r) \/ Die(r)
      PROVE Fresh'
  BY <1>2 DEF CheckOn, Block, InsertOwner, OwnerExists, Commit, CleanCache,
              Die, End
<1>3. CASE Foreign
  BY <1>3, ForeignWrites
<1>4. CASE SeedCheck \/ UNCHANGED vars
  BY <1>4 DEF SeedCheck, vars
<1> QED
  BY <1>1, <1>2, <1>3, <1>4 DEF Next, Go, Foreign

(* CalmInv of one run, and that it stays when others change only           *)
(* themselves.                                                             *)
CalmRun(r) ==
    /\ pc[r] = "count" =>
           (seen[r] <=> \E i \in 1..(next[r] - 1) : db[Tables[i]] # {})
    /\ pc[r] \in {"create", "inserted"} => Empty
    /\ pc[r] = "check" =>
           ~Empty /\ \A i \in 1..(next[r] - 1) : ExactTable(Tables[i])

LEMMA CalmAlone ==
  ASSUME TypeOK, CalmInv, NEW r \in Runs, UNCHANGED db,
         \A s \in Runs \ {r} : pc'[s] = pc[s] /\ next'[s] = next[s]
                               /\ seen'[s] = seen[s],
         calm' \subseteq calm \union {r}, r \in calm' => CalmRun(r)'
  PROVE  CalmInv'
<1> SUFFICES ASSUME NEW s \in calm' PROVE CalmRun(s)'
  BY DEF CalmInv, CalmRun
<1>1. CASE s = r
  BY <1>1
<1>2. CASE s # r
  BY <1>2 DEF CalmInv, CalmRun, TypeOK, Empty, ExactTable
<1> QED
  BY <1>1, <1>2

LEMMA CalmStep == TypeOK /\ Fresh /\ CalmInv /\ [Next]_vars => CalmInv'
<1> SUFFICES ASSUME TypeOK, Fresh, CalmInv, [Next]_vars PROVE CalmInv'
  OBVIOUS
<1> USE TablesFacts
<1>1. ASSUME NEW r \in Runs, Start(r) PROVE CalmInv'
  <2>1. CalmRun(r)'
    BY <1>1 DEF Start, Fresh, CalmRun, TypeOK
  <2> QED
    BY <1>1, <2>1, CalmAlone DEF Start, TypeOK
<1>2. ASSUME NEW r \in Runs, Count(r) PROVE CalmInv'
  <2>1. ASSUME r \in calm PROVE CalmRun(r)'
    <3> DEFINE some == seen[r] \/ db[Tables[next[r]]] # {}
    <3>1. some <=> \E i \in 1..next[r] : db[Tables[i]] # {}
      BY <1>2, <2>1 DEF Count, CalmInv, TypeOK
    <3>2. UNCHANGED <<db, calm>> /\ next[r] \in 1..9
      BY <1>2 DEF Count, TypeOK
    <3>3. CASE next[r] # 9
      <4>1. /\ pc'[r] = "count" /\ next'[r] = next[r] + 1
            /\ seen'[r] = some
        BY <1>2, <3>2, <3>3 DEF Count, TypeOK
      <4>2. 1..(next'[r] - 1) = 1..next[r]
        BY <4>1, <3>2
      <4> QED
        BY <3>1, <3>2, <4>1, <4>2 DEF CalmRun
    <3>4. CASE next[r] = 9
      <4>1. /\ next'[r] = 1
            /\ some => pc'[r] = "check"
            /\ ~some => pc'[r] = "create"
        BY <1>2, <3>4 DEF Count, TypeOK
      <4>2. some <=> ~Empty
        BY <3>1, <3>4 DEF Empty
      <4> QED
        BY <3>2, <4>1, <4>2 DEF CalmRun, Empty
    <3> QED
      BY <3>3, <3>4
  <2> QED
    BY <1>2, <2>1, CalmAlone DEF Count, TypeOK
<1>3. ASSUME NEW r \in Runs, CheckOn(r) PROVE CalmInv'
  <2>1. ASSUME r \in calm PROVE CalmRun(r)'
    BY <1>3, <2>1 DEF CheckOn, End, CalmInv, CalmRun, TypeOK, Empty, ExactTable
  <2> QED
    BY <1>3, <2>1, CalmAlone DEF CheckOn, End, TypeOK
<1>4. ASSUME NEW r \in Runs, InsertOwner(r) PROVE CalmInv'
  <2>1. ASSUME r \in calm PROVE CalmRun(r)'
    BY <1>4, <2>1 DEF InsertOwner, CalmInv, CalmRun, TypeOK, Empty
  <2> QED
    BY <1>4, <2>1, CalmAlone DEF InsertOwner, TypeOK
<1>5. ASSUME NEW r \in Runs, Block(r) \/ OwnerExists(r) \/ CleanCache(r) \/ Die(r)
      PROVE CalmInv'
  <2>1. pc'[r] = "done"
    BY <1>5 DEF Block, OwnerExists, CleanCache, Die, End, TypeOK
  <2>2. CalmRun(r)'
    BY <2>1 DEF CalmRun
  <2> QED
    BY <1>5, <2>2, CalmAlone
    DEF Block, OwnerExists, CleanCache, Die, End, TypeOK
<1>6. ASSUME NEW r \in Runs, Commit(r) PROVE CalmInv'
  BY <1>6 DEF Commit, CalmInv
<1>7. CASE Foreign
  BY <1>7, ForeignWrites DEF CalmInv
<1>8. CASE SeedCheck \/ UNCHANGED vars
  <2>1. UNCHANGED <<db, pc, next, seen, calm>>
    BY <1>8 DEF SeedCheck, vars
  <2> QED
    BY <2>1 DEF CalmInv, Empty, ExactTable
<1> QED
  BY <1>1, <1>2, <1>3, <1>4, <1>5, <1>6, <1>7, <1>8
  DEF Next, Go, Foreign

LEMMA Invariance == Spec => []IInv
<1>1. IInv /\ [Next]_vars => IInv'
  BY TypeStep, NamesStep, FreshStep, CalmStep DEF IInv, Names
<1> QED
  BY InitIInv, <1>1, PTL DEF Spec

-----------------------------------------------------------------------------
(* The state of the script and of the tables keeps its type.               *)
THEOREM TypeCorrect == Spec => []TypeOK
<1>1. IInv => TypeOK
  BY DEF IInv
<1> QED
  BY Invariance, <1>1, PTL

(* However many runs overlap and wherever they die, the dataset is created *)
(* at most once, and reports agree with the rows.                          *)
THEOREM CreatedOnce == Spec => []ExactlyOnce
<1>1. IInv => ExactlyOnce
  BY DEF IInv
<1> QED
  BY Invariance, <1>1, PTL

(* A run beside which nobody commits decides by the whole database, though *)
(* it reads nine tables in nine statements, twice.                         *)
THEOREM CalmRunsDecideRight == Spec => CalmVerdict
<1> DEFINE Verdict == \A r \in calm :
               /\ Commit(r) => Empty
               /\ report'[r] # report[r] =>
                      /\ report'[r] = "NOOP" => Exact
                      /\ report'[r] = "BLOCKED" => ~Exact /\ ~Empty
<1>1. IInv /\ [Next]_vars => [Verdict]_vars
  <2> SUFFICES ASSUME IInv, [Next]_vars, NEW r \in calm
               PROVE  /\ Commit(r) => Empty
                      /\ report'[r] # report[r] =>
                             /\ report'[r] = "NOOP" => Exact
                             /\ report'[r] = "BLOCKED" => ~Exact /\ ~Empty
    OBVIOUS
  <2>1. r \in Runs /\ (Commit(r) => Empty)
    BY DEF IInv, TypeOK, CalmInv, Commit
  <2>2. ASSUME report'[r] # report[r], report'[r] \in {"NOOP", "BLOCKED"}
        PROVE  CheckOn(r) \/ Block(r)
    <3>1. PICK s \in Runs : Start(s) \/ Go(s) \/ Die(s)
      BY <2>2, ForeignWrites DEF Next, vars, SeedCheck, IInv, Foreign
    <3> QED
      BY <2>2, <3>1 DEF Start, Go, Die, Count, CheckOn, Block, InsertOwner,
                        OwnerExists, Commit, CleanCache, End, IInv, TypeOK
  <2>3. ASSUME CheckOn(r), report'[r] # report[r] PROVE report'[r] = "NOOP" /\ Exact
    <3>1. report'[r] = "NOOP" /\ next[r] = 9 /\ ExactTable(Tables[9])
      BY <2>1, <2>3, TablesFacts DEF CheckOn, End, IInv, TypeOK
    <3>2. \A i \in 1..9 : ExactTable(Tables[i])
      BY <2>3, <3>1 DEF CheckOn, IInv, CalmInv
    <3>3. \A t \in TableNames : \E b \in Runs : db[t] = {b} /\ b \in db["users"]
      BY <3>2, TablesFacts DEF ExactTable, IInv, OwnerFirst
    <3>4. PICK b \in Runs : b \in db["users"]
      BY <3>3, TablesFacts
    <3>5. \A t \in TableNames : db[t] = {b}
      BY <3>3, <3>4 DEF IInv, UniqueName
    <3> QED
      BY <3>1, <3>5 DEF Exact
  <2>4. ASSUME Block(r) PROVE report'[r] = "BLOCKED" /\ ~Exact /\ ~Empty
    <3>1. report'[r] = "BLOCKED" /\ ~Empty
      BY <2>1, <2>4 DEF Block, End, IInv, TypeOK, CalmInv
    <3>2. ~Exact
      BY <2>1, <2>4, TablesFacts DEF Block, ExactTable, Exact, IInv, TypeOK
    <3> QED
      BY <3>1, <3>2
  <2> QED
    BY <2>1, <2>2, <2>3, <2>4
<1> QED
  BY Invariance, <1>1, PTL DEF Spec, CalmVerdict
=============================================================================
