----------------------- MODULE SchemaLifecycleProofs -----------------------
(***************************************************************************)
(* Theorems about SchemaLifecycle, for any schemas and any number of runs  *)
(* of each program.                                                        *)
(***************************************************************************)
EXTENDS SchemaLifecycle, TLAPS

Filling == {"restoring", "restored", "succeeded"}

(* The databases DATABASE_URL and POSTGRES_DB have named or may name next. *)
Known(d) == d = Main \/ \E r \in Restores : pc[r] = "succeeded" /\ on[r] = d
KnownInv ==
    /\ Main \in exists
    /\ Known(active) /\ Known(source)
    /\ \A d \in used : Known(d)
    /\ \A x \in Runs \ Restores : Known(on[x])

(* A restore that has passed createdb is alone in its database, which      *)
(* holds nothing, then the object.                                         *)
AloneInv == \A r \in Restores : pc[r] \in Filling =>
    /\ on[r] \in exists \ {Main}
    /\ \A s \in Restores \ {r} : pc[s] \in Filling => on[s] # on[r]
FillInv == \A r \in Restores :
    /\ pc[r] \in Filling \union {"downloaded", "checked"} => from[r] \in stored
    /\ pc[r] = "restoring" => db[on[r]] = {}
    /\ pc[r] = "restored" => db[on[r]] = dump[from[r]]

(* What was restored is stamped, so that only Main is ever migrated.       *)
StampedInv ==
    /\ \A r \in Restores : pc[r] = "succeeded" => Stamped(on[r])
    /\ \A m \in Migrations : /\ pc[m] = "creating" => on[m] = Main
                             /\ pc[m] = "succeeded" => Stamped(on[m])
    /\ serving => Stamped(active)

(* Backups are of stamped databases.                                       *)
FileInv == \A b \in Backups :
    /\ pc[b] = "revised" => Stamped(on[b])
    /\ pc[b] = "dumped" => Stamp \in dump[b]
    /\ b \in stored => pc[b] \in {"succeeded", "failed"} /\ Stamp \in dump[b]

(* What the stamp says is true of databases in use and of their dumps.     *)
BaseInv == ~raced =>
    /\ \A d \in Databases : Known(d) /\ Stamped(d) => Baseline \subseteq db[d]
    /\ \A b \in Backups :
           pc[b] = "dumped" \/ b \in stored => Baseline \subseteq dump[b]

(* What an adoption has compared still agrees.                             *)
CompareInv == \A a \in Adoptions :
    /\ pc[a] = "idle" => step[a] = 1
    /\ ~raced /\ pc[a] = "checking" /\ ~issues[a] =>
           \A i \in DOMAIN Checks :
               i < step[a] => ~Differs(db[on[a]], Checks[i])

(* The inductive invariant.                                                *)
IInv == /\ TypeOK /\ KnownInv /\ AloneInv /\ FillInv /\ StampedInv /\ FileInv
        /\ BaseInv /\ CompareInv /\ RestoreExact

-----------------------------------------------------------------------------
(* Programs are of one kind each.                                          *)
LEMMA OneKind ==
    /\ \A m \in Migrations : m \in Runs \ Restores /\ m \notin Backups
                             /\ m \notin Adoptions
    /\ \A a \in Adoptions : a \in Runs \ Restores /\ a \notin Backups
                            /\ a \notin Migrations
    /\ \A b \in Backups : b \in Runs \ Restores /\ b \notin Adoptions
                          /\ b \notin Migrations
    /\ \A r \in Restores : r \in Runs /\ r \notin Backups /\ r \notin Adoptions
                           /\ r \notin Migrations
  BY ProgramsAssumption DEF Runs

(* Rows and the stamp are no part of what is compared.                     *)
LEMMA SameFacts ==
    ASSUME NEW s, NEW t, NEW k, s \cap Facts = t \cap Facts
    PROVE Differs(s, k) <=> Differs(t, k)
<1>1. InKind(s, k) = InKind(t, k)
  BY DEF InKind
<1> QED
  BY <1>1 DEF Differs

(* A comparison without issues, done to the end, finds the whole schema.   *)
LEMMA AllCompared ==
    ASSUME NEW s, \A i \in DOMAIN Checks : ~Differs(s, Checks[i])
    PROVE Baseline \subseteq s
<1> SUFFICES ASSUME NEW f \in Baseline PROVE f \in s
  OBVIOUS
<1>1. f \in Facts /\ Kind[f] \in Kinds
  BY SchemaAssumption
<1>2. PICK i \in DOMAIN Checks : Kind[f] = Checks[i]
  BY <1>1 DEF Kinds
<1>3. f \in InKind(Baseline, Checks[i])
  BY <1>1, <1>2 DEF InKind
<1>4. f \in InKind(s, Checks[i])
  BY <1>3 DEF Differs
<1> QED
  BY <1>4 DEF InKind

(* A database whose tables agree has a table that `upgrade` would create.  *)
LEMMA TablesAgree ==
    ASSUME NEW s, ~Differs(s, "table")
    PROVE InKind(Baseline, "table") \cap s # {}
<1>1. PICK f \in Baseline : Kind[f] = "table"
  BY SchemaAssumption
<1>2. f \in InKind(Baseline, "table")
  BY <1>1, SchemaAssumption DEF InKind
<1>3. f \in InKind(s, "table")
  BY <1>2 DEF Differs
<1> QED
  BY <1>2, <1>3 DEF InKind

-----------------------------------------------------------------------------
(* The initial states.                                                     *)
LEMMA InitIInv == Init => IInv
<1> SUFFICES ASSUME Init PROVE IInv
  OBVIOUS
<1> USE SchemaAssumption, OneKind
<1>1. PICK s \in Schemas \union {Baseline \union {Stamp}} :
          db = [d \in Databases |-> IF d = Main THEN s ELSE {}]
  BY DEF Init
<1>2. s \in Contents /\ (Stamp \in s => Baseline \subseteq s)
  BY DEF Contents
<1>4. TypeOK
  <2>1. from \in [Restores -> Backups \union {NoBackup}]
    BY DEF Init
  <2>2. db \in [Databases -> Contents] /\ \A d \in Databases \ exists : db[d] = {}
    BY <1>1, <1>2 DEF Init, Contents
  <2>3. dump \in [Backups -> Contents]
    BY DEF Init, Contents
  <2>4. exists \subseteq Databases /\ active \in exists /\ serving \in BOOLEAN
        /\ used \subseteq exists /\ source \in exists
        /\ stored \subseteq Backups /\ raced \in BOOLEAN
    BY DEF Init
  <2>5. step \in [Adoptions -> Nat \ {0}] /\ issues \in [Adoptions -> BOOLEAN]
        /\ on \in [Runs -> Databases] /\ pc \in [Runs -> {"idle"}]
    BY DEF Init
  <2> QED
    BY <2>1, <2>2, <2>3, <2>4, <2>5 DEF TypeOK
<1>5. KnownInv /\ AloneInv /\ FillInv /\ StampedInv /\ FileInv /\ RestoreExact
  BY DEF Init, KnownInv, Known, AloneInv, FillInv, StampedInv, FileInv,
         RestoreExact, Filling
<1>6. BaseInv
  BY <1>1, <1>2 DEF Init, BaseInv, Known, Stamped
<1>7. CompareInv
  BY DEF Init, CompareInv
<1> QED
  BY <1>4, <1>5, <1>6, <1>7 DEF IInv

(* Every step preserves the types.                                         *)
LEMMA TypeStep == IInv /\ [Next]_vars => TypeOK'
<1> SUFFICES ASSUME IInv, [Next]_vars PROVE TypeOK'
  OBVIOUS
<1> USE SchemaAssumption, OneKind DEF IInv, TypeOK, Goto, Put, Contents
<1>1. ASSUME NEW m \in Migrations,
             MigrateStart(m) \/ MigrateCommit(m) \/ Rollout(m)
      PROVE TypeOK'
  <2>1. Known(on[m]) /\ Main \in exists
    BY DEF KnownInv
  <2>2. on[m] \in exists
    BY <2>1 DEF Known, AloneInv, Filling
  <2> QED
    <3>1. CASE MigrateStart(m)
      BY <3>1 DEF MigrateStart
    <3>2. CASE MigrateCommit(m)
      <4>1. db' \in [Databases -> Contents]
        BY <3>2 DEF MigrateCommit
      <4> QED
        BY <3>2, <4>1, <2>2 DEF MigrateCommit
    <3>3. CASE Rollout(m)
      BY <3>3 DEF Rollout
    <3> QED
      BY <1>1, <3>1, <3>2, <3>3
<1>2. ASSUME NEW a \in Adoptions, AdoptStart(a) \/ AdoptStamp(a)
      PROVE TypeOK'
  <2>1. Known(on[a]) /\ Main \in exists
    BY DEF KnownInv
  <2>2. on[a] \in exists
    BY <2>1 DEF Known, AloneInv, Filling
  <2> QED
    BY <1>2, <2>2 DEF AdoptStart, AdoptStamp
<1>3. ASSUME NEW a \in Adoptions, AdoptCompare(a) PROVE TypeOK'
  <2>1. issues' \in [Adoptions -> BOOLEAN]
    BY <1>3, Zenon DEF AdoptCompare
  <2>2. step' \in [Adoptions -> Nat \ {0}]
    BY <1>3 DEF AdoptCompare
  <2> QED
    BY <1>3, <2>1, <2>2 DEF AdoptCompare
<1>4. ASSUME NEW b \in Backups,
             BackupRevision(b) \/ BackupDump(b) \/ BackupUpload(b)
      PROVE TypeOK'
  BY <1>4 DEF BackupRevision, BackupDump, BackupUpload
<1>5. ASSUME NEW r \in Restores, NEW b \in Backups, NEW d \in Databases,
             RestoreDownload(r, b, d)
      PROVE TypeOK'
  BY <1>5 DEF RestoreDownload
<1>6. ASSUME NEW r \in Restores, RestoreCheck(r) \/ RestoreCreate(r)
                                 \/ RestoreReport(r)
      PROVE TypeOK'
  BY <1>6 DEF RestoreCheck, Exit, RestoreCreate, RestoreReport
<1>7. ASSUME NEW r \in Restores, RestoreDump(r) \/ RestoreBreak(r)
      PROVE TypeOK'
  <2>1. on[r] \in exists
    BY <1>7 DEF RestoreDump, RestoreBreak, Exit, AloneInv, Filling
  <2>2. dump[from[r]] \in Contents
    BY <1>7 DEF RestoreDump, RestoreBreak, Exit, FillInv, Filling
  <2> QED
    BY <1>7, <2>1, <2>2 DEF RestoreDump, RestoreBreak, Exit, Tables, InKind
<1>8. ASSUME NEW r \in Restores, Cutover(r) \/ PointBackups(r) \/ Trial(r)
      PROVE TypeOK'
  <2>1. on[r] \in exists
    BY <1>8 DEF Cutover, PointBackups, Trial, AloneInv, Filling
  <2> QED
    BY <1>8, <2>1 DEF Cutover, PointBackups, Trial
<1>9. ASSUME NEW d \in Databases, NEW rows \in SUBSET Rows, Write(d, rows)
      PROVE TypeOK'
  BY <1>9 DEF Write
<1>10. ASSUME NEW s \in Schemas, ByHand(s) PROVE TypeOK'
  <2>1. raced' \in BOOLEAN
    BY <1>10, Zenon DEF ByHand
  <2> QED
    BY <1>10, <2>1 DEF ByHand
<1>11. ASSUME NEW x \in Runs, Stop(x) PROVE TypeOK'
  <2>1. issues' \in [Adoptions -> BOOLEAN]
    BY <1>11, Zenon DEF Stop, Exit
  <2>2. step' \in [Adoptions -> Nat \ {0}]
    BY <1>11 DEF Stop, Exit
  <2>3. dump' \in [Backups -> Contents]
    BY <1>11 DEF Stop, Exit
  <2> QED
    BY <1>11, <2>1, <2>2, <2>3 DEF Stop, Exit
<1>12. CASE UNCHANGED vars
  BY <1>12 DEF vars
<1> QED
  BY <1>1, <1>2, <1>3, <1>4, <1>5, <1>6, <1>7, <1>8, <1>9, <1>10, <1>11, <1>12
  DEF Next

(* What is known, alone in its database or filled stays so: only a         *)
(* restore's own steps change what it stands for.                          *)
LEMMA RestoreStep ==
    IInv /\ [Next]_vars => KnownInv' /\ AloneInv' /\ FillInv'
<1> SUFFICES ASSUME IInv, [Next]_vars PROVE KnownInv' /\ AloneInv' /\ FillInv'
  OBVIOUS
<1> USE SchemaAssumption, OneKind
    DEF IInv, TypeOK, Goto, Put, KnownInv, Known, AloneInv, FillInv, Filling
<1>1. ASSUME NEW m \in Migrations, MigrateStart(m)
      PROVE KnownInv' /\ AloneInv' /\ FillInv'
  BY <1>1 DEF MigrateStart
<1>2. ASSUME NEW m \in Migrations, MigrateCommit(m)
      PROVE KnownInv' /\ AloneInv' /\ FillInv'
  <2>1. on[m] = Main
    BY <1>2 DEF MigrateCommit, StampedInv
  <2> QED
    BY <1>2, <2>1 DEF MigrateCommit
<1>3. ASSUME NEW m \in Migrations, Rollout(m)
      PROVE KnownInv' /\ AloneInv' /\ FillInv'
  BY <1>3 DEF Rollout
<1>4. ASSUME NEW a \in Adoptions, AdoptStart(a)
      PROVE KnownInv' /\ AloneInv' /\ FillInv'
  BY <1>4 DEF AdoptStart
<1>5. ASSUME NEW a \in Adoptions, AdoptCompare(a)
      PROVE KnownInv' /\ AloneInv' /\ FillInv'
  BY <1>5 DEF AdoptCompare
<1>6. ASSUME NEW a \in Adoptions, AdoptStamp(a)
      PROVE KnownInv' /\ AloneInv' /\ FillInv'
  BY <1>6 DEF AdoptStamp
<1>7. ASSUME NEW b \in Backups, BackupRevision(b)
      PROVE KnownInv' /\ AloneInv' /\ FillInv'
  BY <1>7 DEF BackupRevision
<1>8. ASSUME NEW b \in Backups, BackupDump(b)
      PROVE KnownInv' /\ AloneInv' /\ FillInv'
  <2>1. b \notin stored
    BY <1>8 DEF BackupDump, FileInv
  <2> QED
    BY <1>8, <2>1 DEF BackupDump
<1>9. ASSUME NEW b \in Backups, BackupUpload(b)
      PROVE KnownInv' /\ AloneInv' /\ FillInv'
  BY <1>9 DEF BackupUpload
<1>10. ASSUME NEW r \in Restores, NEW b \in Backups, NEW d \in Databases,
              RestoreDownload(r, b, d)
       PROVE KnownInv' /\ AloneInv' /\ FillInv'
  BY <1>10 DEF RestoreDownload
<1>11. ASSUME NEW r \in Restores, RestoreCheck(r)
       PROVE KnownInv' /\ AloneInv' /\ FillInv'
  BY <1>11 DEF RestoreCheck, Exit
<1>12. ASSUME NEW r \in Restores, RestoreCreate(r)
       PROVE KnownInv' /\ AloneInv' /\ FillInv'
  BY <1>12 DEF RestoreCreate
<1>13. ASSUME NEW r \in Restores, RestoreDump(r)
       PROVE KnownInv' /\ AloneInv' /\ FillInv'
  <2>1. db' = [db EXCEPT ![on[r]] = dump[from[r]]]
    <3>1. db[on[r]] = {}
      BY <1>13 DEF RestoreDump
    <3>2. db[on[r]] \union dump[from[r]] = dump[from[r]]
      BY <3>1
    <3> QED
      BY <1>13, <3>2 DEF RestoreDump
  <2>2. on[r] # Main /\ ~Known(on[r])
    BY <1>13 DEF RestoreDump
  <2>3. \A s \in Restores \ {r} : pc[s] \in Filling => db'[on[s]] = db[on[s]]
    BY <1>13, <2>1 DEF RestoreDump
  <2>4. db'[on[r]] = dump[from[r]]
    BY <1>13, <2>1 DEF RestoreDump
  <2>5. pc' = [pc EXCEPT ![r] = "restored"] /\ pc[r] = "restoring"
        /\ UNCHANGED <<exists, active, on, dump, stored, from>>
    BY <1>13 DEF RestoreDump
  <2>6. KnownInv'
    <3>1. \A d \in Databases : Known(d) => Known(d)'
      BY <2>5
    <3>2. UNCHANGED <<source, used>>
      BY <1>13 DEF RestoreDump
    <3> QED
      BY <2>5, <3>1, <3>2
  <2>7. AloneInv'
    BY <2>5
  <2>8. FillInv'
    BY <2>3, <2>4, <2>5
  <2> QED
    BY <2>6, <2>7, <2>8
<1>14. ASSUME NEW r \in Restores, RestoreBreak(r)
       PROVE KnownInv' /\ AloneInv' /\ FillInv'
  BY <1>14 DEF RestoreBreak, Exit
<1>15. ASSUME NEW r \in Restores, RestoreReport(r)
       PROVE KnownInv' /\ AloneInv' /\ FillInv'
  BY <1>15 DEF RestoreReport
<1>16. ASSUME NEW r \in Restores, Cutover(r) \/ PointBackups(r) \/ Trial(r)
       PROVE KnownInv' /\ AloneInv' /\ FillInv'
  BY <1>16 DEF Cutover, PointBackups, Trial
<1>17. ASSUME NEW d \in Databases, NEW rows \in SUBSET Rows, Write(d, rows)
       PROVE KnownInv' /\ AloneInv' /\ FillInv'
  BY <1>17 DEF Write
<1>18. ASSUME NEW s \in Schemas, ByHand(s)
       PROVE KnownInv' /\ AloneInv' /\ FillInv'
  BY <1>18 DEF ByHand
<1>19. ASSUME NEW x \in Runs, Stop(x)
       PROVE KnownInv' /\ AloneInv' /\ FillInv'
  <2>1. \A b \in stored : dump'[b] = dump[b]
    BY <1>19 DEF Stop, Exit, FileInv
  <2>2. /\ pc' = [pc EXCEPT ![x] = "failed"]
        /\ pc[x] \notin {"restoring", "succeeded"}
        /\ UNCHANGED <<exists, db, active, used, source, stored>>
        /\ on' = [on EXCEPT ![x] = Main]
        /\ \A r \in Restores \ {x} : from'[r] = from[r]
    BY <1>19 DEF Stop, Exit
  <2>3. KnownInv'
    <3>1. \A d \in Databases : Known(d) => Known(d)'
      BY <2>2
    <3> QED
      BY <2>2, <3>1
  <2>4. AloneInv'
    BY <2>2
  <2>5. FillInv'
    BY <2>1, <2>2
  <2> QED
    BY <2>3, <2>4, <2>5
<1>20. CASE UNCHANGED vars
  BY <1>20 DEF vars
<1> QED
  BY <1>1, <1>2, <1>3, <1>4, <1>5, <1>6, <1>7, <1>8, <1>9, <1>10, <1>11, <1>12,
     <1>13, <1>14, <1>15, <1>16, <1>17, <1>18, <1>19, <1>20
  DEF Next

(* What a restored database holds, what is stamped and what a backup has   *)
(* seen of it.                                                             *)
LEMMA StampStep ==
    IInv /\ [Next]_vars => StampedInv' /\ FileInv' /\ RestoreExact'
<1> DEFINE Goal == StampedInv' /\ FileInv' /\ RestoreExact'
<1> SUFFICES ASSUME IInv, [Next]_vars PROVE Goal
  OBVIOUS
<1> USE SchemaAssumption, OneKind
    DEF IInv, TypeOK, Goto, Put, StampedInv, FileInv, RestoreExact, Stamped
<1>1. ASSUME NEW m \in Migrations, MigrateStart(m) PROVE Goal
  <2>1. active = Main \/ Stamped(active)
    BY DEF KnownInv, Known
  <2> QED
    BY <1>1, <2>1 DEF MigrateStart
<1>2. ASSUME NEW m \in Migrations, MigrateCommit(m) PROVE Goal
  <2>1. on[m] = Main
    BY <1>2 DEF MigrateCommit
  <2>2. \A r \in Restores : pc[r] = "succeeded" => on[r] # Main
    BY DEF AloneInv, Filling
  <2> QED
    BY <1>2, <2>1, <2>2 DEF MigrateCommit
<1>3. ASSUME NEW m \in Migrations, Rollout(m) PROVE Goal
  <2>1. Stamped(active)
    BY <1>3 DEF Rollout
  <2> QED
    BY <1>3, <2>1 DEF Rollout
<1>4. ASSUME NEW a \in Adoptions, AdoptStart(a) PROVE Goal
  BY <1>4 DEF AdoptStart
<1>5. ASSUME NEW a \in Adoptions, AdoptCompare(a) PROVE Goal
  BY <1>5 DEF AdoptCompare
<1>6. ASSUME NEW a \in Adoptions, AdoptStamp(a) PROVE Goal
  <2>1. \A r \in Restores :
            pc[r] = "succeeded" /\ on[r] = on[a] => db' = db
    BY <1>6 DEF AdoptStamp
  <2>2. \A d \in Databases : d # on[a] => db'[d] = db[d]
    BY <1>6 DEF AdoptStamp
  <2>3. \A d \in Databases : Stamped(d) => Stamped(d)'
    BY <1>6 DEF AdoptStamp
  <2>4. /\ pc' = [pc EXCEPT ![a] = "succeeded"]
        /\ UNCHANGED <<active, serving, used, on, dump, stored, from>>
    BY <1>6 DEF AdoptStamp
  <2>5. StampedInv' /\ FileInv'
    BY <2>3, <2>4
  <2>6. RestoreExact'
    BY <2>1, <2>2, <2>4
  <2> QED
    BY <2>5, <2>6
<1>7. ASSUME NEW b \in Backups, BackupRevision(b) PROVE Goal
  BY <1>7 DEF BackupRevision
<1>8. ASSUME NEW b \in Backups, BackupDump(b) PROVE Goal
  BY <1>8 DEF BackupDump, FillInv, Filling
<1>9. ASSUME NEW b \in Backups, BackupUpload(b) PROVE Goal
  BY <1>9 DEF BackupUpload
<1>10. ASSUME NEW r \in Restores, NEW b \in Backups, NEW d \in Databases,
              RestoreDownload(r, b, d)
       PROVE Goal
  BY <1>10 DEF RestoreDownload
<1>11. ASSUME NEW r \in Restores, RestoreCheck(r) PROVE Goal
  BY <1>11 DEF RestoreCheck, Exit
<1>12. ASSUME NEW r \in Restores, RestoreCreate(r) PROVE Goal
  BY <1>12 DEF RestoreCreate
<1>13. ASSUME NEW r \in Restores, RestoreDump(r) PROVE Goal
  <2>1. \A s \in Restores : pc[s] = "succeeded" => on[s] # on[r]
    BY <1>13 DEF RestoreDump, AloneInv, Filling
  <2> QED
    BY <1>13, <2>1 DEF RestoreDump
<1>14. ASSUME NEW r \in Restores, RestoreBreak(r) PROVE Goal
  <2>1. \A s \in Restores : pc[s] = "succeeded" => on[s] # on[r]
    BY <1>14 DEF RestoreBreak, Exit, AloneInv, Filling
  <2> QED
    BY <1>14, <2>1 DEF RestoreBreak, Exit
<1>15. ASSUME NEW r \in Restores, RestoreReport(r) PROVE Goal
  BY <1>15 DEF RestoreReport, FillInv
<1>16. ASSUME NEW r \in Restores, Cutover(r) \/ PointBackups(r) \/ Trial(r)
       PROVE Goal
  BY <1>16 DEF Cutover, PointBackups, Trial
<1>17. ASSUME NEW d \in Databases, NEW rows \in SUBSET Rows, Write(d, rows)
       PROVE Goal
  BY <1>17 DEF Write
<1>18. ASSUME NEW s \in Schemas, ByHand(s) PROVE Goal
  <2>1. active = Main
    BY <1>18 DEF ByHand, KnownInv, Known
  <2>2. \A r \in Restores : pc[r] = "succeeded" => on[r] # Main
    BY DEF AloneInv, Filling
  <2> QED
    BY <1>18, <2>1, <2>2 DEF ByHand
<1>19. ASSUME NEW x \in Runs, Stop(x) PROVE Goal
  <2>1. \A b \in Backups : b # x => dump'[b] = dump[b]
    BY <1>19 DEF Stop, Exit
  <2>2. x \notin stored
    BY <1>19 DEF Stop, Exit
  <2> QED
    BY <1>19, <2>1, <2>2 DEF Stop, Exit, FillInv, Filling
<1>20. CASE UNCHANGED vars
  BY <1>20 DEF vars
<1> QED
  BY <1>1, <1>2, <1>3, <1>4, <1>5, <1>6, <1>7, <1>8, <1>9, <1>10, <1>11, <1>12,
     <1>13, <1>14, <1>15, <1>16, <1>17, <1>18, <1>19, <1>20
  DEF Next

(* The stamp is true: a migration and an adoption give it to a whole       *)
(* schema, a restore to the copy of one.                                   *)
LEMMA BaseStep == IInv /\ [Next]_vars => BaseInv'
<1> SUFFICES ASSUME IInv, [Next]_vars, ~raced' PROVE BaseInv'
  BY DEF BaseInv
<1> USE SchemaAssumption, OneKind DEF IInv, TypeOK, Goto, Put, Stamped
<1>0. ~raced
  BY DEF Next, vars, MigrateStart, MigrateCommit, Rollout, AdoptStart,
     AdoptCompare, AdoptStamp, BackupRevision, BackupDump, BackupUpload,
     RestoreDownload, RestoreCheck, RestoreCreate, RestoreDump, RestoreBreak,
     RestoreReport, Cutover, PointBackups, Trial, Write, ByHand, Stop
<1>1. /\ \A d \in Databases : Known(d) /\ Stamp \in db[d] => Baseline \subseteq db[d]
      /\ \A b \in Backups :
             pc[b] = "dumped" \/ b \in stored => Baseline \subseteq dump[b]
  BY <1>0 DEF BaseInv
<1>2. ASSUME NEW m \in Migrations,
             MigrateStart(m) \/ MigrateCommit(m) \/ Rollout(m)
      PROVE BaseInv'
  BY <1>1, <1>2
  DEF BaseInv, Known, MigrateStart, MigrateCommit, Rollout
<1>3. ASSUME NEW a \in Adoptions, AdoptStart(a) \/ AdoptCompare(a)
      PROVE BaseInv'
  BY <1>1, <1>3 DEF BaseInv, Known, AdoptStart, AdoptCompare
<1>4. ASSUME NEW a \in Adoptions, AdoptStamp(a) PROVE BaseInv'
  <2>1. \A i \in DOMAIN Checks : ~Differs(db[on[a]], Checks[i])
    <3>1. DOMAIN Checks = 1..6
      BY DEF Checks
    <3> QED
      BY <1>0, <1>4, <3>1 DEF AdoptStamp, CompareInv
  <2>2. Baseline \subseteq db[on[a]]
    BY <2>1, AllCompared
  <2> QED
    BY <1>1, <1>4, <2>2 DEF BaseInv, Known, AdoptStamp
<1>5. ASSUME NEW b \in Backups,
             BackupRevision(b) \/ BackupDump(b) \/ BackupUpload(b)
      PROVE BaseInv'
  <2>1. Known(on[b])
    BY DEF KnownInv
  <2> QED
    BY <1>1, <1>5, <2>1
    DEF BaseInv, FileInv, Known, BackupRevision, BackupDump, BackupUpload
<1>6. ASSUME NEW r \in Restores, NEW b \in Backups, NEW d \in Databases,
             RestoreDownload(r, b, d)
      PROVE BaseInv'
  BY <1>1, <1>6 DEF BaseInv, Known, RestoreDownload
<1>7. ASSUME NEW r \in Restores, RestoreCheck(r) \/ RestoreCreate(r)
      PROVE BaseInv'
  BY <1>1, <1>7 DEF BaseInv, Known, RestoreCheck, Exit, RestoreCreate
<1>8. ASSUME NEW r \in Restores, RestoreDump(r) \/ RestoreBreak(r)
      PROVE BaseInv'
  <2>1. ~Known(on[r])
    BY <1>8 DEF RestoreDump, RestoreBreak, Exit, Known, AloneInv, Filling
  <2> QED
    BY <1>1, <1>8, <2>1 DEF BaseInv, Known, RestoreDump, RestoreBreak, Exit
<1>9. ASSUME NEW r \in Restores, RestoreReport(r) PROVE BaseInv'
  <2>1. Baseline \subseteq db[on[r]]
    BY <1>1, <1>9 DEF RestoreReport, FillInv, Filling
  <2> QED
    BY <1>1, <1>9, <2>1 DEF BaseInv, Known, RestoreReport
<1>10. ASSUME NEW r \in Restores, Cutover(r) \/ PointBackups(r) \/ Trial(r)
       PROVE BaseInv'
  BY <1>1, <1>10 DEF BaseInv, Known, Cutover, PointBackups, Trial
<1>11. ASSUME NEW d \in Databases, NEW rows \in SUBSET Rows, Write(d, rows)
       PROVE BaseInv'
  BY <1>1, <1>11 DEF BaseInv, Known, Write
<1>12. ASSUME NEW s \in Schemas, ByHand(s) PROVE BaseInv'
  BY <1>1, <1>12 DEF BaseInv, Known, ByHand
<1>13. ASSUME NEW x \in Runs, Stop(x) PROVE BaseInv'
  <2>1. \A b \in Backups : pc'[b] = "dumped" \/ b \in stored => dump'[b] = dump[b]
    BY <1>13 DEF Stop, Exit, FileInv
  <2> QED
    BY <1>1, <1>13, <2>1 DEF BaseInv, Known, Stop, Exit
<1>14. CASE UNCHANGED vars
  BY <1>1, <1>14 DEF BaseInv, Known, vars
<1> QED
  BY <1>2, <1>3, <1>4, <1>5, <1>6, <1>7, <1>8, <1>9, <1>10, <1>11, <1>12,
     <1>13, <1>14
  DEF Next

(* Nothing changes what an adoption has compared, but DDL by hand: a       *)
(* migration fails at the tables that agree, rows are no facts.            *)
LEMMA CompareStep == IInv /\ [Next]_vars => CompareInv'
<1> SUFFICES ASSUME IInv, [Next]_vars PROVE CompareInv'
  OBVIOUS
<1> USE SchemaAssumption, OneKind DEF IInv, TypeOK, Goto, Put
<1>1. ASSUME UNCHANGED <<step, issues>>, raced => raced',
             \A a \in Adoptions :
                 /\ pc'[a] = "idle" => pc[a] = "idle"
                 /\ ~raced' /\ pc'[a] = "checking" /\ step[a] > 1 /\ ~issues[a] =>
                        /\ pc[a] = "checking"
                        /\ db'[on'[a]] \cap Facts = db[on[a]] \cap Facts
      PROVE CompareInv'
  <2> SUFFICES ASSUME NEW a \in Adoptions, ~raced', pc'[a] = "checking",
                      ~issues[a], NEW i \in DOMAIN Checks, i < step[a]
               PROVE ~Differs(db'[on'[a]], Checks[i])
    BY <1>1 DEF CompareInv
  <2>1. DOMAIN Checks = 1..6
    BY DEF Checks
  <2>2. step[a] > 1
    BY <2>1
  <2>3. pc[a] = "checking" /\ db'[on'[a]] \cap Facts = db[on[a]] \cap Facts
    BY <1>1, <2>2
  <2>4. ~Differs(db[on[a]], Checks[i])
    BY <1>1, <2>3 DEF CompareInv
  <2> QED
    BY <2>3, <2>4, SameFacts
<1>2. ASSUME NEW m \in Migrations, MigrateStart(m) PROVE CompareInv'
  BY <1>1, <1>2 DEF MigrateStart
<1>3. ASSUME NEW m \in Migrations, MigrateCommit(m) PROVE CompareInv'
  <2>1. ASSUME NEW a \in Adoptions, ~raced, pc[a] = "checking", step[a] > 1,
               ~issues[a]
        PROVE on[a] # on[m]
    <3>1. Checks[1] = "table" /\ 1 \in DOMAIN Checks
      BY DEF Checks
    <3>2. ~Differs(db[on[a]], "table")
      BY <2>1, <3>1 DEF CompareInv
    <3> QED
      BY <1>3, <3>2, TablesAgree DEF MigrateCommit
  <2> QED
    BY <1>1, <1>3, <2>1 DEF MigrateCommit
<1>4. ASSUME NEW m \in Migrations, Rollout(m) PROVE CompareInv'
  BY <1>1, <1>4 DEF Rollout
<1>5. ASSUME NEW a \in Adoptions, AdoptStart(a) PROVE CompareInv'
  <2>1. step[a] = 1
    BY <1>5 DEF AdoptStart, CompareInv
  <2> QED
    BY <1>1, <1>5, <2>1 DEF AdoptStart
<1>6. ASSUME NEW a \in Adoptions, AdoptCompare(a) PROVE CompareInv'
  <2> USE DEF AdoptCompare
  <2> SUFFICES ASSUME NEW c \in Adoptions
               PROVE /\ pc[c] = "idle" => step'[c] = 1
                     /\ ~raced /\ pc[c] = "checking" /\ ~issues'[c] =>
                            \A i \in DOMAIN Checks :
                                i < step'[c] => ~Differs(db[on[c]], Checks[i])
    BY <1>6 DEF CompareInv
  <2>1. CASE c # a
    BY <1>6, <2>1 DEF CompareInv
  <2>2. CASE c = a
    <3>1. step'[a] = step[a] + 1 /\ pc[a] = "checking"
      BY <1>6
    <3>2. ASSUME ~issues'[a]
          PROVE ~issues[a] /\ ~Differs(db[on[a]], Checks[step[a]])
      <4>1. issues'[a] = (issues[a] \/ Differs(db[on[a]], Checks[step[a]]))
        BY <1>6, Zenon
      <4> QED
        BY <3>2, <4>1
    <3>3. DOMAIN Checks = 1..6
      BY DEF Checks
    <3>4. ASSUME ~raced, ~issues'[a], NEW i \in DOMAIN Checks, i < step'[a]
          PROVE ~Differs(db[on[a]], Checks[i])
      <4>1. CASE i < step[a]
        BY <3>1, <3>2, <3>4, <4>1 DEF CompareInv
      <4>2. CASE i = step[a]
        BY <3>2, <3>4, <4>2
      <4> QED
        BY <3>1, <3>3, <3>4, <4>1, <4>2
    <3> QED
      BY <2>2, <3>1, <3>4
  <2> QED
    BY <2>1, <2>2
<1>7. ASSUME NEW a \in Adoptions, AdoptStamp(a) PROVE CompareInv'
  BY <1>1, <1>7 DEF AdoptStamp
<1>8. ASSUME NEW b \in Backups,
             BackupRevision(b) \/ BackupDump(b) \/ BackupUpload(b)
      PROVE CompareInv'
  BY <1>1, <1>8 DEF BackupRevision, BackupDump, BackupUpload
<1>9. ASSUME NEW r \in Restores, NEW b \in Backups, NEW d \in Databases,
             RestoreDownload(r, b, d)
      PROVE CompareInv'
  BY <1>1, <1>9 DEF RestoreDownload
<1>10. ASSUME NEW r \in Restores,
              RestoreCheck(r) \/ RestoreCreate(r) \/ RestoreReport(r)
       PROVE CompareInv'
  BY <1>1, <1>10 DEF RestoreCheck, Exit, RestoreCreate, RestoreReport
<1>11. ASSUME NEW r \in Restores, RestoreDump(r) \/ RestoreBreak(r)
       PROVE CompareInv'
  <2>1. \A a \in Adoptions : on[a] # on[r]
    BY <1>11
    DEF RestoreDump, RestoreBreak, Exit, KnownInv, Known, AloneInv, Filling
  <2> QED
    BY <1>1, <1>11, <2>1 DEF RestoreDump, RestoreBreak, Exit
<1>12. ASSUME NEW r \in Restores, Cutover(r) \/ PointBackups(r) \/ Trial(r)
       PROVE CompareInv'
  BY <1>1, <1>12 DEF Cutover, PointBackups, Trial
<1>13. ASSUME NEW d \in Databases, NEW rows \in SUBSET Rows, Write(d, rows)
       PROVE CompareInv'
  BY <1>1, <1>13 DEF Write
<1>14. ASSUME NEW s \in Schemas, ByHand(s) PROVE CompareInv'
  BY <1>1, <1>14 DEF ByHand
<1>15. ASSUME NEW x \in Runs, Stop(x) PROVE CompareInv'
  <2>1. \A a \in Adoptions \ {x} :
            step'[a] = step[a] /\ (issues'[a] <=> issues[a])
    BY <1>15, Zenon DEF Stop
  <2>2. x \in Adoptions => pc'[x] = "failed"
    BY <1>15 DEF Stop, Exit
  <2>3. UNCHANGED <<db, raced>>
    BY <1>15 DEF Stop
  <2>4. \A a \in Adoptions \ {x} : pc'[a] = pc[a] /\ on'[a] = on[a]
    BY <1>15 DEF Stop, Exit
  <2> QED
    BY <2>1, <2>2, <2>3, <2>4 DEF CompareInv
<1>16. CASE UNCHANGED vars
  BY <1>1, <1>16 DEF vars
<1> QED
  BY <1>2, <1>3, <1>4, <1>5, <1>6, <1>7, <1>8, <1>9, <1>10, <1>11, <1>12,
     <1>13, <1>14, <1>15, <1>16
  DEF Next

-----------------------------------------------------------------------------
(* IInv holds throughout.                                                  *)
LEMMA Invariance == Spec => []IInv
<1>1. IInv /\ [Next]_vars => IInv'
  BY TypeStep, RestoreStep, StampStep, BaseStep, CompareStep DEF IInv
<1> QED
  BY <1>1, InitIInv, PTL DEF Spec

(* TypeOK holds in every state.                                            *)
THEOREM TypeCorrect == Spec => []TypeOK
<1>1. IInv => TypeOK
  BY DEF IInv
<1> QED
  BY <1>1, Invariance, PTL

(* The application serves, and objects are stored, only from databases     *)
(* whose stamp is true.                                                    *)
THEOREM StampIsTrue == Spec => []StampMeansSchema
<1>1. IInv => StampMeansSchema
  BY DEF IInv, TypeOK, StampMeansSchema, Complete, BaseInv, StampedInv, Stamped,
         FileInv, KnownInv
<1> QED
  BY <1>1, Invariance, PTL

(* A restore that reports success has restored the object it was given,    *)
(* and nothing else, which stays so until the application is rolled out.   *)
THEOREM RestoresAreExact == Spec => []RestoreExact
<1>1. IInv => RestoreExact
  BY DEF IInv
<1> QED
  BY <1>1, Invariance, PTL

(* A restore never works on a database the application or the backups      *)
(* connect to, nor on that of another restore.                             *)
THEOREM RestoresAreAlone == Spec => []OwnDatabase
<1>1. IInv => OwnDatabase
  BY DEF IInv, OwnDatabase, AloneInv, KnownInv, Known, Filling
<1> QED
  BY <1>1, Invariance, PTL
=============================================================================
