-------------------------- MODULE TaskQueueProofs --------------------------
(***************************************************************************)
(* Theorems about TaskQueue, for any tasks, any number of workers, and any *)
(* bounds on publications and faults: an accepted task is not forgotten,   *)
(* results are honest, and the queue implements the safety part of         *)
(* DurableQueue.  Without faults, no message is executed twice.            *)
(***************************************************************************)
EXTENDS TaskQueue, FiniteSetTheorems, TLAPS

(* Every task of ts is in the broker state p, or has an outcome.           *)
Kept(p, ts) ==
    \A t \in ts : \/ \E c \in Copies : Task(c) = t /\ p[c] \in {"ready", "unacked"}
                  \/ outcome[t] # "none"

(* What the broker has of a task, now and in the file, it got from a       *)
(* publisher; so has every worker.                                         *)
FromPublisher == \A c \in Copies :
                     \/ place[c] = "unsent" /\ saved.place[c] = "unsent"
                     \/ pub[Task(c)] # "new"

WorkInv == \A w \in Workers : work[w].pc \in Busy =>
               /\ pub[TaskOf(w)] # "new"
               /\ work[w].pc = "committed" => runs[TaskOf(w)] > 0
               /\ work[w].pc = "stored" => outcome[TaskOf(w)] # "none"

KeptInv == /\ Kept(place, owed)
           /\ Kept(place, {t \in Tasks : pub[t] = "sending"})
           /\ Kept(saved.place, saved.owed)

SavedInv == saved.owed \subseteq owed

(* The inductive invariant.                                                *)
IInv == TypeOK /\ FromPublisher /\ WorkInv /\ SavedInv /\ KeptInv /\ ResultHonest

-----------------------------------------------------------------------------
LEMMA InitIInv == Init => IInv
<1> SUFFICES ASSUME Init PROVE IInv
  OBVIOUS
<1> USE DEF Init
<1>1. TypeOK
  BY DEF TypeOK, Place, Results, Outcomes
<1>2. WorkInv
  BY DEF WorkInv, Free, Busy
<1>3. FromPublisher /\ SavedInv /\ KeptInv /\ ResultHonest
  BY DEF FromPublisher, SavedInv, KeptInv, Kept, ResultHonest
<1> QED
  BY <1>1, <1>2, <1>3 DEF IInv

(* A worker that is neither idle nor down has a copy of a task.            *)
LEMMA BusyCopy ==
  ASSUME TypeOK, NEW w \in Workers, work[w].pc \in Busy
  PROVE  /\ work[w] \in [pc : Busy, copy : Copies]
         /\ work[w].copy \in Copies
         /\ TaskOf(w) \in Tasks
<1>1. work[w] \in [pc : Busy, copy : Copies]
  BY DEF TypeOK, Free, Busy
<1> QED
  BY <1>1 DEF TaskOf, Task, Copies

LEMMA ReleaseType ==
  ASSUME TypeOK, NEW w \in Workers, work[w].pc \in Busy,
         NEW dest \in Place, NEW state \in {"idle", "down"},
         Release(w, dest, state)
  PROVE  /\ place' \in [Copies -> Place]
         /\ holder' \in [Copies -> Workers \union {NoOne}]
         /\ work' \in [Workers -> [pc : Busy, copy : Copies]
                                   \union {Free("idle"), Free("down")}]
  BY DEF TypeOK, Release

LEMMA TypeStep == TypeOK /\ [Next]_vars => TypeOK'
<1> SUFFICES ASSUME TypeOK, [Next]_vars PROVE TypeOK'
  OBVIOUS
<1> USE QueueAssumption
<1>1. ASSUME NEW t \in Tasks, Push(t) PROVE TypeOK'
  BY <1>1 DEF TypeOK, Push, Place
<1>2. ASSUME NEW t \in Tasks, Accept(t) \/ Refuse(t) \/ PassExpiry(t)
      PROVE TypeOK'
  BY <1>2 DEF TypeOK, Accept, Refuse, PassExpiry
<1>3. ASSUME NEW t \in Tasks, ForgetResult(t) PROVE TypeOK'
  BY <1>3 DEF TypeOK, ForgetResult, Results
<1>4. ASSUME NEW w \in Workers, NEW c \in Copies, Receive(w, c) PROVE TypeOK'
  <2>1. [pc |-> "received", copy |-> c] \in [pc : Busy, copy : Copies]
    BY DEF Busy
  <2> QED
    BY <1>4, <2>1 DEF TypeOK, Receive, Place
<1>5. ASSUME NEW w \in Workers, Discard(w) PROVE TypeOK'
  <2>1. /\ work[w].pc \in Busy
        /\ Release(w, "gone", "idle")
        /\ UNCHANGED <<pub, late, runs, owed, saved, faults>>
    BY <1>5 DEF Discard, At, Busy
  <2>2. /\ result' \in [Tasks -> Results]
        /\ outcome' \in [Tasks -> Outcomes]
    BY <1>5 DEF TypeOK, Discard, Results, Outcomes
  <2> QED
    BY <2>1, <2>2, ReleaseType DEF TypeOK, Place
<1>6. ASSUME NEW w \in Workers,
             Start(w) \/ CommitWork(w) \/ Succeed(w) \/ Raise(w)
      PROVE  TypeOK'
  <2>1. work[w].pc \in Busy
    BY <1>6 DEF Start, CommitWork, Succeed, Raise, At, Busy
  <2>2. PICK state \in Busy : Move(w, state)
    BY <1>6 DEF Start, CommitWork, Succeed, Raise, Busy
  <2>3. [pc |-> state, copy |-> work[w].copy] \in [pc : Busy, copy : Copies]
    BY <2>1, BusyCopy
  <2>4. work' \in [Workers -> [pc : Busy, copy : Copies]
                               \union {Free("idle"), Free("down")}]
    BY <2>2, <2>3 DEF TypeOK, Move
  <2>5. /\ result' \in [Tasks -> Results]
        /\ runs' \in [Tasks -> Nat]
        /\ outcome' \in [Tasks -> Outcomes]
        /\ UNCHANGED <<pub, place, holder, late, owed, saved, faults>>
    BY <1>6 DEF TypeOK, Start, CommitWork, Succeed, Raise, Results, Outcomes
  <2> QED
    BY <2>4, <2>5 DEF TypeOK
<1>7. ASSUME NEW w \in Workers, Ack(w) PROVE TypeOK'
  <2>1. work[w].pc \in Busy
    BY <1>7 DEF Ack, At, Busy
  <2> QED
    BY <1>7, <2>1, ReleaseType DEF TypeOK, Ack, Place
<1>8. ASSUME NEW w \in Workers, ChildLost(w) PROVE TypeOK'
  <2>1. work[w].pc \in Busy
    BY <1>8 DEF ChildLost, Busy
  <2> QED
    BY <1>8, <2>1, ReleaseType DEF TypeOK, ChildLost, Place
<1>9. ASSUME NEW w \in Workers, WorkerLost(w) \/ Boot(w) PROVE TypeOK'
  BY <1>9 DEF TypeOK, WorkerLost, Boot
<1>10. ASSUME NEW c \in Copies, Restore(c) PROVE TypeOK'
  BY <1>10 DEF TypeOK, Restore, Place
<1>11. CASE Fsync
  BY <1>11 DEF TypeOK, Fsync
<1>12. CASE RedisCrash
  BY <1>12 DEF TypeOK, RedisCrash
<1>13. CASE UNCHANGED vars
  BY <1>13 DEF TypeOK, vars
<1> QED
  BY <1>1, <1>2, <1>3, <1>4, <1>5, <1>6, <1>7, <1>8, <1>9, <1>10, <1>11,
     <1>12, <1>13 DEF Next, Step

(* A publisher that has tried never becomes new again, and only settled    *)
(* or forgotten tasks lose their last copy.                                *)
LEMMA PubStep ==
  ASSUME TypeOK, [Next]_vars, NEW t \in Tasks, pub[t] # "new"
  PROVE  pub'[t] # "new"
  BY DEF TypeOK, Next, Step, vars, Push, Accept, Refuse, PassExpiry, ForgetResult,
         Receive, Discard, Start, CommitWork, Succeed, Raise, Ack, ChildLost,
         WorkerLost, Boot, Restore, Fsync, RedisCrash

LEMMA OutcomeStep ==
  ASSUME TypeOK, [Next]_vars, NEW t \in Tasks, outcome[t] # "none"
  PROVE  outcome'[t] # "none"
  BY DEF TypeOK, Next, Step, vars, Push, Accept, Refuse, PassExpiry, ForgetResult,
         Receive, Discard, Start, CommitWork, Succeed, Raise, Ack, ChildLost,
         WorkerLost, Boot, Restore, Fsync, RedisCrash

LEMMA RunsStep ==
  ASSUME TypeOK, [Next]_vars, NEW t \in Tasks, runs[t] > 0
  PROVE  runs'[t] > 0
  BY DEF TypeOK, Next, Step, vars, Push, Accept, Refuse, PassExpiry, ForgetResult,
         Receive, Discard, Start, CommitWork, Succeed, Raise, Ack, ChildLost,
         WorkerLost, Boot, Restore, Fsync, RedisCrash

(* Every other copy stays where a worker's release leaves it.              *)
LEMMA ReleasePlace ==
  ASSUME TypeOK, NEW w \in Workers, work[w].pc \in Busy,
         NEW dest \in Place, NEW state \in {"idle", "down"},
         Release(w, dest, state), NEW c \in Copies
  PROVE  place'[c] = place[c] \/ (c = work[w].copy /\ place'[c] = dest)
  BY BusyCopy DEF TypeOK, Release

LEMMA FromPublisherStep ==
  TypeOK /\ FromPublisher /\ WorkInv /\ [Next]_vars => FromPublisher'
<1> SUFFICES ASSUME TypeOK, FromPublisher, WorkInv, [Next]_vars,
                    NEW c \in Copies, pub'[Task(c)] = "new"
             PROVE  place'[c] = "unsent" /\ saved'.place[c] = "unsent"
  BY DEF FromPublisher
<1>1. Task(c) \in Tasks
  BY DEF Task, Copies
<1>2. pub[Task(c)] = "new" /\ place[c] = "unsent" /\ saved.place[c] = "unsent"
  BY <1>1, PubStep DEF FromPublisher
<1>3. \A w \in Workers : work[w].pc \in Busy => c # work[w].copy
  BY <1>2 DEF WorkInv, TaskOf
<1>4. ASSUME NEW t \in Tasks,
             Push(t) \/ Accept(t) \/ Refuse(t) \/ PassExpiry(t) \/ ForgetResult(t)
      PROVE  place'[c] = "unsent" /\ saved'.place[c] = "unsent"
  <2>1. CASE Push(t)
    <3>1. t # Task(c)
      BY <1>1, <2>1 DEF Push, TypeOK
    <3>2. \A n \in 1..MaxPush : <<t, n>> # c
      BY <3>1 DEF Task
    <3> QED
      BY <1>2, <2>1, <3>2 DEF Push, TypeOK
  <2>2. CASE Accept(t) \/ Refuse(t) \/ PassExpiry(t) \/ ForgetResult(t)
    BY <1>2, <2>2 DEF Accept, Refuse, PassExpiry, ForgetResult
  <2> QED
    BY <1>4, <2>1, <2>2
<1>5. ASSUME NEW w \in Workers, Discard(w) \/ Ack(w) \/ ChildLost(w)
      PROVE  place'[c] = "unsent" /\ saved'.place[c] = "unsent"
  <2>1. work[w].pc \in Busy /\ saved' = saved
    BY <1>5 DEF Discard, Ack, ChildLost, At, Busy
  <2>2. c # work[w].copy
    BY <1>3, <2>1
  <2>3. \E dest \in {"gone", "ready"} : Release(w, dest, "idle")
    BY <1>5 DEF Discard, Ack, ChildLost
  <2>4. place'[c] = place[c]
    BY <2>1, <2>2, <2>3, ReleasePlace DEF Place
  <2> QED
    BY <1>2, <2>1, <2>4
<1>6. ASSUME NEW w \in Workers,
             (\E d \in Copies : Receive(w, d)) \/ Start(w) \/ CommitWork(w)
             \/ Succeed(w) \/ Raise(w) \/ WorkerLost(w) \/ Boot(w)
      PROVE  place'[c] = "unsent" /\ saved'.place[c] = "unsent"
  BY <1>2, <1>6 DEF TypeOK, Receive, Start, CommitWork, Succeed, Raise,
                    WorkerLost, Boot
<1>7. CASE (\E d \in Copies : Restore(d)) \/ Fsync \/ RedisCrash \/ UNCHANGED vars
  BY <1>2, <1>7 DEF TypeOK, Restore, Fsync, RedisCrash, vars
<1> QED
  BY <1>4, <1>5, <1>6, <1>7 DEF Next, Step

LEMMA WorkStep ==
  TypeOK /\ FromPublisher /\ WorkInv /\ [Next]_vars => WorkInv'
<1> SUFFICES ASSUME TypeOK, FromPublisher, WorkInv, [Next]_vars,
                    NEW w \in Workers, work'[w].pc \in Busy
             PROVE  /\ pub'[TaskOf(w)'] # "new"
                    /\ work'[w].pc = "committed" => runs'[TaskOf(w)'] > 0
                    /\ work'[w].pc = "stored" => outcome'[TaskOf(w)'] # "none"
  BY DEF WorkInv
<1>1. ASSUME work'[w] = work[w]
      PROVE  /\ pub'[TaskOf(w)'] # "new"
             /\ work'[w].pc = "committed" => runs'[TaskOf(w)'] > 0
             /\ work'[w].pc = "stored" => outcome'[TaskOf(w)'] # "none"
  <2>1. work[w].pc \in Busy /\ TaskOf(w)' = TaskOf(w)
    BY <1>1 DEF TaskOf
  <2>2. TaskOf(w) \in Tasks
    BY <2>1, BusyCopy
  <2> QED
    BY <1>1, <2>1, <2>2, PubStep, RunsStep, OutcomeStep DEF WorkInv
<1>2. ASSUME NEW c \in Copies, Receive(w, c)
      PROVE  pub'[TaskOf(w)'] # "new" /\ work'[w].pc = "received"
  BY <1>2 DEF TypeOK, Receive, TaskOf, FromPublisher
<1>3. ASSUME Start(w) \/ CommitWork(w) \/ Succeed(w) \/ Raise(w)
      PROVE  /\ pub'[TaskOf(w)'] # "new"
             /\ work'[w].pc = "committed" => runs'[TaskOf(w)'] > 0
             /\ work'[w].pc = "stored" => outcome'[TaskOf(w)'] # "none"
  <2>1. work[w].pc \in Busy /\ pub' = pub /\ TaskOf(w)' = TaskOf(w)
    BY <1>3 DEF TypeOK, Start, CommitWork, Succeed, Raise, At, Busy, Move, TaskOf
  <2>2. TaskOf(w) \in Tasks
    BY <2>1, BusyCopy
  <2>3. CASE Start(w)
    BY <2>1, <2>2, <2>3 DEF TypeOK, WorkInv, Start, Move
  <2>4. CASE CommitWork(w)
    BY <2>1, <2>2, <2>4 DEF TypeOK, WorkInv, CommitWork, Move
  <2>5. CASE Succeed(w) \/ Raise(w)
    BY <2>1, <2>2, <2>5 DEF TypeOK, WorkInv, Succeed, Raise, Move
  <2> QED
    BY <1>3, <2>3, <2>4, <2>5
<1>4. ASSUME Discard(w) \/ Ack(w) \/ ChildLost(w) \/ WorkerLost(w) \/ Boot(w)
      PROVE  FALSE
  BY <1>4 DEF TypeOK, Discard, Ack, ChildLost, WorkerLost, Boot, Release, Free,
              Busy
<1>5. ASSUME NEW v \in Workers \ {w},
             Step(v) \/ ChildLost(v) \/ WorkerLost(v)
      PROVE  work'[w] = work[w]
  BY <1>5 DEF TypeOK, Step, Receive, Discard, Start, CommitWork, Succeed, Raise,
              Ack, Boot, ChildLost, WorkerLost, Release, Move
<1>6. ASSUME (\E t \in Tasks : Push(t) \/ Accept(t) \/ Refuse(t)
                               \/ PassExpiry(t) \/ ForgetResult(t))
             \/ (\E c \in Copies : Restore(c)) \/ Fsync \/ RedisCrash
             \/ UNCHANGED vars
      PROVE  work'[w] = work[w]
  BY <1>6 DEF Push, Accept, Refuse, PassExpiry, ForgetResult, Restore, Fsync,
              RedisCrash, vars
<1>7. ASSUME Step(w) \/ ChildLost(w) \/ WorkerLost(w)
      PROVE  /\ pub'[TaskOf(w)'] # "new"
             /\ work'[w].pc = "committed" => runs'[TaskOf(w)'] > 0
             /\ work'[w].pc = "stored" => outcome'[TaskOf(w)'] # "none"
  BY <1>2, <1>3, <1>4, <1>7 DEF Step
<1> QED
  BY <1>1, <1>5, <1>6, <1>7 DEF Next

(* The broker lets go of a copy only when its task has an outcome.         *)
LEMMA LastCopy ==
  ASSUME TypeOK, WorkInv, [Next]_vars, ~RedisCrash, NEW c \in Copies,
         place[c] \in {"ready", "unacked"}
  PROVE  place'[c] \in {"ready", "unacked"} \/ outcome'[Task(c)] # "none"
<1>0. Task(c) \in Tasks
  BY DEF Task, Copies
<1>1. ASSUME NEW w \in Workers, Discard(w)
      PROVE  place'[c] \in {"ready", "unacked"} \/ outcome'[Task(c)] # "none"
  <2>1. work[w].pc \in Busy /\ Release(w, "gone", "idle")
    BY <1>1 DEF Discard, At, Busy
  <2>2. place'[c] = place[c] \/ c = work[w].copy
    BY <2>1, ReleasePlace DEF Place
  <2>3. c = work[w].copy => outcome'[Task(c)] # "none"
    BY <1>0, <1>1 DEF Discard, TaskOf, TypeOK
  <2> QED
    BY <2>2, <2>3
<1>2. ASSUME NEW w \in Workers, Ack(w)
      PROVE  place'[c] \in {"ready", "unacked"} \/ outcome'[Task(c)] # "none"
  <2>1. work[w].pc = "stored" /\ work[w].pc \in Busy /\ Release(w, "gone", "idle")
    BY <1>2 DEF Ack, At, Busy
  <2>2. place'[c] = place[c] \/ c = work[w].copy
    BY <2>1, ReleasePlace DEF Place
  <2>3. c = work[w].copy => outcome[Task(c)] # "none"
    BY <2>1 DEF WorkInv, TaskOf
  <2> QED
    BY <1>0, <2>2, <2>3, OutcomeStep
<1>3. ASSUME NEW w \in Workers, ChildLost(w)
      PROVE  place'[c] \in {"ready", "unacked"}
  <2>1. work[w].pc \in Busy /\ Release(w, "ready", "idle")
    BY <1>3 DEF ChildLost, Busy
  <2> QED
    BY <2>1, ReleasePlace DEF Place
<1>4. ASSUME NEW t \in Tasks,
             Push(t) \/ Accept(t) \/ Refuse(t) \/ PassExpiry(t) \/ ForgetResult(t)
      PROVE  place'[c] \in {"ready", "unacked"}
  BY <1>4 DEF TypeOK, Push, Accept, Refuse, PassExpiry, ForgetResult
<1>5. ASSUME NEW w \in Workers,
             (\E d \in Copies : Receive(w, d)) \/ Start(w) \/ CommitWork(w)
             \/ Succeed(w) \/ Raise(w) \/ WorkerLost(w) \/ Boot(w)
      PROVE  place'[c] \in {"ready", "unacked"}
  BY <1>5 DEF TypeOK, Receive, Start, CommitWork, Succeed, Raise, WorkerLost, Boot
<1>6. ASSUME (\E d \in Copies : Restore(d)) \/ Fsync \/ UNCHANGED vars
      PROVE  place'[c] \in {"ready", "unacked"}
  BY <1>6 DEF TypeOK, Restore, Fsync, vars
<1> QED
  BY <1>1, <1>2, <1>3, <1>4, <1>5, <1>6 DEF Next, Step

LEMMA KeptStep ==
  TypeOK /\ WorkInv /\ KeptInv /\ [Next]_vars => KeptInv'
<1> SUFFICES ASSUME TypeOK, WorkInv, KeptInv, [Next]_vars PROVE KeptInv'
  OBVIOUS
<1> DEFINE Sending == {t \in Tasks : pub[t] = "sending"}
<1>1. ASSUME NEW t \in Tasks, ~RedisCrash,
             \/ \E c \in Copies : Task(c) = t /\ place[c] \in {"ready", "unacked"}
             \/ outcome[t] # "none"
      PROVE  \/ \E c \in Copies : Task(c) = t /\ place'[c] \in {"ready", "unacked"}
             \/ outcome'[t] # "none"
  BY <1>1, LastCopy, OutcomeStep
<1>2. ASSUME NEW ts \in SUBSET Tasks, ~RedisCrash, Kept(place, ts)
      PROVE  Kept(place, ts)'
  BY <1>1, <1>2 DEF Kept
<1>4. Sending \subseteq Tasks /\ owed \subseteq Tasks /\ saved.owed \subseteq Tasks
  BY DEF TypeOK
<1>5. ASSUME NEW t \in Tasks, Push(t) PROVE KeptInv'
  <2>1. PICK n \in 1..MaxPush :
            /\ place[<<t, n>>] = "unsent"
            /\ place' = [place EXCEPT ![<<t, n>>] = "ready"]
    BY <1>5 DEF Push
  <2>2. <<t, n>> \in Copies /\ Task(<<t, n>>) = t /\ place'[<<t, n>>] = "ready"
    BY <2>1 DEF Copies, Task, TypeOK
  <2>3. Sending' = Sending \union {t} /\ UNCHANGED <<outcome, owed, saved>>
    BY <1>5 DEF Push, TypeOK
  <2>4. ~RedisCrash
    BY <1>5 DEF Push, RedisCrash, TypeOK
  <2>5. Kept(place, owed)'
    BY <1>2, <1>4, <2>3, <2>4 DEF KeptInv, Kept
  <2>6. Kept(place, Sending)'
    BY <1>1, <2>2, <2>3, <2>4 DEF KeptInv, Kept
  <2> QED
    BY <2>3, <2>5, <2>6 DEF KeptInv, Kept
<1>6. ASSUME NEW t \in Tasks, Accept(t) PROVE KeptInv'
  BY <1>6 DEF Accept, TypeOK, KeptInv, Kept
<1>7. CASE RedisCrash
  <2>1. /\ \A c \in Copies : place'[c] = saved.place[c]
        /\ owed' = saved.owed /\ UNCHANGED <<saved, outcome>>
        /\ Sending' = {}
    BY <1>7 DEF RedisCrash, TypeOK
  <2>2. Kept(place, owed)' /\ Kept(saved.place, saved.owed)'
    BY <2>1 DEF KeptInv, Kept
  <2> QED
    BY <2>1, <2>2 DEF KeptInv, Kept
<1>8. CASE Fsync
  BY <1>8 DEF Fsync, KeptInv, Kept
<1>9. ASSUME ~RedisCrash, UNCHANGED <<saved, owed>>, Sending' \subseteq Sending
      PROVE  KeptInv'
  <2>1. Kept(place, owed)'
    BY <1>1, <1>4, <1>9 DEF KeptInv, Kept
  <2>2. Kept(place, Sending)'
    BY <1>1, <1>9 DEF KeptInv, Kept
  <2>3. Kept(saved.place, saved.owed)'
    BY <1>4, <1>9, OutcomeStep DEF KeptInv, Kept
  <2> QED
    BY <2>1, <2>2, <2>3 DEF KeptInv
<1>10. ASSUME NEW t \in Tasks, Refuse(t) \/ PassExpiry(t) \/ ForgetResult(t)
       PROVE  UNCHANGED <<saved, owed>> /\ Sending' \subseteq Sending
  BY <1>10 DEF Refuse, PassExpiry, ForgetResult, TypeOK
<1>11. ASSUME NEW w \in Workers, Step(w) \/ ChildLost(w) \/ WorkerLost(w)
       PROVE  UNCHANGED <<saved, owed>> /\ Sending' \subseteq Sending
  BY <1>11 DEF Step, Receive, Discard, Start, CommitWork, Succeed, Raise, Ack,
               Boot, ChildLost, WorkerLost
<1>12. ASSUME (\E c \in Copies : Restore(c)) \/ UNCHANGED vars
       PROVE  UNCHANGED <<saved, owed>> /\ Sending' \subseteq Sending
  BY <1>12 DEF Restore, vars
<1> QED
  BY <1>5, <1>6, <1>7, <1>8, <1>9, <1>10, <1>11, <1>12 DEF Next

LEMMA HonestStep ==
  TypeOK /\ WorkInv /\ ResultHonest /\ [Next]_vars => ResultHonest'
<1> SUFFICES ASSUME TypeOK, WorkInv, ResultHonest, [Next]_vars,
                    NEW t \in Tasks
             PROVE  /\ result'[t] = "SUCCESS" => runs'[t] > 0
                    /\ result'[t] \in {"FAILURE", "REVOKED"} => outcome'[t] # "none"
  BY DEF ResultHonest
<1>1. ASSUME result'[t] \in {result[t], "none", "STARTED"}
      PROVE  /\ result'[t] = "SUCCESS" => runs'[t] > 0
             /\ result'[t] \in {"FAILURE", "REVOKED"} => outcome'[t] # "none"
  BY <1>1, RunsStep, OutcomeStep DEF ResultHonest
<1>2. ASSUME NEW w \in Workers, Discard(w)
      PROVE  \/ result'[t] = result[t]
             \/ result'[t] = "REVOKED" /\ outcome'[t] # "none"
  BY <1>2 DEF Discard, TypeOK
<1>3. ASSUME NEW w \in Workers, Succeed(w)
      PROVE  \/ result'[t] = result[t]
             \/ result'[t] = "SUCCESS" /\ runs'[t] > 0
  <2>1. work[w].pc = "committed" /\ work[w].pc \in Busy
    BY <1>3 DEF Succeed, At, Busy
  <2>2. runs[TaskOf(w)] > 0
    BY <2>1 DEF WorkInv
  <2>3. result' = [result EXCEPT ![TaskOf(w)] = "SUCCESS"] /\ runs' = runs
    BY <1>3 DEF Succeed
  <2>4. CASE t = TaskOf(w)
    BY <2>2, <2>3, <2>4 DEF TypeOK
  <2>5. CASE t # TaskOf(w)
    BY <2>3, <2>5 DEF TypeOK
  <2> QED
    BY <2>4, <2>5
<1>4. ASSUME NEW w \in Workers, Raise(w)
      PROVE  \/ result'[t] = result[t]
             \/ result'[t] = "FAILURE" /\ outcome'[t] # "none"
  BY <1>4 DEF Raise, TypeOK
<1>5. ASSUME NEW w \in Workers,
             (\E c \in Copies : Receive(w, c)) \/ Start(w) \/ CommitWork(w)
             \/ Ack(w) \/ Boot(w) \/ ChildLost(w) \/ WorkerLost(w)
      PROVE  result'[t] \in {result[t], "none", "STARTED"}
  BY <1>5 DEF Receive, Start, CommitWork, Ack, Boot, ChildLost, WorkerLost, TypeOK
<1>6. ASSUME NEW u \in Tasks,
             Push(u) \/ Accept(u) \/ Refuse(u) \/ PassExpiry(u) \/ ForgetResult(u)
      PROVE  result'[t] \in {result[t], "none", "STARTED"}
  BY <1>6 DEF Push, Accept, Refuse, PassExpiry, ForgetResult, TypeOK
<1>7. ASSUME (\E c \in Copies : Restore(c)) \/ Fsync \/ RedisCrash
             \/ UNCHANGED vars
      PROVE  result'[t] \in {result[t], "none", "STARTED"}
  BY <1>7 DEF Restore, Fsync, RedisCrash, Earlier, vars
<1> QED
  BY <1>1, <1>2, <1>3, <1>4, <1>5, <1>6, <1>7 DEF Next, Step

LEMMA SavedStep == TypeOK /\ SavedInv /\ [Next]_vars => SavedInv'
  BY DEF TypeOK, SavedInv, Next, Step, vars, Push, Accept, Refuse, PassExpiry,
         ForgetResult, Receive, Discard, Start, CommitWork, Succeed, Raise, Ack,
         ChildLost, WorkerLost, Boot, Restore, Fsync, RedisCrash

LEMMA Invariance == Spec => []IInv
<1>1. IInv /\ [Next]_vars => IInv'
  BY TypeStep, FromPublisherStep, WorkStep, SavedStep, KeptStep, HonestStep
  DEF IInv
<1> QED
  BY InitIInv, <1>1, PTL DEF Spec

-----------------------------------------------------------------------------
(* Every variable of the queue keeps its type.                             *)
THEOREM TypeCorrect == Spec => []TypeOK
<1>1. IInv => TypeOK
  BY DEF IInv
<1> QED
  BY Invariance, <1>1, PTL

(* At least once: the broker never lets go of an accepted task that has no *)
(* outcome, except for what the file of Redis lacked at a crash.           *)
THEOREM AcceptedIsKept == Spec => []NothingForgotten
<1>1. IInv => NothingForgotten
  BY DEF IInv, KeptInv, Kept, NothingForgotten, InBroker
<1> QED
  BY Invariance, <1>1, PTL

(* What task_status shows happened.                                        *)
THEOREM StatusIsHonest == Spec => []ResultHonest
<1>1. IInv => ResultHonest
  BY DEF IInv
<1> QED
  BY Invariance, <1>1, PTL

(* The safety part of DurableQueue: every step of the queue is a step of   *)
(* the promise, or invisible in it.                                        *)
THEOREM ImplementsPromise == Spec => DQ!Init /\ [][DQ!Next]_(DQ!vars)
<1>1. Init => DQ!Init
  BY DEF Init, DQ!Init, Asked
<1>2. IInv /\ [Next]_vars => [DQ!Next]_(DQ!vars)
  <2> SUFFICES ASSUME IInv, [Next]_vars PROVE [DQ!Next]_(DQ!vars)
    OBVIOUS
  <2> USE DEF IInv, DQ!vars
  <2>1. ASSUME NEW t \in Tasks, Push(t) \/ Refuse(t) PROVE DQ!Ask(t)
    <3>1. Asked' = Asked \union {t}
      BY <2>1 DEF Push, Refuse, TypeOK, Asked
    <3> QED
      BY <2>1, <3>1 DEF Push, Refuse, DQ!Ask
  <2>2. ASSUME NEW t \in Tasks, Accept(t) PROVE DQ!Promise(t)
    <3>1. Asked' = Asked /\ t \in Asked
      BY <2>2 DEF Accept, TypeOK, Asked
    <3> QED
      BY <2>2, <3>1 DEF Accept, DQ!Promise
  <2>3. ASSUME NEW w \in Workers,
               Discard(w) \/ CommitWork(w) \/ Succeed(w) \/ Raise(w)
        PROVE  TaskOf(w) \in Tasks /\ TaskOf(w) \in Asked /\ Asked' = Asked
    <3>1. work[w].pc \in Busy
      BY <2>3 DEF Discard, CommitWork, Succeed, Raise, At, Busy
    <3> QED
      BY <2>3, <3>1, BusyCopy
      DEF Discard, CommitWork, Succeed, Raise, WorkInv, Asked
  <2>4. ASSUME NEW w \in Workers, CommitWork(w) PROVE DQ!Run(TaskOf(w))
    BY <2>3, <2>4 DEF CommitWork, DQ!Run
  <2>5. ASSUME NEW w \in Workers, Discard(w) PROVE DQ!Settle(TaskOf(w))
    BY <2>3, <2>5 DEF Discard, DQ!Settle, DQ!Outcomes, TypeOK
  <2>6. ASSUME NEW w \in Workers, Succeed(w) PROVE DQ!Settle(TaskOf(w))
    <3>1. runs[TaskOf(w)] > 0
      BY <2>6 DEF Succeed, At, WorkInv, Busy
    <3> QED
      BY <2>3, <2>6, <3>1 DEF Succeed, DQ!Settle, DQ!Outcomes
  <2>7. ASSUME NEW w \in Workers, Raise(w) PROVE DQ!Settle(TaskOf(w))
    BY <2>3, <2>7 DEF Raise, DQ!Settle, DQ!Outcomes
  <2>8. CASE RedisCrash
    <3>1. Asked' = Asked
      BY <2>8 DEF RedisCrash, TypeOK, Asked
    <3> QED
      BY <2>8, <3>1 DEF RedisCrash, SavedInv, DQ!Next, DQ!Forget
  <2>9. ASSUME NEW w \in Workers,
               (\E c \in Copies : Receive(w, c)) \/ Start(w) \/ Ack(w) \/ Boot(w)
               \/ ChildLost(w) \/ WorkerLost(w)
        PROVE  UNCHANGED DQ!vars
    BY <2>9 DEF Receive, Start, Ack, Boot, ChildLost, WorkerLost, Asked
  <2>10. ASSUME \/ \E t \in Tasks : PassExpiry(t) \/ ForgetResult(t)
                \/ \E c \in Copies : Restore(c)
                \/ Fsync
                \/ UNCHANGED vars
         PROVE  UNCHANGED DQ!vars
    BY <2>10 DEF PassExpiry, ForgetResult, Restore, Fsync, vars, Asked
  <2> QED
    BY <2>1, <2>2, <2>3, <2>4, <2>5, <2>6, <2>7, <2>8, <2>9, <2>10
    DEF Next, Step, DQ!Next
<1> QED
  BY <1>1, <1>2, Invariance, PTL DEF Spec

-----------------------------------------------------------------------------
(* Without faults: a delivery is always its worker's own, and a copy that  *)
(* has been committed is that of a worker past its commit, or is gone.     *)
Held == /\ \A w \in Workers : work[w].pc \in Busy =>
               /\ holder[work[w].copy] = w
               /\ place[work[w].copy] = "unacked"
        /\ \A c \in Copies : place[c] = "unacked" =>
               \E w \in Workers : work[w].pc \in Busy /\ work[w].copy = c
Spent(t) == {c \in Copies :
                /\ Task(c) = t
                /\ \/ place[c] = "gone"
                   \/ \E w \in Workers : /\ work[w].pc \in {"committed", "stored"}
                                         /\ work[w].copy = c}
OncePerCopy == \A t \in Tasks : runs[t] <= Cardinality(Spent(t))
QuietInv == faults = 0 => Held /\ OncePerCopy

LEMMA FiniteCopies ==
  ASSUME NEW t \in Tasks, NEW S \in SUBSET {c \in Copies : Task(c) = t}
  PROVE  IsFiniteSet(S) /\ Cardinality(S) \in Nat
<1>1. IsFiniteSet(1..MaxPush)
  BY QueueAssumption, FS_Interval
<1>2. IsFiniteSet({t} \X (1..MaxPush))
  <2>1. IsFiniteSet({t})
    BY FS_Singleton
  <2> QED
    BY <1>1, <2>1, FS_Product
<1>3. S \subseteq {t} \X (1..MaxPush)
  BY DEF Copies, Task
<1>4. IsFiniteSet(S)
  BY <1>2, <1>3, FS_Subset
<1> QED
  BY <1>4, FS_CardinalityType

LEMMA SpentCounts ==
  ASSUME NEW t \in Tasks
  PROVE  /\ IsFiniteSet(Spent(t)) /\ Cardinality(Spent(t)) \in Nat
         /\ IsFiniteSet(Spent(t)') /\ Cardinality(Spent(t)') \in Nat
<1>1. Spent(t) \in SUBSET {c \in Copies : Task(c) = t}
  BY DEF Spent
<1>2. Spent(t)' \in SUBSET {c \in Copies : Task(c) = t}
  BY DEF Spent
<1> QED
  BY <1>1, <1>2, FiniteCopies

(* What has been committed stays so, and counts once.                      *)
LEMMA StillOnce ==
  ASSUME OncePerCopy, runs' = runs, TypeOK,
         \A t \in Tasks : Spent(t) \subseteq Spent(t)'
  PROVE  OncePerCopy'
<1> SUFFICES ASSUME NEW t \in Tasks PROVE runs'[t] <= Cardinality(Spent(t)')
  BY DEF OncePerCopy
<1>1. Cardinality(Spent(t)) <= Cardinality(Spent(t)')
  BY SpentCounts, FS_Subset
<1> QED
  BY <1>1, SpentCounts DEF OncePerCopy, TypeOK

LEMMA FaultsStay ==
  ASSUME TypeOK, [Next]_vars, faults' = 0
  PROVE  /\ faults = 0 /\ ~RedisCrash
         /\ \A w \in Workers : ~ChildLost(w) /\ ~WorkerLost(w)
         /\ \A c \in Copies : Restore(c) => holder[c] = NoOne
<1>1. ASSUME NEW t \in Tasks,
             Push(t) \/ Accept(t) \/ Refuse(t) \/ PassExpiry(t) \/ ForgetResult(t)
      PROVE  faults' = faults
  BY <1>1 DEF Push, Accept, Refuse, PassExpiry, ForgetResult
<1>2. ASSUME NEW w \in Workers, Step(w) PROVE faults' = faults
  BY <1>2 DEF Step, Receive, Discard, Start, CommitWork, Succeed, Raise, Ack, Boot
<1>3. ASSUME NEW w \in Workers, ChildLost(w) \/ WorkerLost(w)
      PROVE  faults' = faults + 1
  BY <1>3 DEF ChildLost, WorkerLost
<1>4. ASSUME NEW c \in Copies, Restore(c)
      PROVE  faults' = IF holder[c] = NoOne THEN faults ELSE faults + 1
  BY <1>4 DEF Restore
<1>5. RedisCrash => faults' = faults + 1
  BY DEF RedisCrash
<1>6. Fsync \/ UNCHANGED vars => faults' = faults
  BY DEF Fsync, vars
<1>7. faults \in Nat
  BY DEF TypeOK
<1>8. faults' \in {faults, faults + 1}
  BY <1>1, <1>2, <1>3, <1>4, <1>5, <1>6 DEF Next
<1> QED
  BY <1>3, <1>4, <1>5, <1>7, <1>8

LEMMA QuietStep ==
  TypeOK /\ QuietInv /\ [Next]_vars => QuietInv'
<1> SUFFICES ASSUME TypeOK, QuietInv, [Next]_vars, faults' = 0
             PROVE  Held' /\ OncePerCopy'
  BY DEF QuietInv
<1>0. Held /\ OncePerCopy
  BY FaultsStay DEF QuietInv
<1>1. ASSUME UNCHANGED <<place, holder, work, runs>>
      PROVE  Held' /\ OncePerCopy'
  <2>1. Held'
    BY <1>0, <1>1 DEF Held
  <2>2. \A t \in Tasks : Spent(t)' = Spent(t)
    BY <1>1 DEF Spent
  <2> QED
    BY <1>0, <1>1, <2>1, <2>2, StillOnce
<1>2. ASSUME NEW t \in Tasks, Push(t) PROVE Held' /\ OncePerCopy'
  <2>1. PICK n \in 1..MaxPush :
            /\ place[<<t, n>>] = "unsent"
            /\ place' = [place EXCEPT ![<<t, n>>] = "ready"]
    BY <1>2 DEF Push
  <2>2. UNCHANGED <<holder, work, runs>>
    BY <1>2 DEF Push
  <2>3. \A c \in Copies : \/ place'[c] = place[c]
                          \/ place[c] = "unsent" /\ place'[c] = "ready"
    BY <2>1 DEF TypeOK
  <2>4. Held'
    BY <1>0, <2>2, <2>3, BusyCopy DEF Held
  <2>5. \A u \in Tasks : Spent(u) \subseteq Spent(u)'
    BY <2>2, <2>3 DEF Spent
  <2> QED
    BY <1>0, <2>2, <2>4, <2>5, StillOnce
<1>3. ASSUME NEW w \in Workers, NEW c \in Copies, Receive(w, c)
      PROVE  Held' /\ OncePerCopy'
  <2>1. /\ work[w].pc = "idle" /\ place[c] = "ready"
        /\ place' = [place EXCEPT ![c] = "unacked"]
        /\ holder' = [holder EXCEPT ![c] = w]
        /\ work' = [work EXCEPT ![w] = [pc |-> "received", copy |-> c]]
        /\ runs' = runs
    BY <1>3 DEF Receive
  <2>2. \A v \in Workers \ {w} : work'[v] = work[v]
    BY <2>1 DEF TypeOK
  <2>3. work'[w].pc = "received" /\ work'[w].copy = c
    BY <2>1 DEF TypeOK
  <2>4. \A v \in Workers : work[v].pc \in Busy => v # w /\ work[v].copy # c
    BY <1>0, <2>1 DEF Held, Busy
  <2>5. \A d \in Copies \ {c} : place'[d] = place[d] /\ holder'[d] = holder[d]
    BY <2>1 DEF TypeOK
  <2>6. place'[c] = "unacked" /\ holder'[c] = w
    BY <2>1 DEF TypeOK
  <2>7. Held'
    <3>1. ASSUME NEW v \in Workers, work'[v].pc \in Busy
          PROVE  holder'[work'[v].copy] = v /\ place'[work'[v].copy] = "unacked"
      <4>1. CASE v = w
        BY <2>3, <2>6, <4>1
      <4>2. CASE v # w
        <5>1. work[v].pc \in Busy /\ work'[v] = work[v]
          BY <2>2, <3>1, <4>2
        <5>2. work[v].copy \in Copies \ {c}
          BY <2>4, <5>1, BusyCopy
        <5> QED
          BY <1>0, <2>5, <5>1, <5>2 DEF Held
      <4> QED
        BY <4>1, <4>2
    <3>2. ASSUME NEW d \in Copies, place'[d] = "unacked"
          PROVE  \E v \in Workers : work'[v].pc \in Busy /\ work'[v].copy = d
      <4>1. CASE d = c
        BY <2>3, <4>1 DEF Busy
      <4>2. CASE d # c
        BY <1>0, <2>2, <2>4, <2>5, <3>2, <4>2 DEF Held
      <4> QED
        BY <4>1, <4>2
    <3> QED
      BY <3>1, <3>2 DEF Held
  <2>8. \A u \in Tasks : Spent(u) \subseteq Spent(u)'
    <3>1. \A d \in Copies : place[d] = "gone" => place'[d] = "gone"
      BY <2>1, <2>5
    <3>2. \A v \in Workers : work[v].pc \in {"committed", "stored"} => work'[v] = work[v]
      BY <2>1, <2>2
    <3> QED
      BY <3>1, <3>2 DEF Spent
  <2> QED
    BY <1>0, <2>1, <2>7, <2>8, StillOnce
<1>4. ASSUME NEW w \in Workers, Start(w) \/ CommitWork(w) \/ Succeed(w) \/ Raise(w)
      PROVE  Held' /\ OncePerCopy'
  <2>1. work[w].pc \in Busy /\ UNCHANGED <<place, holder>>
    BY <1>4 DEF Start, CommitWork, Succeed, Raise, At, Busy
  <2>2. PICK state \in Busy : Move(w, state)
    BY <1>4 DEF Start, CommitWork, Succeed, Raise, Busy
  <2>3. /\ \A v \in Workers \ {w} : work'[v] = work[v]
        /\ work'[w].pc = state /\ work'[w].copy = work[w].copy
    BY <2>2 DEF Move, TypeOK
  <2>4. Held'
    <3>1. \A v \in Workers : /\ work'[v].pc \in Busy <=> work[v].pc \in Busy
                             /\ work'[v].copy = work[v].copy
      BY <2>1, <2>2, <2>3
    <3> QED
      BY <1>0, <2>1, <3>1 DEF Held
  <2>5. \A u \in Tasks : Spent(u) \subseteq Spent(u)'
    <3>1. work[w].pc \in {"committed", "stored"} => work'[w].pc = "stored"
      BY <1>4, <2>3 DEF Start, CommitWork, Succeed, Raise, At, Move, TypeOK
    <3> QED
      BY <2>1, <2>3, <3>1 DEF Spent
  <2>6. CASE ~CommitWork(w)
    <3>1. runs' = runs
      BY <1>4, <2>6 DEF Start, Succeed, Raise
    <3> QED
      BY <1>0, <2>4, <2>5, <3>1, StillOnce
  <2>7. CASE CommitWork(w)
    <3>1. /\ work[w].pc = "running" /\ work'[w].pc = "committed"
          /\ runs' = [runs EXCEPT ![TaskOf(w)] = @ + 1]
      BY <2>7 DEF CommitWork, At, Move, TypeOK
    <3>2. work[w].copy \in Copies /\ TaskOf(w) \in Tasks
          /\ Task(work[w].copy) = TaskOf(w)
      BY <2>1, BusyCopy DEF TaskOf
    <3>3. work[w].copy \notin Spent(TaskOf(w))
      <4>1. place[work[w].copy] = "unacked" /\ holder[work[w].copy] = w
        BY <1>0, <2>1 DEF Held
      <4>2. ASSUME NEW v \in Workers, work[v].pc \in {"committed", "stored"},
                   work[v].copy = work[w].copy
            PROVE  FALSE
        <5>1. holder[work[v].copy] = v
          BY <1>0, <4>2 DEF Held, Busy
        <5> QED
          BY <3>1, <4>1, <4>2, <5>1
      <4> QED
        BY <4>1, <4>2 DEF Spent
    <3>4. ASSUME NEW u \in Tasks, u = TaskOf(w) PROVE work[w].copy \in Spent(u)'
      <4>1. work'[w].copy = work[w].copy /\ work'[w].pc = "committed"
        BY <2>3, <3>1
      <4> QED
        BY <3>2, <3>4, <4>1 DEF Spent
    <3>5. ASSUME NEW u \in Tasks PROVE runs'[u] <= Cardinality(Spent(u)')
      <4>1. /\ Cardinality(Spent(u)) \in Nat /\ Cardinality(Spent(u)') \in Nat
            /\ IsFiniteSet(Spent(u)) /\ IsFiniteSet(Spent(u)')
        BY SpentCounts
      <4>2. Cardinality(Spent(u)) <= Cardinality(Spent(u)')
        BY <2>5, <4>1, FS_Subset
      <4>3. runs[u] \in Nat /\ runs[u] <= Cardinality(Spent(u))
        BY <1>0 DEF OncePerCopy, TypeOK
      <4>4. CASE u # TaskOf(w)
        BY <3>1, <4>1, <4>2, <4>3, <4>4 DEF TypeOK
      <4>5. CASE u = TaskOf(w)
        <5>1. Cardinality(Spent(u) \union {work[w].copy}) = Cardinality(Spent(u)) + 1
          BY <3>3, <4>1, <4>5, FS_AddElement
        <5>2. Spent(u) \union {work[w].copy} \subseteq Spent(u)'
          BY <2>5, <3>4, <4>5
        <5>3. Cardinality(Spent(u) \union {work[w].copy}) <= Cardinality(Spent(u)')
          BY <4>1, <5>2, FS_Subset
        <5>4. runs'[u] = runs[u] + 1
          BY <3>1, <3>2, <4>5 DEF TypeOK
        <5> QED
          BY <4>1, <4>3, <5>1, <5>3, <5>4
      <4> QED
        BY <4>4, <4>5
    <3> QED
      BY <2>4, <3>5 DEF OncePerCopy
  <2> QED
    BY <2>6, <2>7
<1>5. ASSUME NEW w \in Workers, Discard(w) \/ Ack(w)
      PROVE  Held' /\ OncePerCopy'
  <2>1. /\ work[w].pc \in Busy /\ Release(w, "gone", "idle")
        /\ runs' = runs
    BY <1>5 DEF Discard, Ack, At, Busy
  <2>2. holder[work[w].copy] = w /\ work[w].copy \in Copies
    BY <1>0, <2>1, BusyCopy DEF Held
  <2>3. /\ place' = [place EXCEPT ![work[w].copy] = "gone"]
        /\ holder' = [holder EXCEPT ![work[w].copy] = NoOne]
        /\ work' = [work EXCEPT ![w] = Free("idle")]
    BY <2>1, <2>2 DEF Release
  <2>4. /\ \A v \in Workers \ {w} : work'[v] = work[v]
        /\ work'[w].pc = "idle"
        /\ \A c \in Copies \ {work[w].copy} : place'[c] = place[c] /\ holder'[c] = holder[c]
        /\ place'[work[w].copy] = "gone"
    BY <2>2, <2>3 DEF TypeOK, Free
  <2>5. \A v \in Workers \ {w} : work[v].pc \in Busy => work[v].copy # work[w].copy
    BY <1>0, <2>2 DEF Held
  <2>6. Held'
    <3>1. ASSUME NEW v \in Workers, work'[v].pc \in Busy
          PROVE  holder'[work'[v].copy] = v /\ place'[work'[v].copy] = "unacked"
      <4>1. v # w /\ work'[v] = work[v] /\ work[v].pc \in Busy
        BY <2>4, <3>1 DEF Busy
      <4>2. work[v].copy \in Copies \ {work[w].copy}
        BY <2>5, <4>1, BusyCopy
      <4> QED
        BY <1>0, <2>4, <4>1, <4>2 DEF Held
    <3>2. ASSUME NEW c \in Copies, place'[c] = "unacked"
          PROVE  \E v \in Workers : work'[v].pc \in Busy /\ work'[v].copy = c
      <4>1. c # work[w].copy /\ place[c] = "unacked"
        BY <2>4, <3>2
      <4> QED
        BY <1>0, <2>4, <4>1 DEF Held
    <3> QED
      BY <3>1, <3>2 DEF Held
  <2>7. \A u \in Tasks : Spent(u) \subseteq Spent(u)'
    BY <2>2, <2>4 DEF Spent
  <2> QED
    BY <1>0, <2>1, <2>6, <2>7, StillOnce
<1>6. ASSUME NEW w \in Workers, Boot(w) PROVE Held' /\ OncePerCopy'
  <2>1. /\ UNCHANGED <<place, holder, runs>>
        /\ work[w].pc \notin Busy /\ work'[w].pc \notin Busy
        /\ \A v \in Workers \ {w} : work'[v] = work[v]
    BY <1>6 DEF Boot, At, Busy, Free, TypeOK
  <2>2. Held'
    BY <1>0, <2>1 DEF Held
  <2>3. \A u \in Tasks : Spent(u) \subseteq Spent(u)'
    BY <2>1 DEF Spent, Busy
  <2> QED
    BY <1>0, <2>1, <2>2, <2>3, StillOnce
<1>7. ASSUME NEW c \in Copies, Restore(c) PROVE FALSE
  <2>1. place[c] = "unacked" /\ holder[c] = NoOne
    BY <1>7, FaultsStay DEF Restore
  <2> QED
    BY <1>0, <2>1, NoOneAssumption DEF Held
<1>8. ASSUME \/ \E t \in Tasks : Accept(t) \/ Refuse(t) \/ PassExpiry(t) \/ ForgetResult(t)
             \/ Fsync \/ UNCHANGED vars
      PROVE  UNCHANGED <<place, holder, work, runs>>
  BY <1>8 DEF Accept, Refuse, PassExpiry, ForgetResult, Fsync, vars
<1> QED
  BY <1>1, <1>2, <1>3, <1>4, <1>5, <1>6, <1>7, <1>8, FaultsStay DEF Next, Step

LEMMA InitQuiet == Init => QuietInv
<1> SUFFICES ASSUME Init PROVE Held /\ OncePerCopy
  BY DEF QuietInv
<1>1. Held
  BY DEF Init, Held, Busy, Free
<1>2. ASSUME NEW t \in Tasks PROVE runs[t] <= Cardinality(Spent(t))
  BY SpentCounts DEF Init
<1> QED
  BY <1>1, <1>2 DEF OncePerCopy

(* RepeatsNeedFaults: with late acknowledgement but without faults, no     *)
(* message of a task is executed twice, however many workers there are.    *)
THEOREM RepetitionHasACause == Spec => []RepeatsNeedFaults
<1>1. TypeOK /\ QuietInv => RepeatsNeedFaults
  <2> SUFFICES ASSUME TypeOK, QuietInv, NEW t \in Tasks, faults = 0
               PROVE  runs[t] <= Cardinality(Pushed(t))
    BY DEF RepeatsNeedFaults
  <2>1. Held /\ OncePerCopy
    BY DEF QuietInv
  <2>2. Pushed(t) \in SUBSET {c \in Copies : Task(c) = t}
    BY DEF Pushed
  <2>3. Spent(t) \subseteq Pushed(t)
    BY <2>1 DEF Spent, Pushed, Held, Busy
  <2>4. Cardinality(Spent(t)) <= Cardinality(Pushed(t))
    BY <2>2, <2>3, FiniteCopies, FS_Subset
  <2>5. Cardinality(Pushed(t)) \in Nat
    BY <2>2, FiniteCopies
  <2> QED
    BY <2>1, <2>4, <2>5, SpentCounts DEF OncePerCopy, TypeOK
<1>2. Spec => []QuietInv
  BY InitQuiet, QuietStep, TypeCorrect, PTL DEF Spec
<1> QED
  BY <1>1, <1>2, TypeCorrect, PTL
=============================================================================
