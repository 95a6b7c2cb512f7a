----------------------------- MODULE TaskQueue -----------------------------
(***************************************************************************)
(* Celery as celery_app.py configures it: late acknowledgement, rejection  *)
(* when a worker is lost, prefetch of one, tracked starts, over a Redis    *)
(* broker and result backend with appendfsync everysec.  enqueue_task and  *)
(* Beat publish; workers with --concurrency=1 execute; task_status reads.  *)
(*                                                                         *)
(* A task body is abstracted to one commit of its work: the bodies of      *)
(* app/tasks commit once, at their end.  A copy is one message of a task;  *)
(* a publisher that lost the broker's reply publishes another.             *)
(***************************************************************************)
EXTENDS Naturals, FiniteSets

CONSTANTS
    Tasks,      \* task ids
    Expiring,   \* the tasks of Beat, published with "expires"
    Workers,    \* worker processes
    MaxPush,    \* bound: messages published per task
    MaxFaults   \* bound: lost workers, timed out deliveries, Redis crashes,
                \* and second messages of a task

ASSUME QueueAssumption ==
    /\ Expiring \subseteq Tasks
    /\ MaxPush \in Nat \ {0}
    /\ MaxFaults \in Nat

Copies == Tasks \X (1..MaxPush)
Task(c) == c[1]

NoOne == "no one"
ASSUME NoOneAssumption == NoOne \notin Workers

NoCopy == <<>>
Free(state) == [pc |-> state, copy |-> NoCopy]

VARIABLES
    pub,      \* pub[t]: what send_task told the publisher
    place,    \* place[c]: where the broker has copy c
    holder,   \* holder[c]: the worker whose delivery of c may be acknowledged
    late,     \* tasks whose expiry has passed
    work,     \* work[w]: what worker w does, with which copy
    result,   \* result[t]: the state in the result backend
    runs,     \* history: times the work of t was committed
    outcome,  \* history: how the last finished execution of t ended
    owed,     \* history: accepted tasks that no crash of Redis forgot
    saved,    \* the broker and owed at the last fsync
    faults    \* faults so far

vars == <<pub, place, holder, late, work, result, runs, outcome, owed, saved,
          faults>>

InBroker(t) == \E c \in Copies : Task(c) = t /\ place[c] \in {"ready", "unacked"}
Pushed(t) == {c \in Copies : Task(c) = t /\ place[c] # "unsent"}

(* The bound on what goes wrong.                                           *)
Spare == faults + Cardinality({c \in Copies : c[2] > 1 /\ place[c] # "unsent"})
             < MaxFaults

Outcomes == {"none", "done", "failed", "expired"}
Results == {"none", "STARTED", "SUCCESS", "FAILURE", "REVOKED"}

Init ==
    /\ pub = [t \in Tasks |-> "new"]
    /\ place = [c \in Copies |-> "unsent"]
    /\ holder = [c \in Copies |-> NoOne]
    /\ late = {}
    /\ work = [w \in Workers |-> Free("idle")]
    /\ result = [t \in Tasks |-> "none"]
    /\ runs = [t \in Tasks |-> 0]
    /\ outcome = [t \in Tasks |-> "none"]
    /\ owed = {}
    /\ saved = [place |-> place, owed |-> owed]
    /\ faults = 0

-----------------------------------------------------------------------------
(* Publishers: send_task, with the retries of task_publish_retry.          *)

(* The message reaches the broker; its reply may not reach the publisher.  *)
Push(t) ==
    /\ pub[t] \in {"new", "retrying", "sending"}
    /\ pub' = [pub EXCEPT ![t] = "sending"]
    /\ \E n \in 1..MaxPush :
           /\ place[<<t, n>>] = "unsent"
           /\ n > 1 => Spare /\ place[<<t, n - 1>>] # "unsent"
           /\ place' = [place EXCEPT ![<<t, n>>] = "ready"]
    /\ UNCHANGED <<holder, late, work, result, runs, outcome, owed, saved,
                   faults>>

(* 202 with the task id.                                                   *)
Accept(t) ==
    /\ pub[t] = "sending"
    /\ pub' = [pub EXCEPT ![t] = "accepted"]
    /\ owed' = owed \union {t}
    /\ UNCHANGED <<place, holder, late, work, result, runs, outcome, saved,
                   faults>>

(* 503: send_task raised, whether or not a message had got through.        *)
Refuse(t) ==
    /\ pub[t] \in {"new", "retrying", "sending"}
    /\ pub' = [pub EXCEPT ![t] = "refused"]
    /\ UNCHANGED <<place, holder, late, work, result, runs, outcome, owed,
                   saved, faults>>

PassExpiry(t) ==
    /\ t \in Expiring \ late
    /\ late' = late \union {t}
    /\ UNCHANGED <<pub, place, holder, work, result, runs, outcome, owed, saved,
                   faults>>

-----------------------------------------------------------------------------
(* Workers.                                                                *)

(* Mutant: task_acks_late is off.                                          *)
ReceiveAcked(w, c) ==
    /\ work[w].pc = "idle"
    /\ place[c] = "ready"
    /\ place' = [place EXCEPT ![c] = "gone"]
    /\ work' = [work EXCEPT ![w] = [pc |-> "received", copy |-> c]]
    /\ UNCHANGED <<pub, holder, late, result, runs, outcome, owed, saved, faults>>

Receive(w, c) ==
    /\ work[w].pc = "idle"
    /\ place[c] = "ready"
    /\ place' = [place EXCEPT ![c] = "unacked"]
    /\ holder' = [holder EXCEPT ![c] = w]
    /\ work' = [work EXCEPT ![w] = [pc |-> "received", copy |-> c]]
    /\ UNCHANGED <<pub, late, result, runs, outcome, owed, saved, faults>>

At(w, state) == work[w].pc = state
TaskOf(w) == Task(work[w].copy)
Move(w, state) ==
    work' = [work EXCEPT ![w] = [pc |-> state, copy |-> work[w].copy]]

(* The worker is done with its copy: if the delivery is still its own, the *)
(* copy goes to dest, and otherwise the broker ignores the worker.         *)
Release(w, dest, state) ==
    LET c == work[w].copy
        mine == holder[c] = w
    IN  /\ place' = IF mine THEN [place EXCEPT ![c] = dest] ELSE place
        /\ holder' = IF mine THEN [holder EXCEPT ![c] = NoOne] ELSE holder
        /\ work' = [work EXCEPT ![w] = Free(state)]

(* An expired message is revoked and acknowledged without being run.       *)
Discard(w) ==
    /\ At(w, "received")
    /\ TaskOf(w) \in late
    /\ result' = [result EXCEPT ![TaskOf(w)] =
                      IF @ = "SUCCESS" THEN @ ELSE "REVOKED"]
    /\ outcome' = [outcome EXCEPT ![TaskOf(w)] = "expired"]
    /\ Release(w, "gone", "idle")
    /\ UNCHANGED <<pub, late, runs, owed, saved, faults>>

(* Mutant: a state of its own, unknown to task_status.                     *)
StartRunning(w) ==
    /\ At(w, "received")
    /\ TaskOf(w) \notin late
    /\ result' = [result EXCEPT ![TaskOf(w)] = "RUNNING"]
    /\ Move(w, "running")
    /\ UNCHANGED <<pub, place, holder, late, runs, outcome, owed, saved, faults>>

(* track_started; the backend never overwrites a SUCCESS.                  *)
Start(w) ==
    /\ At(w, "received")
    /\ TaskOf(w) \notin late
    /\ result' = [result EXCEPT ![TaskOf(w)] =
                      IF @ = "SUCCESS" THEN @ ELSE "STARTED"]
    /\ Move(w, "running")
    /\ UNCHANGED <<pub, place, holder, late, runs, outcome, owed, saved, faults>>

CommitWork(w) ==
    /\ At(w, "running")
    /\ runs' = [runs EXCEPT ![TaskOf(w)] = @ + 1]
    /\ Move(w, "committed")
    /\ UNCHANGED <<pub, place, holder, late, result, outcome, owed, saved,
                   faults>>

(* Mutant: the result is stored before the session commits.                *)
SucceedEarly(w) ==
    /\ At(w, "running")
    /\ result' = [result EXCEPT ![TaskOf(w)] = "SUCCESS"]
    /\ outcome' = [outcome EXCEPT ![TaskOf(w)] = "done"]
    /\ Move(w, "stored")
    /\ UNCHANGED <<pub, place, holder, late, runs, owed, saved, faults>>

Succeed(w) ==
    /\ At(w, "committed")
    /\ result' = [result EXCEPT ![TaskOf(w)] = "SUCCESS"]
    /\ outcome' = [outcome EXCEPT ![TaskOf(w)] = "done"]
    /\ Move(w, "stored")
    /\ UNCHANGED <<pub, place, holder, late, runs, owed, saved, faults>>

(* The body raised: before its commit, or after it, in the finally clauses *)
(* that dispose of the engine and close Redis.                             *)
Raise(w) ==
    /\ At(w, "running") \/ At(w, "committed")
    /\ result' = [result EXCEPT ![TaskOf(w)] =
                      IF @ = "SUCCESS" THEN @ ELSE "FAILURE"]
    /\ outcome' = [outcome EXCEPT ![TaskOf(w)] = "failed"]
    /\ Move(w, "stored")
    /\ UNCHANGED <<pub, place, holder, late, runs, owed, saved, faults>>

(* Mutant: the finished delivery is rejected with requeue.                 *)
AckRequeues(w) ==
    /\ At(w, "stored")
    /\ Release(w, "ready", "idle")
    /\ UNCHANGED <<pub, late, result, runs, outcome, owed, saved, faults>>

(* task_acks_late: only after the result is stored.                        *)
Ack(w) ==
    /\ At(w, "stored")
    /\ Release(w, "gone", "idle")
    /\ UNCHANGED <<pub, late, result, runs, outcome, owed, saved, faults>>

-----------------------------------------------------------------------------
(* Faults.                                                                 *)

(* The child process dies: task_reject_on_worker_lost requeues its copy.   *)
ChildLost(w) ==
    /\ Spare
    /\ work[w].pc \in {"running", "committed", "stored"}
    /\ Release(w, "ready", "idle")
    /\ faults' = faults + 1
    /\ UNCHANGED <<pub, late, result, runs, outcome, owed, saved>>

(* Mutant: the copy of a dead worker never times out.                      *)
WorkerLostHolding(w) ==
    /\ Spare
    /\ work[w].pc # "down"
    /\ work' = [work EXCEPT ![w] = Free("down")]
    /\ faults' = faults + 1
    /\ UNCHANGED <<pub, place, holder, late, result, runs, outcome, owed, saved>>

(* The whole worker dies: its copy stays unacknowledged in the broker.     *)
WorkerLost(w) ==
    /\ Spare
    /\ work[w].pc # "down"
    /\ holder' = [c \in Copies |-> IF holder[c] = w THEN NoOne ELSE holder[c]]
    /\ work' = [work EXCEPT ![w] = Free("down")]
    /\ faults' = faults + 1
    /\ UNCHANGED <<pub, place, late, result, runs, outcome, owed, saved>>

Boot(w) ==
    /\ At(w, "down")
    /\ work' = [work EXCEPT ![w] = Free("idle")]
    /\ UNCHANGED <<pub, place, holder, late, result, runs, outcome, owed, saved,
                   faults>>

(* The visibility timeout of the broker: of a copy nobody can acknowledge  *)
(* any more, or of one whose worker is still busy with it.                 *)
Restore(c) ==
    /\ place[c] = "unacked"
    /\ holder[c] # NoOne => Spare
    /\ faults' = IF holder[c] = NoOne THEN faults ELSE faults + 1
    /\ place' = [place EXCEPT ![c] = "ready"]
    /\ holder' = [holder EXCEPT ![c] = NoOne]
    /\ UNCHANGED <<pub, late, work, result, runs, outcome, owed, saved>>

(* result_expires: a finished task becomes unknown, and reads as PENDING.  *)
ForgetResult(t) ==
    /\ result[t] \in {"SUCCESS", "FAILURE", "REVOKED"}
    /\ result' = [result EXCEPT ![t] = "none"]
    /\ UNCHANGED <<pub, place, holder, late, work, runs, outcome, owed, saved,
                   faults>>

Fsync ==
    /\ saved' = [place |-> place, owed |-> owed]
    /\ saved' # saved
    /\ UNCHANGED <<pub, place, holder, late, work, result, runs, outcome, owed,
                   faults>>

(* What the file may hold of a result: any state before its last ones.     *)
Earlier(t) == {result[t]} \union (IF result[t] = "none" THEN {}
                                  ELSE {"none", "STARTED"})

(* Redis restarts from its file: deliveries made before it are void, and   *)
(* publishers that waited for its reply try again or give up.              *)
RedisCrash ==
    /\ Spare
    /\ faults' = faults + 1
    /\ place' = [c \in Copies |-> saved.place[c]]
    /\ result' \in [Tasks -> Results]
    /\ \A t \in Tasks : result'[t] \in Earlier(t)
    /\ owed' = saved.owed
    /\ holder' = [c \in Copies |-> NoOne]
    /\ pub' = [t \in Tasks |-> IF pub[t] = "sending" THEN "retrying" ELSE pub[t]]
    /\ UNCHANGED <<late, work, runs, outcome, saved>>

-----------------------------------------------------------------------------
Step(w) == \/ \E c \in Copies : Receive(w, c)
           \/ Discard(w) \/ Start(w) \/ CommitWork(w) \/ Succeed(w) \/ Raise(w)
           \/ Ack(w) \/ Boot(w)

Next ==
    \/ \E t \in Tasks : \/ Push(t) \/ Accept(t) \/ Refuse(t)
                        \/ PassExpiry(t) \/ ForgetResult(t)
    \/ \E w \in Workers : Step(w) \/ ChildLost(w) \/ WorkerLost(w)
    \/ \E c \in Copies : Restore(c)
    \/ Fsync \/ RedisCrash

Spec == Init /\ [][Next]_vars

(* A worker that is up goes on, a lost one is restarted (restart policy of *)
(* the Deployment), task bodies end, and an abandoned delivery times out.  *)
FairSpec == /\ Spec
            /\ \A w \in Workers : WF_vars(Step(w))
            /\ \A c \in Copies : WF_vars(holder[c] = NoOne /\ Restore(c))

-----------------------------------------------------------------------------
Place == {"unsent", "ready", "unacked", "gone"}
Busy == {"received", "running", "committed", "stored"}

(* The values the state of the queue ranges over; a worker has a copy      *)
(* exactly while it is busy.                                               *)
TypeOK ==
    /\ pub \in [Tasks -> {"new", "retrying", "sending", "accepted", "refused"}]
    /\ place \in [Copies -> Place]
    /\ holder \in [Copies -> Workers \union {NoOne}]
    /\ late \subseteq Expiring
    /\ work \in [Workers -> [pc : Busy, copy : Copies]
                            \union {Free("idle"), Free("down")}]
    /\ result \in [Tasks -> Results]
    /\ runs \in [Tasks -> Nat]
    /\ outcome \in [Tasks -> Outcomes]
    /\ owed \subseteq Tasks
    /\ saved \in [place : [Copies -> Place], owed : SUBSET Tasks]
    /\ faults \in Nat

(* At least once: however children, workers, deliveries and Redis fail, an *)
(* accepted task stays in the broker until an execution of it has ended,   *)
(* unless Redis lost it with the last second before a crash.               *)
NothingForgotten ==
    \A t \in owed : InBroker(t) \/ outcome[t] # "none"

(* What GET /tasks/{task_id} shows was true of some execution: SUCCESS     *)
(* only after the work was committed, even when the result was restored by *)
(* a crash or the task is running again, and FAILURE and an unreadable     *)
(* REVOKED only after an execution or a discard.                           *)
ResultHonest ==
    \A t \in Tasks :
        /\ result[t] = "SUCCESS" => runs[t] > 0
        /\ result[t] \in {"FAILURE", "REVOKED"} => outcome[t] # "none"

(* The work of a task is repeated only when something was lost or when a   *)
(* publisher sent it again: late acknowledgement alone never runs twice    *)
(* what it delivered once.                                                 *)
RepeatsNeedFaults ==
    \A t \in Tasks : faults = 0 => runs[t] <= Cardinality(Pushed(t))

(* The promise of the task endpoints, with its liveness.                   *)
Asked == {t \in Tasks : pub[t] # "new"}
DQ == INSTANCE DurableQueue WITH asked <- Asked
KeepsPromise == DQ!Spec
=============================================================================
