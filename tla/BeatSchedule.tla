---------------------------- MODULE BeatSchedule ----------------------------
(***************************************************************************)
(* Celery Beat with the schedule of app/tasks/worker.py, and the worker    *)
(* that executes what it publishes.  An entry is due one period after its  *)
(* last run, which Beat notes when it publishes, keeps in memory and       *)
(* writes to /tmp/celerybeat-schedule from time to time.  A message carries*)
(* an expiry and waits, first in first out, for the one worker; kpis.      *)
(* refresh takes the day before the one it is started on.                  *)
(*                                                                         *)
(* What a task does is the matter of Readings and of SystemPage; the same  *)
(* tasks requested through the API, which have no expiry, only add runs.   *)
(***************************************************************************)
EXTENDS Integers, Sequences

CONSTANTS
    Entries,    \* names in beat_schedule
    Kpis,       \* the entry of kpis.refresh
    Period,     \* Period[e]: "schedule", in ticks
    Expires,    \* Expires[e]: "expires", in ticks
    DayLength,  \* ticks from midnight to midnight
    MaxTime,    \* bound: the clock
    MaxFaults   \* bound: crashes, new pods, failed publications and runs

ASSUME ScheduleAssumption ==
    /\ Kpis \in Entries
    /\ Period \in [Entries -> Nat] /\ Expires \in [Entries -> Nat]
    /\ \A e \in Entries : Expires[e] < Period[e]
    /\ Period[Kpis] = DayLength
    /\ MaxTime \in Nat /\ MaxFaults \in Nat

VARIABLES
    clock,
    day,       \* date.today()
    midnight,  \* the clock at the start of day
    up,        \* does Beat run?
    last,      \* last[e]: the last run of e, in Beat's memory
    file,      \* the same in celerybeat-schedule
    queue,     \* messages in the broker
    run,       \* what the worker executes
    refreshed, \* days that kpis.refresh has committed
    troubled,  \* history: days that a fault or a delay has touched
    rewinds,   \* history: when Beat has gone back to an older run of e
    faults     \* faults so far

vars == <<clock, day, midnight, up, last, file, queue, run, refreshed,
          troubled, rewinds, faults>>

Idle == [entry |-> "idle"]
ASSUME IdleAssumption == "idle" \notin Entries

Message == [entry : Entries, at : Nat, day : Nat]
Expired(m) == clock > m.at + Expires[m.entry]
In(q) == {q[i] : i \in DOMAIN q}
Due(e) == clock >= last[e] + Period[e]

(* A new file starts all entries now: the first run is a period away.      *)
Init ==
    /\ clock = 0 /\ day = 1 /\ midnight = 0
    /\ up = TRUE
    /\ last = [e \in Entries |-> 0] /\ file = last
    /\ queue = <<>> /\ run = Idle
    /\ refreshed = {} /\ troubled = {}
    /\ rewinds = [e \in Entries |-> {}] /\ faults = 0

Fault == faults < MaxFaults /\ faults' = faults + 1
Trouble(days) == troubled' = troubled \union days

-----------------------------------------------------------------------------
(* Beat.                                                                   *)

(* Mutants: the time of the next run is noted; a late entry catches up.    *)
PublishNext(e) ==
    /\ up /\ Due(e)
    /\ last' = [last EXCEPT ![e] = clock + Period[e]]
    /\ queue' = Append(queue, [entry |-> e, at |-> clock, day |-> day])
    /\ UNCHANGED <<clock, day, midnight, up, file, run, refreshed, troubled,
                   rewinds, faults>>
PublishCatchingUp(e) ==
    /\ up /\ Due(e)
    /\ last' = [last EXCEPT ![e] = last[e] + Period[e]]
    /\ queue' = Append(queue, [entry |-> e, at |-> clock, day |-> day])
    /\ UNCHANGED <<clock, day, midnight, up, file, run, refreshed, troubled,
                   rewinds, faults>>

(* The run is noted before the message is sent.                            *)
Publish(e) ==
    /\ up /\ Due(e)
    /\ last' = [last EXCEPT ![e] = clock]
    /\ queue' = Append(queue, [entry |-> e, at |-> clock, day |-> day])
    /\ UNCHANGED <<clock, day, midnight, up, file, run, refreshed, troubled,
                   rewinds, faults>>

(* The reply of the broker is lost, and the publication repeated (bound:   *)
(* once).                                                                  *)
PublishTwice(e) ==
    /\ up /\ Due(e) /\ Fault
    /\ last' = [last EXCEPT ![e] = clock]
    /\ LET m == [entry |-> e, at |-> clock, day |-> day]
       IN  queue' = Append(Append(queue, m), m)
    /\ UNCHANGED <<clock, day, midnight, up, file, run, refreshed, troubled,
                   rewinds>>

(* The broker cannot be reached: Beat logs the error, and the run is lost. *)
PublishFails(e) ==
    /\ up /\ Due(e) /\ Fault
    /\ last' = [last EXCEPT ![e] = clock]
    /\ Trouble(IF e = Kpis THEN {day} ELSE {})
    /\ UNCHANGED <<clock, day, midnight, up, file, queue, run, refreshed,
                   rewinds>>

Sync ==
    /\ up /\ file # last
    /\ file' = last
    /\ UNCHANGED <<clock, day, midnight, up, last, queue, run, refreshed,
                   troubled, rewinds, faults>>

(* The process ends, and the container starts it again in the same pod.    *)
Crash ==
    /\ up /\ Fault
    /\ up' = FALSE
    /\ last' = file
    /\ rewinds' = [e \in Entries |-> IF file[e] = last[e] THEN rewinds[e]
                                     ELSE rewinds[e] \union {clock}]
    /\ UNCHANGED <<clock, day, midnight, file, queue, run, refreshed,
                   troubled>>
Boot ==
    /\ ~up
    /\ up' = TRUE
    /\ UNCHANGED <<clock, day, midnight, last, file, queue, run, refreshed,
                   troubled, rewinds, faults>>

(* A new pod has a new emptyDir: the entries start now.                    *)
Replace ==
    /\ Fault
    /\ up' = TRUE
    /\ last' = [e \in Entries |-> clock] /\ file' = last'
    /\ Trouble(IF last[Kpis] < midnight THEN {day} ELSE {})
    /\ UNCHANGED <<clock, day, midnight, queue, run, refreshed, rewinds>>

-----------------------------------------------------------------------------
(* Redis crashes and goes back to its last fsync: what was pushed since is *)
(* forgotten.                                                              *)
Forget ==
    /\ queue # <<>> /\ Fault
    /\ LET m == queue[Len(queue)]
       IN  /\ m.at = clock
           /\ Trouble(IF m.entry = Kpis THEN {m.day} ELSE {})
    /\ queue' = SubSeq(queue, 1, Len(queue) - 1)
    /\ UNCHANGED <<clock, day, midnight, up, last, file, run, refreshed,
                   rewinds>>

-----------------------------------------------------------------------------
(* The worker, busy or down for any time in between.                       *)

Discard ==
    /\ run = Idle /\ queue # <<>> /\ Expired(Head(queue))
    /\ queue' = Tail(queue)
    /\ Trouble(IF Head(queue).entry = Kpis THEN {Head(queue).day} ELSE {})
    /\ UNCHANGED <<clock, day, midnight, up, last, file, run, refreshed,
                   rewinds, faults>>

(* Mutant: the target is today.                                            *)
StartToday ==
    /\ run = Idle /\ queue # <<>> /\ ~Expired(Head(queue))
    /\ queue' = Tail(queue)
    /\ run' = [entry |-> Head(queue).entry, msg |-> Head(queue),
               target |-> day]
    /\ UNCHANGED <<clock, day, midnight, up, last, file, refreshed, troubled,
                   rewinds, faults>>

Start ==
    /\ run = Idle /\ queue # <<>> /\ ~Expired(Head(queue))
    /\ queue' = Tail(queue)
    /\ run' = [entry |-> Head(queue).entry, msg |-> Head(queue),
               target |-> day - 1]
    /\ UNCHANGED <<clock, day, midnight, up, last, file, refreshed, troubled,
                   rewinds, faults>>

Finish ==
    /\ run # Idle
    /\ run' = Idle
    /\ refreshed' = IF run.entry = Kpis THEN refreshed \union {run.target}
                    ELSE refreshed
    /\ UNCHANGED <<clock, day, midnight, up, last, file, queue, troubled,
                   rewinds, faults>>

(* The task raises (the database is down, another run has inserted its     *)
(* row): FAILURE is stored and the message acknowledged.  A worker that is *)
(* lost when Redis has forgotten the message comes to the same.            *)
Fail ==
    /\ run # Idle /\ Fault
    /\ run' = Idle
    /\ Trouble(IF run.entry = Kpis THEN {run.target + 1} ELSE {})
    /\ UNCHANGED <<clock, day, midnight, up, last, file, queue, refreshed,
                   rewinds>>

(* The visibility timeout passes during the execution, or the ack is lost  *)
(* in a crash of Redis: the message is executed and comes back all the same.*)
Redeliver ==
    /\ run # Idle /\ Fault
    /\ queue' = Append(queue, run.msg)
    /\ UNCHANGED <<clock, day, midnight, up, last, file, run, refreshed,
                   troubled, rewinds>>

(* The worker is lost: the message comes back at once, as the next one, or *)
(* after the visibility timeout, as the last one.                          *)
Lose ==
    /\ run # Idle /\ Fault
    /\ run' = Idle
    /\ queue' \in {<<run.msg>> \o queue, Append(queue, run.msg)}
    /\ Trouble(IF /\ run.entry = Kpis
                  /\ ~(run.msg.day = day /\ run.target = day - 1)
               THEN {run.target + 1} ELSE {})
    /\ UNCHANGED <<clock, day, midnight, up, last, file, refreshed, rewinds>>

-----------------------------------------------------------------------------
(* Midnight finds the run of the day not published, or still waiting.      *)
Missed == \/ Due(Kpis)
          \/ \E m \in In(queue) : m.entry = Kpis /\ m.day = day

Tick ==
    /\ clock < MaxTime
    /\ clock' = clock + 1
    /\ IF clock' = midnight + DayLength
       THEN /\ day' = day + 1 /\ midnight' = clock'
            /\ Trouble(IF Missed THEN {day} ELSE {})
       ELSE UNCHANGED <<day, midnight, troubled>>
    /\ UNCHANGED <<up, last, file, queue, run, refreshed, rewinds, faults>>

Next ==
    \/ \E e \in Entries : Publish(e) \/ PublishTwice(e) \/ PublishFails(e)
    \/ Sync \/ Crash \/ Boot \/ Replace
    \/ Forget
    \/ Discard \/ Start \/ Finish \/ Fail \/ Redeliver \/ Lose
    \/ Tick

Spec == Init /\ [][Next]_vars

-----------------------------------------------------------------------------
(* The values the state of the schedule ranges over; neither memory nor    *)
(* file ever notes a run that is yet to come.                              *)
TypeOK ==
    /\ clock \in Nat /\ day \in Nat \ {0}
    /\ midnight \in Nat /\ midnight <= clock /\ clock < midnight + DayLength
    /\ up \in BOOLEAN /\ faults \in Nat
    /\ rewinds \in [Entries -> SUBSET (0..clock)]
    /\ last \in [Entries -> Nat] /\ file \in [Entries -> Nat]
    /\ \A e \in Entries : file[e] <= last[e] /\ last[e] <= clock
    /\ queue \in Seq(Message)
    /\ \/ run = Idle
       \/ /\ run \in [entry : Entries, msg : Message, target : Nat]
          /\ run.entry = run.msg.entry
    /\ refreshed \subseteq Nat /\ troubled \subseteq Nat

(* kpis.refresh names no day: the day it summarises follows from when it   *)
(* happens to start.  Still each day is summarised on the next, unless on  *)
(* that very day the publication failed or was forgotten by Redis, the pod *)
(* of Beat was replaced before it, it was late, expired or waited over     *)
(* midnight, or the run raised or was lost for good.  A crash of Beat and  *)
(* a repeated message cost nothing, and no fault costs another day than    *)
(* its own.                                                                *)
QuietDays ==
    \A d \in 2..(day - 1) :
        \/ d \in troubled
        \/ d - 1 \in refreshed
        \/ run # Idle /\ run.entry = Kpis /\ run.target = d - 1

(* "expires" below the period: however long the worker was away, what it   *)
(* executes and what it finds that it will still execute is one            *)
(* publication of an entry, repeated or not.  There are two only if Beat   *)
(* went back to an older run of that very entry between the one and the    *)
(* other.                                                                  *)
Live(m) == ~Expired(m)
Held == In(queue) \union (IF run = Idle THEN {} ELSE {run.msg})
NoBurst ==
    \A m, n \in Held :
        m.entry = n.entry /\ m.at < n.at /\ Live(m) /\ Live(n)
            => \E t \in rewinds[m.entry] : m.at <= t /\ t <= n.at
=============================================================================
