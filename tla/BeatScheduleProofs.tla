------------------------ MODULE BeatScheduleProofs ------------------------
(***************************************************************************)
(* Theorems about BeatSchedule, for any entries, periods and expiries, any *)
(* length of a day and any number of faults.                               *)
(***************************************************************************)
EXTENDS BeatSchedule, SequenceTheorems, TLAPS

(* A day is settled once a fault has touched it, its run has committed, or *)
(* its run is under way.                                                   *)
Running(d) == run # Idle /\ run.entry = Kpis /\ run.target = d - 1
Settled(d) == d \in troubled \/ d - 1 \in refreshed \/ Running(d)
Waiting == \E m \in In(queue) : m.entry = Kpis /\ m.day = day

(* Once Beat has noted a run of today, today is settled or its message is  *)
(* in the queue.                                                           *)
TodayInv == day > 1 /\ last[Kpis] >= midnight => Settled(day) \/ Waiting

(* No message is younger than the run that is noted, and two of an entry   *)
(* that are waiting or being executed are a period apart, unless Beat went *)
(* back after the one, and before the other.                               *)
NotedInv ==
    \A m \in Held : /\ m.at <= clock
                    /\ \/ m.at <= last[m.entry]
                       \/ \E t \in rewinds[m.entry] : m.at <= t
Apart(m, n) ==
    m.entry = n.entry /\ m.at < n.at =>
        \/ n.at >= m.at + Period[m.entry]
        \/ \E t \in rewinds[m.entry] : m.at <= t /\ t <= n.at
SpacedInv == \A m, n \in Held : Apart(m, n)

(* The inductive invariant.                                                *)
IInv == TypeOK /\ QuietDays /\ TodayInv /\ NotedInv /\ SpacedInv

-----------------------------------------------------------------------------
LEMMA DayIsPositive == DayLength \in Nat /\ 0 < DayLength
  BY ScheduleAssumption

(* The parts of the type invariant, to be shown one by one.                *)
Flags == up \in BOOLEAN
ClockOK ==
    /\ clock \in Nat /\ day \in Nat \ {0}
    /\ midnight \in Nat /\ midnight <= clock /\ clock < midnight + DayLength
    /\ refreshed \subseteq Nat /\ troubled \subseteq Nat /\ faults \in Nat
RewindsOK == rewinds \in [Entries -> SUBSET (0..clock)]
NotesOK ==
    /\ last \in [Entries -> Nat] /\ file \in [Entries -> Nat]
    /\ \A e \in Entries : file[e] <= last[e] /\ last[e] <= clock
RunOK ==
    \/ run = Idle
    \/ /\ run \in [entry : Entries, msg : Message, target : Nat]
       /\ run.entry = run.msg.entry

(* What a queue holds after each of its operations.                        *)

LEMMA TailIn ==
    ASSUME NEW q \in Seq(Message), q # <<>>
    PROVE  /\ Head(q) \in Message /\ Tail(q) \in Seq(Message)
           /\ In(q) = In(Tail(q)) \union {Head(q)}
<1>1. Len(q) \in Nat /\ Len(q) # 0 /\ DOMAIN q = 1..Len(q)
  BY EmptySeq, LenProperties
<1>2. /\ Head(q) \in Message /\ Head(q) = q[1]
      /\ Tail(q) \in Seq(Message) /\ Len(Tail(q)) = Len(q) - 1
      /\ \A i \in 1..Len(Tail(q)) : Tail(q)[i] = q[i + 1]
  BY HeadTailProperties, <1>1
<1>3. DOMAIN Tail(q) = 1..(Len(q) - 1)
  BY <1>2, LenProperties
<1>4. \A i \in DOMAIN q : i # 1 => /\ i - 1 \in DOMAIN Tail(q)
                                   /\ Tail(q)[i - 1] = q[i]
  BY <1>1, <1>2, <1>3
<1>5. \A i \in DOMAIN Tail(q) : i + 1 \in DOMAIN q /\ Tail(q)[i] = q[i + 1]
  BY <1>1, <1>2, <1>3
<1>6. 1 \in DOMAIN q
  BY <1>1
<1>7. ASSUME NEW x \in In(q) PROVE x \in In(Tail(q)) \union {Head(q)}
  <2>1. PICK i \in DOMAIN q : x = q[i]
    BY DEF In
  <2>2. CASE i = 1
    BY <1>2, <2>1, <2>2
  <2>3. CASE i # 1
    BY <1>4, <2>1, <2>3 DEF In
  <2> QED
    BY <2>2, <2>3
<1>8. In(Tail(q)) \subseteq In(q) /\ Head(q) \in In(q)
  BY <1>2, <1>5, <1>6 DEF In
<1> QED
  BY <1>2, <1>7, <1>8

LEMMA FrontIn ==
    ASSUME NEW q \in Seq(Message), q # <<>>
    PROVE  /\ q[Len(q)] \in Message /\ SubSeq(q, 1, Len(q) - 1) \in Seq(Message)
           /\ In(q) = In(SubSeq(q, 1, Len(q) - 1)) \union {q[Len(q)]}
<1> DEFINE n == Len(q)
           p == SubSeq(q, 1, n - 1)
<1>1. n \in Nat /\ n # 0 /\ DOMAIN q = 1..n
  BY EmptySeq, LenProperties
<1>2. \A i \in 1..n : q[i] \in Message
  BY ElementOfSeq
<1>3. 1 \in Int /\ n - 1 \in Int /\ \A i \in 1..(n - 1) : q[i] \in Message
  BY <1>1, <1>2
<1>4. /\ p \in Seq(Message)
      /\ Len(p) = IF 1 <= n - 1 THEN n - 1 - 1 + 1 ELSE 0
      /\ \A i \in 1..(n - 1 - 1 + 1) : p[i] = q[1 + i - 1]
  <2> HIDE DEF n
  <2> QED
    BY <1>3, SubSeqProperties
<1>5. DOMAIN p = 1..(n - 1) /\ \A i \in 1..(n - 1) : p[i] = q[i]
  <2>1. DOMAIN p = 1..Len(p)
    BY <1>4, LenProperties
  <2> HIDE DEF n, p
  <2> QED
    BY <1>1, <1>4, <2>1
<1> HIDE DEF n, p
<1>6. In(q) = In(p) \union {q[n]}
  BY <1>1, <1>5 DEF In
<1> QED
  BY <1>1, <1>2, <1>4, <1>6 DEF n, p

LEMMA AppendIn ==
    ASSUME NEW q \in Seq(Message), NEW m \in Message
    PROVE  /\ Append(q, m) \in Seq(Message)
           /\ In(Append(q, m)) = In(q) \union {m}
<1> DEFINE p == Append(q, m)
           n == Len(q)
<1>1. n \in Nat /\ DOMAIN q = 1..n
  BY LenProperties
<1>2. /\ p \in Seq(Message) /\ Len(p) = n + 1
      /\ \A i \in 1..n : p[i] = q[i]
      /\ p[n + 1] = m
  BY AppendProperties
<1>3. DOMAIN p = 1..(n + 1)
  BY <1>2, LenProperties
<1> HIDE DEF p, n
<1>4. In(p) = In(q) \union {m}
  BY <1>1, <1>2, <1>3 DEF In
<1> QED
  BY <1>2, <1>4 DEF p

LEMMA PrependIn ==
    ASSUME NEW q \in Seq(Message), NEW m \in Message
    PROVE  /\ <<m>> \o q \in Seq(Message)
           /\ In(<<m>> \o q) = In(q) \union {m}
<1> DEFINE p == <<m>> \o q
           n == Len(q)
<1>1. n \in Nat /\ DOMAIN q = 1..n
  BY LenProperties
<1>2. <<m>> \in Seq(Message) /\ Len(<<m>>) = 1 /\ <<m>>[1] = m
  OBVIOUS
<1>3. /\ p \in Seq(Message) /\ Len(p) = 1 + n
      /\ \A i \in 1..(1 + n) : p[i] = IF i <= 1 THEN <<m>>[i] ELSE q[i - 1]
  BY <1>2, ConcatProperties
<1>4. DOMAIN p = 1..(1 + n)
  BY <1>3, LenProperties
<1> HIDE DEF p, n
<1>5. 1 \in DOMAIN p /\ p[1] = m
  BY <1>1, <1>2, <1>3, <1>4
<1>6. \A i \in DOMAIN q : i + 1 \in DOMAIN p /\ p[i + 1] = q[i]
  BY <1>1, <1>3, <1>4
<1>7. \A j \in DOMAIN p : j # 1 => j - 1 \in DOMAIN q /\ p[j] = q[j - 1]
  BY <1>1, <1>3, <1>4
<1>8. In(p) \subseteq In(q) \union {m}
  BY <1>5, <1>7 DEF In
<1>9. In(q) \union {m} \subseteq In(p)
  BY <1>5, <1>6 DEF In
<1> QED
  BY <1>3, <1>8, <1>9 DEF p

LEMMA InMessages == ASSUME NEW q \in Seq(Message) PROVE In(q) \subseteq Message
<1>1. DOMAIN q = 1..Len(q)
  BY LenProperties
<1> QED
  BY <1>1, ElementOfSeq DEF In

(* What the queue holds after each action.                                 *)
NewMessage(e) == [entry |-> e, at |-> clock, day |-> day]
QueueHolds(S) == queue' \in Seq(Message) /\ In(queue') = S

LEMMA PublishHolds ==
    ASSUME queue \in Seq(Message), ClockOK, NEW e \in Entries,
           Publish(e) \/ PublishTwice(e)
    PROVE  /\ NewMessage(e) \in Message
           /\ QueueHolds(In(queue) \union {NewMessage(e)})
<1>1. NewMessage(e) \in Message
  BY DEF NewMessage, Message, ClockOK
<1>2. queue' \in {Append(queue, NewMessage(e)),
                  Append(Append(queue, NewMessage(e)), NewMessage(e))}
  BY DEF Publish, PublishTwice, NewMessage
<1> DEFINE new == NewMessage(e)
           once == Append(queue, new)
<1>3. once \in Seq(Message) /\ In(once) = In(queue) \union {new}
  BY <1>1, AppendIn
<1>4. /\ Append(once, new) \in Seq(Message)
      /\ In(Append(once, new)) = In(once) \union {new}
  BY <1>1, <1>3, AppendIn
<1>5. queue' \in {once, Append(once, new)}
  BY <1>2
<1> HIDE DEF new, once
<1> QED
  BY <1>1, <1>3, <1>4, <1>5 DEF QueueHolds, new

LEMMA AgainHolds ==
    ASSUME queue \in Seq(Message), RunOK, Lose \/ Redeliver
    PROVE  run.msg \in Message /\ QueueHolds(In(queue) \union {run.msg})
<1>1. run.msg \in Message
  BY DEF Lose, Redeliver, RunOK
<1> QED
  BY <1>1, AppendIn, PrependIn DEF Lose, Redeliver, QueueHolds

LEMMA TakeHolds ==
    ASSUME queue \in Seq(Message), Discard \/ Start
    PROVE  /\ Head(queue) \in Message /\ queue' \in Seq(Message)
           /\ In(queue) = In(queue') \union {Head(queue)}
BY TailIn DEF Discard, Start

LEMMA ForgetHolds ==
    ASSUME queue \in Seq(Message), Forget
    PROVE  /\ queue[Len(queue)] \in Message /\ queue' \in Seq(Message)
           /\ In(queue) = In(queue') \union {queue[Len(queue)]}
BY FrontIn DEF Forget

-----------------------------------------------------------------------------
LEMMA TypeParts ==
    TypeOK <=> /\ Flags /\ ClockOK /\ RewindsOK /\ NotesOK
               /\ queue \in Seq(Message) /\ RunOK
  BY Zenon DEF TypeOK, Flags, ClockOK, RewindsOK, NotesOK, RunOK

LEMMA InitIInv == Init => IInv
<1> SUFFICES ASSUME Init PROVE IInv
  OBVIOUS
<1> USE ScheduleAssumption, DayIsPositive DEF Init
<1>0. DOMAIN queue = {} /\ queue \in Seq(Message)
  BY EmptySeq
<1>1. Flags
  BY Zenon DEF Flags
<1>2. ClockOK /\ RunOK /\ RewindsOK
  BY DEF ClockOK, RunOK, RewindsOK
<1>3. NotesOK
  BY DEF NotesOK
<1>4. QuietDays /\ TodayInv
  BY DEF QuietDays, TodayInv
<1>5. NotedInv /\ SpacedInv
  BY <1>0 DEF NotedInv, SpacedInv, Held, In
<1> QED
  BY <1>0, <1>1, <1>2, <1>3, <1>4, <1>5, TypeParts DEF IInv

LEMMA FlagsStep == Flags /\ [Next]_vars => Flags'
  BY Zenon
  DEF Flags, Next, vars, Publish, PublishTwice, PublishFails, Sync, Crash, Boot,
      Replace, Forget, Discard, Start, Finish, Fail, Redeliver, Lose, Tick

LEMMA RewindsStep == RewindsOK /\ ClockOK /\ [Next]_vars => RewindsOK'
<1> SUFFICES ASSUME RewindsOK, ClockOK, [Next]_vars PROVE RewindsOK'
  OBVIOUS
<1> USE DEF RewindsOK
<1>1. ASSUME Crash PROVE RewindsOK'
  <2>1. clock' = clock /\ clock \in 0..clock
    BY <1>1 DEF Crash, ClockOK
  <2> QED
    BY <1>1, <2>1 DEF Crash
<1>2. ASSUME Tick PROVE RewindsOK'
  <2>1. 0..clock \subseteq 0..clock'
    BY <1>2 DEF Tick, ClockOK
  <2> QED
    BY <1>2, <2>1 DEF Tick
<1>3. ASSUME UNCHANGED <<clock, rewinds>> PROVE RewindsOK'
  BY <1>3
<1> QED
  BY <1>1, <1>2, <1>3
  DEF Next, vars, Publish, PublishTwice, PublishFails, Sync, Boot, Replace,
      Forget, Discard, Start, Finish, Fail, Redeliver, Lose

LEMMA QueueStep ==
    queue \in Seq(Message) /\ RunOK /\ ClockOK /\ [Next]_vars
        => queue' \in Seq(Message)
<1> SUFFICES ASSUME queue \in Seq(Message), RunOK, ClockOK, [Next]_vars
             PROVE  queue' \in Seq(Message)
  OBVIOUS
<1>1. ASSUME queue' = queue PROVE queue' \in Seq(Message)
  BY <1>1
<1> QED
  BY <1>1, PublishHolds, AgainHolds, TakeHolds, ForgetHolds
  DEF QueueHolds, Next, vars, PublishFails, Sync, Crash, Boot, Replace, Finish,
      Fail, Tick

LEMMA NotesStep == NotesOK /\ ClockOK /\ [Next]_vars => NotesOK'
<1> SUFFICES ASSUME NotesOK, ClockOK, [Next]_vars PROVE NotesOK'
  OBVIOUS
<1> USE ScheduleAssumption DEF NotesOK, ClockOK
<1>1. ASSUME NEW e \in Entries,
             Publish(e) \/ PublishTwice(e) \/ PublishFails(e)
      PROVE NotesOK'
  <2>1. last' = [last EXCEPT ![e] = clock] /\ file' = file /\ clock' = clock
    BY <1>1 DEF Publish, PublishTwice, PublishFails
  <2>2. \A x \in Entries : file[x] \in Nat /\ last[x] \in Nat
    OBVIOUS
  <2>3. last' \in [Entries -> Nat]
    BY <2>1
  <2>4. \A x \in Entries : last'[x] = last[x] \/ last'[x] = clock
    BY <2>1
  <2> QED
    BY <2>1, <2>2, <2>3, <2>4
<1>2. ASSUME Sync PROVE NotesOK'
  BY <1>2 DEF Sync
<1>3. ASSUME Crash PROVE NotesOK'
  <2>1. last' = file /\ file' = file /\ clock' = clock
    BY <1>3 DEF Crash
  <2>2. \A e \in Entries : file[e] \in Nat /\ last[e] \in Nat
    OBVIOUS
  <2> QED
    BY <2>1, <2>2
<1>4. ASSUME Replace PROVE NotesOK'
  BY <1>4 DEF Replace
<1>5. ASSUME Tick PROVE NotesOK'
  <2>1. last' = last /\ file' = file /\ clock' = clock + 1
    BY <1>5 DEF Tick
  <2>2. \A e \in Entries : file[e] \in Nat /\ last[e] \in Nat
    OBVIOUS
  <2> QED
    BY <2>1, <2>2
<1>6. ASSUME UNCHANGED <<last, file, clock>> PROVE NotesOK'
  BY <1>6
<1> QED
  BY <1>1, <1>2, <1>3, <1>4, <1>5, <1>6
  DEF Next, vars, Boot, Forget, Discard, Start, Finish, Fail, Redeliver, Lose

LEMMA ClockStep ==
    ClockOK /\ RunOK /\ queue \in Seq(Message) /\ [Next]_vars => ClockOK'
<1> SUFFICES ASSUME ClockOK, RunOK, queue \in Seq(Message), [Next]_vars
             PROVE  ClockOK'
  OBVIOUS
<1> USE DayIsPositive DEF ClockOK, Trouble, Fault
<1>1. ASSUME UNCHANGED <<clock, day, midnight>> PROVE ClockOK'
  <2>1. faults' \in Nat
    <3>1. faults' \in {faults, faults + 1}
      BY Zenon
      DEF Next, vars, Publish, PublishTwice, PublishFails, Sync, Crash, Boot,
          Replace, Forget, Discard, Start, Finish, Fail, Redeliver, Lose, Tick,
          Fault
    <3> QED
      BY <3>1
  <2>3. refreshed' \subseteq Nat
    <3>1. ASSUME Finish PROVE refreshed' \subseteq Nat
      <4>1. run.target \in Nat
        BY <3>1 DEF Finish, RunOK
      <4> QED
        BY <3>1, <4>1 DEF Finish
    <3> QED
      BY <3>1
      DEF Next, vars, Publish, PublishTwice, PublishFails, Sync, Crash, Boot,
          Replace, Forget, Discard, Start, Fail, Redeliver, Lose, Tick
  <2>2. troubled' \subseteq Nat
    <3>1. ASSUME Discard PROVE troubled' \subseteq Nat
      BY <3>1, TakeHolds DEF Discard, Message
    <3>3. ASSUME Forget PROVE troubled' \subseteq Nat
      BY <3>3, ForgetHolds DEF Forget, Message
    <3>2. ASSUME Fail \/ Lose PROVE troubled' \subseteq Nat
      <4>1. run.target \in Nat
        BY <3>2 DEF Fail, Lose, RunOK
      <4>2. run.target + 1 \in Nat
        BY <4>1
      <4> HIDE DEF Fault
      <4> QED
        BY <3>2, <4>2 DEF Fail, Lose
    <3> QED
      BY <3>1, <3>2, <3>3, <1>1
      DEF Next, vars, Publish, PublishTwice, PublishFails, Sync, Crash, Boot,
          Replace, Start, Finish, Redeliver, Tick
  <2> QED
    BY <1>1, <2>1, <2>2, <2>3
<1>2. ASSUME Tick PROVE ClockOK'
  <2>0. clock' = clock + 1 /\ refreshed' = refreshed /\ faults' = faults
    BY <1>2 DEF Tick
  <2>1. CASE clock' = midnight + DayLength
    <3>1. /\ day' = day + 1 /\ midnight' = clock'
          /\ troubled' \subseteq troubled \union {day}
      BY <1>2, <2>1 DEF Tick
    <3> QED
      BY <2>0, <3>1
  <2>2. CASE clock' # midnight + DayLength
    <3>1. day' = day /\ midnight' = midnight /\ troubled' = troubled
      BY <1>2, <2>2 DEF Tick
    <3> QED
      BY <2>0, <2>2, <3>1
  <2> QED
    BY <2>1, <2>2
<1> QED
  BY <1>1, <1>2
  DEF Next, vars, Publish, PublishTwice, PublishFails, Sync, Crash, Boot,
      Replace, Forget, Discard, Start, Finish, Fail, Redeliver, Lose

LEMMA RunStep ==
    RunOK /\ ClockOK /\ queue \in Seq(Message) /\ [Next]_vars => RunOK'
<1> SUFFICES ASSUME RunOK, ClockOK, queue \in Seq(Message), [Next]_vars
             PROVE  RunOK'
  OBVIOUS
<1>1. ASSUME Start PROVE RunOK'
  <2>1. Head(queue) \in Message
    BY <1>1, TakeHolds
  <2>2. run'.entry = run'.msg.entry
    BY <1>1 DEF Start
  <2>3. run' \in [entry : Entries, msg : Message, target : Nat]
    <3>1. Head(queue).entry \in Entries /\ day - 1 \in Nat
      BY <2>1 DEF Message, ClockOK
    <3> QED
      BY <1>1, <2>1, <3>1 DEF Start
  <2> QED
    BY <2>2, <2>3 DEF RunOK
<1>2. ASSUME run' \in {run, Idle} PROVE RunOK'
  BY <1>2 DEF RunOK, Idle
<1> QED
  BY <1>1, <1>2
  DEF Next, vars, Publish, PublishTwice, PublishFails, Sync, Crash, Boot,
      Replace, Forget, Discard, Finish, Fail, Redeliver, Lose, Tick

LEMMA TypeStep == TypeOK /\ [Next]_vars => TypeOK'
<1> SUFFICES ASSUME TypeOK, [Next]_vars PROVE TypeOK'
  OBVIOUS
<1>1. /\ Flags /\ ClockOK /\ RewindsOK /\ NotesOK
      /\ queue \in Seq(Message) /\ RunOK
  BY TypeParts
<1>2. (/\ Flags /\ ClockOK /\ RewindsOK /\ NotesOK
       /\ queue \in Seq(Message) /\ RunOK)'
  BY <1>1, FlagsStep, QueueStep, NotesStep, ClockStep, RewindsStep, RunStep
<1> QED
  BY <1>2, Zenon DEF TypeOK, Flags, ClockOK, RewindsOK, NotesOK, RunOK

-----------------------------------------------------------------------------
(* Within a day it is enough that what is settled stays so, and that the   *)
(* run of today does not vanish.                                           *)
LEMMA SameDay ==
    ASSUME ClockOK, QuietDays, day' = day, midnight' = midnight,
           \A d \in Nat : Settled(d) => Settled(d)',
           day > 1 /\ last'[Kpis] >= midnight => Settled(day)' \/ Waiting'
    PROVE  QuietDays' /\ TodayInv'
<1>1. QuietDays'
  BY DEF QuietDays, Settled, Running, ClockOK
<1>2. TodayInv'
  BY DEF TodayInv
<1> QED
  BY <1>1, <1>2

LEMMA FateStep == IInv /\ [Next]_vars => QuietDays' /\ TodayInv'
<1> SUFFICES ASSUME IInv, [Next]_vars PROVE QuietDays' /\ TodayInv'
  OBVIOUS
<1>0. /\ ClockOK /\ NotesOK /\ queue \in Seq(Message) /\ RunOK
      /\ QuietDays /\ TodayInv
  BY TypeParts DEF IInv
<1>t. clock \in Nat /\ day \in Nat /\ midnight \in Nat /\ midnight <= clock
  BY <1>0 DEF ClockOK
<1> USE <1>0, ScheduleAssumption
<1>1. ASSUME NEW e \in Entries, Publish(e) \/ PublishTwice(e)
      PROVE QuietDays' /\ TodayInv'
  <2>1. NewMessage(e).entry = e /\ NewMessage(e).day = day
    BY DEF NewMessage
  <2>2. In(queue') = In(queue) \union {NewMessage(e)}
    BY <1>1, PublishHolds DEF QueueHolds
  <2>3. /\ day' = day /\ midnight' = midnight /\ run' = run
        /\ refreshed' = refreshed /\ troubled' = troubled
        /\ last' = [last EXCEPT ![e] = clock]
    BY <1>1 DEF Publish, PublishTwice
  <2>4. (Waiting => Waiting') /\ (e = Kpis => Waiting')
    BY <2>1, <2>2, <2>3 DEF Waiting
  <2>5. \A d \in Nat : Settled(d) => Settled(d)'
    BY <2>3 DEF Settled, Running
  <2>6. e # Kpis => last'[Kpis] = last[Kpis]
    BY <2>3 DEF NotesOK
  <2>8. day > 1 /\ last'[Kpis] >= midnight => Settled(day)' \/ Waiting'
    BY <2>3, <2>4, <2>5, <2>6, <1>t DEF TodayInv, Settled, Running
  <2> QED
    BY <2>3, <2>5, <2>8, SameDay
<1>2. ASSUME NEW e \in Entries, PublishFails(e) PROVE QuietDays' /\ TodayInv'
  <2>1. /\ day' = day /\ midnight' = midnight /\ queue' = queue
        /\ troubled' = troubled \union (IF e = Kpis THEN {day} ELSE {})
        /\ refreshed' = refreshed /\ run' = run
    BY <1>2 DEF PublishFails, Trouble
  <2>2. \A d \in Nat : Settled(d) => Settled(d)'
    BY <2>1 DEF Settled, Running
  <2>3. e # Kpis => last'[Kpis] = last[Kpis]
    BY <1>2 DEF PublishFails, NotesOK
  <2>4. e = Kpis => Settled(day)'
    BY <2>1 DEF Settled
  <2>5. Waiting => Waiting'
    BY <2>1 DEF Waiting
  <2>6. day > 1 /\ last'[Kpis] >= midnight => Settled(day)' \/ Waiting'
    BY <2>1, <2>2, <2>3, <2>4, <2>5, <1>t DEF TodayInv, Settled, Running
  <2> QED
    BY <2>1, <2>2, <2>6, SameDay
<1>3. ASSUME Sync \/ Crash \/ Boot PROVE QuietDays' /\ TodayInv'
  <2>1. /\ day' = day /\ midnight' = midnight /\ queue' = queue
        /\ troubled' = troubled /\ refreshed' = refreshed /\ run' = run
        /\ last' \in {last, file}
    BY <1>3 DEF Sync, Crash, Boot
  <2>2. \A d \in Nat : Settled(d) => Settled(d)'
    BY <2>1 DEF Settled, Running
  <2>3. Waiting => Waiting'
    BY <2>1 DEF Waiting
  <2>4. /\ file[Kpis] \in Nat /\ last[Kpis] \in Nat
        /\ file[Kpis] <= last[Kpis]
    BY DEF NotesOK
  <2>5. last'[Kpis] >= midnight => last[Kpis] >= midnight
    BY <2>1, <2>4, <1>t
  <2>6. day > 1 /\ last'[Kpis] >= midnight => Settled(day)' \/ Waiting'
    BY <2>1, <2>2, <2>3, <2>5, <1>t DEF TodayInv, Settled, Running
  <2> QED
    BY <2>1, <2>2, <2>6, SameDay
<1>4. ASSUME Replace PROVE QuietDays' /\ TodayInv'
  <2>1. /\ day' = day /\ midnight' = midnight /\ queue' = queue
        /\ troubled' = troubled \union (IF last[Kpis] < midnight THEN {day} ELSE {})
        /\ refreshed' = refreshed /\ run' = run
    BY <1>4 DEF Replace, Trouble
  <2>2. \A d \in Nat : Settled(d) => Settled(d)'
    BY <2>1 DEF Settled, Running
  <2>3. Waiting => Waiting'
    BY <2>1 DEF Waiting
  <2>4. last[Kpis] \in Nat
    BY DEF NotesOK
  <2>5. last[Kpis] < midnight => Settled(day)'
    BY <2>1 DEF Settled
  <2>6. day > 1 => Settled(day)' \/ Waiting'
    BY <2>1, <2>2, <2>3, <2>4, <2>5, <1>t DEF TodayInv, Settled, Running
  <2> QED
    BY <2>1, <2>2, <2>6, SameDay
<1>5. ASSUME Discard PROVE QuietDays' /\ TodayInv'
  <2>1. /\ day' = day /\ midnight' = midnight /\ last' = last
        /\ troubled' = troubled \union
               (IF Head(queue).entry = Kpis THEN {Head(queue).day} ELSE {})
        /\ refreshed' = refreshed /\ run' = run
        /\ queue # <<>> /\ queue' = Tail(queue)
    BY <1>5 DEF Discard, Trouble
  <2>2. \A d \in Nat : Settled(d) => Settled(d)'
    BY <2>1 DEF Settled, Running
  <2>3. Waiting => Waiting' \/ day \in troubled'
    BY <1>5, <2>1, TakeHolds DEF Waiting
  <2>4. day > 1 /\ last'[Kpis] >= midnight => Settled(day)' \/ Waiting'
    BY <2>1, <2>2, <2>3, <1>t DEF TodayInv, Settled
  <2> QED
    BY <2>1, <2>2, <2>4, SameDay
<1>6. ASSUME Start PROVE QuietDays' /\ TodayInv'
  <2>1. /\ day' = day /\ midnight' = midnight /\ last' = last
        /\ troubled' = troubled /\ refreshed' = refreshed
        /\ queue # <<>> /\ queue' = Tail(queue)
        /\ run = Idle /\ run'.entry = Head(queue).entry /\ run'.target = day - 1
    BY <1>6 DEF Start
  <2>2. Head(queue) \in Message
    BY <1>6, TakeHolds
  <2>3. run' # Idle
    BY <2>1, <2>2, IdleAssumption DEF Idle, Message
  <2>4. \A d \in Nat : Settled(d) => Settled(d)'
    BY <2>1 DEF Settled, Running
  <2>5. Waiting => Waiting' \/ Settled(day)'
    BY <1>6, <2>1, <2>3, TakeHolds DEF Waiting, Settled, Running
  <2>6. day > 1 /\ last'[Kpis] >= midnight => Settled(day)' \/ Waiting'
    BY <2>1, <2>4, <2>5, <1>t DEF TodayInv
  <2> QED
    BY <2>1, <2>4, <2>6, SameDay
<1>7. ASSUME Finish PROVE QuietDays' /\ TodayInv'
  <2>1. /\ day' = day /\ midnight' = midnight /\ last' = last /\ queue' = queue
        /\ troubled' = troubled /\ run' = Idle /\ refreshed \subseteq refreshed'
        /\ run.entry = Kpis => run.target \in refreshed'
    BY <1>7 DEF Finish
  <2>2. \A d \in Nat : Settled(d) => Settled(d)'
    BY <2>1 DEF Settled, Running
  <2>3. Waiting => Waiting'
    BY <2>1 DEF Waiting
  <2>4. day > 1 /\ last'[Kpis] >= midnight => Settled(day)' \/ Waiting'
    BY <2>1, <2>2, <2>3, <1>t DEF TodayInv
  <2> QED
    BY <2>1, <2>2, <2>4, SameDay
<1>8. ASSUME Lose PROVE QuietDays' /\ TodayInv'
  <2>1. /\ day' = day /\ midnight' = midnight /\ last' = last
        /\ refreshed' = refreshed /\ run' = Idle
        /\ troubled \subseteq troubled'
        /\ run.entry = Kpis /\ ~(run.msg.day = day /\ run.target = day - 1)
               => run.target + 1 \in troubled'
    BY <1>8 DEF Lose, Trouble
  <2>2. run.msg \in Message /\ run.target \in Nat /\ run.entry = run.msg.entry
    BY <1>8 DEF Lose, RunOK
  <2>3. In(queue') = In(queue) \union {run.msg}
    BY <1>8, AgainHolds DEF QueueHolds
  <2>4. Waiting => Waiting'
    BY <2>1, <2>3 DEF Waiting
  <2>5. run.entry = Kpis /\ run.msg.day = day => Waiting'
    BY <2>1, <2>2, <2>3 DEF Waiting
  <2>6. \A d \in Nat : Settled(d) => Settled(d)' \/ (d = day /\ Waiting')
    <3> SUFFICES ASSUME NEW d \in Nat, Settled(d)
                 PROVE  Settled(d)' \/ (d = day /\ Waiting')
      OBVIOUS
    <3>1. CASE d \in troubled \/ d - 1 \in refreshed
      BY <3>1, <2>1 DEF Settled
    <3>2. CASE Running(d)
      <4>1. run.entry = Kpis /\ run.target = d - 1 /\ d = run.target + 1
        BY <3>2, <2>2 DEF Running
      <4>2. CASE run.msg.day = day /\ run.target = day - 1
        BY <4>1, <4>2, <2>2, <2>5, <1>t
      <4>3. CASE ~(run.msg.day = day /\ run.target = day - 1)
        BY <4>1, <4>3, <2>1 DEF Settled
      <4> QED
        BY <4>2, <4>3
    <3> QED
      BY <3>1, <3>2 DEF Settled
  <2>7. QuietDays'
    <3> SUFFICES ASSUME NEW d \in 2..(day - 1) PROVE Settled(d)'
      BY <2>1 DEF QuietDays, Settled, Running
    <3>1. Settled(d) /\ d \in Nat /\ d # day
      BY <1>t DEF QuietDays, Settled, Running
    <3> QED
      BY <3>1, <2>6
  <2>8. TodayInv'
    BY <2>1, <2>4, <2>6, <1>t DEF TodayInv
  <2> QED
    BY <2>7, <2>8
<1>9. ASSUME Tick PROVE QuietDays' /\ TodayInv'
  <2>1. /\ clock' = clock + 1 /\ last' = last /\ queue' = queue
        /\ run' = run /\ refreshed' = refreshed /\ troubled \subseteq troubled'
    BY <1>9 DEF Tick, Trouble
  <2>2. \A d \in Nat : Settled(d) => Settled(d)'
    BY <2>1 DEF Settled, Running
  <2>3. last[Kpis] \in Nat /\ last[Kpis] <= clock
    BY DEF NotesOK
  <2>4. CASE clock' = midnight + DayLength
    <3>1. /\ day' = day + 1 /\ midnight' = clock'
          /\ Missed => day \in troubled'
      BY <1>9, <2>4 DEF Tick, Trouble
    <3>2. ~Missed /\ day > 1 => Settled(day)
      <4> SUFFICES ASSUME ~Missed, day > 1 PROVE Settled(day)
        OBVIOUS
      <4>1. last[Kpis] > midnight - 1 /\ ~Waiting
        BY <2>1, <2>3, <2>4, <1>t DEF Missed, Due, Waiting
      <4> QED
        BY <4>1, <2>3, <1>t DEF TodayInv
    <3>3. QuietDays'
      <4> SUFFICES ASSUME NEW d \in 2..day PROVE Settled(d)'
        BY <3>1, <1>t DEF QuietDays, Settled, Running
      <4>1. CASE d = day
        <5>1. CASE Missed
          BY <4>1, <5>1, <3>1 DEF Settled
        <5>2. CASE ~Missed
          BY <4>1, <5>2, <3>2, <2>2, <1>t
        <5> QED
          BY <5>1, <5>2
      <4>2. CASE d # day
        <5>1. Settled(d) /\ d \in Nat
          BY <4>2, <1>t DEF QuietDays, Settled, Running
        <5> QED
          BY <5>1, <2>2
      <4> QED
        BY <4>1, <4>2
    <3>4. TodayInv'
      BY <3>1, <2>1, <2>3, <1>t DEF TodayInv
    <3> QED
      BY <3>3, <3>4
  <2>5. CASE clock' # midnight + DayLength
    <3>1. day' = day /\ midnight' = midnight
      BY <1>9, <2>5 DEF Tick
    <3>2. Waiting => Waiting'
      BY <3>1, <2>1 DEF Waiting
    <3>3. day > 1 /\ last'[Kpis] >= midnight => Settled(day)' \/ Waiting'
      BY <3>1, <2>1, <2>2, <3>2, <1>t DEF TodayInv, Settled, Running
    <3> QED
      BY <3>1, <2>2, <3>3, SameDay
  <2> QED
    BY <2>4, <2>5
<1>11. ASSUME Fail PROVE QuietDays' /\ TodayInv'
  <2>1. /\ day' = day /\ midnight' = midnight /\ last' = last
        /\ queue' = queue /\ refreshed' = refreshed
        /\ troubled \subseteq troubled'
        /\ run.entry = Kpis => run.target + 1 \in troubled'
    BY <1>11 DEF Fail, Trouble
  <2>2. run.target \in Nat
    BY <1>11 DEF Fail, RunOK
  <2>3. ASSUME NEW d \in Nat, Settled(d) PROVE Settled(d)'
    <3>1. CASE Running(d)
      <4>1. run.entry = Kpis /\ d = run.target + 1
        BY <3>1, <2>2 DEF Running
      <4> QED
        BY <4>1, <2>1 DEF Settled
    <3>2. CASE ~Running(d)
      BY <3>2, <2>1, <2>3 DEF Settled
    <3> QED
      BY <3>1, <3>2
  <2>4. Waiting => Waiting'
    BY <2>1 DEF Waiting
  <2>5. day > 1 /\ last'[Kpis] >= midnight => Settled(day)' \/ Waiting'
    BY <2>1, <2>3, <2>4, <1>t DEF TodayInv
  <2> QED
    BY <2>1, <2>3, <2>5, SameDay
<1>12. ASSUME Redeliver PROVE QuietDays' /\ TodayInv'
  <2>1. /\ day' = day /\ midnight' = midnight /\ last' = last /\ run' = run
        /\ refreshed' = refreshed /\ troubled' = troubled
    BY <1>12 DEF Redeliver
  <2>2. \A d \in Nat : Settled(d) => Settled(d)'
    BY <2>1 DEF Settled, Running
  <2>3. Waiting => Waiting'
    BY <1>12, <2>1, AgainHolds DEF QueueHolds, Waiting
  <2>4. day > 1 /\ last'[Kpis] >= midnight => Settled(day)' \/ Waiting'
    BY <2>1, <2>2, <2>3, <1>t DEF TodayInv
  <2> QED
    BY <2>1, <2>2, <2>4, SameDay
<1>13. ASSUME Forget PROVE QuietDays' /\ TodayInv'
  <2> DEFINE m == queue[Len(queue)]
  <2>1. /\ day' = day /\ midnight' = midnight /\ last' = last /\ run' = run
        /\ refreshed' = refreshed
        /\ troubled' = troubled \union (IF m.entry = Kpis THEN {m.day} ELSE {})
    BY <1>13 DEF Forget, Trouble
  <2>2. In(queue) = In(queue') \union {m}
    BY <1>13, ForgetHolds
  <2> HIDE DEF m
  <2>3. \A d \in Nat : Settled(d) => Settled(d)'
    BY <2>1 DEF Settled, Running
  <2>4. Waiting => Waiting' \/ day \in troubled'
    BY <2>1, <2>2 DEF Waiting
  <2>5. day > 1 /\ last'[Kpis] >= midnight => Settled(day)' \/ Waiting'
    BY <2>1, <2>3, <2>4, <1>t DEF TodayInv, Settled
  <2> QED
    BY <2>1, <2>3, <2>5, SameDay
<1>10. ASSUME UNCHANGED vars PROVE QuietDays' /\ TodayInv'
  BY <1>10 DEF vars, QuietDays, TodayInv, Settled, Running, Waiting
<1> QED
  BY <1>1, <1>2, <1>3, <1>4, <1>5, <1>6, <1>7, <1>8, <1>9, <1>10, <1>11,
     <1>12, <1>13
  DEF Next

(* What is held stays noted and spaced as long as nothing new is: Beat's   *)
(* memory goes back only where the rewind is recorded.                     *)
Forward ==
    /\ clock' >= clock
    /\ \A e \in Entries :
           /\ rewinds[e] \subseteq rewinds'[e]
           /\ last'[e] >= last[e] \/ clock \in rewinds'[e]

LEMMA ForwardKeeps ==
    ASSUME TypeOK, TypeOK', NotedInv, SpacedInv, Held \subseteq Message,
           Held' \subseteq Held, Forward
    PROVE  NotedInv' /\ SpacedInv'
<1>1. /\ clock \in Nat /\ clock' \in Nat
      /\ \A e \in Entries : last[e] \in Nat /\ last'[e] \in Nat
  BY TypeParts DEF TypeOK
<1>2. ASSUME NEW m \in Held'
      PROVE  /\ m.at <= clock'
             /\ m.at <= last'[m.entry] \/ \E t \in rewinds'[m.entry] : m.at <= t
  <2>1. m \in Held /\ m.entry \in Entries /\ m.at \in Nat
    BY <1>2 DEF Message
  <2>2. m.at <= clock
    BY <2>1 DEF NotedInv
  <2>3. CASE m.at <= last[m.entry]
    BY <1>1, <2>1, <2>2, <2>3 DEF Forward
  <2>4. CASE \E t \in rewinds[m.entry] : m.at <= t
    <3>1. rewinds[m.entry] \subseteq rewinds'[m.entry]
      BY <2>1 DEF Forward
    <3>2. m.at <= clock'
      BY <1>1, <2>1, <2>2 DEF Forward
    <3> QED
      BY <2>4, <3>1, <3>2
  <2>5. m.at <= clock'
    BY <1>1, <2>1, <2>2 DEF Forward
  <2> QED
    BY <2>1, <2>3, <2>4, <2>5 DEF NotedInv
<1>3. ASSUME NEW m \in Held', NEW n \in Held'
      PROVE  m.entry = n.entry /\ m.at < n.at =>
                 \/ n.at >= m.at + Period[m.entry]
                 \/ \E t \in rewinds'[m.entry] : m.at <= t /\ t <= n.at
  <2>1. Apart(m, n) /\ m.entry \in Entries
    BY <1>3 DEF SpacedInv, Message
  <2>2. rewinds[m.entry] \subseteq rewinds'[m.entry]
    BY <2>1 DEF Forward
  <2> QED
    BY <2>1, <2>2 DEF Apart
<1> QED
  BY <1>2, <1>3 DEF NotedInv, SpacedInv, Apart

(* What is held after each step, and what is noted.                        *)
LEMMA SpacedStep == IInv /\ [Next]_vars => NotedInv' /\ SpacedInv'
<1> SUFFICES ASSUME IInv, [Next]_vars PROVE NotedInv' /\ SpacedInv'
  OBVIOUS
<1>0. TypeOK /\ TypeOK' /\ NotedInv /\ SpacedInv
  BY TypeStep DEF IInv
<1>p. ClockOK /\ NotesOK /\ RewindsOK /\ queue \in Seq(Message) /\ RunOK
  BY <1>0, TypeParts
<1>h. Held \subseteq Message
  BY <1>p, InMessages DEF Held, RunOK
<1>t. /\ clock \in Nat
      /\ \A e \in Entries : last[e] \in Nat /\ file[e] \in Nat /\ last[e] <= clock
  BY <1>p DEF ClockOK, NotesOK
<1>1. ASSUME NEW e \in Entries, Publish(e) \/ PublishTwice(e)
      PROVE NotedInv' /\ SpacedInv'
  <2> DEFINE new == NewMessage(e)
  <2>1. new \in Message /\ new.entry = e /\ new.at = clock
    BY <1>1, <1>p, PublishHolds DEF NewMessage
  <2>2. /\ run' = run /\ clock' = clock /\ rewinds' = rewinds
        /\ last' = [last EXCEPT ![e] = clock]
        /\ clock >= last[e] + Period[e] /\ Period[e] \in Nat
    BY <1>1, ScheduleAssumption DEF Publish, PublishTwice, Due
  <2>3. Held' \subseteq Held \union {new}
    BY <1>1, <1>p, <2>2, PublishHolds DEF QueueHolds, Held
  <2> HIDE DEF new
  <2>4. last'[e] = clock /\ \A x \in Entries : last'[x] \in Nat /\ last'[x] >= last[x]
    BY <2>2, <1>p, <1>t DEF NotesOK
  <2>5. NotedInv'
    <3> SUFFICES ASSUME NEW m \in Held'
                 PROVE  /\ m.at <= clock
                        /\ \/ m.at <= last'[m.entry]
                           \/ \E t \in rewinds[m.entry] : m.at <= t
      BY <2>2 DEF NotedInv
    <3>1. CASE m = new
      BY <3>1, <2>1, <2>4, <1>t
    <3>2. CASE m # new
      <4>1. m \in Held /\ m.entry \in Entries /\ m.at \in Nat
        BY <3>2, <2>3, <1>h DEF Message
      <4>2. /\ m.at <= clock
            /\ m.at <= last[m.entry] \/ \E t \in rewinds[m.entry] : m.at <= t
        BY <4>1, <1>0 DEF NotedInv
      <4> QED
        BY <4>1, <4>2, <2>4, <1>t
    <3> QED
      BY <3>1, <3>2
  <2>6. SpacedInv'
    <3> SUFFICES ASSUME NEW m \in Held', NEW n \in Held' PROVE Apart(m, n)
      BY <2>2 DEF SpacedInv, Apart
    <3>1. CASE m = new
      <4>1. n.at <= clock /\ n.at \in Nat
        BY <2>1, <2>3, <1>0, <1>h, <1>t DEF NotedInv, Message
      <4> QED
        BY <3>1, <4>1, <2>1, <1>t DEF Apart
    <3>2. CASE m # new /\ n = new
      <4>1. m \in Held /\ m.entry \in Entries /\ m.at \in Nat
        BY <3>2, <2>3, <1>h DEF Message
      <4> SUFFICES ASSUME m.entry = e
                   PROVE  \/ clock >= m.at + Period[e]
                          \/ \E t \in rewinds[e] : m.at <= t /\ t <= clock
        BY <3>2, <2>1 DEF Apart
      <4>2. CASE m.at <= last[e]
        BY <4>1, <4>2, <2>2, <1>t
      <4>3. CASE \E t \in rewinds[e] : m.at <= t
        BY <4>3, <1>p DEF RewindsOK
      <4> QED
        BY <4>1, <4>2, <4>3, <1>0 DEF NotedInv
    <3>3. CASE m # new /\ n # new
      BY <3>3, <2>3, <1>0 DEF SpacedInv
    <3> QED
      BY <3>1, <3>2, <3>3
  <2> QED
    BY <2>5, <2>6
<1>2. ASSUME \/ \E e \in Entries : PublishFails(e)
             \/ Replace \/ Sync \/ Boot \/ Tick \/ UNCHANGED vars
      PROVE  NotedInv' /\ SpacedInv'
  <2>1. queue' = queue /\ run' = run /\ rewinds' = rewinds
    BY <1>2 DEF PublishFails, Replace, Sync, Boot, Tick, vars
  <2>2. Held' = Held
    BY <2>1 DEF Held
  <2>3. clock' >= clock
    BY <1>2, <1>t DEF PublishFails, Replace, Sync, Boot, Tick, vars
  <2>4. \A x \in Entries : last'[x] >= last[x]
    <3>1. ASSUME NEW e \in Entries, PublishFails(e)
          PROVE  \A x \in Entries : last'[x] >= last[x]
      BY <3>1, <1>p, <1>t DEF PublishFails, NotesOK
    <3>2. ASSUME Replace PROVE \A x \in Entries : last'[x] >= last[x]
      BY <3>2, <1>t DEF Replace
    <3>3. ASSUME last' = last PROVE \A x \in Entries : last'[x] >= last[x]
      BY <3>3, <1>t
    <3> QED
      BY <1>2, <3>1, <3>2, <3>3 DEF Sync, Boot, Tick, vars
  <2>5. Forward
    BY <2>1, <2>3, <2>4 DEF Forward
  <2> QED
    BY <1>0, <1>h, <2>2, <2>5, ForwardKeeps
<1>3. ASSUME Crash PROVE NotedInv' /\ SpacedInv'
  <2>1. /\ queue' = queue /\ run' = run /\ clock' = clock /\ last' = file
        /\ rewinds' = [e \in Entries |-> IF file[e] = last[e] THEN rewinds[e]
                                         ELSE rewinds[e] \union {clock}]
    BY <1>3 DEF Crash
  <2>2. Held' = Held
    BY <2>1 DEF Held
  <2>3. Forward
    BY <2>1, <1>t DEF Forward
  <2> QED
    BY <1>0, <1>h, <2>2, <2>3, ForwardKeeps
<1>4. ASSUME Forget \/ Discard \/ Start \/ Finish \/ Fail \/ Redeliver \/ Lose
      PROVE  NotedInv' /\ SpacedInv'
  <2>1. clock' = clock /\ last' = last /\ rewinds' = rewinds
    BY <1>4 DEF Forget, Discard, Start, Finish, Fail, Redeliver, Lose
  <2>2. Forward
    BY <2>1, <1>t DEF Forward
  <2>3. Held' \subseteq Held
    <3>1. ASSUME Forget PROVE Held' \subseteq Held
      <4>1. In(queue') \subseteq In(queue) /\ run' = run
        BY <3>1, <1>p, ForgetHolds DEF Forget
      <4> QED
        BY <4>1 DEF Held
    <3>2. ASSUME Discard \/ Start PROVE Held' \subseteq Held
      <4>1. In(queue) = In(queue') \union {Head(queue)}
        BY <3>2, <1>p, TakeHolds
      <4>2. run' = run \/ run'.msg = Head(queue)
        BY <3>2 DEF Discard, Start
      <4> QED
        BY <4>1, <4>2 DEF Held
    <3>3. ASSUME Finish \/ Fail PROVE Held' \subseteq Held
      BY <3>3 DEF Finish, Fail, Held
    <3>4. ASSUME Redeliver \/ Lose PROVE Held' \subseteq Held
      <4>1. In(queue') = In(queue) \union {run.msg}
        BY <3>4, <1>p, AgainHolds DEF QueueHolds
      <4>2. run # Idle /\ run' \in {run, Idle}
        BY <3>4 DEF Redeliver, Lose
      <4> QED
        BY <4>1, <4>2 DEF Held
    <3> QED
      BY <1>4, <3>1, <3>2, <3>3, <3>4
  <2> QED
    BY <1>0, <1>h, <2>2, <2>3, ForwardKeeps
<1> QED
  BY <1>1, <1>2, <1>3, <1>4 DEF Next

-----------------------------------------------------------------------------
LEMMA SpecIInv == Spec => []IInv
<1>1. IInv /\ [Next]_vars => IInv'
  BY TypeStep, FateStep, SpacedStep DEF IInv
<1> QED
  BY InitIInv, <1>1, PTL DEF Spec

(* The state of the schedule keeps its type, and neither memory nor file   *)
(* notes a run that is yet to come.                                        *)
THEOREM TypeCorrect == Spec => []TypeOK
BY SpecIInv, PTL DEF IInv

(* kpis.refresh leaves no day out that no fault or delay of that same day  *)
(* touched, for any length of a day.                                       *)
THEOREM DaysAreRefreshed == Spec => []QuietDays
BY SpecIInv, PTL DEF IInv

(* What a worker executes and finds live in the queue is one publication   *)
(* of an entry, or Beat went back between the two.                         *)
THEOREM NoBurstAfterOutage == Spec => []NoBurst
<1>1. IInv => NoBurst
  <2> SUFFICES ASSUME IInv, NEW m \in Held, NEW n \in Held,
                      m.entry = n.entry, m.at < n.at, Live(m), Live(n)
               PROVE  \E t \in rewinds[m.entry] : m.at <= t /\ t <= n.at
    BY DEF NoBurst
  <2>1. /\ clock \in Nat /\ queue \in Seq(Message) /\ RunOK
        /\ \A x \in Held : x.at <= clock
    BY TypeParts DEF IInv, ClockOK, NotedInv
  <2>2. m \in Message /\ n \in Message
    BY <2>1, InMessages DEF Held, RunOK
  <2>3. m.entry \in Entries /\ m.at \in Nat /\ n.at \in Nat
    BY <2>2 DEF Message
  <2>4. m.at + Expires[m.entry] >= clock
    BY <2>1, <2>3, ScheduleAssumption DEF Live, Expired
  <2>5. /\ Expires[m.entry] < Period[m.entry] /\ Expires[m.entry] \in Nat
        /\ Period[m.entry] \in Nat /\ n.at <= clock
    BY <2>1, <2>3, ScheduleAssumption
  <2>6. ~(n.at >= m.at + Period[m.entry])
    BY <2>1, <2>3, <2>4, <2>5
  <2> QED
    BY <2>6 DEF IInv, SpacedInv, Apart
<1> QED
  BY <1>1, SpecIInv, PTL
=============================================================================
