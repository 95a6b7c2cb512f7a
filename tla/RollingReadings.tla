-------------------------- MODULE RollingReadings --------------------------
(***************************************************************************)
(* What the docstrings of app/tasks/demo_data.py promise of a meter's      *)
(* readings, without statements and transactions: demo.generate appends   *)
(* "new synthetic demo readings", demo.clean deletes "all readings older   *)
(* than the given window (rolling demo)".  A table is the set of hours it  *)
(* has readings of.                                                        *)
(***************************************************************************)
EXTENDS Integers

CONSTANTS Energy,   \* the tables that have a reading for every hour
          Tables,   \* these, and the daily power
          Length,   \* hours that are appended at a time
          Recent    \* hours that are never deleted

VARIABLES clock,    \* the hour in progress
          hours,    \* hours[t]: the hours of table t
          loose     \* has a COMMIT outlived its worker?

vars == <<clock, hours, loose>>

Init ==
    /\ clock \in Nat
    /\ hours = [t \in Tables |-> {}]
    /\ loose = FALSE

Tick ==
    /\ clock' = clock + 1
    /\ UNCHANGED <<hours, loose>>

(* The first dataset: the hours up to some hour of the past.               *)
Load ==
    /\ UNCHANGED <<clock, loose>>
    /\ \A t \in Tables : hours[t] = {}
    /\ \E lo, hi \in 0..clock :
           /\ \A t \in Energy : hours'[t] = lo..hi
           /\ \A t \in Tables : hours'[t] \subseteq 0..hi

(* All of a block, or nothing, right behind the last reading.              *)
Append ==
    /\ UNCHANGED <<clock, loose>>
    /\ \E first \in UNION {hours'[t] : t \in Energy} :
           LET block == first..(first + Length - 1)
           IN  /\ \A t \in Energy :
                      /\ hours'[t] = hours[t] \union block
                      /\ hours[t] # {} => first - 1 \in hours[t]
               /\ \A t \in Tables :
                      /\ hours[t] \subseteq 0..(first - 1)
                      /\ hours[t] \subseteq hours'[t]
                      /\ hours'[t] \subseteq hours[t] \union block

(* All the hours of a table up to a cutoff, or none: a table may have been *)
(* empty when its turn came.                                               *)
Clean ==
    /\ UNCHANGED <<clock, loose>>
    /\ \E cutoff \in 0..(clock - Recent) : \A t \in Tables :
           LET old == hours[t]
           IN  hours'[t] \in {old, {h \in old : h > cutoff}}

(* From the first late COMMIT on, only what is recent is safe.             *)
Late ==
    /\ loose'
    /\ clock' \in {clock, clock + 1}
    /\ \A t \in Tables : \A h \in hours[t] :
           h > clock - Recent => h \in hours'[t]

Next == Tick \/ Late \/ Load \/ Clean \/ Append

Spec == Init /\ [][Next]_vars
=============================================================================
