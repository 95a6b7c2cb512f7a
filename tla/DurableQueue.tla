---------------------------- MODULE DurableQueue ----------------------------
(***************************************************************************)
(* What docs/deployment.md promises of the task endpoints, without the     *)
(* broker: 202 means accepted for asynchronous execution; an accepted task *)
(* is executed at least once to an outcome, possibly more often; a task    *)
(* with an expiry may be dropped instead; a crash of Redis may forget what *)
(* it accepted last.                                                       *)
(***************************************************************************)
EXTENDS Naturals

CONSTANTS Tasks,     \* task ids
          Expiring   \* the tasks of Beat, published with "expires"

VARIABLES asked,     \* tasks somebody tried to publish
          owed,      \* tasks accepted and not forgotten
          runs,      \* runs[t]: times the body of t committed its work
          outcome    \* outcome[t]: how the last finished execution ended

vars == <<asked, owed, runs, outcome>>

Outcomes == {"none", "done", "failed", "expired"}

Init ==
    /\ asked = {}
    /\ owed = {}
    /\ runs = [t \in Tasks |-> 0]
    /\ outcome = [t \in Tasks |-> "none"]

Ask(t) ==
    /\ asked' = asked \union {t}
    /\ UNCHANGED <<owed, runs, outcome>>

Promise(t) ==
    /\ t \in asked
    /\ owed' = owed \union {t}
    /\ UNCHANGED <<asked, runs, outcome>>

Run(t) ==
    /\ t \in asked
    /\ runs' = [runs EXCEPT ![t] = @ + 1]
    /\ UNCHANGED <<asked, owed, outcome>>

Settle(t) ==
    /\ t \in asked
    /\ \E o \in Outcomes \ {"none"} :
           /\ o = "done" => runs[t] > 0
           /\ o = "expired" => t \in Expiring
           /\ outcome' = [outcome EXCEPT ![t] = o]
    /\ UNCHANGED <<asked, owed, runs>>

Forget ==
    /\ owed' \in SUBSET owed
    /\ UNCHANGED <<asked, runs, outcome>>

Next ==
    \/ \E t \in Tasks : Ask(t) \/ Promise(t) \/ Run(t) \/ Settle(t)
    \/ Forget

Spec == /\ Init /\ [][Next]_vars
        /\ \A t \in Tasks :
               WF_vars(t \in owed /\ outcome[t] = "none" /\ Settle(t))
=============================================================================
