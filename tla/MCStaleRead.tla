---------------------------- MODULE MCStaleRead ----------------------------
(* ResponseCache with the time of each key's last change beside it, to     *)
(* state the bound that the README gives on how stale a read can be.       *)
EXTENDS MCResponseCache

VARIABLE changed   \* history: changed[k] is when db[k] last changed

HistoryInit == Init /\ changed = [k \in Keys |-> 0]

HistoryNext ==
    /\ Next
    /\ changed' = [k \in Keys |-> IF db'[k] # db[k] THEN now ELSE changed[k]]

HistorySpec == HistoryInit /\ [][HistoryNext]_<<vars, changed>>

(* README.md:144: "Writes do not invalidate cached reads immediately: data *)
(* can remain stale until its TTL expires", so no longer than the TTL of   *)
(* its endpoint after the write.                                           *)
StaleForOneTtl ==
    \A k \in Keys : Stale(k) => now < changed[k] + Ttl[k]
=============================================================================
