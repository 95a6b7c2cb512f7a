-------------------------- MODULE MCResponseCache --------------------------
(* Instances of ResponseCache for TLC: the meter list and one meter.       *)
EXTENDS ResponseCache, TLC

CONSTANTS list, meter, r1, r2

MCKeys == {list, meter}
MCTwoRequests == {r1, r2}
MCDetailKeys == {meter}
(* create_meter shows in the list and in its own key; the backfill and a   *)
(* transaction of the worker in the list only.                             *)
MCWrites == {{list, meter}, {list}}
MCTtl == (list :> 2 @@ meter :> 1)
=============================================================================
