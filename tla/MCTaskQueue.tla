---------------------------- MODULE MCTaskQueue ----------------------------
(* Instances of TaskQueue for TLC: one task of Beat, which may expire (a   *)
(* task of the API is one whose expiry never passes), and two workers.     *)
EXTENDS TaskQueue

CONSTANTS beat, w1, w2

MCBeatTask == {beat}
MCTwoWorkers == {w1, w2}
=============================================================================
