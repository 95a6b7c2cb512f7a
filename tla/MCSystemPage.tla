---------------------------- MODULE MCSystemPage ----------------------------
(* An instance of SystemPage for TLC: two polls, readyz, one cached request *)
(* and three connections, one of which is kept.                            *)
EXTENDS SystemPage

CONSTANTS p1, p2, probe, c1

MCRequests == {p1, p2, probe, c1}
MCCached == {c1}
MCPolls == {p1, p2}
=============================================================================
