----------------------------- MODULE MCBackfill -----------------------------
(* An instance of Backfill for TLC: two runs.                              *)
EXTENDS Backfill

CONSTANTS b1, b2

MCTwoRuns == {b1, b2}
=============================================================================
