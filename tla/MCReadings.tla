----------------------------- MODULE MCReadings -----------------------------
(* Instances of Readings for TLC: all parameters are numbers, given in the *)
(* configurations.                                                         *)
EXTENDS Readings
=============================================================================
