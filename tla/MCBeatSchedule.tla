--------------------------- MODULE MCBeatSchedule ---------------------------
(* An instance of BeatSchedule for TLC: a daily entry and one that runs     *)
(* more often, as metrics-every-10m does (cache-clean-daily is scheduled   *)
(* like kpis-refresh-daily).                                               *)
EXTENDS BeatSchedule, TLC

CONSTANTS kpis, metrics

MCEntries == {kpis, metrics}
MCPeriod == (kpis :> 3 @@ metrics :> 2)
MCExpires == (kpis :> 1 @@ metrics :> 1)
=============================================================================
