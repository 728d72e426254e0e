--------------------------- MODULE MCHealthPoller ---------------------------
(***************************************************************************)
(* HealthPoller for TLC: two pods, thresholds 2 and 3 as in the default    *)
(* configuration, and counters that saturate at the larger threshold.      *)
(***************************************************************************)
EXTENDS HealthPoller
=============================================================================
