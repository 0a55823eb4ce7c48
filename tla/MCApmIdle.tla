----------------------------- MODULE MCApmIdle -----------------------------
(* Three-bit jiffies, so both the wrap of jiffies - last_jiffies and the   *)
(* long-gap reset (> IDLE_CALC_LIMIT) are reached; a window of two jiffies *)
(* and a threshold of 50 percent, so use_apm_idle changes both ways.       *)
EXTENDS ApmIdle
=============================================================================
