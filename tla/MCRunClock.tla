----------------------------- MODULE MCRunClock -----------------------------
(* Every publish mode, place of the generator and kind of callback group;  *)
(* the rates of multi_rate are 2 and 4 Hz on two topics.                    *)
EXTENDS RunClock

AllConfigs ==
  [publish_mode : {"burst", "round_robin", "multi_rate"},
   generator_mode : {"process", "composed"},
   callback_group : {"mutually_exclusive", "reentrant"},
   publish_rate_hz : {2}, rate_min_hz : {2}, rate_max_hz : {4}]
=============================================================================
