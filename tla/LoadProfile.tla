----------------------------- MODULE LoadProfile -----------------------------
(***************************************************************************)
(* topic_rate_hz() of load_profile.cpp: the rate of a topic as a pure      *)
(* function of the arguments of a run, so that the generator that          *)
(* publishes and the writer that divides by it agree "without talking to   *)
(* each other".  With integer rates it is the fraction                     *)
(*   rate_num(p, n, k) / rate_den(p, n)                                    *)
(* for topic k of n, where p has the rate arguments of the run.            *)
(***************************************************************************)
EXTENDS Integers

rate_den(p, n) == IF p.publish_mode = "multi_rate" /\ n > 1 THEN n - 1 ELSE 1

rate_num(p, n, k) ==
  CASE p.publish_mode # "multi_rate" -> p.publish_rate_hz
    [] p.publish_mode = "multi_rate" /\ n <= 1 -> p.rate_max_hz
    [] OTHER -> p.rate_min_hz * (n - 1) + (p.rate_max_hz - p.rate_min_hz) * k
=============================================================================
