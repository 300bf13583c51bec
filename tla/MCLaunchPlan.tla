---------------------------- MODULE MCLaunchPlan ----------------------------
(* Arguments that differ in the counts, in the rates, or in what must be   *)
(* refused.                                                                *)
EXTENDS LaunchPlan

Base ==
  [executor |-> "multi_threaded", num_nodes |-> 1, num_subscriptions |-> 2, num_timers |-> 1,
   timer_period_ms |-> 10, publish_rate_hz |-> 100, publish_mode |-> "burst",
   rate_min_hz |-> 63, rate_max_hz |-> 2000, callback_group |-> "reentrant",
   generator_mode |-> "process", use_ipc |-> FALSE, seconds |-> 65]

Layouts ==
  {[Base EXCEPT !.num_nodes = n, !.num_subscriptions = s, !.num_timers = t] :
     n \in -1 .. 5, s \in -1 .. 6, t \in -1 .. 6}

Rates ==
  {[Base EXCEPT !.num_subscriptions = s, !.publish_mode = m, !.publish_rate_hz = r,
                !.rate_min_hz = lo, !.rate_max_hz = hi, !.timer_period_ms = p, !.seconds = d] :
     s \in {0, 1, 3}, m \in PublishModes \cup {"unknown"}, r \in {100, 3000},
     lo \in {63, 5000}, hi \in {63, 2000}, p \in {0, 1, 10}, d \in {6, 65}}

Modes ==
  {[Base EXCEPT !.executor = e, !.callback_group = g, !.generator_mode = m, !.use_ipc = i,
                !.num_subscriptions = s] :
     e \in KnownExecutors \cup {"unknown"}, g \in CallbackGroups \cup {"unknown"},
     m \in GeneratorModes \cup {"unknown"}, i \in BOOLEAN, s \in {0, 2}}

AllConfigs == Layouts \cup Rates \cup Modes
=============================================================================
