--------------------------- MODULE LaunchArguments ---------------------------
(***************************************************************************)
(* The arguments of executor_bench.launch.py that decide something, and    *)
(* which of them _build() accepts.  Rates are integers.                    *)
(***************************************************************************)
EXTENDS Integers

KnownExecutors == {"single_threaded", "multi_threaded", "events_cbg", "events",
                   "static_single_threaded", "callback_isolated"}
CallbackGroups == {"default", "mutually_exclusive", "reentrant", "per_entity"}
PublishModes == {"burst", "round_robin", "multi_rate"}
GeneratorModes == {"process", "composed"}

\* Intra-process transport needs publisher and subscriber in one process.
IpcUseful(c) == c.use_ipc => c.generator_mode = "composed"

Accepted(c) ==
  /\ c.executor \in KnownExecutors
  /\ c.callback_group \in CallbackGroups
  /\ c.num_nodes >= 1
  /\ c.num_subscriptions >= 1 \/ c.num_timers >= 1
  /\ c.publish_mode \in PublishModes
  /\ c.publish_mode = "multi_rate" => c.rate_min_hz <= c.rate_max_hz
  /\ c.generator_mode \in GeneratorModes
  /\ IpcUseful(c)
=============================================================================
