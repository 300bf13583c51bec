----------------------------- MODULE LaunchPlan -----------------------------
(***************************************************************************)
(* What the launch file starts for a set of arguments: _build() of         *)
(* executor_bench.launch.py, and the constructors that turn its parameters *)
(* into subscriptions, timers and publishers.                              *)
(*                                                                         *)
(* _build() validates the arguments, sizes the sample buffers, spreads the *)
(* subscriptions and timers over the bench nodes with two cursors, places  *)
(* the load generator and picks the container.  Each is a step here; the   *)
(* arguments are chosen in the initial state.  Rates are integers, and a   *)
(* quotient is compared by cross-multiplication.                           *)
(***************************************************************************)
EXTENDS LaunchArguments, LoadProfile, Sequences, FiniteSetsExt

CONSTANTS Configs,   \* the arguments to launch with
          Overshoot  \* seconds between the shutdown timer and the end of spin()

ExternalContainers == {"callback_isolated"}

\* The arguments that decide something.
Arguments ==
  [executor : STRING, num_nodes : Int, num_subscriptions : Int, num_timers : Int,
   timer_period_ms : Int, publish_rate_hz : Int, publish_mode : STRING,
   rate_min_hz : Int, rate_max_hz : Int, callback_group : STRING,
   generator_mode : STRING, use_ipc : BOOLEAN, seconds : Nat]

ASSUME LaunchAssumption == Configs \subseteq Arguments

VARIABLES cfg,             \* the arguments; seconds is duration_s + warmup_s
          stage,           \* how far _build() has come
          sample_capacity,
          topic_cursor,
          timer_cursor,
          bench,           \* the parameters of the bench nodes so far
          generator,       \* where the load generator runs
          container        \* whose component container runs

vars == <<cfg, stage, sample_capacity, topic_cursor, timer_cursor, bench, generator, container>>

Stages == {"validate", "nodes", "generator", "container", "started", "refused"}

Init ==
  /\ cfg \in Configs
  /\ stage = "validate"
  /\ sample_capacity = 0
  /\ topic_cursor = 0
  /\ timer_cursor = 0
  /\ bench = << >>
  /\ generator = "none"
  /\ container = "none"

CeilDiv(a, b) == (a + b - 1) \div b

-----------------------------------------------------------------------------
(* Faulty variants, each with the property it must break.                  *)

\* TypeOK: every node takes the quotient rounded up.
FaultyCeilSplit(total, buckets) == [n \in 1 .. buckets |-> CeilDiv(total, buckets)]

\* SubscribersMatchTopics: the remainder of the division is forgotten.
FaultySplit(total, buckets) == [n \in 1 .. buckets |-> total \div buckets]

\* EntitiesNamedApart: every bench node numbers its timers from zero.
FaultyTimerCursor(n) == 0

\* BuffersHoldTheRun: the nominal rate sizes the buffers in every mode.
FaultyPeakRate(c) == c.publish_rate_hz

-----------------------------------------------------------------------------
(* Validation.                                                             *)

Refuse ==
  /\ stage = "validate"
  /\ ~ Accepted(cfg)
  /\ stage' = "refused"
  /\ UNCHANGED <<cfg, sample_capacity, topic_cursor, timer_cursor, bench, generator, container>>

-----------------------------------------------------------------------------
(* Sizing of the sample buffers.                                           *)

PeakRate(c) ==
  IF c.publish_mode = "multi_rate"
  THEN Max({c.publish_rate_hz, c.rate_max_hz})
  ELSE c.publish_rate_hz

HasTimers(c) == c.num_timers > 0 /\ c.timer_period_ms > 0

PeriodOf(c) == IF HasTimers(c) THEN c.timer_period_ms ELSE 1

\* Samples of the busiest entity, times PeriodOf(c) to stay with integers.
ScaledTicks(c) ==
  LET topic == PeakRate(c) * c.seconds * PeriodOf(c)
  IN  IF HasTimers(c) THEN Max({topic, 1000 * c.seconds}) ELSE topic

SampleCapacity(c) == CeilDiv(12 * ScaledTicks(c), 10 * PeriodOf(c)) + 1000

Size ==
  /\ stage = "validate"
  /\ Accepted(cfg)
  /\ sample_capacity' = SampleCapacity(cfg)
  /\ stage' = "nodes"
  /\ UNCHANGED <<cfg, topic_cursor, timer_cursor, bench, generator, container>>

-----------------------------------------------------------------------------
(* The bench nodes.                                                        *)

\* _split_evenly(): the remainder goes to the front.
split_evenly(total, buckets) ==
  [n \in 1 .. buckets |->
     total \div buckets + (IF n - 1 < total % buckets THEN 1 ELSE 0)]

\* The first timer index of bench node n.
FirstTimer(n) == timer_cursor

AddBenchNode ==
  /\ stage = "nodes"
  /\ Len(bench) < cfg.num_nodes
  /\ LET n == Len(bench) + 1
         subs == split_evenly(cfg.num_subscriptions, cfg.num_nodes)[n]
         timers == split_evenly(cfg.num_timers, cfg.num_nodes)[n]
     IN  /\ bench' = Append(bench, [first_topic_index |-> topic_cursor,
                                    num_subscriptions |-> subs,
                                    first_timer_index |-> FirstTimer(n),
                                    num_timers |-> timers])
         /\ topic_cursor' = topic_cursor + subs
         /\ timer_cursor' = timer_cursor + timers
  /\ UNCHANGED <<cfg, stage, sample_capacity, generator, container>>

-----------------------------------------------------------------------------
(* The generator and the container.                                        *)

PlaceGenerator ==
  /\ stage = "nodes"
  /\ Len(bench) = cfg.num_nodes
  /\ generator' = IF cfg.num_subscriptions > 0 THEN cfg.generator_mode ELSE "none"
  /\ stage' = "container"
  /\ UNCHANGED <<cfg, sample_capacity, topic_cursor, timer_cursor, bench, container>>

PickContainer ==
  /\ stage = "container"
  /\ container' = IF cfg.executor \in ExternalContainers THEN "external" ELSE "own"
  /\ stage' = "started"
  /\ UNCHANGED <<cfg, sample_capacity, topic_cursor, timer_cursor, bench, generator>>

Next == Refuse \/ Size \/ AddBenchNode \/ PlaceGenerator \/ PickContainer

Spec == Init /\ [][Next]_vars

-----------------------------------------------------------------------------
(* What the processes make of it.                                          *)

\* The half-open range of n indices from first; none if n is negative.
Indices(first, n) == first .. first + n - 1

SubscribedBy(n) == Indices(bench[n].first_topic_index, bench[n].num_subscriptions)
TimersOn(n) == Indices(bench[n].first_timer_index, bench[n].num_timers)

\* The topics the generator publishes on, from first_topic_index 0.
PublishedTopics ==
  IF generator = "none" THEN {} ELSE Indices(0, Max({cfg.num_subscriptions, 1}))

-----------------------------------------------------------------------------
TypeOK ==
  /\ cfg \in Arguments
  /\ stage \in Stages
  /\ sample_capacity \in Nat
  /\ topic_cursor \in Int /\ topic_cursor <= Max({cfg.num_subscriptions, 0})
  /\ timer_cursor \in Int /\ timer_cursor <= Max({cfg.num_timers, 0})
  /\ \A n \in 1 .. Len(bench) :
       bench[n] \in [first_topic_index : Int, num_subscriptions : Int,
                     first_timer_index : Int, num_timers : Int]
  /\ generator \in GeneratorModes \cup {"none"}
  /\ container \in {"none", "own", "external"}

(***************************************************************************)
(* Each published topic has exactly one subscription, on one bench node,   *)
(* and no subscription waits for a topic nobody publishes, however the     *)
(* subscriptions divide among the nodes ("Every one of those topics is     *)
(* subscribed by a bench node loaded into a component container").         *)
(***************************************************************************)
SubscribersMatchTopics ==
  stage = "started" =>
    /\ UNION {SubscribedBy(n) : n \in 1 .. Len(bench)} = PublishedTopics
    /\ \A n, o \in 1 .. Len(bench) : n # o => SubscribedBy(n) \cap SubscribedBy(o) = {}

(***************************************************************************)
(* No two timers of the run share an index, and there are as many as asked *)
(* for: the summary groups rows by type and index, so two timers of one    *)
(* index would be reported as one.                                         *)
(***************************************************************************)
EntitiesNamedApart ==
  stage = "started" =>
    /\ \A n, o \in 1 .. Len(bench) : n # o => TimersOn(n) \cap TimersOn(o) = {}
    /\ UNION {TimersOn(n) : n \in 1 .. Len(bench)} = Indices(0, cfg.num_timers)

(***************************************************************************)
(* The buffers hold what any entity can receive from the launch to the end *)
(* of spin(), in every publish mode ("Size them for the whole run plus     *)
(* headroom for the overshoot between the shutdown timer firing and spin() *)
(* returning").  A timer of period zero, which nothing refuses, is beyond   *)
(* any buffer and left out.                                                *)
(***************************************************************************)
BuffersHoldTheRun ==
  stage = "started" =>
    /\ \A k \in PublishedTopics :
         rate_num(cfg, cfg.num_subscriptions, k) * (cfg.seconds + Overshoot)
           <= sample_capacity * rate_den(cfg, cfg.num_subscriptions)
    /\ HasTimers(cfg) =>
         1000 * (cfg.seconds + Overshoot) <= sample_capacity * cfg.timer_period_ms
=============================================================================
