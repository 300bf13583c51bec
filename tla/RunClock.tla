------------------------------ MODULE RunClock ------------------------------
(***************************************************************************)
(* The clock of a run.  Three timers decide what is measured, and they     *)
(* start at different moments: the shutdown timer with the launch, the     *)
(* warm-up timer with the generator, the publish timers when the warm-up   *)
(* is over.  Meanwhile the container loads the bench nodes one by one.     *)
(* (executor_bench.launch.py, load_generator.cpp, run_metadata.cpp)        *)
(*                                                                         *)
(* Time is in ticks of 1/Second s.  A timer may run late and a publish()   *)
(* may block, for as long as they like; a timer that is late by more than  *)
(* a period skips calls and keeps its phase.  Each bench node has one      *)
(* topic; a message for a subscription that exists may or may not get as   *)
(* far as a row, and the rows are in the order in which the callbacks      *)
(* complete.                                                               *)
(***************************************************************************)
EXTENDS RunMetrics, LoadProfile

CONSTANTS Configs,    \* the mode, group and rate arguments to run with
          NumTopics,  \* num_subscriptions, and here num_nodes
          Second,     \* ticks per second
          WarmUp,     \* warmup_s, in ticks
          Duration,   \* duration_s, in ticks
          Overshoot,  \* ticks between the shutdown timer and the end of spin()
          Jitter      \* ticks by which a message on time may be late, shorter
                      \* than any period

Topics == 0 .. NumTopics - 1

\* Ticks between two callbacks of timer k, and between two messages of topic k.
PeriodOf(c, k) ==
  LET num == rate_num(c, NumTopics, k)
  IN  IF c.publish_mode = "round_robin"
      THEN Second \div (num * NumTopics)
      ELSE (Second * rate_den(c, NumTopics)) \div num

TopicPeriodOf(c, k) ==
  IF c.publish_mode = "round_robin" THEN NumTopics * PeriodOf(c, k) ELSE PeriodOf(c, k)

\* Ticks are fine enough: periods are whole ticks, and longer than the jitter.
ASSUME ClockAssumption ==
  /\ NumTopics \in Nat \ {0}
  /\ Second \in Nat \ {0}
  /\ {WarmUp, Duration, Overshoot, Jitter} \subseteq Nat
  /\ \A c \in Configs : c.publish_mode \in {"burst", "round_robin", "multi_rate"}
  /\ \A c \in Configs : \A k \in Topics :
       /\ rate_num(c, NumTopics, k) \in Nat \ {0}
       /\ Jitter < PeriodOf(c, k)
       /\ rate_num(c, NumTopics, k) * TopicPeriodOf(c, k) = rate_den(c, NumTopics) * Second

VARIABLES cfg,       \* the arguments of this run
          now,       \* ticks since the launch
          loaded,    \* bench nodes the container has loaded
          generator, \* the load generator: absent, warming or publishing
          due,       \* when the timer of each topic is due; 0 has the only one
                     \* outside multi_rate
          round_robin_cursor,
          pending,   \* topics the tick under way has still to publish on
          published, \* messages published on each topic
          late,      \* history: timers that were ever later than Jitter
          unheard,   \* topics published on before their subscription existed
          lost,      \* topics with a message that left no row
          rows,      \* the rows of each topic: how many, and the stamps of the
                     \* first and the last in the buffer
          spinning   \* the executor dispatches callbacks

vars == <<cfg, now, loaded, generator, due, round_robin_cursor, pending, published, late,
          unheard, lost, rows, spinning>>

Init ==
  /\ cfg \in Configs
  /\ now = 0
  /\ loaded = 0
  /\ generator = "absent"
  /\ due = [k \in Topics |-> 0]
  /\ round_robin_cursor = 0
  /\ pending = {}
  /\ late = {}
  /\ published = [k \in Topics |-> 0]
  /\ unheard = {}
  /\ lost = {}
  /\ rows = [k \in Topics |-> [count |-> 0, first |-> 0, last |-> 0]]
  /\ spinning = TRUE

-----------------------------------------------------------------------------
(* Faulty variants, each with the property it must break.                  *)

\* TypeOK: the loop over the composable nodes runs once too often.
FaultyToLoad == loaded <= NumTopics

\* HeardFromTheStart: the composed generator precedes the bench nodes.
FaultyMayLoad == TRUE

\* PublishingFits: publishing starts with the generator.
FaultyWarmUpDue == now

-----------------------------------------------------------------------------
ToLoad == loaded < NumTopics

LoadBenchNode ==
  /\ spinning
  /\ ToLoad
  /\ loaded' = loaded + 1
  /\ UNCHANGED <<cfg, now, generator, due, round_robin_cursor, pending, published, late,
                 unheard, lost, rows, spinning>>

\* A composed generator follows the bench nodes; a process starts when it can.
MayLoad == cfg.generator_mode = "composed" => loaded = NumTopics

WarmUpDue == now + WarmUp

StartGenerator ==
  /\ spinning
  /\ generator = "absent"
  /\ MayLoad
  /\ generator' = "warming"
  /\ due' = [k \in Topics |-> WarmUpDue]
  /\ UNCHANGED <<cfg, now, loaded, round_robin_cursor, pending, published, late, unheard,
                 lost, rows, spinning>>

\* The timer that serves topic k.
TimerOf(k) == IF cfg.publish_mode = "multi_rate" THEN k ELSE 0

Timers == {TimerOf(k) : k \in Topics}

Period(k) == PeriodOf(cfg, k)

\* The warm-up timer fires and start() creates the publish timers.
Start ==
  /\ spinning
  /\ generator = "warming"
  /\ now >= due[0]
  /\ generator' = "publishing"
  /\ due' = [k \in Topics |-> now + Period(k)]
  /\ UNCHANGED <<cfg, now, loaded, round_robin_cursor, pending, published, late, unheard,
                 lost, rows, spinning>>

\* The topics a tick of timer k publishes on.
Served(k) ==
  CASE cfg.publish_mode = "burst" -> Topics
    [] cfg.publish_mode = "round_robin" -> {round_robin_cursor}
    [] OTHER -> {k}

\* When timer k is due again, called now: calls that are past are skipped.
NextCall(k) ==
  LET next == due[k] + Period(k)
  IN  IF next >= now THEN next
      ELSE next + (1 + (now - next - 1) \div Period(k)) * Period(k)

\* A publish timer is called.  Its tick publishes on the topics in pending.
Fire(k) ==
  /\ spinning
  /\ generator = "publishing"
  /\ k \in Timers
  /\ pending = {}
  /\ now >= due[k]
  /\ due' = [due EXCEPT ![k] = NextCall(k)]
  /\ pending' = Served(k)
  /\ UNCHANGED <<cfg, now, loaded, generator, round_robin_cursor, published, late, unheard,
                 lost, rows, spinning>>

\* What a buffer can be when a message published now has a row in it: the row
\* is the last, or in a reentrant group anywhere.
Stored(row) ==
  LET more == [row EXCEPT !.count = @ + 1]
  IN  IF row.count = 0 THEN {[count |-> 1, first |-> now, last |-> now]}
      ELSE {[more EXCEPT !.last = now]}
             \cup {r \in {[more EXCEPT !.first = now], more} :
                    /\ cfg.callback_group = "reentrant"
                    /\ r = more => row.count > 1}

\* publish_one(): the message is stamped, and may make it to a row.
PublishOne(k) ==
  /\ spinning
  /\ k \in pending
  /\ \A j \in pending : k <= j
  /\ pending' = pending \ {k}
  /\ published' = [published EXCEPT ![k] = @ + 1]
  /\ round_robin_cursor' = IF cfg.publish_mode = "round_robin"
                           THEN (round_robin_cursor + 1) % NumTopics
                           ELSE round_robin_cursor
  /\ unheard' = IF k < loaded THEN unheard ELSE unheard \cup {k}
  /\ \/ /\ k < loaded
        /\ \E row \in Stored(rows[k]) : rows' = [rows EXCEPT ![k] = row]
        /\ UNCHANGED lost
     \/ /\ lost' = lost \cup {k}
        /\ UNCHANGED rows
  /\ UNCHANGED <<cfg, now, loaded, generator, due, late, spinning>>

ShutdownDue == Duration + WarmUp

\* The shutdown timer has fired and spin() returns.
SpinEnds ==
  /\ spinning
  /\ now >= ShutdownDue
  /\ spinning' = FALSE
  /\ UNCHANGED <<cfg, now, loaded, generator, due, round_robin_cursor, pending, published,
                 late, unheard, lost, rows>>

\* Since when timer k or the tick it has begun waits.
Since(k) == IF \E j \in pending : TimerOf(j) = k THEN due[k] - Period(k) ELSE due[k]

Advance ==
  /\ spinning
  /\ now < ShutdownDue + Overshoot
  /\ now' = now + 1
  /\ late' = IF generator = "publishing"
             THEN late \cup {k \in Timers : now >= Since(k) + Jitter}
             ELSE late
  /\ UNCHANGED <<cfg, loaded, generator, due, round_robin_cursor, pending, published,
                 unheard, lost, rows, spinning>>

Next ==
  \/ LoadBenchNode \/ StartGenerator \/ Start
  \/ \E k \in Topics : Fire(k) \/ PublishOne(k)
  \/ SpinEnds \/ Advance

Spec == Init /\ [][Next]_vars

-----------------------------------------------------------------------------
TypeOK ==
  /\ cfg \in Configs
  /\ now \in 0 .. ShutdownDue + Overshoot
  /\ loaded \in 0 .. NumTopics
  /\ generator \in {"absent", "warming", "publishing"}
  /\ due \in [Topics -> Nat]
  /\ round_robin_cursor \in Topics
  /\ pending \subseteq Topics
  /\ published \in [Topics -> Nat]
  /\ late \subseteq Timers
  /\ unheard \subseteq Topics
  /\ lost \subseteq Topics
  /\ rows \in [Topics -> [count : Nat, first : Nat, last : Nat]]
  /\ spinning \in BOOLEAN

(***************************************************************************)
(* A generator in the container finds every subscription in place,         *)
(* however long the bench nodes take to load and however short the warm-up *)
(* is: no message is published that nobody can hear.  (_build() puts it    *)
(* behind the bench nodes.)  A generator process may be ahead of them.     *)
(***************************************************************************)
HeardFromTheStart == cfg.generator_mode = "composed" => unheard = {}

(***************************************************************************)
(* Although the shutdown timer does not wait for the generator, publishing *)
(* never takes longer than duration_s and the overshoot, so no entity gets *)
(* more messages than that at its rate, and the first: the warm-up is      *)
(* never measured.  ("duration_s: seconds of publishing before shutdown")  *)
(***************************************************************************)
PublishingFits ==
  \A k \in Topics :
    published[k] * rate_den(cfg, NumTopics) * Second
      <= expected_for(rate_num(cfg, NumTopics, k), rate_den(cfg, NumTopics) * Second,
                      Duration + Overshoot)

\* What the writer reads of the buffers.
Recorders ==
  [k \in Topics |->
     [rows |-> IF rows[k].count = 0 THEN << >>
               ELSE <<[t_reference |-> rows[k].first], [t_reference |-> rows[k].last]>>]]

\* samples_expected of topic k, times Denominator.
Denominator == rate_den(cfg, NumTopics) * Second
Expected(k) == expected_for(rate_num(cfg, NumTopics, k), Denominator,
                            window(Recorders, Duration))

(***************************************************************************)
(* Throughput is measured against the time of publishing, whenever the     *)
(* generator came up, however it is held up and whichever topics starve.   *)
(* A topic whose callbacks complete in order never exceeds what is         *)
(* expected of it by more than two messages, and if its timer was on time, *)
(* by more than a jitter explains.  A topic whose timer was on time and    *)
(* which lost nothing falls short of it by less than two messages, in a    *)
(* reentrant group too.  ("Measured against the window the generator was   *)
(* actually publishing over, not the nominal duration_s"; "so that a topic *)
(* being starved does not shrink its own denominator")                     *)
(***************************************************************************)
ThroughputMeasured ==
  (~ spinning /\ WindowObserved(Recorders)) =>
    \A k \in Topics :
      /\ cfg.callback_group # "reentrant" =>
           /\ rows[k].count * Denominator <= Expected(k) + 2 * Denominator
           /\ TimerOf(k) \notin late =>
                rows[k].count * Denominator
                  <= Expected(k) + rate_num(cfg, NumTopics, k) * Jitter
      /\ k \notin lost /\ TimerOf(k) \notin late =>
           Expected(k) < (rows[k].count + 2) * Denominator
=============================================================================
