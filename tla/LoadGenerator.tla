--------------------------- MODULE LoadGenerator ---------------------------
(***************************************************************************)
(* The publisher side (load_generator.cpp): a one-shot timer ends the      *)
(* warm-up and creates the timers of the chosen publish mode; each of      *)
(* their ticks publishes one topic or all of them.                         *)
(*                                                                         *)
(* Callbacks of the generator's node never overlap (it is spun by one      *)
(* thread, or sits in its node's default group), but a burst is several    *)
(* publications that the receiving side sees one after the other.  Rates   *)
(* are left out: any timer that exists may be the next to fire, and the    *)
(* clock only orders the stamps.                                           *)
(***************************************************************************)
EXTENDS Integers

CONSTANTS NumTopics,    \* the parameter num_topics
          PublishModes, \* values of the parameter publish_mode
          MaxSeq,       \* bound: messages published on a topic
          MaxPublished  \* bound: messages published on all topics

num_topics == IF NumTopics < 1 THEN 1 ELSE NumTopics

Topics == 0 .. num_topics - 1

KnownModes == {"burst", "round_robin", "multi_rate"}

ASSUME GeneratorAssumption ==
  /\ NumTopics \in Int
  /\ MaxSeq \in Nat
  /\ MaxPublished \in Nat

VARIABLES publish_mode,       \* publish_mode_
          start_timer,        \* start_timer_ has not been cancelled
          timer,              \* timer_ exists
          topic_timers,       \* topics that have a timer in topic_timers_
          seq,                \* seq_
          round_robin_cursor, \* round_robin_cursor_
          burst_index,        \* the loop index of tick(); 0 between ticks
          now                 \* CLOCK_MONOTONIC, as the order of the stamps

generator == <<publish_mode, start_timer, timer, topic_timers, seq,
               round_robin_cursor, burst_index, now>>

GeneratorInit ==
  /\ publish_mode \in {IF m \in KnownModes THEN m ELSE "burst" : m \in PublishModes}
  /\ start_timer = TRUE
  /\ timer = FALSE
  /\ topic_timers = {}
  /\ seq = [i \in Topics |-> 0]
  /\ round_robin_cursor = 0
  /\ burst_index = 0
  /\ now = 1

-----------------------------------------------------------------------------
(* Faulty variants of definitions below.                                   *)

\* TopicsStayLevel: the cursor wraps around one topic too early or too late.
FaultyNext(i) == IF i = num_topics - 1 THEN num_topics - 1 ELSE i + 1

\* EveryTopicPublished: start() creates one timer for the last topic only.
FaultyTimersOf(mode) == IF mode = "multi_rate" THEN {num_topics - 1} ELSE {}

\* GeneratorTypeOK: wraps past the last topic.
FaultyWrap(i) == (i + 1) % (num_topics + 1)

-----------------------------------------------------------------------------
NextTopic(i) == (i + 1) % num_topics

TimersOf(mode) == IF mode = "multi_rate" THEN Topics ELSE {}

\* The warm-up is over: cancel the one-shot timer and start().
Start ==
  /\ start_timer
  /\ start_timer' = FALSE
  /\ timer' = (publish_mode # "multi_rate")
  /\ topic_timers' = TimersOf(publish_mode)
  /\ UNCHANGED <<publish_mode, seq, round_robin_cursor, burst_index, now>>

\* What publish_one() hands to the publisher.
Message(i) == [seq |-> seq[i], t_published |-> now]

publish_one(i) ==
  /\ seq[i] < MaxSeq
  /\ now <= MaxPublished
  /\ seq' = [seq EXCEPT ![i] = @ + 1]
  /\ now' = now + 1

\* tick(), round_robin: one topic per tick.
RoundRobinTick(i) ==
  /\ timer
  /\ publish_mode = "round_robin"
  /\ i = round_robin_cursor
  /\ publish_one(i)
  /\ round_robin_cursor' = NextTopic(i)
  /\ UNCHANGED <<publish_mode, start_timer, timer, topic_timers, burst_index>>

\* tick(), burst: an iteration of the loop over all topics.
BurstIteration(i) ==
  /\ timer
  /\ publish_mode = "burst"
  /\ i = burst_index
  /\ publish_one(i)
  /\ burst_index' = IF i + 1 < num_topics THEN i + 1 ELSE 0
  /\ UNCHANGED <<publish_mode, start_timer, timer, topic_timers, round_robin_cursor>>

\* multi_rate: the timer of topic i fires.
TopicTimer(i) ==
  /\ i \in topic_timers
  /\ publish_one(i)
  /\ UNCHANGED <<publish_mode, start_timer, timer, topic_timers,
                 round_robin_cursor, burst_index>>

Publishes(i) == RoundRobinTick(i) \/ BurstIteration(i) \/ TopicTimer(i)

GeneratorNext == Start \/ \E i \in Topics : Publishes(i)

GeneratorSpec == GeneratorInit /\ [][GeneratorNext]_generator

\* The node is spun for as long as the process lives, so its timers fire.
FairGeneratorSpec ==
  GeneratorSpec /\ WF_generator(Start) /\ \A i \in Topics : WF_generator(Publishes(i))

-----------------------------------------------------------------------------
GeneratorTypeOK ==
  /\ publish_mode \in KnownModes
  /\ start_timer \in BOOLEAN
  /\ timer \in BOOLEAN
  /\ topic_timers \subseteq Topics
  /\ seq \in [Topics -> Nat]
  /\ round_robin_cursor \in Topics
  /\ burst_index \in Topics
  /\ now \in Nat

(***************************************************************************)
(* In the modes of one rate no topic gets ahead: the topics before the     *)
(* next one to publish are exactly one message ahead of the others.        *)
(* (tick(): "spreads the same aggregate rate evenly, one topic per tick")  *)
(***************************************************************************)
TopicsStayLevel ==
  publish_mode # "multi_rate" =>
    LET next == IF publish_mode = "burst" THEN burst_index ELSE round_robin_cursor
    IN  \A i, j \in Topics :
          seq[i] - seq[j] = (IF i < next THEN 1 ELSE 0) - (IF j < next THEN 1 ELSE 0)

(***************************************************************************)
(* Whatever the mode, once the warm-up is over every topic is published.   *)
(* (start(), tick())                                                       *)
(***************************************************************************)
EveryTopicPublished ==
  MaxPublished >= MaxSeq * num_topics => \A i \in Topics : <>(seq[i] = MaxSeq)
=============================================================================
