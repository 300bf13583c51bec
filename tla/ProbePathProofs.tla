--------------------------- MODULE ProbePathProofs ---------------------------
(***************************************************************************)
(* That the modes of one rate of LoadGenerator serve all topics alike.     *)
(* Type correctness of ProbePath; that every message is accounted for once;*)
(* that the publish window covers the rows; that the number reported as    *)
(* dropped is what the queues lost; and that the path implements the log   *)
(* of whole samples: for every number of topics and threads, every queue   *)
(* depth and every capacity.                                               *)
(***************************************************************************)
EXTENDS ProbePath, FiniteSetTheorems, WellFoundedInduction, TLAPS

\* Only multi_rate has timers of single topics.
TimersByMode == topic_timers # {} => publish_mode = "multi_rate"

GeneratorInv == GeneratorTypeOK /\ TimersByMode /\ TopicsStayLevel

\* The topic that is served next, where there is one.
NextServed == IF publish_mode = "burst" THEN burst_index ELSE round_robin_cursor

\* Topics before b are one message ahead.
Ahead(i, b) == IF i < b THEN 1 ELSE 0

-----------------------------------------------------------------------------
LEMMA NumTopicsPositive == num_topics \in Nat /\ num_topics >= 1
BY GeneratorAssumption DEF GeneratorAssumption, num_topics

\* The cursor goes to the topic behind, or wraps to the first one.
LEMMA NextTopicWraps ==
  ASSUME NEW i \in Topics
  PROVE  /\ NextTopic(i) \in Topics
         /\ NextTopic(i) = IF i + 1 < num_topics THEN i + 1 ELSE 0
<1>1. i \in Nat /\ i < num_topics
    BY NumTopicsPositive DEF Topics
<1>2. CASE i + 1 < num_topics
  <2>1. (i + 1) % num_topics = i + 1
      BY <1>1, <1>2, NumTopicsPositive
  <2> QED BY <1>1, <1>2, <2>1, NumTopicsPositive DEF NextTopic, Topics
<1>3. CASE i + 1 >= num_topics
  <2>1. i + 1 = num_topics
      BY <1>1, <1>3, NumTopicsPositive
  <2>2. num_topics % num_topics = 0
      BY NumTopicsPositive
  <2> QED BY <1>1, <2>1, <2>2, NumTopicsPositive DEF NextTopic, Topics
<1> QED BY <1>1, <1>2, <1>3, NumTopicsPositive

\* Publishing the next topic and moving on leaves the topics level.
LEMMA LevelKept ==
  ASSUME NEW s \in [Topics -> Nat], NEW k \in Topics,
         \A i, j \in Topics : s[i] - s[j] = Ahead(i, k) - Ahead(j, k)
  PROVE  LET t == [s EXCEPT ![k] = @ + 1]
             b == IF k + 1 < num_topics THEN k + 1 ELSE 0
         IN  \A i, j \in Topics : t[i] - t[j] = Ahead(i, b) - Ahead(j, b)
<1> DEFINE t == [s EXCEPT ![k] = @ + 1]
           b == IF k + 1 < num_topics THEN k + 1 ELSE 0
<1> SUFFICES ASSUME NEW i \in Topics, NEW j \in Topics
             PROVE  t[i] - t[j] = Ahead(i, b) - Ahead(j, b)
    OBVIOUS
<1>1. /\ k \in Nat /\ k < num_topics
      /\ i \in Nat /\ i < num_topics
      /\ j \in Nat /\ j < num_topics
    BY NumTopicsPositive DEF Topics
<1>2. /\ t[i] = s[i] + (IF i = k THEN 1 ELSE 0)
      /\ t[j] = s[j] + (IF j = k THEN 1 ELSE 0)
    OBVIOUS
<1>3. s[i] \in Nat /\ s[j] \in Nat
    OBVIOUS
<1>4. s[i] - s[j] = Ahead(i, k) - Ahead(j, k)
    OBVIOUS
<1> HIDE DEF t
<1>5. CASE k + 1 < num_topics
    BY <1>1, <1>2, <1>3, <1>4, <1>5 DEF Ahead
<1>6. CASE k + 1 >= num_topics
    BY <1>1, <1>2, <1>3, <1>4, <1>6, NumTopicsPositive DEF Ahead
<1> QED BY <1>1, <1>5, <1>6, NumTopicsPositive

-----------------------------------------------------------------------------
(* The generator alone.                                                    *)

LEMMA InitGenerator == GeneratorInit => GeneratorInv
<1> SUFFICES ASSUME GeneratorInit PROVE GeneratorInv
    OBVIOUS
<1>1. 0 \in Topics
    BY NumTopicsPositive DEF Topics
<1>2. publish_mode \in KnownModes
    BY DEF GeneratorInit, KnownModes
<1>3. GeneratorTypeOK
    BY <1>1, <1>2 DEF GeneratorInit, GeneratorTypeOK
<1>4. TopicsStayLevel
    BY <1>1 DEF GeneratorInit, TopicsStayLevel, Topics
<1> QED BY <1>3, <1>4 DEF GeneratorInv, GeneratorInit, TimersByMode

LEMMA LevelMeans ==
  TopicsStayLevel <=>
    (publish_mode # "multi_rate" =>
       \A i, j \in Topics : seq[i] - seq[j] = Ahead(i, NextServed) - Ahead(j, NextServed))
BY DEF TopicsStayLevel, Ahead, NextServed

LEMMA LevelMeansAfter ==
  TopicsStayLevel' <=>
    (publish_mode' # "multi_rate" =>
       \A i, j \in Topics :
         seq'[i] - seq'[j] = Ahead(i, NextServed') - Ahead(j, NextServed'))
BY DEF TopicsStayLevel, Ahead, NextServed

LEMMA NextGenerator ==
  ASSUME GeneratorInv, [GeneratorNext]_generator
  PROVE  GeneratorInv'
<1> SUFFICES ASSUME TRUE PROVE GeneratorInv'
    OBVIOUS
<1> USE DEF GeneratorInv, GeneratorTypeOK, TimersByMode
<1>1. CASE Start
  <2>1. TopicsStayLevel'
      BY <1>1 DEF Start, TopicsStayLevel
  <2> QED BY <1>1, <2>1 DEF Start, TimersOf
<1>2. ASSUME NEW k \in Topics, RoundRobinTick(k) PROVE GeneratorInv'
  <2>1. seq' = [seq EXCEPT ![k] = @ + 1] /\ k = NextServed /\ publish_mode = "round_robin"
      BY <1>2 DEF RoundRobinTick, publish_one, NextServed
  <2>2. NextServed' = IF k + 1 < num_topics THEN k + 1 ELSE 0
      BY <1>2, NextTopicWraps DEF RoundRobinTick, NextServed
  <2>3. \A i, j \in Topics : seq[i] - seq[j] = Ahead(i, k) - Ahead(j, k)
      BY <2>1, LevelMeans
  <2>4. TopicsStayLevel'
      BY <2>1, <2>2, <2>3, LevelKept, LevelMeansAfter
  <2>5. GeneratorTypeOK'
      BY <1>2, <2>1, NextTopicWraps DEF RoundRobinTick, publish_one
  <2> QED BY <1>2, <2>4, <2>5 DEF RoundRobinTick
<1>3. ASSUME NEW k \in Topics, BurstIteration(k) PROVE GeneratorInv'
  <2>1. seq' = [seq EXCEPT ![k] = @ + 1] /\ k = NextServed /\ publish_mode = "burst"
      BY <1>3 DEF BurstIteration, publish_one, NextServed
  <2>2. NextServed' = IF k + 1 < num_topics THEN k + 1 ELSE 0
      BY <1>3 DEF BurstIteration, NextServed
  <2>3. \A i, j \in Topics : seq[i] - seq[j] = Ahead(i, k) - Ahead(j, k)
      BY <2>1, LevelMeans
  <2>4. TopicsStayLevel'
      BY <2>1, <2>2, <2>3, LevelKept, LevelMeansAfter
  <2>5. burst_index' \in Topics
      BY <1>3, NumTopicsPositive DEF BurstIteration, Topics
  <2>6. GeneratorTypeOK'
      BY <1>3, <2>1, <2>5 DEF BurstIteration, publish_one
  <2> QED BY <1>3, <2>4, <2>6 DEF BurstIteration
<1>4. ASSUME NEW k \in Topics, TopicTimer(k) PROVE GeneratorInv'
  <2>1. publish_mode = "multi_rate" /\ publish_mode' = publish_mode
      BY <1>4 DEF TopicTimer
  <2>2. TopicsStayLevel'
      BY <2>1 DEF TopicsStayLevel
  <2>3. GeneratorTypeOK'
      BY <1>4 DEF TopicTimer, publish_one
  <2> QED BY <1>4, <2>1, <2>2, <2>3 DEF TopicTimer
<1>5. CASE UNCHANGED generator
    BY <1>5 DEF generator, TopicsStayLevel
<1> QED
    BY <1>1, <1>2, <1>3, <1>4, <1>5 DEF GeneratorNext, Publishes

(***************************************************************************)
(* The cursor, the loop index and the timers of the generator stay within  *)
(* its topics, however many were asked for.                                *)
(***************************************************************************)
THEOREM GeneratorTypeCorrect == GeneratorSpec => []GeneratorTypeOK
<1>1. GeneratorInv => GeneratorTypeOK
    BY DEF GeneratorInv
<1> QED BY <1>1, InitGenerator, NextGenerator, PTL DEF GeneratorSpec

(***************************************************************************)
(* In burst and round_robin no topic ever gets more than one message ahead *)
(* of another one, and those ahead are the ones before the next to serve.  *)
(***************************************************************************)
THEOREM TopicsLevel == GeneratorSpec => []TopicsStayLevel
<1>1. GeneratorInv => TopicsStayLevel
    BY DEF GeneratorInv
<1> QED BY <1>1, InitGenerator, NextGenerator, PTL DEF GeneratorSpec

(***************************************************************************)
(* The path does nothing to the generator that the generator would not do: *)
(* full queues, full buffers and the end of the run do not hold it up.     *)
(***************************************************************************)
THEOREM GeneratorUndisturbed == Spec => GeneratorSpec
<1>1. Init => GeneratorInit
    BY DEF Init
<1>2. [Next]_vars => [GeneratorNext]_generator
  <2> SUFFICES ASSUME [Next]_vars PROVE [GeneratorNext]_generator
      OBVIOUS
  <2>1. CASE WarmUpEnds
      BY <2>1 DEF WarmUpEnds, GeneratorNext
  <2>2. ASSUME NEW i \in Topics, Publish(i) PROVE GeneratorNext
      BY <2>2 DEF Publish, GeneratorNext
  <2>3. ASSUME NEW i \in Topics, NEW t \in Threads, StartProbe(t, i) PROVE UNCHANGED generator
      BY <2>3 DEF StartProbe
  <2>4. ASSUME NEW t \in Threads, FinishProbe(t) PROVE UNCHANGED generator
      BY <2>4 DEF FinishProbe
  <2>5. CASE Shutdown \/ WriteResults
      BY <2>5 DEF Shutdown, WriteResults
  <2>6. CASE UNCHANGED vars
      BY <2>6 DEF vars
  <2> QED BY <2>1, <2>2, <2>3, <2>4, <2>5, <2>6 DEF Next
<1> QED BY <1>1, <1>2, PTL DEF Spec, GeneratorSpec

-----------------------------------------------------------------------------
(* The path.                                                               *)

Msg == [seq : Nat, t_published : Nat]
Call == [topic : Topics, seq : Nat, t_reference : Nat, t_start : Nat]
Row == [seq : Nat, t_reference : Nat, t_start : Nat]

Types ==
  /\ seq \in [Topics -> Nat]
  /\ now \in Nat
  /\ queue \in [Topics -> Seq(Msg)]
  /\ queue_lost \in [Topics -> SUBSET Nat]
  /\ running \in [Threads -> Call \cup {Idle}]
  /\ recs \in [Topics -> [rows : Seq(Row), lost : Nat]]
  /\ spinning \in BOOLEAN

\* The oldest message of topic i that can still be in its queue.
Oldest(i) == seq[i] - Len(queue[i])

\* The queue holds the latest messages of its topic, without a gap.
QueueIsTail(i) ==
  /\ Len(queue[i]) <= QosDepth
  /\ Len(queue[i]) <= seq[i]
  /\ \A k \in 1 .. Len(queue[i]) :
       queue[i][k].seq = Oldest(i) + k - 1 /\ queue[i][k].t_published < now

\* What has left the queue is older than what is in it.
OthersAreOlder(i) ==
  /\ \A s \in queue_lost[i] : s < Oldest(i)
  /\ \A s \in Seqs(recs[i].rows) : s < Oldest(i)
  /\ \A t \in InFlight(i) : running[t].seq < Oldest(i)

\* No message is in two places.
PlacesApart(i) ==
  /\ Seqs(recs[i].rows) \cap queue_lost[i] = {}
  /\ \A t \in InFlight(i) :
       /\ running[t].seq \notin queue_lost[i]
       /\ running[t].seq \notin Seqs(recs[i].rows)
       /\ \A u \in InFlight(i) : running[t].seq = running[u].seq => t = u

Finite(i) ==
  /\ IsFiniteSet(queue_lost[i])
  /\ IsFiniteSet(InFlight(i))
  /\ IsFiniteSet(Seqs(recs[i].rows))

\* How many messages are in each place.
Published(i) == seq[i]
Discarded(i) == Cardinality(queue_lost[i])
Queued(i) == Len(queue[i])
Serving(i) == Cardinality(InFlight(i))
Kept(i) == Len(recs[i].rows)
TurnedAway(i) == recs[i].lost

Counted(i) ==
  /\ Published(i) = Discarded(i) + Queued(i) + Serving(i) + Kept(i) + TurnedAway(i)
  /\ Cardinality(Seqs(recs[i].rows)) = Len(recs[i].rows)
  /\ Len(recs[i].rows) <= Capacity

Stamped == \A t \in Threads : running[t] # Idle => running[t].t_reference < now

\* After the report nothing is recorded any more.
Frozen == report # NoReport => ~ spinning /\ Joined /\ report.recs = recs

TopicInv(i) ==
  QueueIsTail(i) /\ OthersAreOlder(i) /\ PlacesApart(i) /\ Finite(i) /\ Counted(i)

IInv == Types /\ Stamped /\ Frozen /\ \A i \in Topics : TopicInv(i)

-----------------------------------------------------------------------------
(* What the steps do, point by point.                                      *)

LEMMA IdleIsNoCall == Idle \notin Call
BY ProbePathAssumption DEF ProbePathAssumption, Call

\* The generator's side of a publication.
LEMMA PublishCounts ==
  ASSUME Types, NEW i \in Topics, Publishes(i)
  PROVE  /\ seq' = [j \in Topics |-> IF j = i THEN seq[i] + 1 ELSE seq[j]]
         /\ now' = now + 1
BY DEF Types, Publishes, RoundRobinTick, BurstIteration, TopicTimer,
       publish_one

LEMMA WarmUpPublishesNothing ==
  ASSUME WarmUpEnds
  PROVE  seq' = seq /\ now' = now /\ UNCHANGED path
BY DEF WarmUpEnds, Start

\* A finished call adds its message to the rows, or counts it.
LEMMA SeqsOfAppend ==
  ASSUME NEW rows \in Seq(Row), NEW row \in Row
  PROVE  Seqs(Append(rows, row)) = Seqs(rows) \cup {row.seq}
<1>1. /\ Len(Append(rows, row)) = Len(rows) + 1
      /\ Append(rows, row)[Len(rows) + 1] = row
      /\ \A k \in 1 .. Len(rows) : Append(rows, row)[k] = rows[k]
      /\ Len(rows) \in Nat
  OBVIOUS
<1>2. 1 .. Len(rows) + 1 = 1 .. Len(rows) \cup {Len(rows) + 1}
  BY <1>1
<1> QED
  BY <1>1, <1>2 DEF Seqs

LEMMA QueuedIsMsg ==
  ASSUME NEW q \in Seq(Msg), NEW k \in 1 .. Len(q)
  PROVE  q[k] \in Msg /\ q[k].seq \in Nat /\ q[k].t_published \in Nat
<1>1. q[k] \in Msg
  OBVIOUS
<1> QED
  BY <1>1 DEF Msg

LEMMA InitIInv == Init => IInv
<1> SUFFICES ASSUME Init PROVE IInv
  OBVIOUS
<1> USE DEF Init
<1>1. seq = [i \in Topics |-> 0] /\ now = 1
  BY DEF GeneratorInit, Topics
<1>2. \A i \in Topics : recs[i].rows = << >> /\ recs[i].lost = 0
  OBVIOUS
<1>3. Types
  <2>1. recs \in [Topics -> [rows : Seq(Row), lost : Nat]]
    OBVIOUS
  <2>2. queue \in [Topics -> Seq(Msg)]
    OBVIOUS
  <2> QED
    BY <1>1, <2>1, <2>2 DEF Types
<1>4. Stamped /\ Frozen
  BY DEF Stamped, Frozen
<1>5. ASSUME NEW i \in Topics
      PROVE  TopicInv(i)
  <2>1. Seqs(recs[i].rows) = {} /\ Len(recs[i].rows) = 0
    BY <1>2 DEF Seqs
  <2>2. InFlight(i) = {}
    BY DEF InFlight
  <2>3. queue_lost[i] = {} /\ queue[i] = << >> /\ Len(queue[i]) = 0 /\ seq[i] = 0
    BY <1>1
  <2>4. IsFiniteSet({}) /\ Cardinality({}) = 0
    BY FS_EmptySet
  <2>5. Finite(i) /\ Counted(i)
    <3>1. Finite(i)
      BY <2>1, <2>2, <2>3, <2>4 DEF Finite
    <3>2. 0 <= Capacity
      BY ProbePathAssumption DEF ProbePathAssumption
    <3>3. /\ Cardinality(queue_lost[i]) = 0 /\ Cardinality(InFlight(i)) = 0
          /\ Cardinality(Seqs(recs[i].rows)) = 0
      BY <2>1, <2>2, <2>3, <2>4
    <3>4. Published(i) = Discarded(i) + Queued(i) + Serving(i) + Kept(i) + TurnedAway(i)
      BY <1>2, <2>1, <2>3, <3>3 DEF Published, Discarded, Queued, Serving, Kept, TurnedAway
    <3>5. Counted(i)
      BY <2>1, <3>2, <3>3, <3>4 DEF Counted
    <3> QED
      BY <3>1, <3>5
  <2>6. QueueIsTail(i)
    BY <2>3, ProbePathAssumption DEF QueueIsTail, ProbePathAssumption
  <2>7. OthersAreOlder(i) /\ PlacesApart(i)
    BY <2>1, <2>2, <2>3 DEF OthersAreOlder, PlacesApart
  <2> QED
    BY <2>5, <2>6, <2>7 DEF TopicInv
<1> QED
  BY <1>3, <1>4, <1>5 DEF IInv

-----------------------------------------------------------------------------
(* Steps of a thread that leave a topic alone.                             *)

\* A topic is untouched when nothing of it changes but the clock, forwards.
LEMMA Untouched ==
  ASSUME Types, NEW j \in Topics, TopicInv(j),
         seq'[j] = seq[j], now' \in Nat, now <= now',
         queue'[j] = queue[j], queue_lost'[j] = queue_lost[j], recs'[j] = recs[j],
         InFlight(j)' = InFlight(j),
         \A t \in InFlight(j) : running'[t] = running[t]
  PROVE  TopicInv(j)'
<1>1. Oldest(j)' = Oldest(j)
  BY DEF Oldest
<1>2. QueueIsTail(j)'
  <2>1. queue[j] \in Seq(Msg)
    BY DEF Types
  <2>2. \A k \in 1 .. Len(queue[j]) : queue[j][k].t_published \in Nat
    BY <2>1, QueuedIsMsg
  <2> QED
    BY <1>1, <2>2 DEF QueueIsTail, TopicInv, Types
<1>3. OthersAreOlder(j)'
  BY <1>1 DEF OthersAreOlder, TopicInv
<1>4. PlacesApart(j)'
  BY DEF PlacesApart, TopicInv
<1>5. Finite(j)' /\ Counted(j)'
  BY DEF Finite, Counted, Published, Discarded, Queued, Serving, Kept, TurnedAway, TopicInv
<1> QED
  BY <1>2, <1>3, <1>4, <1>5 DEF TopicInv
-----------------------------------------------------------------------------
(* Publish(i).                                                             *)

LEMMA PublishTypes ==
  ASSUME IInv, NEW i \in Topics, Publish(i)
  PROVE  Types' /\ Stamped' /\ Frozen'
<1>1. /\ seq' = [j \in Topics |-> IF j = i THEN seq[i] + 1 ELSE seq[j]]
      /\ now' = now + 1
  BY PublishCounts DEF Publish, IInv
<1>2. Message(i) \in Msg
  BY DEF Message, Msg, IInv, Types
<1>3. queue[i] \in Seq(Msg)
  BY DEF IInv, Types
<1>4. queue' \in [Topics -> Seq(Msg)] /\ queue_lost' \in [Topics -> SUBSET Nat]
  <2>1. CASE Len(queue[i]) < QosDepth
    <3>1. Append(queue[i], Message(i)) \in Seq(Msg)
      BY <1>2, <1>3
    <3> QED
      BY <2>1, <3>1 DEF Publish, IInv, Types
  <2>2. CASE ~ (Len(queue[i]) < QosDepth)
    <3>1. queue[i] # << >>
      BY <2>2, <1>3, ProbePathAssumption DEF ProbePathAssumption
    <3>2. Tail(queue[i]) \in Seq(Msg) /\ Head(queue[i]) \in Msg
      BY <1>3, <3>1
    <3>3. Append(Tail(queue[i]), Message(i)) \in Seq(Msg)
      BY <1>2, <3>2
    <3>4. Head(queue[i]).seq \in Nat
      BY <3>2 DEF Msg
    <3>5. queue' \in [Topics -> Seq(Msg)]
      BY <2>2, <3>3 DEF Publish, IInv, Types
    <3>6. queue_lost' = [queue_lost EXCEPT ![i] = @ \cup {Head(queue[i]).seq}]
      BY <2>2 DEF Publish
    <3>7. queue_lost' \in [Topics -> SUBSET Nat]
      BY <3>4, <3>6 DEF IInv, Types
    <3> QED
      BY <3>5, <3>7
  <2> QED
    BY <2>1, <2>2
<1>5. Types'
  BY <1>1, <1>4 DEF Publish, IInv, Types
<1>6. Stamped'
  <2>1. \A t \in Threads : running[t] # Idle => running[t].t_reference \in Nat
    BY DEF IInv, Types, Call
  <2> QED
    BY <1>1, <2>1 DEF Publish, Stamped, IInv, Types
<1>7. Frozen'
  BY DEF Publish, Frozen, Joined, IInv
<1> QED
  BY <1>5, <1>6, <1>7

LEMMA CountsAreNatural ==
  ASSUME Types, NEW i \in Topics, Finite(i)
  PROVE  /\ Published(i) \in Nat /\ Discarded(i) \in Nat /\ Queued(i) \in Nat
         /\ Serving(i) \in Nat /\ Kept(i) \in Nat /\ TurnedAway(i) \in Nat
<1>1. /\ seq[i] \in Nat /\ queue[i] \in Seq(Msg)
      /\ recs[i] \in [rows : Seq(Row), lost : Nat]
  BY DEF Types
<1>2. Discarded(i) \in Nat /\ Serving(i) \in Nat
  BY FS_CardinalityType DEF Finite, Discarded, Serving
<1> QED
  BY <1>1, <1>2 DEF Published, Queued, Kept, TurnedAway

\* What the queue of the topic holds afterwards.
LEMMA PublishQueue ==
  ASSUME IInv, NEW i \in Topics, Publish(i)
  PROVE  /\ QueueIsTail(i)'
         /\ \/ Oldest(i)' = Oldest(i) /\ queue_lost'[i] = queue_lost[i]
               /\ Len(queue'[i]) = Len(queue[i]) + 1
            \/ Oldest(i)' = Oldest(i) + 1 /\ queue_lost'[i] = queue_lost[i] \cup {Oldest(i)}
               /\ Len(queue'[i]) = Len(queue[i])
<1>1. /\ seq' = [j \in Topics |-> IF j = i THEN seq[i] + 1 ELSE seq[j]]
      /\ now' = now + 1
  BY PublishCounts DEF Publish, IInv
<1>2. seq'[i] = seq[i] + 1 /\ seq[i] \in Nat /\ now \in Nat /\ queue[i] \in Seq(Msg)
  BY <1>1 DEF IInv, Types
<1>3. \A k \in 1 .. Len(queue[i]) : queue[i][k].seq \in Nat /\ queue[i][k].t_published \in Nat
  BY <1>2, QueuedIsMsg
<1>4. Message(i).seq = seq[i] /\ Message(i).t_published = now /\ Message(i) \in Msg
  BY <1>2 DEF Message, Msg
<1>5. QueueIsTail(i)
  BY DEF IInv, TopicInv
<1>6. QosDepth \in Nat /\ QosDepth >= 1
  BY ProbePathAssumption DEF ProbePathAssumption
<1>7. CASE Len(queue[i]) < QosDepth
  <2>1. queue'[i] = Append(queue[i], Message(i)) /\ queue_lost'[i] = queue_lost[i]
    BY <1>7 DEF Publish, IInv, Types
  <2>2. /\ Len(queue'[i]) = Len(queue[i]) + 1
        /\ \A k \in 1 .. Len(queue[i]) : queue'[i][k] = queue[i][k]
        /\ queue'[i][Len(queue[i]) + 1] = Message(i)
    BY <2>1, <1>2, <1>4
  <2>3. Oldest(i)' = Oldest(i)
    BY <2>2, <1>2, SMTT(30) DEF Oldest
  <2>4. ASSUME NEW k \in 1 .. Len(queue'[i])
        PROVE  queue'[i][k].seq = Oldest(i) + k - 1 /\ queue'[i][k].t_published < now + 1
    <3>1. CASE k = Len(queue[i]) + 1
      BY <3>1, <2>2, <1>2, <1>4 DEF Oldest
    <3>2. CASE k \in 1 .. Len(queue[i])
      <4>1. queue'[i][k] = queue[i][k]
        BY <3>2, <2>2
      <4> QED
        BY <3>2, <4>1, <1>2, <1>3, <1>5 DEF QueueIsTail
    <3> QED
      BY <3>1, <3>2, <2>2, <1>2
  <2>5. QueueIsTail(i)'
    BY <2>2, <2>3, <2>4, <1>1, <1>2, <1>5, <1>6, <1>7 DEF QueueIsTail
  <2> QED
    BY <2>1, <2>2, <2>3, <2>5
<1>8. CASE ~ (Len(queue[i]) < QosDepth)
  <2>1. queue'[i] = Append(Tail(queue[i]), Message(i))
    BY <1>8 DEF Publish, IInv, Types
  <2>2. queue_lost'[i] = queue_lost[i] \cup {Head(queue[i]).seq}
    BY <1>8 DEF Publish, IInv, Types
  <2>3. queue[i] # << >> /\ Len(queue[i]) >= 1
    BY <1>8, <1>2, <1>6
  <2>4. Head(queue[i]) = queue[i][1]
    BY <2>3, <1>2
  <2>5. Head(queue[i]).seq = Oldest(i)
    BY <2>3, <2>4, <1>2, <1>5 DEF QueueIsTail, Oldest
  <2>6. /\ Len(Tail(queue[i])) = Len(queue[i]) - 1
        /\ Tail(queue[i]) \in Seq(Msg)
        /\ \A k \in 1 .. Len(queue[i]) - 1 : Tail(queue[i])[k] = queue[i][k + 1]
    BY <2>3, <1>2
  <2>7. /\ Len(queue'[i]) = Len(queue[i])
        /\ \A k \in 1 .. Len(queue[i]) - 1 : queue'[i][k] = queue[i][k + 1]
        /\ queue'[i][Len(queue[i])] = Message(i)
    BY <2>1, <2>6, <1>2, <1>4
  <2>8. Oldest(i)' = Oldest(i) + 1
    BY <2>7, <1>2, SMTT(30) DEF Oldest
  <2>9. ASSUME NEW k \in 1 .. Len(queue'[i])
        PROVE  queue'[i][k].seq = Oldest(i) + k /\ queue'[i][k].t_published < now + 1
    <3>1. CASE k = Len(queue[i])
      BY <3>1, <2>7, <1>2, <1>4 DEF Oldest
    <3>2. CASE k \in 1 .. Len(queue[i]) - 1
      <4>1. queue'[i][k] = queue[i][k + 1] /\ k + 1 \in 1 .. Len(queue[i])
        BY <3>2, <2>7, <1>2
      <4>2. Oldest(i) \in Int
        BY <1>2 DEF Oldest
      <4>3. queue[i][k + 1].seq = Oldest(i) + (k + 1) - 1 /\ queue[i][k + 1].t_published < now
        BY <4>1, <1>5 DEF QueueIsTail
      <4>4. k \in Int /\ now \in Nat
        BY <3>2, <1>2, <1>3
      <4>5. queue'[i][k].seq = Oldest(i) + k
        BY <4>1, <4>2, <4>3, <4>4
      <4>6. queue'[i][k].t_published \in Nat
        BY <4>1, <1>3
      <4>7. queue'[i][k].t_published < now + 1
        BY <4>1, <4>3, <4>4, <4>6
      <4> QED
        BY <4>5, <4>7
    <3> QED
      BY <3>1, <3>2, <2>7, <1>2
  <2>10. QueueIsTail(i)'
    <3>1. Oldest(i) \in Int
      BY <1>2 DEF Oldest
    <3>2. \A k \in 1 .. Len(queue'[i]) : Oldest(i) + k = Oldest(i)' + k - 1
      BY <3>1, <2>7, <2>8, <1>2
    <3>3. \A k \in 1 .. Len(queue'[i]) :
            queue'[i][k].seq = Oldest(i)' + k - 1 /\ queue'[i][k].t_published < now'
      BY <2>9, <3>2, <1>1
    <3>4. Len(queue'[i]) <= QosDepth /\ Len(queue'[i]) <= seq'[i]
      BY <2>7, <1>2, <1>5 DEF QueueIsTail
    <3> QED
      BY <3>3, <3>4 DEF QueueIsTail
  <2> QED
    BY <2>2, <2>5, <2>7, <2>8, <2>10
<1> QED
  BY <1>7, <1>8

\* Nothing but the queue of the topic is touched.
LEMMA PublishTopic ==
  ASSUME IInv, NEW i \in Topics, Publish(i)
  PROVE  TopicInv(i)'
<1>1. QueueIsTail(i)'
  BY PublishQueue
<1>2. /\ InFlight(i)' = InFlight(i)
      /\ running' = running
      /\ recs'[i] = recs[i]
  BY DEF Publish, InFlight
<1>3. /\ seq[i] \in Nat /\ Len(queue[i]) \in Nat /\ Oldest(i) \in Int /\ recs[i].lost \in Nat
      /\ Len(recs[i].rows) \in Nat
  <2>1. seq[i] \in Nat /\ queue[i] \in Seq(Msg) /\ recs[i] \in [rows : Seq(Row), lost : Nat]
    BY DEF IInv, Types
  <2> QED
    BY <2>1 DEF Oldest
<1>4. /\ \A s \in Seqs(recs[i].rows) : s \in Nat
      /\ \A t \in InFlight(i) : running[t].seq \in Nat
      /\ \A s \in queue_lost[i] : s \in Nat
  <2>1. recs[i].rows \in Seq(Row)
    BY DEF IInv, Types
  <2>2. \A k \in 1 .. Len(recs[i].rows) : recs[i].rows[k] \in Row
    BY <2>1
  <2>3. \A s \in Seqs(recs[i].rows) : s \in Nat
    BY <2>2 DEF Seqs, Row
  <2>4. \A t \in InFlight(i) : running[t].seq \in Nat
    BY DEF InFlight, IInv, Types, Call
  <2> QED
    BY <2>3, <2>4 DEF IInv, Types
<1>5. OthersAreOlder(i) /\ PlacesApart(i) /\ Finite(i) /\ Counted(i)
  BY DEF IInv, TopicInv
<1>6. seq'[i] = seq[i] + 1
  BY PublishCounts DEF Publish, IInv
<1>7. CASE /\ Oldest(i)' = Oldest(i) /\ queue_lost'[i] = queue_lost[i]
           /\ Len(queue'[i]) = Len(queue[i]) + 1
  <2>1. OthersAreOlder(i)' /\ PlacesApart(i)' /\ Finite(i)'
    BY <1>2, <1>5, <1>7 DEF OthersAreOlder, PlacesApart, Finite
  <2>2. Counted(i)'
    <3>1. /\ Published(i)' = Published(i) + 1
          /\ Discarded(i)' = Discarded(i)
          /\ Queued(i)' = Queued(i) + 1
          /\ Serving(i)' = Serving(i) /\ Kept(i)' = Kept(i) /\ TurnedAway(i)' = TurnedAway(i)
      BY <1>2, <1>6, <1>7
      DEF Published, Discarded, Queued, Serving, Kept, TurnedAway
    <3>2. Published(i)' = Discarded(i)' + Queued(i)' + Serving(i)' + Kept(i)' + TurnedAway(i)'
      BY <3>1, <1>5, CountsAreNatural DEF Counted, IInv
    <3> QED
      BY <3>2, <1>2, <1>5 DEF Counted
  <2> QED
    BY <1>1, <2>1, <2>2 DEF TopicInv
<1>8. CASE /\ Oldest(i)' = Oldest(i) + 1 /\ queue_lost'[i] = queue_lost[i] \cup {Oldest(i)}
           /\ Len(queue'[i]) = Len(queue[i])
  <2>1. OthersAreOlder(i)'
    BY <1>2, <1>3, <1>4, <1>5, <1>8 DEF OthersAreOlder
  <2>2. PlacesApart(i)'
    <3>1. Oldest(i) \notin Seqs(recs[i].rows) /\ \A t \in InFlight(i) : running[t].seq # Oldest(i)
      BY <1>3, <1>4, <1>5 DEF OthersAreOlder
    <3> QED
      BY <3>1, <1>2, <1>5, <1>8 DEF PlacesApart
  <2>3. Oldest(i) \notin queue_lost[i]
    BY <1>3, <1>4, <1>5 DEF OthersAreOlder
  <2>4. /\ IsFiniteSet(queue_lost'[i])
        /\ Cardinality(queue_lost'[i]) = Cardinality(queue_lost[i]) + 1
    BY <2>3, <1>5, <1>8, FS_AddElement DEF Finite
  <2>5. Finite(i)'
    BY <2>4, <1>2, <1>5 DEF Finite
  <2>6. Counted(i)'
    <3>1. /\ Published(i)' = Published(i) + 1
          /\ Discarded(i)' = Discarded(i) + 1
          /\ Queued(i)' = Queued(i)
          /\ Serving(i)' = Serving(i) /\ Kept(i)' = Kept(i) /\ TurnedAway(i)' = TurnedAway(i)
      BY <2>4, <1>2, <1>6, <1>8
      DEF Published, Discarded, Queued, Serving, Kept, TurnedAway
    <3>2. Published(i)' = Discarded(i)' + Queued(i)' + Serving(i)' + Kept(i)' + TurnedAway(i)'
      BY <3>1, <1>5, CountsAreNatural DEF Counted, IInv
    <3> QED
      BY <3>2, <1>2, <1>5 DEF Counted
  <2> QED
    BY <1>1, <2>1, <2>2, <2>5, <2>6 DEF TopicInv
<1> QED
  BY <1>7, <1>8, PublishQueue

LEMMA PublishKeeps ==
  ASSUME IInv, NEW i \in Topics, Publish(i)
  PROVE  IInv'
<1>1. /\ seq' = [j \in Topics |-> IF j = i THEN seq[i] + 1 ELSE seq[j]]
      /\ now' = now + 1
  BY PublishCounts DEF Publish, IInv
<1>2. ASSUME NEW j \in Topics, j # i
      PROVE  TopicInv(j)'
  <2>1. queue'[j] = queue[j] /\ queue_lost'[j] = queue_lost[j] /\ seq'[j] = seq[j]
    BY <1>1, <1>2 DEF Publish, IInv, Types
  <2>2. now' \in Nat /\ now <= now'
    BY <1>1 DEF IInv, Types
  <2>3. recs'[j] = recs[j] /\ InFlight(j)' = InFlight(j) /\ running' = running
    BY DEF Publish, InFlight
  <2> QED
    BY <2>1, <2>2, <2>3, Untouched DEF IInv
<1> QED
  BY <1>2, PublishTypes, PublishTopic DEF IInv
-----------------------------------------------------------------------------
(* StartProbe(t, i) and FinishProbe(t).                                    *)

\* The numbers in the places of a topic.
LEMMA NumbersAreNatural ==
  ASSUME Types, NEW i \in Topics
  PROVE  /\ \A s \in Seqs(recs[i].rows) : s \in Nat
         /\ \A t \in InFlight(i) : running[t].seq \in Nat
         /\ \A s \in queue_lost[i] : s \in Nat
         /\ Oldest(i) \in Int
<1>1. recs[i].rows \in Seq(Row) /\ queue[i] \in Seq(Msg) /\ seq[i] \in Nat
  BY DEF Types
<1>2. \A k \in 1 .. Len(recs[i].rows) : recs[i].rows[k] \in Row
  BY <1>1
<1>3. \A s \in Seqs(recs[i].rows) : s \in Nat
  BY <1>2 DEF Seqs, Row
<1>4. \A t \in InFlight(i) : running[t].seq \in Nat
  BY DEF InFlight, Types, Call
<1>5. \A s \in queue_lost[i] : s \in Nat
  BY DEF Types
<1>6. Oldest(i) \in Int
  BY <1>1 DEF Oldest
<1> QED
  BY <1>3, <1>4, <1>5, <1>6

LEMMA StartEffect ==
  ASSUME IInv, NEW t \in Threads, NEW i \in Topics, StartProbe(t, i)
  PROVE  /\ Len(queue[i]) >= 1 /\ Len(queue'[i]) = Len(queue[i]) - 1
         /\ queue'[i] \in Seq(Msg)
         /\ \A k \in 1 .. Len(queue'[i]) : queue'[i][k] = queue[i][k + 1]
         /\ \A j \in Topics : j # i => queue'[j] = queue[j]
         /\ Oldest(i)' = Oldest(i) + 1
         /\ running'[t] \in Call /\ running'[t].topic = i
         /\ running'[t].seq = Oldest(i)
         /\ running'[t].t_reference = queue[i][1].t_published
         /\ running'[t].t_reference < now
         /\ \A u \in Threads : u # t => running'[u] = running[u]
<1>1. /\ queue[i] \in Seq(Msg) /\ queue[i] # << >> /\ seq[i] \in Nat /\ now \in Nat
      /\ seq' = seq /\ now' = now
  BY DEF StartProbe, IInv, Types, generator
<1>2. Len(queue[i]) >= 1
  BY <1>1
<1>3. Head(queue[i]) = queue[i][1] /\ 1 \in 1 .. Len(queue[i])
  BY <1>1, <1>2
<1>4. /\ queue[i][1] \in Msg /\ queue[i][1].seq \in Nat /\ queue[i][1].t_published \in Nat
  BY <1>1, <1>3, QueuedIsMsg
<1>5. queue[i][1].seq = Oldest(i) /\ queue[i][1].t_published < now
  <2>1. queue[i][1].seq = Oldest(i) + 1 - 1 /\ queue[i][1].t_published < now
    BY <1>3 DEF IInv, TopicInv, QueueIsTail
  <2>2. Oldest(i) \in Int
    BY <1>1 DEF Oldest
  <2> QED
    BY <2>1, <2>2
<1>6. running' = [running EXCEPT ![t] =
         [topic |-> i, seq |-> queue[i][1].seq,
          t_reference |-> queue[i][1].t_published, t_start |-> now]]
  BY <1>3 DEF StartProbe
<1>7. running'[t] = [topic |-> i, seq |-> queue[i][1].seq,
                     t_reference |-> queue[i][1].t_published, t_start |-> now]
  BY <1>6 DEF IInv, Types
<1>8. /\ queue'[i] = Tail(queue[i])
      /\ \A j \in Topics : j # i => queue'[j] = queue[j]
  BY DEF StartProbe, IInv, Types
<1>9. /\ Len(queue'[i]) = Len(queue[i]) - 1 /\ queue'[i] \in Seq(Msg)
      /\ \A k \in 1 .. Len(queue'[i]) : queue'[i][k] = queue[i][k + 1]
  BY <1>1, <1>2, <1>8
<1>10. Oldest(i)' = Oldest(i) + 1
  BY <1>1, <1>9 DEF Oldest
<1>11. running'[t] \in Call
  BY <1>1, <1>4, <1>7 DEF Call
<1>12. \A u \in Threads : u # t => running'[u] = running[u]
  BY <1>6 DEF IInv, Types
<1> QED
  BY <1>2, <1>5, <1>7, <1>8, <1>9, <1>10, <1>11, <1>12

LEMMA StartTypes ==
  ASSUME IInv, NEW t \in Threads, NEW i \in Topics, StartProbe(t, i)
  PROVE  Types' /\ Stamped' /\ Frozen'
<1>1. seq' = seq /\ now' = now
  BY DEF StartProbe, generator
<1>2. queue' \in [Topics -> Seq(Msg)]
  BY StartEffect DEF StartProbe, IInv, Types
<1>3. running' \in [Threads -> Call \cup {Idle}]
  BY StartEffect DEF StartProbe, IInv, Types
<1>4. Types'
  BY <1>1, <1>2, <1>3 DEF StartProbe, IInv, Types
<1>5. Stamped'
  BY <1>1, StartEffect DEF IInv, Stamped
<1>6. Frozen'
  BY DEF StartProbe, IInv, Frozen
<1> QED
  BY <1>4, <1>5, <1>6

LEMMA StartKeeps ==
  ASSUME IInv, NEW t \in Threads, NEW i \in Topics, StartProbe(t, i)
  PROVE  IInv'
<1>1. /\ seq' = seq /\ now' = now /\ recs' = recs /\ queue_lost' = queue_lost
      /\ running[t] = Idle
  BY DEF StartProbe, generator
<1>2. running'[t] # Idle
  BY StartEffect, IdleIsNoCall
<1>3. InFlight(i)' = InFlight(i) \cup {t} /\ t \notin InFlight(i)
  <2>1. \A u \in Threads : (running'[u] # Idle /\ running'[u].topic = i)
                             <=> (u = t \/ (running[u] # Idle /\ running[u].topic = i))
    BY <1>1, <1>2, StartEffect
  <2> QED
    BY <2>1, <1>1 DEF InFlight
<1>4. \A u \in InFlight(i) : running'[u] = running[u]
  BY <1>3, StartEffect DEF InFlight
<1>5. /\ QueueIsTail(i) /\ OthersAreOlder(i) /\ PlacesApart(i) /\ Finite(i) /\ Counted(i)
      /\ Types
  BY DEF IInv, TopicInv
<1>6. QueueIsTail(i)'
  <2>1. seq[i] \in Nat /\ queue[i] \in Seq(Msg) /\ QosDepth \in Nat
    BY <1>5, ProbePathAssumption DEF Types, ProbePathAssumption
  <2>2. Len(queue'[i]) <= QosDepth /\ Len(queue'[i]) <= seq'[i]
    BY <1>1, <1>5, <2>1, StartEffect DEF QueueIsTail
  <2>3. ASSUME NEW k \in 1 .. Len(queue'[i])
        PROVE  queue'[i][k].seq = Oldest(i)' + k - 1 /\ queue'[i][k].t_published < now'
    <3>1. k + 1 \in 1 .. Len(queue[i]) /\ queue'[i][k] = queue[i][k + 1]
      BY <2>1, StartEffect
    <3>2. queue[i][k + 1].seq = Oldest(i) + (k + 1) - 1 /\ queue[i][k + 1].t_published < now
      BY <3>1, <1>5 DEF QueueIsTail
    <3>3. Oldest(i) + (k + 1) - 1 = Oldest(i)' + k - 1
      BY StartEffect, NumbersAreNatural, <1>5
    <3> QED
      BY <3>1, <3>2, <3>3, <1>1
  <2> QED
    BY <2>2, <2>3 DEF QueueIsTail
<1>7. OthersAreOlder(i)'
  <2>1. Oldest(i) \in Int /\ Oldest(i)' = Oldest(i) + 1
    BY StartEffect, NumbersAreNatural, <1>5
  <2>2. \A s \in queue_lost'[i] : s < Oldest(i)'
    BY <1>1, <1>5, <2>1, NumbersAreNatural DEF OthersAreOlder
  <2>3. \A s \in Seqs(recs'[i].rows) : s < Oldest(i)'
    BY <1>1, <1>5, <2>1, NumbersAreNatural DEF OthersAreOlder
  <2>4. \A u \in InFlight(i)' : running'[u].seq < Oldest(i)'
    <3>1. running'[t].seq < Oldest(i)'
      BY <2>1, StartEffect
    <3>2. \A u \in InFlight(i) : running'[u].seq < Oldest(i)'
      BY <1>4, <1>5, <2>1, NumbersAreNatural DEF OthersAreOlder
    <3> QED
      BY <3>1, <3>2, <1>3
  <2> QED
    BY <2>2, <2>3, <2>4 DEF OthersAreOlder
<1>8. PlacesApart(i)'
  <2>1. /\ Oldest(i) \notin Seqs(recs[i].rows) /\ Oldest(i) \notin queue_lost[i]
        /\ \A u \in InFlight(i) : running[u].seq # Oldest(i)
    BY <1>5, NumbersAreNatural DEF OthersAreOlder
  <2>2. running'[t].seq = Oldest(i)
    BY StartEffect
  <2> QED
    BY <2>1, <2>2, <1>1, <1>3, <1>4, <1>5 DEF PlacesApart
<1>9. Finite(i)' /\ Serving(i)' = Serving(i) + 1
  <2>1. IsFiniteSet(InFlight(i)') /\ Cardinality(InFlight(i)') = Cardinality(InFlight(i)) + 1
    BY <1>3, <1>5, FS_AddElement DEF Finite
  <2> QED
    BY <2>1, <1>1, <1>5 DEF Finite, Serving
<1>10. Counted(i)'
  <2>1. /\ Published(i)' = Published(i) /\ Discarded(i)' = Discarded(i)
        /\ Queued(i)' = Queued(i) - 1 /\ Kept(i)' = Kept(i) /\ TurnedAway(i)' = TurnedAway(i)
    BY <1>1, StartEffect DEF Published, Discarded, Queued, Kept, TurnedAway
  <2>2. Published(i)' = Discarded(i)' + Queued(i)' + Serving(i)' + Kept(i)' + TurnedAway(i)'
    BY <2>1, <1>5, <1>9, CountsAreNatural DEF Counted
  <2> QED
    BY <2>2, <1>1, <1>5 DEF Counted
<1>11. TopicInv(i)'
  BY <1>6, <1>7, <1>8, <1>9, <1>10 DEF TopicInv
<1>12. ASSUME NEW j \in Topics, j # i
       PROVE  TopicInv(j)'
  <2>1. queue'[j] = queue[j] /\ queue_lost'[j] = queue_lost[j] /\ seq'[j] = seq[j]
        /\ recs'[j] = recs[j] /\ now' \in Nat /\ now <= now'
    BY <1>1, <1>12, StartEffect DEF IInv, Types
  <2>2. \A u \in Threads : (running'[u] # Idle /\ running'[u].topic = j)
                             <=> (running[u] # Idle /\ running[u].topic = j)
    BY <1>1, <1>2, <1>12, StartEffect
  <2>3. InFlight(j)' = InFlight(j)
    BY <2>2 DEF InFlight
  <2>4. \A u \in InFlight(j) : running'[u] = running[u]
    BY <1>1, StartEffect DEF InFlight
  <2> QED
    BY <2>1, <2>3, <2>4, Untouched DEF IInv
<1> QED
  BY <1>11, <1>12, StartTypes DEF IInv

LEMMA FinishEffect ==
  ASSUME IInv, NEW t \in Threads, FinishProbe(t)
  PROVE  /\ running[t] \in Call /\ running'[t] = Idle
         /\ \A u \in Threads : u # t => running'[u] = running[u]
         /\ \A j \in Topics : j # running[t].topic => recs'[j] = recs[j]
         /\ recs'[running[t].topic] =
              Keep(recs[running[t].topic],
                   [seq |-> running[t].seq, t_reference |-> running[t].t_reference,
                    t_start |-> running[t].t_start])
<1>1. running[t] \in Call
  BY DEF FinishProbe, IInv, Types
<1>2. running[t].topic \in Topics
  BY <1>1 DEF Call
<1>3. recs' = [recs EXCEPT ![running[t].topic] =
         Keep(@, [seq |-> running[t].seq, t_reference |-> running[t].t_reference,
                  t_start |-> running[t].t_start])]
  BY DEF FinishProbe
<1>4. DOMAIN recs = Topics
  BY DEF IInv, Types
<1>5. running' = [running EXCEPT ![t] = Idle]
  BY DEF FinishProbe
<1>6. DOMAIN running = Threads
  BY DEF IInv, Types
<1> QED
  BY <1>1, <1>2, <1>3, <1>4, <1>5, <1>6

\* The recorder has one row more, or one more it turned away.
LEMMA KeepEffect ==
  ASSUME NEW rec \in [rows : Seq(Row), lost : Nat], NEW row \in Row,
         Len(rec.rows) <= Capacity
  PROVE  /\ Keep(rec, row) \in [rows : Seq(Row), lost : Nat]
         /\ \/ /\ Keep(rec, row).rows = Append(rec.rows, row)
               /\ Keep(rec, row).lost = rec.lost
               /\ Len(rec.rows) < Capacity
            \/ /\ Keep(rec, row).rows = rec.rows
               /\ Keep(rec, row).lost = rec.lost + 1
               /\ Len(rec.rows) = Capacity
<1>1. rec.rows \in Seq(Row) /\ rec.lost \in Nat /\ Len(rec.rows) \in Nat /\ Capacity \in Nat
  BY ProbePathAssumption DEF ProbePathAssumption
<1>2. Append(rec.rows, row) \in Seq(Row)
  BY <1>1
<1>3. CASE Len(rec.rows) < Capacity
  <2>1. Keep(rec, row) = [rec EXCEPT !.rows = Append(@, row)]
    BY <1>3 DEF Keep, Room
  <2> QED
    BY <1>1, <1>2, <1>3, <2>1
<1>4. CASE ~ (Len(rec.rows) < Capacity)
  <2>1. Keep(rec, row) = [rec EXCEPT !.lost = @ + 1]
    BY <1>4 DEF Keep, Room
  <2>2. Len(rec.rows) = Capacity
    BY <1>1, <1>4
  <2> QED
    BY <1>1, <2>1, <2>2
<1> QED
  BY <1>3, <1>4

LEMMA FinishTypes ==
  ASSUME IInv, NEW t \in Threads, FinishProbe(t)
  PROVE  Types' /\ Stamped' /\ Frozen'
<1>1. /\ seq' = seq /\ now' = now /\ queue' = queue /\ queue_lost' = queue_lost
      /\ spinning' = spinning /\ report' = report
  BY DEF FinishProbe, generator
<1>2. PICK i \in Topics : i = running[t].topic
  BY FinishEffect DEF Call
<1>3. PICK row \in Row :
        row = [seq |-> running[t].seq, t_reference |-> running[t].t_reference,
               t_start |-> running[t].t_start]
  BY FinishEffect DEF Call, Row
<1>4. recs[i] \in [rows : Seq(Row), lost : Nat] /\ Len(recs[i].rows) <= Capacity
  BY DEF IInv, Types, TopicInv, Counted
<1>5. recs'[i] \in [rows : Seq(Row), lost : Nat]
  BY <1>2, <1>3, <1>4, KeepEffect, FinishEffect
<1>6. recs' \in [Topics -> [rows : Seq(Row), lost : Nat]]
  <2>1. DOMAIN recs' = Topics /\ recs' = [j \in Topics |-> recs'[j]]
    BY DEF FinishProbe, IInv, Types
  <2>2. \A j \in Topics : recs'[j] \in [rows : Seq(Row), lost : Nat]
    BY <1>2, <1>5, FinishEffect DEF IInv, Types
  <2> QED
    BY <2>1, <2>2
<1>7. running' \in [Threads -> Call \cup {Idle}]
  BY DEF FinishProbe, IInv, Types
<1>8. Types'
  BY <1>1, <1>6, <1>7 DEF IInv, Types
<1>9. Stamped'
  BY <1>1, FinishEffect DEF IInv, Stamped
<1>10. Frozen'
  <2>1. report = NoReport
    BY DEF FinishProbe, IInv, Frozen, Joined
  <2> QED
    BY <1>1, <2>1 DEF Frozen
<1> QED
  BY <1>8, <1>9, <1>10

LEMMA FinishKeeps ==
  ASSUME IInv, NEW t \in Threads, FinishProbe(t)
  PROVE  IInv'
<1>1. /\ seq' = seq /\ now' = now /\ queue' = queue /\ queue_lost' = queue_lost
      /\ running[t] # Idle
  BY DEF FinishProbe, generator
<1>2. PICK i \in Topics : i = running[t].topic
  BY FinishEffect DEF Call
<1>3. PICK row \in Row :
        row = [seq |-> running[t].seq, t_reference |-> running[t].t_reference,
               t_start |-> running[t].t_start]
  BY FinishEffect DEF Call, Row
<1>4. row.seq = running[t].seq
  BY <1>3
<1>5. InFlight(i)' = InFlight(i) \ {t} /\ t \in InFlight(i)
  <2>1. \A u \in Threads : (running'[u] # Idle /\ running'[u].topic = i)
                             <=> (u # t /\ running[u] # Idle /\ running[u].topic = i)
    BY FinishEffect
  <2> QED
    BY <1>1, <1>2, <2>1 DEF InFlight
<1>6. \A u \in InFlight(i)' : u \in InFlight(i) /\ u # t /\ running'[u] = running[u]
  BY <1>5, FinishEffect DEF InFlight
<1>7. /\ QueueIsTail(i) /\ OthersAreOlder(i) /\ PlacesApart(i) /\ Finite(i) /\ Counted(i)
      /\ Types
  BY DEF IInv, TopicInv
<1>8. recs[i] \in [rows : Seq(Row), lost : Nat] /\ Len(recs[i].rows) <= Capacity
      /\ Len(recs[i].rows) \in Nat
  BY <1>7 DEF Types, Counted
<1>9. recs'[i] = Keep(recs[i], row)
  BY <1>2, <1>3, FinishEffect
<1>10. Oldest(i)' = Oldest(i) /\ QueueIsTail(i)'
  BY <1>1, <1>7 DEF Oldest, QueueIsTail
<1>11. IsFiniteSet(InFlight(i)') /\ Serving(i)' = Serving(i) - 1
  BY <1>5, <1>7, FS_RemoveElement DEF Finite, Serving
<1>12. /\ row.seq < Oldest(i) /\ row.seq \notin queue_lost[i]
       /\ row.seq \notin Seqs(recs[i].rows)
       /\ \A u \in InFlight(i) : u # t => running[u].seq # row.seq
  BY <1>4, <1>5, <1>7 DEF OthersAreOlder, PlacesApart
<1>13. ASSUME recs'[i].rows = Append(recs[i].rows, row), recs'[i].lost = recs[i].lost,
              Len(recs[i].rows) < Capacity
       PROVE  TopicInv(i)'
  <2>1. Seqs(recs'[i].rows) = Seqs(recs[i].rows) \cup {row.seq}
    BY <1>8, <1>13, SeqsOfAppend
  <2>2. Len(recs'[i].rows) = Len(recs[i].rows) + 1
    BY <1>8, <1>13
  <2>3. /\ IsFiniteSet(Seqs(recs'[i].rows))
        /\ Cardinality(Seqs(recs'[i].rows)) = Cardinality(Seqs(recs[i].rows)) + 1
    BY <1>7, <1>12, <2>1, FS_AddElement DEF Finite
  <2>4. OthersAreOlder(i)'
    <3>1. \A s \in Seqs(recs'[i].rows) : s < Oldest(i)'
      BY <1>7, <1>10, <1>12, <2>1 DEF OthersAreOlder
    <3>2. \A u \in InFlight(i)' : running'[u].seq < Oldest(i)'
      BY <1>6, <1>7, <1>10 DEF OthersAreOlder
    <3>3. \A s \in queue_lost'[i] : s < Oldest(i)'
      BY <1>1, <1>7, <1>10 DEF OthersAreOlder
    <3> QED
      BY <3>1, <3>2, <3>3 DEF OthersAreOlder
  <2>5. PlacesApart(i)'
    <3>1. Seqs(recs'[i].rows) \cap queue_lost'[i] = {}
      BY <1>1, <1>7, <1>12, <2>1 DEF PlacesApart
    <3>2. ASSUME NEW u \in InFlight(i)'
          PROVE  /\ running'[u].seq \notin queue_lost'[i]
                 /\ running'[u].seq \notin Seqs(recs'[i].rows)
                 /\ \A v \in InFlight(i)' : running'[u].seq = running'[v].seq => u = v
      BY <1>1, <1>6, <1>7, <1>12, <2>1 DEF PlacesApart
    <3> QED
      BY <3>1, <3>2 DEF PlacesApart
  <2>6. Finite(i)'
    BY <1>1, <1>7, <1>11, <2>3 DEF Finite
  <2>7. Counted(i)'
    <3>1. /\ Published(i)' = Published(i) /\ Discarded(i)' = Discarded(i)
          /\ Queued(i)' = Queued(i) /\ Kept(i)' = Kept(i) + 1 /\ TurnedAway(i)' = TurnedAway(i)
      BY <1>1, <1>13, <2>2 DEF Published, Discarded, Queued, Kept, TurnedAway
    <3>2. Published(i)' = Discarded(i)' + Queued(i)' + Serving(i)' + Kept(i)' + TurnedAway(i)'
      BY <3>1, <1>7, <1>11, CountsAreNatural DEF Counted
    <3>3. Cardinality(Seqs(recs'[i].rows)) = Len(recs'[i].rows)
      BY <1>7, <2>2, <2>3 DEF Counted
    <3>4. Len(recs'[i].rows) <= Capacity
      BY <1>8, <1>13, <2>2, ProbePathAssumption DEF ProbePathAssumption
    <3> QED
      BY <3>2, <3>3, <3>4 DEF Counted
  <2> QED
    BY <1>10, <2>4, <2>5, <2>6, <2>7 DEF TopicInv
<1>14. ASSUME recs'[i].rows = recs[i].rows, recs'[i].lost = recs[i].lost + 1
       PROVE  TopicInv(i)'
  <2>1. OthersAreOlder(i)'
    BY <1>1, <1>6, <1>7, <1>10, <1>14 DEF OthersAreOlder
  <2>2. PlacesApart(i)'
    <3>1. Seqs(recs'[i].rows) \cap queue_lost'[i] = {}
      BY <1>1, <1>7, <1>14 DEF PlacesApart
    <3>2. ASSUME NEW u \in InFlight(i)'
          PROVE  /\ running'[u].seq \notin queue_lost'[i]
                 /\ running'[u].seq \notin Seqs(recs'[i].rows)
                 /\ \A v \in InFlight(i)' : running'[u].seq = running'[v].seq => u = v
      BY <1>1, <1>6, <1>7, <1>14 DEF PlacesApart
    <3> QED
      BY <3>1, <3>2 DEF PlacesApart
  <2>3. Finite(i)'
    BY <1>1, <1>7, <1>11, <1>14 DEF Finite
  <2>4. Counted(i)'
    <3>1. /\ Published(i)' = Published(i) /\ Discarded(i)' = Discarded(i)
          /\ Queued(i)' = Queued(i) /\ Kept(i)' = Kept(i) /\ TurnedAway(i)' = TurnedAway(i) + 1
      BY <1>1, <1>14 DEF Published, Discarded, Queued, Kept, TurnedAway
    <3>2. Published(i)' = Discarded(i)' + Queued(i)' + Serving(i)' + Kept(i)' + TurnedAway(i)'
      BY <3>1, <1>7, <1>11, CountsAreNatural DEF Counted
    <3> QED
      BY <3>2, <1>7, <1>14 DEF Counted
  <2> QED
    BY <1>10, <2>1, <2>2, <2>3, <2>4 DEF TopicInv
<1>15. TopicInv(i)'
  BY <1>8, <1>9, <1>13, <1>14, KeepEffect, ZenonT(40)
<1>16. ASSUME NEW j \in Topics, j # i
       PROVE  TopicInv(j)'
  <2>1. queue'[j] = queue[j] /\ queue_lost'[j] = queue_lost[j] /\ seq'[j] = seq[j]
        /\ now' \in Nat /\ now <= now'
    BY <1>1, <1>7 DEF Types
  <2>5. recs'[j] = recs[j]
    BY <1>2, <1>16, FinishEffect
  <2>2. \A u \in Threads : (running'[u] # Idle /\ running'[u].topic = j)
                             <=> (running[u] # Idle /\ running[u].topic = j)
    BY <1>1, <1>2, <1>16, FinishEffect
  <2>3. InFlight(j)' = InFlight(j)
    BY <2>2 DEF InFlight
  <2>4. \A u \in InFlight(j) : running'[u] = running[u]
    BY <1>2, <1>16, FinishEffect DEF InFlight
  <2> QED
    BY <2>1, <2>3, <2>4, <2>5, Untouched DEF IInv
<1> QED
  BY <1>15, <1>16, FinishTypes DEF IInv
-----------------------------------------------------------------------------
(* The other steps, and the theorems.                                      *)

\* Steps that move no message.
LEMMA OthersKeep ==
  ASSUME IInv, WarmUpEnds \/ Shutdown \/ WriteResults \/ UNCHANGED vars
  PROVE  IInv'
<1>1. /\ seq' = seq /\ now' = now /\ queue' = queue /\ queue_lost' = queue_lost
      /\ running' = running /\ recs' = recs
  BY WarmUpPublishesNothing DEF Shutdown, WriteResults, vars, path, generator
<1>2. Types' /\ Stamped'
  <2>1. spinning' \in BOOLEAN
    BY WarmUpPublishesNothing DEF Shutdown, WriteResults, vars, path, generator, IInv, Types
  <2> QED
    BY <1>1, <2>1 DEF IInv, Types, Stamped
<1>3. Frozen'
  <2>1. CASE WriteResults
    BY <2>1 DEF WriteResults, Frozen, Joined
  <2>2. CASE Shutdown
    BY <2>2 DEF Shutdown, Frozen, Joined, IInv
  <2>3. CASE WarmUpEnds \/ UNCHANGED vars
    <3>1. spinning' = spinning /\ report' = report
      BY <2>3, WarmUpPublishesNothing DEF vars, path
    <3> QED
      BY <1>1, <3>1 DEF Frozen, Joined, IInv
  <2> QED
    BY <2>1, <2>2, <2>3
<1>4. ASSUME NEW i \in Topics
      PROVE  TopicInv(i)'
  <2>1. InFlight(i)' = InFlight(i)
    BY <1>1 DEF InFlight
  <2>2. now' \in Nat /\ now <= now'
    BY <1>1 DEF IInv, Types
  <2> QED
    BY <1>1, <2>1, <2>2, Untouched DEF IInv
<1> QED
  BY <1>2, <1>3, <1>4 DEF IInv

LEMMA NextIInv == IInv /\ [Next]_vars => IInv'
<1> SUFFICES ASSUME IInv, [Next]_vars PROVE IInv'
  OBVIOUS
<1>1. CASE WarmUpEnds \/ Shutdown \/ WriteResults \/ UNCHANGED vars
  BY <1>1, OthersKeep
<1>2. ASSUME NEW i \in Topics, Publish(i)
      PROVE  IInv'
  BY <1>2, PublishKeeps
<1>3. ASSUME NEW i \in Topics, NEW t \in Threads, StartProbe(t, i)
      PROVE  IInv'
  BY <1>3, StartKeeps
<1>4. ASSUME NEW t \in Threads, FinishProbe(t)
      PROVE  IInv'
  BY <1>4, FinishKeeps
<1> QED
  BY <1>1, <1>2, <1>3, <1>4 DEF Next

(***************************************************************************)
(* IInv holds in every reachable state.                                    *)
(***************************************************************************)
THEOREM Invariance == Spec => []IInv
  BY InitIInv, NextIInv, PTL DEF Spec

(***************************************************************************)
(* No queue and no buffer holds more than its depth, and no message is     *)
(* measured before it was stamped, for any numbers of topics and threads.  *)
(***************************************************************************)
THEOREM PathTypeCorrect == Spec => []PathTypeOK
<1>1. IInv => PathTypeOK
  <2> SUFFICES ASSUME IInv PROVE PathTypeOK
    OBVIOUS
  <2>1. ASSUME NEW i \in Topics
        PROVE  /\ Len(queue[i]) <= QosDepth
               /\ queue_lost[i] \subseteq 0 .. seq[i] - 1
               /\ Len(recs[i].rows) <= Capacity
               /\ recs[i].lost \in Nat
    <3>1. Len(queue[i]) <= QosDepth /\ Len(recs[i].rows) <= Capacity
      BY DEF IInv, TopicInv, QueueIsTail, Counted
    <3>2. recs[i].lost \in Nat /\ seq[i] \in Nat /\ queue[i] \in Seq(Msg)
      BY DEF IInv, Types
    <3>3. \A s \in queue_lost[i] : s \in Nat /\ s < Oldest(i)
      BY NumbersAreNatural DEF IInv, TopicInv, OthersAreOlder
    <3>4. Oldest(i) <= seq[i] /\ Oldest(i) \in Int
      BY <3>2 DEF Oldest
    <3>5. \A s \in queue_lost[i] : s \in 0 .. seq[i] - 1
      BY <3>2, <3>3, <3>4
    <3> QED
      BY <3>1, <3>2, <3>5
  <2>2. \A t \in Threads :
          running[t] # Idle => running[t].topic \in Topics /\ running[t].t_reference < now
    BY DEF IInv, Types, Stamped, Call
  <2> QED
    BY <2>1, <2>2 DEF PathTypeOK, IInv, Types
<1> QED
  BY <1>1, Invariance, PTL

-----------------------------------------------------------------------------
(* The order of the stamps, where callbacks of a subscription are kept     *)
(* apart: rows first, then the message being served, then the queue.       *)

InOrder(i) ==
  /\ \A t, u \in InFlight(i) : t = u
  /\ \A k, l \in 1 .. Len(queue[i]) :
       k < l => queue[i][k].t_published < queue[i][l].t_published
  /\ \A t \in InFlight(i) : \A k \in 1 .. Len(queue[i]) :
       running[t].t_reference < queue[i][k].t_published
  /\ \A l \in 1 .. Len(recs[i].rows) : \A k \in 1 .. Len(queue[i]) :
       recs[i].rows[l].t_reference < queue[i][k].t_published
  /\ \A l \in 1 .. Len(recs[i].rows) : \A t \in InFlight(i) :
       recs[i].rows[l].t_reference < running[t].t_reference
  /\ \A k, l \in 1 .. Len(recs[i].rows) :
       k < l => recs[i].rows[k].t_reference < recs[i].rows[l].t_reference

RowsStamped == \A i \in Topics : \A k \in 1 .. Len(recs[i].rows) : recs[i].rows[k].t_reference < now

OrderInv == RowsStamped /\ (callback_group # "reentrant" => \A i \in Topics : InOrder(i))

LEMMA RowIsRow ==
  ASSUME NEW rows \in Seq(Row), NEW k \in 1 .. Len(rows)
  PROVE  rows[k] \in Row /\ rows[k].t_reference \in Nat
<1>1. rows[k] \in Row
  OBVIOUS
<1> QED
  BY <1>1 DEF Row

\* What the stamps of a topic are.
LEMMA StampsAreNatural ==
  ASSUME IInv, NEW i \in Topics
  PROVE  /\ \A k \in 1 .. Len(queue[i]) : queue[i][k].t_published \in Nat
         /\ \A k \in 1 .. Len(recs[i].rows) : recs[i].rows[k].t_reference \in Nat
         /\ \A t \in InFlight(i) : running[t].t_reference \in Nat
         /\ now \in Nat
<1>1. queue[i] \in Seq(Msg) /\ recs[i].rows \in Seq(Row) /\ now \in Nat
  BY DEF IInv, Types
<1>2. \A t \in InFlight(i) : running[t].t_reference \in Nat
  BY DEF IInv, Types, InFlight, Call
<1> QED
  BY <1>1, <1>2, QueuedIsMsg, RowIsRow

LEMMA InitOrder == Init => OrderInv
<1> SUFFICES ASSUME Init PROVE OrderInv
  OBVIOUS
<1>1. \A i \in Topics : /\ Len(queue[i]) = 0 /\ Len(recs[i].rows) = 0
                        /\ InFlight(i) = {}
  BY DEF Init, InFlight
<1>2. RowsStamped
  BY <1>1 DEF RowsStamped
<1>3. \A i \in Topics : InOrder(i)
  BY <1>1 DEF InOrder
<1> QED
  BY <1>2, <1>3 DEF OrderInv

LEMMA OrderUntouched ==
  ASSUME NEW j \in Topics, InOrder(j), queue'[j] = queue[j], recs'[j] = recs[j],
         InFlight(j)' = InFlight(j), \A t \in InFlight(j) : running'[t] = running[t]
  PROVE  InOrder(j)'
BY DEF InOrder

\* A publication goes to the end of the queue with the latest stamp.
LEMMA PublishAppends ==
  ASSUME IInv, NEW i \in Topics, Publish(i)
  PROVE  \E d \in 0 .. 1 :
           /\ Len(queue'[i]) = Len(queue[i]) + 1 - d
           /\ \A k \in 1 .. Len(queue[i]) - d : queue'[i][k] = queue[i][k + d]
           /\ queue'[i][Len(queue'[i])].t_published = now
<1>1. queue[i] \in Seq(Msg) /\ Message(i) \in Msg /\ Message(i).t_published = now
  BY DEF IInv, Types, Message, Msg
<1>2. QosDepth \in Nat /\ QosDepth >= 1
  BY ProbePathAssumption DEF ProbePathAssumption
<1>3. CASE Len(queue[i]) < QosDepth
  <2>1. queue'[i] = Append(queue[i], Message(i))
    BY <1>3 DEF Publish, IInv, Types
  <2>2. /\ Len(queue'[i]) = Len(queue[i]) + 1 - 0
        /\ \A k \in 1 .. Len(queue[i]) - 0 : queue'[i][k] = queue[i][k + 0]
        /\ queue'[i][Len(queue'[i])] = Message(i)
    BY <1>1, <2>1
  <2> QED
    BY <1>1, <2>2
<1>4. CASE ~ (Len(queue[i]) < QosDepth)
  <2>1. queue'[i] = Append(Tail(queue[i]), Message(i))
    BY <1>4 DEF Publish, IInv, Types
  <2>2. queue[i] # << >> /\ Len(queue[i]) >= 1
    BY <1>1, <1>2, <1>4
  <2>3. /\ Len(Tail(queue[i])) = Len(queue[i]) - 1
        /\ Tail(queue[i]) \in Seq(Msg)
        /\ \A k \in 1 .. Len(queue[i]) - 1 : Tail(queue[i])[k] = queue[i][k + 1]
    BY <1>1, <2>2
  <2>4. /\ Len(queue'[i]) = Len(queue[i]) + 1 - 1
        /\ \A k \in 1 .. Len(queue[i]) - 1 : queue'[i][k] = queue[i][k + 1]
        /\ queue'[i][Len(queue'[i])] = Message(i)
    BY <1>1, <2>1, <2>3
  <2> QED
    BY <1>1, <2>4
<1> QED
  BY <1>3, <1>4

LEMMA PublishOrder ==
  ASSUME IInv, OrderInv, NEW i \in Topics, Publish(i)
  PROVE  OrderInv'
<1>1. /\ recs' = recs /\ running' = running /\ callback_group' = callback_group
      /\ now' = now + 1 /\ now \in Nat
  BY PublishCounts DEF Publish, IInv, Types
<1>2. RowsStamped'
  BY <1>1, StampsAreNatural DEF OrderInv, RowsStamped
<1>3. \A j \in Topics : InFlight(j)' = InFlight(j)
  BY <1>1 DEF InFlight
<1>4. ASSUME NEW j \in Topics, j # i, InOrder(j)
      PROVE  InOrder(j)'
  <2>1. queue'[j] = queue[j]
    BY <1>4 DEF Publish, IInv, Types
  <2> QED
    BY <1>1, <1>3, <1>4, <2>1, OrderUntouched
<1>5. ASSUME InOrder(i)
      PROVE  InOrder(i)'
  <2>1. PICK d \in 0 .. 1 :
          /\ Len(queue'[i]) = Len(queue[i]) + 1 - d
          /\ \A k \in 1 .. Len(queue[i]) - d : queue'[i][k] = queue[i][k + d]
          /\ queue'[i][Len(queue'[i])].t_published = now
    BY PublishAppends
  <2>2. Len(queue[i]) \in Nat
    BY DEF IInv, Types
  <2>3. \A k \in 1 .. Len(queue[i]) : queue[i][k].t_published < now
    BY DEF IInv, TopicInv, QueueIsTail
  <2>4. ASSUME NEW k \in 1 .. Len(queue'[i])
        PROVE  \/ k = Len(queue'[i])
               \/ /\ k < Len(queue'[i]) /\ k + d \in 1 .. Len(queue[i])
                  /\ queue'[i][k] = queue[i][k + d]
    BY <2>1, <2>2
  <2>5. ASSUME NEW k \in 1 .. Len(queue'[i]), NEW l \in 1 .. Len(queue'[i]), k < l
        PROVE  queue'[i][k].t_published < queue'[i][l].t_published
    <3>1. /\ k < Len(queue'[i]) /\ k + d \in 1 .. Len(queue[i])
          /\ queue'[i][k] = queue[i][k + d]
      <4>1. Len(queue'[i]) \in Nat
        BY <2>1, <2>2
      <4>2. k \in Int /\ l \in Int /\ l <= Len(queue'[i])
        BY <4>1
      <4>3. k # Len(queue'[i])
        BY <4>1, <4>2, <2>5
      <4> QED
        BY <4>3, <2>4
    <3>2. CASE l = Len(queue'[i])
      BY <3>1, <3>2, <2>1, <2>3
    <3>3. CASE l < Len(queue'[i]) /\ l + d \in 1 .. Len(queue[i]) /\ queue'[i][l] = queue[i][l + d]
      BY <3>1, <3>3, <2>5, <1>5 DEF InOrder
    <3> QED
      BY <2>4, <3>2, <3>3
  <2>6. \A t \in InFlight(i) : running[t].t_reference < now
    BY DEF IInv, Stamped, InFlight
  <2>7. \A t \in InFlight(i)' : \A k \in 1 .. Len(queue'[i]) :
          running'[t].t_reference < queue'[i][k].t_published
    BY <1>1, <1>3, <1>5, <2>1, <2>4, <2>6 DEF InOrder
  <2>8. \A l \in 1 .. Len(recs'[i].rows) : \A k \in 1 .. Len(queue'[i]) :
          recs'[i].rows[l].t_reference < queue'[i][k].t_published
    BY <1>1, <1>5, <2>1, <2>4 DEF InOrder, OrderInv, RowsStamped
  <2> QED
    BY <1>1, <1>3, <1>5, <2>5, <2>7, <2>8 DEF InOrder
<1> QED
  BY <1>1, <1>2, <1>4, <1>5 DEF OrderInv

LEMMA StartOrder ==
  ASSUME IInv, OrderInv, NEW t \in Threads, NEW i \in Topics, StartProbe(t, i)
  PROVE  OrderInv'
<1>1. /\ recs' = recs /\ callback_group' = callback_group /\ now' = now /\ running[t] = Idle
  BY DEF StartProbe, generator
<1>2. RowsStamped'
  BY <1>1 DEF OrderInv, RowsStamped
<1>3. running'[t] # Idle
  BY StartEffect, IdleIsNoCall
<1>4. ASSUME NEW j \in Topics, j # i, InOrder(j)
      PROVE  InOrder(j)'
  <2>1. queue'[j] = queue[j]
    BY <1>4, StartEffect
  <2>2. \A u \in Threads : (running'[u] # Idle /\ running'[u].topic = j)
                             <=> (running[u] # Idle /\ running[u].topic = j)
    BY <1>1, <1>3, <1>4, StartEffect
  <2>3. InFlight(j)' = InFlight(j)
    BY <2>2 DEF InFlight
  <2>4. \A u \in InFlight(j) : running'[u] = running[u]
    BY <1>1, StartEffect DEF InFlight
  <2> QED
    BY <1>1, <1>4, <2>1, <2>3, <2>4, OrderUntouched
<1>5. ASSUME InOrder(i), callback_group # "reentrant"
      PROVE  InOrder(i)'
  <2>1. InFlight(i) = {}
    BY <1>5 DEF StartProbe, MayServe, InFlight
  <2>2. InFlight(i)' = {t}
    <3>1. \A u \in Threads : (running'[u] # Idle /\ running'[u].topic = i) <=> u = t
      BY <2>1, <1>3, StartEffect DEF InFlight
    <3> QED
      BY <3>1 DEF InFlight
  <2>3. Len(queue[i]) \in Nat /\ 1 \in 1 .. Len(queue[i])
    BY StartEffect DEF IInv, Types
  <2>4. \A k \in 1 .. Len(queue'[i]) :
          /\ k + 1 \in 1 .. Len(queue[i]) /\ 1 < k + 1
          /\ queue'[i][k] = queue[i][k + 1]
    BY <2>3, StartEffect
  <2>5. ASSUME NEW k \in 1 .. Len(queue'[i]), NEW l \in 1 .. Len(queue'[i]), k < l
        PROVE  queue'[i][k].t_published < queue'[i][l].t_published
    <3>1. k + 1 < l + 1
      BY <2>3, <2>5, StartEffect
    <3> QED
      BY <3>1, <1>5, <2>4 DEF InOrder
  <2>6. \A k \in 1 .. Len(queue'[i]) : running'[t].t_reference < queue'[i][k].t_published
    BY <1>5, <2>3, <2>4, StartEffect DEF InOrder
  <2>7. \A l \in 1 .. Len(recs[i].rows) : recs[i].rows[l].t_reference < running'[t].t_reference
    BY <1>5, <2>3, StartEffect DEF InOrder
  <2>8. \A l \in 1 .. Len(recs[i].rows) : \A k \in 1 .. Len(queue'[i]) :
          recs[i].rows[l].t_reference < queue'[i][k].t_published
    BY <1>5, <2>4 DEF InOrder
  <2> QED
    BY <1>1, <1>5, <2>2, <2>5, <2>6, <2>7, <2>8 DEF InOrder
<1> QED
  BY <1>1, <1>2, <1>4, <1>5 DEF OrderInv

LEMMA FinishOrder ==
  ASSUME IInv, OrderInv, NEW t \in Threads, FinishProbe(t)
  PROVE  OrderInv'
<1>1. /\ queue' = queue /\ callback_group' = callback_group /\ now' = now
      /\ running[t] # Idle
  BY DEF FinishProbe, generator
<1>2. PICK i \in Topics : i = running[t].topic
  BY FinishEffect DEF Call
<1>3. PICK row \in Row :
        row = [seq |-> running[t].seq, t_reference |-> running[t].t_reference,
               t_start |-> running[t].t_start]
  BY FinishEffect DEF Call, Row
<1>4. row.t_reference = running[t].t_reference
  BY <1>3
<1>5. recs[i] \in [rows : Seq(Row), lost : Nat] /\ Len(recs[i].rows) <= Capacity
      /\ recs[i].rows \in Seq(Row)
  BY DEF IInv, Types, TopicInv, Counted
<1>6. recs'[i] = Keep(recs[i], row)
  BY <1>2, <1>3, FinishEffect
<1>7. /\ \/ Len(recs'[i].rows) = Len(recs[i].rows)
         \/ /\ Len(recs'[i].rows) = Len(recs[i].rows) + 1
            /\ recs'[i].rows[Len(recs[i].rows) + 1] = row
      /\ \A k \in 1 .. Len(recs[i].rows) : recs'[i].rows[k] = recs[i].rows[k]
      /\ Len(recs[i].rows) \in Nat
  <2>1. recs'[i].rows = Append(recs[i].rows, row) \/ recs'[i].rows = recs[i].rows
    BY <1>5, <1>6, KeepEffect, ZenonT(40)
  <2> QED
    BY <1>5, <2>1
<1>8. \A k \in 1 .. Len(recs'[i].rows) :
        \/ k \in 1 .. Len(recs[i].rows) /\ recs'[i].rows[k] = recs[i].rows[k]
        \/ k = Len(recs[i].rows) + 1 /\ recs'[i].rows[k] = row
  BY <1>7
<1>9. t \in InFlight(i)
  BY <1>1, <1>2 DEF InFlight
<1>10. RowsStamped'
  <2>1. running[t].t_reference < now
    BY <1>1 DEF IInv, Stamped
  <2>2. \A k \in 1 .. Len(recs'[i].rows) : recs'[i].rows[k].t_reference < now
    BY <1>4, <1>8, <2>1 DEF OrderInv, RowsStamped
  <2>3. \A j \in Topics : j # i => recs'[j] = recs[j]
    BY <1>2, FinishEffect
  <2> QED
    BY <1>1, <2>2, <2>3 DEF OrderInv, RowsStamped
<1>11. ASSUME NEW j \in Topics, j # i, InOrder(j)
       PROVE  InOrder(j)'
  <2>1. recs'[j] = recs[j]
    BY <1>2, <1>11, FinishEffect
  <2>2. \A u \in Threads : (running'[u] # Idle /\ running'[u].topic = j)
                             <=> (running[u] # Idle /\ running[u].topic = j)
    BY <1>1, <1>2, <1>11, FinishEffect
  <2>3. InFlight(j)' = InFlight(j)
    BY <2>2 DEF InFlight
  <2>4. \A u \in InFlight(j) : running'[u] = running[u]
    BY <1>2, <1>11, FinishEffect DEF InFlight
  <2> QED
    BY <1>1, <1>11, <2>1, <2>3, <2>4, OrderUntouched
<1>12. ASSUME InOrder(i)
       PROVE  InOrder(i)'
  <2>1. InFlight(i)' = {}
    <3>1. ASSUME NEW u \in Threads, running'[u] # Idle, running'[u].topic = i
          PROVE  FALSE
      <4>1. u # t /\ running'[u] = running[u]
        BY <3>1, FinishEffect
      <4>2. u \in InFlight(i)
        BY <3>1, <4>1 DEF InFlight
      <4> QED
        BY <4>1, <4>2, <1>9, <1>12 DEF InOrder
    <3> QED
      BY <3>1 DEF InFlight
  <2>2. \A l \in 1 .. Len(recs'[i].rows) : \A k \in 1 .. Len(queue[i]) :
          recs'[i].rows[l].t_reference < queue[i][k].t_published
    BY <1>4, <1>8, <1>9, <1>12 DEF InOrder
  <2>3. ASSUME NEW k \in 1 .. Len(recs'[i].rows), NEW l \in 1 .. Len(recs'[i].rows), k < l
        PROVE  recs'[i].rows[k].t_reference < recs'[i].rows[l].t_reference
    <3>1. k \in 1 .. Len(recs[i].rows) /\ recs'[i].rows[k] = recs[i].rows[k]
      BY <1>7, <1>8, <2>3, SMTT(30)
    <3> QED
      BY <3>1, <1>4, <1>8, <1>9, <1>12, <2>3 DEF InOrder
  <2> QED
    BY <1>1, <1>12, <2>1, <2>2, <2>3 DEF InOrder
<1> QED
  BY <1>1, <1>10, <1>11, <1>12 DEF OrderInv

LEMMA NextOrder == IInv /\ OrderInv /\ [Next]_vars => OrderInv'
<1> SUFFICES ASSUME IInv, OrderInv, [Next]_vars PROVE OrderInv'
  OBVIOUS
<1>1. CASE WarmUpEnds \/ Shutdown \/ WriteResults \/ UNCHANGED vars
  <2>1. /\ now' = now /\ queue' = queue /\ running' = running /\ recs' = recs
        /\ callback_group' = callback_group
    BY <1>1, WarmUpPublishesNothing DEF Shutdown, WriteResults, vars, path, generator
  <2>2. \A j \in Topics : InFlight(j)' = InFlight(j)
    BY <2>1 DEF InFlight
  <2>3. \A j \in Topics : InOrder(j) => InOrder(j)'
    BY <2>1, <2>2, OrderUntouched
  <2>4. RowsStamped'
    BY <2>1 DEF OrderInv, RowsStamped
  <2> QED
    BY <2>1, <2>3, <2>4 DEF OrderInv
<1>2. ASSUME NEW i \in Topics, Publish(i)
      PROVE  OrderInv'
  BY <1>2, PublishOrder
<1>3. ASSUME NEW i \in Topics, NEW t \in Threads, StartProbe(t, i)
      PROVE  OrderInv'
  BY <1>3, StartOrder
<1>4. ASSUME NEW t \in Threads, FinishProbe(t)
      PROVE  OrderInv'
  BY <1>4, FinishOrder
<1> QED
  BY <1>1, <1>2, <1>3, <1>4 DEF Next

LEMMA MinIsLeast ==
  ASSUME NEW S, S \subseteq Nat, S # {}
  PROVE  Min(S) \in S /\ \A y \in S : Min(S) <= y
<1>1. PICK x \in S : \A y \in S : ~ (<<y, x>> \in OpToRel(<, Nat))
  BY NatLessThanWellFounded, WFMin
<1>2. \A y \in S : ~ (y < x)
  BY <1>1 DEF OpToRel
<1>3. \A y \in S : x <= y
  BY <1>2
<1> QED
  BY <1>3 DEF Min

\* The greatest element is the one nearest to a bound.
LEMMA MaxIsGreatest ==
  ASSUME NEW S, S \subseteq Nat, S # {}, NEW b \in Nat, \A y \in S : y <= b
  PROVE  Max(S) \in S /\ \A y \in S : y <= Max(S)
<1> DEFINE D == {b - y : y \in S}
<1>1. D \subseteq Nat /\ D # {}
  <2>1. \A y \in S : b - y \in Nat
    OBVIOUS
  <2> QED
    BY <2>1
<1>2. PICK d \in D : \A e \in D : d <= e
  <2> HIDE DEF D
  <2>1. Min(D) \in D /\ \A e \in D : Min(D) <= e
    BY <1>1, MinIsLeast
  <2> QED
    BY <2>1
<1>3. PICK x \in S : d = b - x
  OBVIOUS
<1>4. \A y \in S : y <= x
  BY <1>2, <1>3
<1>5. \A y \in S : x >= y
  BY <1>4
<1>6. Max(S) \in S /\ \A y \in S : Max(S) >= y
  BY <1>5 DEF Max
<1> QED
  BY <1>6

(***************************************************************************)
(* With callbacks of a subscription kept apart, the publish window holds   *)
(* the stamps of all rows of all topics, for any numbers of topics and     *)
(* threads, any queue depth and any capacity.                              *)
(***************************************************************************)
THEOREM WindowCovers == Spec => []WindowCoversRows
<1>1. IInv /\ OrderInv => WindowCoversRows
  <2> SUFFICES ASSUME IInv, OrderInv, report # NoReport, callback_group # "reentrant"
               PROVE  Covers(report)
    BY DEF WindowCoversRows
  <2>1. report.recs = recs
    BY DEF IInv, Frozen
  <2>2. DOMAIN recs = Topics
    BY DEF IInv, Types
  <2>3. ASSUME NEW i \in Topics, NEW k \in 1 .. Len(recs[i].rows)
        PROVE  /\ window_lo(recs) <= recs[i].rows[k].t_reference
               /\ recs[i].rows[k].t_reference <= window_hi(recs)
    <3> DEFINE Firsts == {Head(recs[r].rows).t_reference : r \in WithRows(recs)}
               Lasts == {Last(recs[r].rows).t_reference : r \in WithRows(recs)}
    <3>1. \A j \in Topics : recs[j].rows \in Seq(Row)
      BY DEF IInv, Types
    <3>2. \A j \in WithRows(recs) :
            /\ j \in Topics
            /\ Head(recs[j].rows) = recs[j].rows[1] /\ 1 \in 1 .. Len(recs[j].rows)
            /\ Last(recs[j].rows) = recs[j].rows[Len(recs[j].rows)]
            /\ Len(recs[j].rows) \in 1 .. Len(recs[j].rows)
      BY <2>2, <3>1 DEF WithRows, Last
    <3>3. i \in WithRows(recs)
      <4>1. recs[i].rows # << >>
        BY <3>1
      <4> QED
        BY <4>1, <2>2 DEF WithRows
    <3>4. \A j \in Topics : \A l \in 1 .. Len(recs[j].rows) :
            recs[j].rows[l].t_reference \in Nat /\ recs[j].rows[l].t_reference < now
      BY StampsAreNatural DEF OrderInv, RowsStamped
    <3>5. now \in Nat
      BY DEF IInv, Types
    <3>6. Firsts \subseteq Nat /\ Head(recs[i].rows).t_reference \in Firsts
      BY <3>2, <3>3, <3>4
    <3>7. /\ Lasts \subseteq Nat /\ Last(recs[i].rows).t_reference \in Lasts
          /\ \A y \in Lasts : y <= now
      <4>1. \A j \in WithRows(recs) : /\ Last(recs[j].rows).t_reference \in Nat
                                      /\ Last(recs[j].rows).t_reference <= now
        BY <3>2, <3>4, <3>5
      <4> QED
        BY <4>1, <3>3
    <3>8. Min(Firsts) <= Head(recs[i].rows).t_reference /\ Min(Firsts) \in Nat
      <4> HIDE DEF Firsts
      <4> QED
        BY <3>6, MinIsLeast
    <3>9. Last(recs[i].rows).t_reference <= Max(Lasts) /\ Max(Lasts) \in Nat
      <4> HIDE DEF Lasts
      <4> QED
        BY <3>5, <3>7, MaxIsGreatest
    <3>10. \A l, m \in 1 .. Len(recs[i].rows) :
             l < m => recs[i].rows[l].t_reference < recs[i].rows[m].t_reference
      BY DEF OrderInv, InOrder
    <3>11. /\ recs[i].rows[1].t_reference <= recs[i].rows[k].t_reference
           /\ recs[i].rows[k].t_reference <= recs[i].rows[Len(recs[i].rows)].t_reference
      <4>1. k = 1 \/ 1 < k
        OBVIOUS
      <4>2. k = Len(recs[i].rows) \/ k < Len(recs[i].rows)
        BY <3>2, <3>3
      <4>3. recs[i].rows[1].t_reference <= recs[i].rows[k].t_reference
        BY <4>1, <3>2, <3>3, <3>4, <3>10
      <4>4. recs[i].rows[k].t_reference <= recs[i].rows[Len(recs[i].rows)].t_reference
        BY <4>2, <3>2, <3>3, <3>4, <3>10
      <4> QED
        BY <4>3, <4>4
    <3>12. window_lo(recs) = Min(Firsts) /\ window_hi(recs) = Max(Lasts)
      BY DEF window_lo, window_hi
    <3>13. /\ recs[i].rows[1].t_reference \in Nat
           /\ recs[i].rows[k].t_reference \in Nat
           /\ recs[i].rows[Len(recs[i].rows)].t_reference \in Nat
      BY <3>2, <3>3, <3>4
    <3>14. /\ Min(Firsts) <= recs[i].rows[1].t_reference
           /\ recs[i].rows[Len(recs[i].rows)].t_reference <= Max(Lasts)
      BY <3>2, <3>3, <3>8, <3>9
    <3>15. Min(Firsts) \in Nat /\ Max(Lasts) \in Nat
      BY <3>8, <3>9
    <3> HIDE DEF Firsts, Lasts
    <3>16. Min(Firsts) <= recs[i].rows[k].t_reference
      BY <3>11, <3>13, <3>14, <3>15
    <3>17. recs[i].rows[k].t_reference <= Max(Lasts)
      BY <3>11, <3>13, <3>14, <3>15
    <3> QED
      BY <3>12, <3>16, <3>17
  <2> QED
    BY <2>1, <2>2, <2>3 DEF Covers
<1> QED
  BY <1>1, InitIInv, NextIInv, InitOrder, NextOrder, PTL DEF Spec
-----------------------------------------------------------------------------
(* The gaps in the rows of a topic, where callbacks of a subscription are  *)
(* kept apart: while the buffer has room, whatever left the queue and was  *)
(* not dropped is kept or being served.                                    *)

InFlightSeqs(i) == {running[t].seq : t \in InFlight(i)}

Placed(i) ==
  /\ recs[i].lost > 0 => Len(recs[i].rows) = Capacity
  /\ recs[i].lost = 0 =>
       \A s \in Nat : s < Oldest(i) =>
         s \in queue_lost[i] \/ s \in Seqs(recs[i].rows) \/ s \in InFlightSeqs(i)

\* The rows are in the order of publication, the message being served comes
\* after them, and what is missing before a row was dropped by the queue.
NoOtherGap(i) ==
  /\ \A l \in 1 .. Len(recs[i].rows) : \A t \in InFlight(i) :
       recs[i].rows[l].seq < running[t].seq
  /\ \A k, l \in 1 .. Len(recs[i].rows) :
       k < l => recs[i].rows[k].seq < recs[i].rows[l].seq
  /\ \A r \in Seqs(recs[i].rows) : \A s \in Nat :
       s < r => s \in queue_lost[i] \/ s \in Seqs(recs[i].rows)

\* The report was made of the rows it holds.
Summed ==
  report # NoReport =>
    /\ report.dropped = dropped(report.recs)
    /\ report.received = total_received(report.recs)
    /\ report.overflowed = overflowed(report.recs)
    /\ report.latency = latency_sum(report.recs)
    /\ report.summary = summary(report.recs)
    /\ report.all = IF WithRows(report.recs) = {} THEN {}
                   ELSE {dump(AllLatencies(report.recs))}

GapInv ==
  /\ \A i \in Topics : Placed(i)
  /\ callback_group # "reentrant" => \A i \in Topics : NoOtherGap(i)
  /\ Summed

LEMMA InitGap == Init => GapInv
<1> SUFFICES ASSUME Init PROVE GapInv
  OBVIOUS
<1>1. \A i \in Topics : /\ Len(queue[i]) = 0 /\ Len(recs[i].rows) = 0 /\ recs[i].lost = 0
                        /\ seq[i] = 0
  BY DEF Init, GeneratorInit
<1>2. \A i \in Topics : Oldest(i) = 0 /\ Seqs(recs[i].rows) = {}
  BY <1>1 DEF Oldest, Seqs
<1>3. \A i \in Topics : Placed(i)
  BY <1>1, <1>2 DEF Placed
<1>4. \A i \in Topics : NoOtherGap(i)
  BY <1>1, <1>2 DEF NoOtherGap
<1>5. Summed
  BY DEF Init, Summed
<1> QED
  BY <1>3, <1>4, <1>5 DEF GapInv

\* A topic whose rows, losses and calls stay, and whose queue lets go of
\* nothing but what it drops.
LEMMA GapUntouched ==
  ASSUME NEW j \in Topics, recs'[j] = recs[j],
         InFlight(j)' = InFlight(j), \A t \in InFlight(j) : running'[t] = running[t],
         queue_lost[j] \subseteq queue_lost'[j],
         \A s \in Nat : s < Oldest(j)' => s < Oldest(j) \/ s \in queue_lost'[j]
  PROVE  (Placed(j) => Placed(j)') /\ (NoOtherGap(j) => NoOtherGap(j)')
<1>1. InFlightSeqs(j)' = InFlightSeqs(j)
  BY DEF InFlightSeqs
<1>2. ASSUME Placed(j)
      PROVE  Placed(j)'
  BY <1>1, <1>2 DEF Placed
<1>3. ASSUME NoOtherGap(j)
      PROVE  NoOtherGap(j)'
  BY <1>3 DEF NoOtherGap
<1> QED
  BY <1>2, <1>3

LEMMA PublishGap ==
  ASSUME IInv, GapInv, NEW i \in Topics, Publish(i)
  PROVE  GapInv'
<1>1. /\ recs' = recs /\ running' = running /\ callback_group' = callback_group
      /\ report' = report
  BY DEF Publish
<1>2. \A j \in Topics : InFlight(j)' = InFlight(j)
  BY <1>1 DEF InFlight
<1>3. ASSUME NEW j \in Topics
      PROVE  /\ queue_lost[j] \subseteq queue_lost'[j]
             /\ \A s \in Nat : s < Oldest(j)' => s < Oldest(j) \/ s \in queue_lost'[j]
  <2>1. CASE j = i
    <3>1. \/ Oldest(i)' = Oldest(i) /\ queue_lost'[i] = queue_lost[i]
          \/ Oldest(i)' = Oldest(i) + 1 /\ queue_lost'[i] = queue_lost[i] \cup {Oldest(i)}
      BY PublishQueue
    <3>2. Oldest(i) \in Int
      BY NumbersAreNatural DEF IInv
    <3> QED
      BY <2>1, <3>1, <3>2
  <2>2. CASE j # i
    <3>1. queue'[j] = queue[j] /\ queue_lost'[j] = queue_lost[j]
      BY <2>2 DEF Publish, IInv, Types
    <3>2. seq'[j] = seq[j]
      BY <2>2, PublishCounts DEF Publish, IInv
    <3>3. Oldest(j)' = Oldest(j)
      BY <3>1, <3>2 DEF Oldest
    <3> QED
      BY <3>1, <3>3
  <2> QED
    BY <2>1, <2>2
<1>4. \A j \in Topics : (Placed(j) => Placed(j)') /\ (NoOtherGap(j) => NoOtherGap(j)')
  BY <1>1, <1>2, <1>3, GapUntouched
<1> QED
  BY <1>1, <1>4 DEF GapInv, Summed

LEMMA StartGap ==
  ASSUME IInv, GapInv, NEW t \in Threads, NEW i \in Topics, StartProbe(t, i)
  PROVE  GapInv'
<1>1. /\ recs' = recs /\ callback_group' = callback_group /\ running[t] = Idle
      /\ seq' = seq /\ queue_lost' = queue_lost /\ report' = report
  BY DEF StartProbe, generator
<1>2. running'[t] # Idle
  BY StartEffect, IdleIsNoCall
<1>3. ASSUME NEW j \in Topics, j # i
      PROVE  (Placed(j) => Placed(j)') /\ (NoOtherGap(j) => NoOtherGap(j)')
  <2>1. Oldest(j)' = Oldest(j)
    BY <1>1, <1>3, StartEffect DEF Oldest
  <2>2. \A u \in Threads : (running'[u] # Idle /\ running'[u].topic = j)
                             <=> (running[u] # Idle /\ running[u].topic = j)
    BY <1>1, <1>2, <1>3, StartEffect
  <2>3. InFlight(j)' = InFlight(j)
    BY <2>2 DEF InFlight
  <2>4. \A u \in InFlight(j) : running'[u] = running[u]
    BY <1>1, StartEffect DEF InFlight
  <2> QED
    BY <1>1, <2>1, <2>3, <2>4, GapUntouched
<1>4. InFlight(i)' = InFlight(i) \cup {t} /\ t \notin InFlight(i)
  <2>1. \A u \in Threads : (running'[u] # Idle /\ running'[u].topic = i)
                             <=> (u = t \/ (running[u] # Idle /\ running[u].topic = i))
    BY <1>1, <1>2, StartEffect
  <2> QED
    BY <2>1, <1>1 DEF InFlight
<1>5. \A u \in InFlight(i) : running'[u] = running[u]
  BY <1>4, StartEffect DEF InFlight
<1>6. running'[t].seq = Oldest(i) /\ Oldest(i)' = Oldest(i) + 1 /\ Oldest(i) \in Int
  BY StartEffect, NumbersAreNatural DEF IInv
<1>7. Placed(i)'
  <2>1. InFlightSeqs(i)' = InFlightSeqs(i) \cup {Oldest(i)}
    BY <1>4, <1>5, <1>6 DEF InFlightSeqs
  <2>2. \A s \in Nat : s < Oldest(i)' => s < Oldest(i) \/ s = Oldest(i)
    BY <1>6
  <2>3. Placed(i)
    BY DEF GapInv
  <2> QED
    BY <1>1, <2>1, <2>2, <2>3 DEF Placed
<1>8. ASSUME callback_group # "reentrant"
      PROVE  NoOtherGap(i)'
  <2>1. InFlight(i)' = {t}
    BY <1>4, <1>8 DEF StartProbe, MayServe, InFlight
  <2>2. \A l \in 1 .. Len(recs[i].rows) : recs[i].rows[l].seq < running'[t].seq
    BY <1>6 DEF IInv, TopicInv, OthersAreOlder, Seqs
  <2>3. NoOtherGap(i)
    BY <1>8 DEF GapInv
  <2> QED
    BY <1>1, <2>1, <2>2, <2>3 DEF NoOtherGap
<1> QED
  BY <1>1, <1>3, <1>7, <1>8 DEF GapInv, Summed

LEMMA FinishGap ==
  ASSUME IInv, OrderInv, GapInv, NEW t \in Threads, FinishProbe(t)
  PROVE  GapInv'
<1>1. /\ queue' = queue /\ callback_group' = callback_group /\ seq' = seq
      /\ queue_lost' = queue_lost /\ report' = report /\ running[t] # Idle
  BY DEF FinishProbe, generator
<1>2. PICK i \in Topics : i = running[t].topic
  BY FinishEffect DEF Call
<1>3. PICK row \in Row :
        row = [seq |-> running[t].seq, t_reference |-> running[t].t_reference,
               t_start |-> running[t].t_start]
  BY FinishEffect DEF Call, Row
<1>4. row.seq = running[t].seq
  BY <1>3
<1>5. /\ recs[i] \in [rows : Seq(Row), lost : Nat] /\ Len(recs[i].rows) <= Capacity
      /\ recs[i].rows \in Seq(Row) /\ Len(recs[i].rows) \in Nat /\ recs[i].lost \in Nat
  BY DEF IInv, Types, TopicInv, Counted
<1>6. recs'[i] = Keep(recs[i], row)
  BY <1>2, <1>3, FinishEffect
<1>7. t \in InFlight(i) /\ InFlight(i)' = InFlight(i) \ {t}
  <2>1. \A u \in Threads : (running'[u] # Idle /\ running'[u].topic = i)
                             <=> (u # t /\ running[u] # Idle /\ running[u].topic = i)
    BY FinishEffect
  <2> QED
    BY <1>1, <1>2, <2>1 DEF InFlight
<1>8. \A u \in InFlight(i)' : u \in InFlight(i) /\ running'[u] = running[u]
  BY <1>7, FinishEffect DEF InFlight
<1>9. Oldest(i)' = Oldest(i) /\ Oldest(i) \in Int
  BY <1>1, NumbersAreNatural DEF Oldest, IInv
<1>10. \A s \in InFlightSeqs(i) : s = row.seq \/ s \in InFlightSeqs(i)'
  <2>1. ASSUME NEW u \in InFlight(i), u # t
        PROVE  running[u].seq \in InFlightSeqs(i)'
    <3>1. u \in InFlight(i)' /\ running'[u] = running[u]
      BY <1>7, <1>8, <2>1
    <3> QED
      BY <3>1 DEF InFlightSeqs
  <2> QED
    BY <1>4, <2>1 DEF InFlightSeqs
<1>11. Placed(i) /\ row.seq < Oldest(i) /\ row.seq \in Nat
  BY <1>3, <1>4, <1>7 DEF GapInv, IInv, TopicInv, OthersAreOlder, Row
<1>12. ASSUME recs'[i].rows = Append(recs[i].rows, row), recs'[i].lost = recs[i].lost,
              Len(recs[i].rows) < Capacity
       PROVE  Placed(i)' /\ (callback_group # "reentrant" => NoOtherGap(i)')
  <2>1. Seqs(recs'[i].rows) = Seqs(recs[i].rows) \cup {row.seq}
    BY <1>5, <1>12, SeqsOfAppend
  <2>2. recs[i].lost = 0
    BY <1>5, <1>11, <1>12 DEF Placed
  <2>3. Placed(i)'
    BY <1>1, <1>9, <1>10, <1>11, <1>12, <2>1, <2>2 DEF Placed
  <2>4. ASSUME callback_group # "reentrant"
        PROVE  NoOtherGap(i)'
    <3>1. InFlight(i) = {t} /\ InFlight(i)' = {}
      BY <1>7, <2>4 DEF OrderInv, InOrder
    <3>2. NoOtherGap(i)
      BY <2>4 DEF GapInv
    <3>3. /\ \A k \in 1 .. Len(recs[i].rows) : recs'[i].rows[k] = recs[i].rows[k]
          /\ Len(recs'[i].rows) = Len(recs[i].rows) + 1
          /\ recs'[i].rows[Len(recs[i].rows) + 1] = row
      BY <1>5, <1>12
    <3>4. ASSUME NEW k \in 1 .. Len(recs'[i].rows), NEW l \in 1 .. Len(recs'[i].rows), k < l
          PROVE  recs'[i].rows[k].seq < recs'[i].rows[l].seq
      <4>1. k \in 1 .. Len(recs[i].rows) /\ recs'[i].rows[k] = recs[i].rows[k]
        BY <1>5, <3>3, <3>4
      <4>2. CASE l = Len(recs[i].rows) + 1
        BY <1>4, <1>7, <3>2, <3>3, <4>1, <4>2 DEF NoOtherGap
      <4>3. CASE l \in 1 .. Len(recs[i].rows)
        BY <3>2, <3>3, <3>4, <4>1, <4>3 DEF NoOtherGap
      <4> QED
        BY <1>5, <3>3, <4>2, <4>3
    <3>5. InFlightSeqs(i) = {row.seq}
      BY <1>4, <3>1 DEF InFlightSeqs
    <3>6. ASSUME NEW s \in Nat, s < row.seq
          PROVE  s \in queue_lost[i] \/ s \in Seqs(recs[i].rows)
      <4>1. s < Oldest(i) /\ s # row.seq
        BY <1>9, <1>11, <3>6
      <4> QED
        BY <1>11, <2>2, <3>5, <4>1 DEF Placed
    <3>7. \A r \in Seqs(recs'[i].rows) : \A s \in Nat :
            s < r => s \in queue_lost'[i] \/ s \in Seqs(recs'[i].rows)
      BY <1>1, <2>1, <3>2, <3>6 DEF NoOtherGap
    <3> QED
      BY <3>1, <3>4, <3>7 DEF NoOtherGap
  <2> QED
    BY <2>3, <2>4
<1>13. ASSUME recs'[i].rows = recs[i].rows, recs'[i].lost = recs[i].lost + 1,
              Len(recs[i].rows) = Capacity
       PROVE  Placed(i)' /\ (callback_group # "reentrant" => NoOtherGap(i)')
  <2>1. recs'[i].lost > 0
    BY <1>5, <1>13
  <2>2. Placed(i)'
    BY <1>13, <2>1 DEF Placed
  <2>3. ASSUME callback_group # "reentrant"
        PROVE  NoOtherGap(i)'
    <3>1. NoOtherGap(i)
      BY <2>3 DEF GapInv
    <3> QED
      BY <1>1, <1>8, <1>13, <3>1 DEF NoOtherGap
  <2> QED
    BY <2>2, <2>3
<1>14. Placed(i)' /\ (callback_group # "reentrant" => NoOtherGap(i)')
  BY <1>5, <1>6, <1>12, <1>13, KeepEffect, SMTT(30)
<1>15. ASSUME NEW j \in Topics, j # i
       PROVE  (Placed(j) => Placed(j)') /\ (NoOtherGap(j) => NoOtherGap(j)')
  <2>1. recs'[j] = recs[j] /\ Oldest(j)' = Oldest(j)
    BY <1>1, <1>2, <1>15, FinishEffect DEF Oldest
  <2>2. \A u \in Threads : (running'[u] # Idle /\ running'[u].topic = j)
                             <=> (running[u] # Idle /\ running[u].topic = j)
    BY <1>1, <1>2, <1>15, FinishEffect
  <2>3. InFlight(j)' = InFlight(j)
    BY <2>2 DEF InFlight
  <2>4. \A u \in InFlight(j) : running'[u] = running[u]
    BY <1>2, <1>15, FinishEffect DEF InFlight
  <2> QED
    BY <1>1, <2>1, <2>3, <2>4, GapUntouched
<1> QED
  BY <1>1, <1>14, <1>15 DEF GapInv, Summed

LEMMA NextGap == IInv /\ OrderInv /\ GapInv /\ [Next]_vars => GapInv'
<1> SUFFICES ASSUME IInv, OrderInv, GapInv, [Next]_vars PROVE GapInv'
  OBVIOUS
<1>1. CASE WarmUpEnds \/ Shutdown \/ WriteResults \/ UNCHANGED vars
  <2>1. /\ seq' = seq /\ queue' = queue /\ running' = running /\ recs' = recs
        /\ queue_lost' = queue_lost /\ callback_group' = callback_group
    BY <1>1, WarmUpPublishesNothing DEF Shutdown, WriteResults, vars, path, generator
  <2>2. \A j \in Topics : InFlight(j)' = InFlight(j) /\ Oldest(j)' = Oldest(j)
    BY <2>1 DEF InFlight, Oldest
  <2>3. \A j \in Topics : (Placed(j) => Placed(j)') /\ (NoOtherGap(j) => NoOtherGap(j)')
    BY <2>1, <2>2, GapUntouched
  <2>4. Summed'
    <3>1. CASE WriteResults
      <4>1. /\ report'.recs = recs /\ report'.dropped = dropped(recs)
            /\ report'.received = total_received(recs) /\ report'.overflowed = overflowed(recs)
            /\ report'.latency = latency_sum(recs)
            /\ report'.summary = summary(recs)
            /\ report'.all = IF WithRows(recs) = {} THEN {} ELSE {dump(AllLatencies(recs))}
        BY <3>1 DEF WriteResults
      <4> QED
        BY <4>1 DEF Summed
    <3>2. CASE ~ WriteResults
      <4>1. report' = report
        BY <1>1, <3>2, WarmUpPublishesNothing DEF Shutdown, vars, path
      <4> QED
        BY <4>1 DEF Summed, GapInv
    <3> QED
      BY <3>1, <3>2
  <2> QED
    BY <2>1, <2>3, <2>4 DEF GapInv
<1>2. ASSUME NEW i \in Topics, Publish(i)
      PROVE  GapInv'
  BY <1>2, PublishGap
<1>3. ASSUME NEW i \in Topics, NEW t \in Threads, StartProbe(t, i)
      PROVE  GapInv'
  BY <1>3, StartGap
<1>4. ASSUME NEW t \in Threads, FinishProbe(t)
      PROVE  GapInv'
  BY <1>4, FinishGap
<1> QED
  BY <1>1, <1>2, <1>3, <1>4 DEF Next

\* The range from the first row to the last is the rows and the losses
\* between them, so the rows missing from it are the losses.
LEMMA DroppedIsBetween ==
  ASSUME IInv, NEW i \in Topics, NoOtherGap(i), recs[i].rows # << >>
  PROVE  dropped_by(recs[i].rows) = Cardinality(Between(i, recs[i].rows))
<1> DEFINE rows == recs[i].rows
           S == Seqs(rows)
           lo == Head(rows).seq
           hi == Last(rows).seq
           B == Between(i, rows)
<1>1. /\ rows \in Seq(Row) /\ Len(rows) \in Nat /\ Len(rows) >= 1
      /\ queue_lost[i] \subseteq Nat
  BY DEF IInv, Types
<1>2. lo = rows[1].seq /\ hi = rows[Len(rows)].seq
  BY <1>1 DEF Last
<1>3. \A k \in 1 .. Len(rows) : rows[k].seq \in Nat /\ rows[k].seq \in S
  BY <1>1, RowIsRow DEF Row, Seqs
<1>4. lo \in Nat /\ hi \in Nat /\ lo \in S /\ hi \in S
  BY <1>1, <1>2, <1>3
<1>5. \A k, l \in 1 .. Len(rows) : k < l => rows[k].seq < rows[l].seq
  BY DEF NoOtherGap
<1>6. ASSUME NEW k \in 1 .. Len(rows)
      PROVE  lo <= rows[k].seq /\ rows[k].seq <= hi
  <2>1. k = 1 \/ 1 < k
    OBVIOUS
  <2>2. k = Len(rows) \/ k < Len(rows)
    BY <1>1
  <2>3. 1 \in 1 .. Len(rows) /\ Len(rows) \in 1 .. Len(rows)
    BY <1>1
  <2>4. rows[k].seq \in Nat
    BY <1>3
  <2>5. lo <= rows[k].seq
    BY <1>2, <1>4, <1>5, <2>1, <2>3, <2>4
  <2>6. rows[k].seq <= hi
    BY <1>2, <1>4, <1>5, <2>2, <2>3, <2>4, SMTT(30)
  <2> QED
    BY <2>5, <2>6
<1>7. \A s \in S : s \in Nat /\ lo <= s /\ s <= hi
  BY <1>3, <1>6 DEF Seqs
<1>8. \A r \in S : \A s \in Nat : s < r => s \in queue_lost[i] \/ s \in S
  BY DEF NoOtherGap
<1>9. S \cap queue_lost[i] = {} /\ IsFiniteSet(S) /\ IsFiniteSet(queue_lost[i])
      /\ Cardinality(S) = Len(rows)
  BY DEF IInv, TopicInv, PlacesApart, Finite, Counted
<1>10. B = {s \in queue_lost[i] : lo < s /\ s < hi}
  BY DEF Between
<1>11. dropped_by(rows) = (Max(S) - Min(S) + 1) - Len(rows)
  BY DEF dropped_by, RangeSize
<1> HIDE DEF rows, S, lo, hi, B
<1>12. S \subseteq Nat /\ S # {}
  BY <1>4, <1>7
<1>13. Min(S) = lo
  <2>1. Min(S) \in S /\ \A y \in S : Min(S) <= y
    BY <1>12, MinIsLeast
  <2>2. Min(S) \in Nat /\ lo <= Min(S) /\ Min(S) <= lo
    BY <1>4, <1>7, <2>1
  <2> QED
    BY <1>4, <2>2
<1>14. Max(S) = hi
  <2>1. \A y \in S : y <= hi
    BY <1>7
  <2>2. Max(S) \in S /\ \A y \in S : y <= Max(S)
    BY <1>4, <1>12, <2>1, MaxIsGreatest
  <2>3. Max(S) \in Nat /\ hi <= Max(S) /\ Max(S) <= hi
    BY <1>4, <1>7, <2>2
  <2> QED
    BY <1>4, <2>3
<1>15. lo .. hi = S \cup B
  <2>1. ASSUME NEW s \in lo .. hi
        PROVE  s \in S \/ s \in B
    <3>1. s \in Nat /\ lo <= s /\ s <= hi
      BY <1>4
    <3>2. CASE s = hi
      BY <1>4, <3>2
    <3>3. CASE s < hi
      <4>1. s \in queue_lost[i] \/ s \in S
        BY <1>4, <1>8, <3>1, <3>3
      <4>2. s = lo \/ lo < s
        BY <1>4, <3>1
      <4> QED
        BY <1>4, <1>10, <3>3, <4>1, <4>2
    <3> QED
      BY <1>4, <3>1, <3>2, <3>3
  <2>2. \A s \in S : s \in lo .. hi
    BY <1>4, <1>7
  <2>3. \A s \in B : s \in lo .. hi
    BY <1>1, <1>4, <1>10
  <2> QED
    BY <2>1, <2>2, <2>3
<1>16. IsFiniteSet(B)
  BY <1>9, <1>10, FS_Subset
<1>17. S \cap B = {}
  BY <1>9, <1>10
<1>18. Cardinality(S \cup B) = Cardinality(S) + Cardinality(B) - Cardinality({})
  BY <1>9, <1>16, <1>17, FS_Union
<1>19. Cardinality({}) = 0
  BY FS_EmptySet
<1>20. Cardinality(lo .. hi) = hi - lo + 1
  <2>1. lo <= hi
    BY <1>4, <1>7
  <2> QED
    BY <1>4, <2>1, FS_Interval
<1>21. Cardinality(S) \in Nat /\ Cardinality(B) \in Nat
  BY <1>9, <1>16, FS_CardinalityType
<1>22. Len(rows) + Cardinality(B) = hi - lo + 1
  <2>1. hi - lo + 1 = Cardinality(S) + Cardinality(B) - Cardinality({})
    BY <1>15, <1>18, <1>20
  <2> QED
    BY <1>9, <1>19, <1>21, <2>1
<1>23. dropped_by(rows) = (hi - lo + 1) - Len(rows)
  BY <1>11, <1>13, <1>14
<1>24. dropped_by(rows) = Cardinality(B)
  <2>1. Len(rows) \in Nat
    BY <1>9, <1>21
  <2> QED
    BY <1>4, <1>21, <1>22, <1>23, <2>1
<1> QED
  BY <1>24 DEF rows, B

(***************************************************************************)
(* With callbacks of a subscription kept apart, the number reported as     *)
(* dropped is the number of messages the queues discarded between the      *)
(* first and the last one kept, for any numbers of topics and threads, any *)
(* queue depth and any capacity: a full buffer never adds to it.           *)
(***************************************************************************)
THEOREM DroppedCountsLosses == Spec => []DroppedIsQueueLoss
<1>1. IInv /\ GapInv => DroppedIsQueueLoss
  <2> SUFFICES ASSUME IInv, GapInv, report # NoReport, callback_group # "reentrant"
               PROVE  report.dropped =
                        SumFunction([i \in WithRows(report.recs) |->
                                       Cardinality(Between(i, report.recs[i].rows))])
    BY DEF DroppedIsQueueLoss
  <2>1. report.recs = recs /\ DOMAIN recs = Topics
    BY DEF IInv, Frozen, Types
  <2>2. \A i \in WithRows(recs) :
          dropped_by(recs[i].rows) = Cardinality(Between(i, recs[i].rows))
    <3>1. \A i \in WithRows(recs) : i \in Topics /\ recs[i].rows # << >>
      BY <2>1 DEF WithRows
    <3>2. \A i \in Topics : NoOtherGap(i)
      BY DEF GapInv
    <3> QED
      BY <3>1, <3>2, DroppedIsBetween
  <2>3. [i \in WithRows(recs) |-> dropped_by(recs[i].rows)]
          = [i \in WithRows(recs) |-> Cardinality(Between(i, recs[i].rows))]
    BY <2>2
  <2>4. report.dropped = SumFunction([i \in WithRows(recs) |-> dropped_by(recs[i].rows)])
    BY <2>1 DEF GapInv, Summed, dropped
  <2> QED
    BY <2>1, <2>3, <2>4
<1> QED
  BY <1>1, InitIInv, NextIInv, InitOrder, NextOrder, InitGap, NextGap, PTL DEF Spec
-----------------------------------------------------------------------------
(* What the operators of the report compute, for every vector: the sorted  *)
(* vector and its percentiles, sums, and vectors end to end.               *)

\* The positions that come before k in ascending order, k among them.
UpTo(v, k) == {j \in DOMAIN v : v[j] < v[k] \/ (v[j] = v[k] /\ j <= k)}

\* The place of position k in ascending order.
Rank(v) == [k \in DOMAIN v |-> Cardinality(UpTo(v, k))]

LEMMA RankPlaces ==
  ASSUME NEW v \in Seq(Int)
  PROVE  /\ Rank(v) \in Bijection(DOMAIN v, DOMAIN v)
         /\ \A k, l \in DOMAIN v : Rank(v)[k] <= Rank(v)[l] => v[k] <= v[l]
<1> DEFINE n == Len(v)
           D == DOMAIN v
<1>1. n \in Nat /\ D = 1 .. n /\ \A k \in D : v[k] \in Int
  OBVIOUS
<1>2. IsFiniteSet(D) /\ Cardinality(D) = n
  <2>1. IsFiniteSet(1 .. n) /\ Cardinality(1 .. n) = IF 1 > n THEN 0 ELSE n - 1 + 1
    BY <1>1, FS_Interval
  <2> QED
    BY <1>1, <2>1
<1> HIDE DEF n, D
<1>3. \A k \in D : UpTo(v, k) \subseteq D /\ k \in UpTo(v, k)
  BY <1>1 DEF UpTo, D
<1>4. ASSUME NEW k \in D
      PROVE  Rank(v)[k] \in D /\ Rank(v)[k] = Cardinality(UpTo(v, k)) /\ IsFiniteSet(UpTo(v, k))
  <2>1. Rank(v)[k] = Cardinality(UpTo(v, k))
    BY DEF Rank, D
  <2>2. IsFiniteSet(UpTo(v, k)) /\ Cardinality(UpTo(v, k)) <= n
    BY <1>2, <1>3, FS_Subset
  <2>3. Cardinality(UpTo(v, k)) \in Nat
    BY <2>2, FS_CardinalityType
  <2>4. Cardinality(UpTo(v, k)) # 0
    BY <1>3, <2>2, FS_EmptySet
  <2> QED
    BY <1>1, <2>1, <2>2, <2>3, <2>4
<1>5. ASSUME NEW k \in D, NEW l \in D, v[k] < v[l] \/ (v[k] = v[l] /\ k < l)
      PROVE  Rank(v)[k] < Rank(v)[l]
  <2>1. v[k] \in Int /\ v[l] \in Int /\ k \in Int /\ l \in Int
    BY <1>1
  <2>2. ASSUME NEW j \in UpTo(v, k)
        PROVE  j \in UpTo(v, l)
    <3>1. j \in D /\ (v[j] < v[k] \/ (v[j] = v[k] /\ j <= k))
      BY DEF UpTo, D
    <3>2. v[j] \in Int /\ j \in Int
      BY <1>1, <3>1
    <3>3. v[j] < v[l] \/ (v[j] = v[l] /\ j <= l)
      BY <1>5, <2>1, <3>1, <3>2
    <3> QED
      BY <3>1, <3>3 DEF UpTo, D
  <2>3. l \notin UpTo(v, k)
    BY <1>5, <2>1 DEF UpTo
  <2>4. UpTo(v, k) \subseteq UpTo(v, l) /\ UpTo(v, k) # UpTo(v, l)
    BY <1>3, <2>2, <2>3
  <2>5. Cardinality(UpTo(v, k)) <= Cardinality(UpTo(v, l))
        /\ Cardinality(UpTo(v, k)) # Cardinality(UpTo(v, l))
    BY <1>4, <2>4, FS_Subset
  <2>6. Rank(v)[k] \in Int /\ Rank(v)[l] \in Int
    BY <1>1, <1>4
  <2> QED
    BY <1>4, <2>5, <2>6
<1>6. \A k, l \in D : Rank(v)[k] = Rank(v)[l] => k = l
  <2> SUFFICES ASSUME NEW k \in D, NEW l \in D, k # l
               PROVE  Rank(v)[k] # Rank(v)[l]
    OBVIOUS
  <2>1. v[k] \in Int /\ v[l] \in Int /\ k \in Int /\ l \in Int
        /\ Rank(v)[k] \in Int /\ Rank(v)[l] \in Int
    BY <1>1, <1>4
  <2>2. \/ v[k] < v[l] \/ (v[k] = v[l] /\ k < l)
        \/ v[l] < v[k] \/ (v[l] = v[k] /\ l < k)
    BY <2>1
  <2>3. Rank(v)[k] < Rank(v)[l] \/ Rank(v)[l] < Rank(v)[k]
    BY <1>5, <2>2
  <2> QED
    BY <2>1, <2>3
<1>7. Rank(v) \in [D -> D]
  BY <1>4 DEF Rank, D
<1>8. Rank(v) \in Injection(D, D)
  BY <1>6, <1>7 DEF Injection, IsInjective
<1>9. Rank(v) \in Surjection(D, D)
  BY <1>2, <1>8, FS_Injection
<1>10. \A k, l \in D : Rank(v)[k] <= Rank(v)[l] => v[k] <= v[l]
  <2> SUFFICES ASSUME NEW k \in D, NEW l \in D, ~ (v[k] <= v[l])
               PROVE  ~ (Rank(v)[k] <= Rank(v)[l])
    OBVIOUS
  <2>1. v[k] \in Int /\ v[l] \in Int /\ Rank(v)[k] \in Int /\ Rank(v)[l] \in Int
    BY <1>1, <1>4
  <2>2. v[l] < v[k]
    BY <2>1
  <2>3. Rank(v)[l] < Rank(v)[k]
    BY <1>5, <2>2
  <2> QED
    BY <2>1, <2>3
<1> QED
  BY <1>8, <1>9, <1>10 DEF Bijection, D

Sorts(p, v) ==
  /\ p \in Bijection(DOMAIN v, DOMAIN v)
  /\ \A i, j \in DOMAIN v : i < j => v[p[i]] <= v[p[j]]

LEMMA OrderExists ==
  ASSUME NEW v \in Seq(Int)
  PROVE  \E p : Sorts(p, v)
<1> DEFINE D == DOMAIN v
           r == Rank(v)
           p == [i \in D |-> CHOOSE k \in D : r[k] = i]
<1>1. D \subseteq Int
  OBVIOUS
<1>2. /\ r \in [D -> D] /\ \A i \in D : \E k \in D : r[k] = i
      /\ \A k, l \in D : r[k] = r[l] => k = l
      /\ \A k, l \in D : r[k] <= r[l] => v[k] <= v[l]
  BY RankPlaces DEF Bijection, Injection, Surjection, IsInjective
<1> HIDE DEF r
<1>3. \A i \in D : p[i] \in D /\ r[p[i]] = i
  BY <1>2
<1> HIDE DEF D
<1>4. p \in [D -> D]
  BY <1>3
<1>5. \A k \in D : p[r[k]] = k
  BY <1>2, <1>3
<1> HIDE DEF p
<1>6. p \in Injection(D, D)
  BY <1>3, <1>4 DEF Injection, IsInjective
<1>7. p \in Surjection(D, D)
  BY <1>2, <1>4, <1>5 DEF Surjection
<1>8. \A i, j \in D : i < j => v[p[i]] <= v[p[j]]
  <2> SUFFICES ASSUME NEW i \in D, NEW j \in D, i < j
               PROVE  v[p[i]] <= v[p[j]]
    OBVIOUS
  <2>1. r[p[i]] <= r[p[j]]
    BY <1>1, <1>3
  <2> QED
    BY <1>2, <1>3, <2>1
<1> QED
  BY <1>6, <1>7, <1>8 DEF Bijection, D, Sorts

\* The sorted vector is the vector in another order.
LEMMA AscendingSorts ==
  ASSUME NEW v \in Seq(Int)
  PROVE  \E p : /\ Sorts(p, v)
                /\ Ascending(v) = [i \in DOMAIN v |-> v[p[i]]]
<1> DEFINE p == CHOOSE p \in Bijection(DOMAIN v, DOMAIN v) :
                  \A i, j \in DOMAIN v : i < j => v[p[i]] <= v[p[j]]
<1>1. Sorts(p, v)
  BY OrderExists DEF Sorts
<1>2. Ascending(v) = [i \in DOMAIN v |-> v[p[i]]]
  BY DEF Ascending
<1> QED
  BY <1>1, <1>2

\* At least as many elements satisfy a condition as an injection shows.
LEMMA ManyAmong ==
  ASSUME NEW n \in Nat, NEW f, NEW a \in 1 .. n, NEW b \in 1 .. n, a <= b,
         \A i, j \in a .. b : f[i] = f[j] => i = j,
         NEW S, S \subseteq 1 .. n, \A i \in a .. b : f[i] \in S
  PROVE  Cardinality(S) \in Nat /\ Cardinality(S) >= b - a + 1
<1>1. IsFiniteSet(1 .. n) /\ IsFiniteSet(a .. b) /\ Cardinality(a .. b) = b - a + 1
  <2>1. IsFiniteSet(1 .. n)
    BY FS_Interval
  <2>2. a \in Int /\ b \in Int /\ ~ (a > b)
    OBVIOUS
  <2>3. IsFiniteSet(a .. b) /\ Cardinality(a .. b) = IF a > b THEN 0 ELSE b - a + 1
    BY <2>2, FS_Interval
  <2> QED
    BY <2>1, <2>2, <2>3
<1>2. IsFiniteSet(S)
  BY <1>1, FS_Subset
<1>3. [i \in a .. b |-> f[i]] \in Injection(a .. b, S)
  BY DEF Injection, IsInjective
<1>4. Cardinality(a .. b) <= Cardinality(S)
  BY <1>2, <1>3, FS_Injection
<1>5. Cardinality(S) \in Nat
  BY <1>2, FS_CardinalityType
<1> QED
  BY <1>1, <1>4, <1>5

\* What stands at a position of the sorted vector.
LEMMA Ordered ==
  ASSUME NEW v \in Seq(Int)
  PROVE  /\ Ascending(v) \in Seq(Int) /\ Len(Ascending(v)) = Len(v)
         /\ \A i \in DOMAIN v : \E k \in DOMAIN v : Ascending(v)[i] = v[k]
         /\ \A k \in DOMAIN v : \E i \in DOMAIN v : Ascending(v)[i] = v[k]
         /\ \A i, j \in DOMAIN v : i <= j => Ascending(v)[i] <= Ascending(v)[j]
         /\ \A i \in DOMAIN v : /\ AtMost(v, Ascending(v)[i]) >= i
                                /\ AtLeast(v, Ascending(v)[i]) >= Len(v) - i + 1
                                /\ AtMost(v, Ascending(v)[i]) \in Nat
                                /\ AtLeast(v, Ascending(v)[i]) \in Nat
<1> DEFINE n == Len(v)
           w == Ascending(v)
<1>1. n \in Nat /\ DOMAIN v = 1 .. n /\ \A k \in 1 .. n : v[k] \in Int
  OBVIOUS
<1>2. PICK p : Sorts(p, v) /\ w = [i \in DOMAIN v |-> v[p[i]]]
  BY AscendingSorts
<1>3. /\ \A i \in 1 .. n : p[i] \in 1 .. n
      /\ \A k \in 1 .. n : \E i \in 1 .. n : p[i] = k
      /\ \A i, j \in 1 .. n : p[i] = p[j] => i = j
      /\ \A i, j \in 1 .. n : i < j => v[p[i]] <= v[p[j]]
  BY <1>1, <1>2 DEF Sorts, Bijection, Injection, Surjection, IsInjective
<1>4. \A i \in 1 .. n : w[i] = v[p[i]] /\ w[i] \in Int
  BY <1>1, <1>2, <1>3
<1>5. w \in Seq(Int) /\ Len(w) = n
  BY <1>1, <1>2, <1>4
<1> HIDE DEF n, w
<1>6. \A i, j \in 1 .. n : i <= j => w[i] <= w[j]
  <2> SUFFICES ASSUME NEW i \in 1 .. n, NEW j \in 1 .. n, i <= j
               PROVE  w[i] <= w[j]
    OBVIOUS
  <2>1. CASE i = j
    BY <1>4, <2>1
  <2>2. CASE i < j
    BY <1>3, <1>4, <2>2
  <2> QED
    BY <1>1, <2>1, <2>2
<1>7. ASSUME NEW i \in 1 .. n
      PROVE  /\ AtMost(v, w[i]) >= i /\ AtMost(v, w[i]) \in Nat
             /\ AtLeast(v, w[i]) >= n - i + 1 /\ AtLeast(v, w[i]) \in Nat
  <2>1. i \in Int /\ 1 <= i /\ i <= n /\ 1 \in 1 .. n /\ n \in 1 .. n
    BY <1>1
  <2>2. /\ \A j \in 1 .. i : j \in 1 .. n /\ j <= i
        /\ \A j \in i .. n : j \in 1 .. n /\ i <= j
    BY <1>1, <2>1
  <2> DEFINE Below == {k \in 1 .. n : v[k] <= w[i]}
             Above == {k \in 1 .. n : v[k] >= w[i]}
  <2>3. \A j \in 1 .. i : p[j] \in Below
    BY <1>3, <1>4, <1>6, <2>2
  <2>4. \A j \in i .. n : p[j] \in Above
    <3>1. ASSUME NEW j \in i .. n
          PROVE  v[p[j]] >= w[i]
      <4>1. w[i] <= w[j] /\ w[j] = v[p[j]] /\ w[i] \in Int /\ w[j] \in Int
        BY <1>4, <1>6, <2>2
      <4> QED
        BY <4>1
    <3> QED
      BY <1>3, <2>2, <3>1
  <2>5. Below \subseteq 1 .. n /\ Above \subseteq 1 .. n
    OBVIOUS
  <2>6. AtMost(v, w[i]) = Cardinality(Below) /\ AtLeast(v, w[i]) = Cardinality(Above)
    BY <1>1 DEF AtMost, AtLeast
  <2> HIDE DEF Below, Above
  <2>7. /\ \A j, l \in 1 .. i : p[j] = p[l] => j = l
        /\ \A j, l \in i .. n : p[j] = p[l] => j = l
    BY <1>3, <2>2
  <2>8. Cardinality(Below) \in Nat /\ Cardinality(Below) >= i - 1 + 1
    BY <1>1, <2>1, <2>3, <2>5, <2>7, ManyAmong
  <2>9. Cardinality(Above) \in Nat /\ Cardinality(Above) >= n - i + 1
    BY <1>1, <2>1, <2>4, <2>5, <2>7, ManyAmong
  <2> QED
    BY <2>1, <2>6, <2>8, <2>9
<1>8. \A i \in 1 .. n : \E k \in 1 .. n : w[i] = v[k]
  BY <1>3, <1>4
<1>9. ASSUME NEW k \in 1 .. n
      PROVE  \E i \in 1 .. n : w[i] = v[k]
  <2>1. PICK i \in 1 .. n : p[i] = k
    BY <1>3
  <2>2. w[i] = v[k]
    BY <1>4, <2>1
  <2> QED
    BY <2>2
<1> QED
  BY <1>1, <1>5, <1>6, <1>7, <1>8, <1>9 DEF n, w

\* The position percentile() reads.
Position(p, n) == (2 * p * (n - 1) + 100) \div 200 + 1

\* c of n elements are p per cent of them, to within half an element.
Share(c, p, n) == 100 * c >= p * n - 50

\* It leaves its share of n elements on either side.
Divides(p, n) ==
  /\ Position(p, n) \in 1 .. n
  /\ Share(Position(p, n), p, n)
  /\ Share(n - Position(p, n) + 1, 100 - p, n)

LEMMA Positions ==
  ASSUME NEW n \in Nat, n >= 1, NEW p \in {50, 90, 95, 99}
  PROVE  Divides(p, n)
<1>1. CASE p = 50
  BY <1>1 DEF Divides, Position, Share
<1>2. CASE p = 90
  BY <1>2 DEF Divides, Position, Share
<1>3. CASE p = 95
  BY <1>3 DEF Divides, Position, Share
<1>4. CASE p = 99
  BY <1>4 DEF Divides, Position, Share
<1> QED
  BY <1>1, <1>2, <1>3, <1>4

LEMMA MoreIsEnough ==
  ASSUME NEW a \in Int, NEW b \in Int, a <= b, NEW p \in Int, NEW n \in Int, Share(a, p, n)
  PROVE  Share(b, p, n)
<1> DEFINE pn == p * n
<1>1. pn \in Int
  OBVIOUS
<1>2. 100 * a >= pn - 50
  BY DEF Share
<1> HIDE DEF pn
<1>3. 100 * b >= pn - 50
  BY <1>1, <1>2
<1> QED
  BY <1>3 DEF Share, pn

LEMMA PercentileShares ==
  ASSUME NEW v \in Seq(Int), v # << >>, NEW p \in {50, 90, 95, 99},
         NEW x, x = percentile(Ascending(v), p)
  PROVE  /\ Share(AtMost(v, x), p, Len(v))
         /\ Share(AtLeast(v, x), 100 - p, Len(v))
         /\ Ascending(v)[1] <= x /\ x <= Ascending(v)[Len(v)]
<1> DEFINE n == Len(v)
           w == Ascending(v)
           pos == Position(p, n)
<1>1. n \in Nat /\ n >= 1 /\ DOMAIN v = 1 .. n
  OBVIOUS
<1>2. Len(w) = n
  BY Ordered
<1>3. x = w[pos]
  BY <1>2 DEF percentile, Position
<1>4. pos \in 1 .. n /\ Share(pos, p, n) /\ Share(n - pos + 1, 100 - p, n)
  <2>1. Divides(p, n)
    BY <1>1, Positions
  <2> QED
    BY <2>1 DEF Divides
<1>5. /\ AtMost(v, w[pos]) >= pos /\ AtLeast(v, w[pos]) >= n - pos + 1
      /\ AtMost(v, w[pos]) \in Nat /\ AtLeast(v, w[pos]) \in Nat
  <2>1. pos \in DOMAIN v
    BY <1>1, <1>4
  <2> HIDE DEF pos
  <2> QED
    BY <2>1, Ordered
<1>6. w[1] <= w[pos] /\ w[pos] <= w[n]
  <2>1. \A i, j \in 1 .. n : i <= j => w[i] <= w[j]
    BY <1>1, Ordered, ZenonT(40)
  <2> HIDE DEF n, w, pos
  <2>2. 1 \in 1 .. n /\ n \in 1 .. n /\ 1 <= pos /\ pos <= n
    BY <1>1, <1>4
  <2> QED
    BY <1>4, <2>1, <2>2
<1> HIDE DEF n, w, pos
<1>7. pos \in Int /\ n - pos + 1 \in Int /\ p \in Int /\ 100 - p \in Int /\ n \in Int
  BY <1>1, <1>4
<1>8. Share(AtMost(v, w[pos]), p, n)
  <2> DEFINE m == AtMost(v, w[pos])
  <2>1. m \in Int /\ pos <= m
    BY <1>5, <1>7
  <2> HIDE DEF m
  <2>2. Share(m, p, n)
    BY <1>4, <1>7, <2>1, MoreIsEnough
  <2> QED
    BY <2>2 DEF m
<1>9. Share(AtLeast(v, w[pos]), 100 - p, n)
  <2> DEFINE m == AtLeast(v, w[pos])
             c == n - pos + 1
             q == 100 - p
  <2>1. m \in Int /\ c \in Int /\ c <= m /\ q \in Int /\ Share(c, q, n)
    BY <1>4, <1>5, <1>7
  <2> HIDE DEF m, c, q
  <2>2. Share(m, q, n)
    BY <1>7, <2>1, MoreIsEnough
  <2> QED
    BY <2>2 DEF m, q
<1> QED
  BY <1>3, <1>6, <1>8, <1>9 DEF n, w

\* All elements lie on their side of an end of the sorted vector.
LEMMA EndsBound ==
  ASSUME NEW v \in Seq(Int), v # << >>
  PROVE  /\ Ascending(v)[1] \in Int /\ Ascending(v)[Len(v)] \in Int
         /\ \A k \in DOMAIN v : Ascending(v)[1] <= v[k] /\ v[k] <= Ascending(v)[Len(v)]
         /\ AtLeast(v, Ascending(v)[1]) = Len(v)
         /\ AtMost(v, Ascending(v)[Len(v)]) = Len(v)
<1> DEFINE n == Len(v)
           w == Ascending(v)
<1>1. n \in Nat /\ n >= 1 /\ DOMAIN v = 1 .. n /\ \A k \in 1 .. n : v[k] \in Int
  OBVIOUS
<1>2. /\ w[1] \in Int /\ w[n] \in Int
      /\ \A k \in 1 .. n : \E i \in 1 .. n : w[i] = v[k]
      /\ \A i, j \in 1 .. n : i <= j => w[i] <= w[j]
  <2>1. /\ \A k \in 1 .. n : \E i \in 1 .. n : w[i] = v[k]
        /\ \A i, j \in 1 .. n : i <= j => w[i] <= w[j]
    BY <1>1, Ordered
  <2>2. w \in Seq(Int) /\ Len(w) = n
    BY Ordered
  <2> HIDE DEF n, w
  <2>3. w[1] \in Int /\ w[n] \in Int
    BY <1>1, <2>2
  <2> QED
    BY <2>1, <2>3
<1> HIDE DEF n, w
<1>3. ASSUME NEW k \in 1 .. n
      PROVE  w[1] <= v[k] /\ v[k] <= w[n]
  <2>1. PICK i \in 1 .. n : w[i] = v[k]
    BY <1>2
  <2>2. 1 <= i /\ i <= n /\ 1 \in 1 .. n /\ n \in 1 .. n
    BY <1>1
  <2> QED
    BY <1>2, <2>1, <2>2
<1>4. {k \in DOMAIN v : v[k] >= w[1]} = 1 .. n /\ {k \in DOMAIN v : v[k] <= w[n]} = 1 .. n
  BY <1>1, <1>2, <1>3
<1>5. Cardinality(1 .. n) = n
  <2>1. Cardinality(1 .. n) = IF 1 > n THEN 0 ELSE n - 1 + 1
    BY <1>1, FS_Interval
  <2> QED
    BY <1>1, <2>1
<1>6. AtLeast(v, w[1]) = n /\ AtMost(v, w[n]) = n
  BY <1>4, <1>5 DEF AtLeast, AtMost
<1> QED
  BY <1>1, <1>2, <1>3, <1>6 DEF n, w

\* What a row of the summary says.
LEMMA DumpDescribes ==
  ASSUME NEW v \in Seq(Int), v # << >>
  PROVE  /\ Describes(dump(v), v)
         /\ dump(v).count = Len(v)
         /\ dump(v).min = Ascending(v)[1] /\ dump(v).max = Ascending(v)[Len(v)]
<1> DEFINE w == Ascending(v)
           row == dump(v)
<1>1. w \in Seq(Int) /\ Len(w) = Len(v) /\ Len(v) \in Nat
  BY Ordered
<1>2. Head(w) = w[1] /\ Last(w) = w[Len(v)]
  BY <1>1 DEF Last
<1>3. /\ row.count = Len(v) /\ row.min = w[1] /\ row.max = w[Len(v)]
      /\ row.p50 = percentile(w, 50) /\ row.p90 = percentile(w, 90)
      /\ row.p95 = percentile(w, 95) /\ row.p99 = percentile(w, 99)
  BY <1>2 DEF dump
<1> HIDE DEF row, w
<1>4. AtLeast(v, row.min) = Len(v) /\ AtMost(v, row.max) = Len(v)
  BY <1>3, EndsBound DEF w
<1>5. ASSUME NEW p \in {50, 90, 95, 99}, NEW x, x = percentile(w, p)
      PROVE  /\ Share(AtMost(v, x), p, Len(v))
             /\ Share(AtLeast(v, x), 100 - p, Len(v))
             /\ row.min <= x /\ x <= row.max
  <2>1. x = percentile(Ascending(v), p)
    BY <1>5 DEF w
  <2>2. /\ Share(AtMost(v, x), p, Len(v))
        /\ Share(AtLeast(v, x), 100 - p, Len(v))
        /\ Ascending(v)[1] <= x /\ x <= Ascending(v)[Len(v)]
    BY <2>1, PercentileShares
  <2> QED
    BY <1>3, <2>2 DEF w
<1>6. ASSUME NEW q \in {<<50, row.p50>>, <<90, row.p90>>, <<95, row.p95>>, <<99, row.p99>>}
      PROVE  q[1] \in {50, 90, 95, 99} /\ q[2] = percentile(w, q[1])
  BY <1>3
<1>7. \A q \in {<<50, row.p50>>, <<90, row.p90>>, <<95, row.p95>>, <<99, row.p99>>} :
        /\ Share(AtMost(v, q[2]), q[1], Len(v))
        /\ Share(AtLeast(v, q[2]), 100 - q[1], Len(v))
        /\ row.min <= q[2] /\ q[2] <= row.max
  BY <1>5, <1>6
<1>8. Describes(row, v)
  BY <1>3, <1>4, <1>7 DEF Describes, Share
<1> QED
  BY <1>3, <1>8 DEF row, w

\* Induction, for a set of numbers.
LEMMA AllFromZero ==
  ASSUME NEW P, 0 \in P, \A m \in Nat : m \in P => m + 1 \in P
  PROVE  \A m \in Nat : m \in P
<1> DEFINE Missing == {m \in Nat : m \notin P}
<1>1. CASE Missing # {}
  <2>1. Missing \subseteq Nat
    OBVIOUS
  <2>2. PICK x \in Missing : \A y \in Missing : x <= y
    <3> HIDE DEF Missing
    <3>1. Min(Missing) \in Missing /\ \A y \in Missing : Min(Missing) <= y
      BY <1>1, <2>1, MinIsLeast
    <3> QED
      BY <3>1
  <2>3. x \in Nat /\ x # 0 /\ x \notin P
    OBVIOUS
  <2>4. x - 1 \in Nat /\ x - 1 \notin Missing /\ (x - 1) + 1 = x
    <3>1. x - 1 \in Nat /\ ~ (x <= x - 1) /\ (x - 1) + 1 = x
      BY <2>3
    <3> HIDE DEF Missing
    <3> QED
      BY <2>2, <3>1
  <2>5. x - 1 \in P
    BY <2>4
  <2> QED
    BY <2>3, <2>4, <2>5
<1>2. CASE Missing = {}
  BY <1>2
<1> QED
  BY <1>1, <1>2

\* The largest of a set of positions.
LEMMA LargestPosition ==
  ASSUME NEW m \in Nat, NEW s, s \subseteq 1 .. m + 1, m + 1 \in s
  PROVE  Max(s) = m + 1
<1>1. m + 1 \in s /\ \A y \in s : m + 1 >= y
  OBVIOUS
<1>2. Max(s) \in s /\ \A y \in s : Max(s) >= y
  BY <1>1 DEF Max
<1>3. Max(s) \in 1 .. m + 1
  BY <1>2
<1> QED
  BY <1>1, <1>2, <1>3

\* What FoldLeft computes on the subsets of the first m positions.
Folding(g, v, m) ==
  /\ g \in [SUBSET (1 .. m) -> Int]
  /\ \A s \in SUBSET (1 .. m) :
       g[s] = IF s = {} THEN 0 ELSE g[s \ {Max(s)}] + v[Max(s)]

LEMMA FoldingExists ==
  ASSUME NEW v \in Seq(Int)
  PROVE  \E g : Folding(g, v, Len(v))
<1> DEFINE n == Len(v)
           P == {m \in Nat : m <= n => \E g : Folding(g, v, m)}
<1>1. n \in Nat /\ \A k \in 1 .. n : v[k] \in Int
  OBVIOUS
<1> HIDE DEF n
<1>2. 0 \in P
  <2>1. 1 .. 0 = {}
    OBVIOUS
  <2>2. Folding([s \in SUBSET (1 .. 0) |-> 0], v, 0)
    BY <2>1 DEF Folding
  <2> QED
    BY <2>2
<1>3. ASSUME NEW m \in Nat, m \in P
      PROVE  m + 1 \in P
  <2> SUFFICES ASSUME m + 1 <= n
               PROVE  \E g : Folding(g, v, m + 1)
    OBVIOUS
  <2>1. m <= n /\ m + 1 \in 1 .. n
    BY <1>1
  <2>2. PICK g : Folding(g, v, m)
    BY <1>3, <2>1
  <2> HIDE DEF P
  <2> DEFINE h == [s \in SUBSET (1 .. m + 1) |->
                     IF m + 1 \in s THEN g[s \ {m + 1}] + v[m + 1] ELSE g[s]]
  <2>3. /\ \A s \in SUBSET (1 .. m + 1) : s \ {m + 1} \in SUBSET (1 .. m)
        /\ \A s \in SUBSET (1 .. m) : s \in SUBSET (1 .. m + 1) /\ m + 1 \notin s
        /\ \A s \in SUBSET (1 .. m + 1) : m + 1 \notin s => s \in SUBSET (1 .. m)
    <3>1. 1 .. m + 1 = 1 .. m \cup {m + 1} /\ m + 1 \notin 1 .. m
      OBVIOUS
    <3> QED
      BY <3>1
  <2>4. /\ \A s \in SUBSET (1 .. m) : g[s] \in Int
        /\ \A s \in SUBSET (1 .. m) :
             g[s] = IF s = {} THEN 0 ELSE g[s \ {Max(s)}] + v[Max(s)]
    BY <2>2 DEF Folding
  <2>5. ASSUME NEW s \in SUBSET (1 .. m + 1)
        PROVE  h[s] \in Int
    <3>1. CASE m + 1 \in s
      <4>1. g[s \ {m + 1}] \in Int /\ v[m + 1] \in Int
        BY <1>1, <2>1, <2>3, <2>4
      <4> QED
        BY <3>1, <4>1
    <3>2. CASE m + 1 \notin s
      BY <2>3, <2>4, <3>2
    <3> QED
      BY <3>1, <3>2
  <2>6. \A s \in SUBSET (1 .. m) : h[s] = g[s]
    BY <2>3
  <2>7. ASSUME NEW s \in SUBSET (1 .. m + 1)
        PROVE  h[s] = IF s = {} THEN 0 ELSE h[s \ {Max(s)}] + v[Max(s)]
    <3>1. CASE m + 1 \in s
      <4>1. Max(s) = m + 1
        BY <3>1, LargestPosition
      <4>2. h[s] = g[s \ {m + 1}] + v[m + 1] /\ h[s \ {m + 1}] = g[s \ {m + 1}]
        BY <3>1, <2>3, <2>6
      <4> HIDE DEF h
      <4> QED
        BY <3>1, <4>1, <4>2
    <3>2. CASE m + 1 \notin s
      <4>1. s \in SUBSET (1 .. m) /\ s \ {Max(s)} \in SUBSET (1 .. m)
        BY <2>3, <3>2
      <4>2. h[s] = g[s] /\ h[s \ {Max(s)}] = g[s \ {Max(s)}]
        BY <2>6, <4>1
      <4> HIDE DEF h
      <4> QED
        BY <2>4, <4>1, <4>2
    <3> QED
      BY <3>1, <3>2
  <2>8. Folding(h, v, m + 1)
    <3>1. h \in [SUBSET (1 .. m + 1) -> Int]
      BY <2>5
    <3> HIDE DEF h
    <3> QED
      BY <2>7, <3>1 DEF Folding
  <2> QED
    BY <2>8
<1>4. \A m \in Nat : m \in P
  <2> HIDE DEF P
  <2> QED
    BY <1>2, <1>3, AllFromZero
<1>5. \E g : Folding(g, v, n)
  BY <1>1, <1>4
<1> QED
  BY <1>5 DEF n

\* The sums of the first elements.
PartialSums(f, v) ==
  /\ f \in [0 .. Len(v) -> Int]
  /\ f[0] = 0
  /\ \A m \in 1 .. Len(v) : f[m] = f[m - 1] + v[m]

LEMMA TotalIsLastSum ==
  ASSUME NEW v \in Seq(Int)
  PROVE  \E f : PartialSums(f, v) /\ Total(v) = f[Len(v)]
<1> DEFINE n == Len(v)
           It(i) == [s \in SUBSET (DOMAIN v) |->
                       IF s = {} THEN 0 ELSE i[s \ {Max(s)}] + v[Max(s)]]
           iter == CHOOSE i : i = It(i)
<1>1. n \in Nat /\ DOMAIN v = 1 .. n /\ \A k \in 1 .. n : v[k] \in Int
  OBVIOUS
<1>2. Total(v) = iter[DOMAIN v]
  BY DEF Total, FoldLeft, MapThenFoldSet
<1>3. \E i : i = It(i)
  <2>1. PICK g : Folding(g, v, n)
    BY FoldingExists
  <2>2. g = It(g)
    BY <1>1, <2>1 DEF Folding
  <2> QED
    BY <2>2
<1>4. iter = It(iter)
  BY <1>3
<1> HIDE DEF iter
<1>5. \A s \in SUBSET (1 .. n) :
        iter[s] = IF s = {} THEN 0 ELSE iter[s \ {Max(s)}] + v[Max(s)]
  <2>1. \A s \in SUBSET (DOMAIN v) :
          It(iter)[s] = IF s = {} THEN 0 ELSE iter[s \ {Max(s)}] + v[Max(s)]
    OBVIOUS
  <2> QED
    BY <1>1, <1>4, <2>1
<1> HIDE DEF n, It
<1>6. iter[1 .. 0] = 0
  <2>1. 1 .. 0 = {} /\ {} \in SUBSET (1 .. n)
    OBVIOUS
  <2> QED
    BY <1>5, <2>1
<1>7. ASSUME NEW m \in 1 .. n
      PROVE  iter[1 .. m] = iter[1 .. (m - 1)] + v[m]
  <2>1. PICK k \in Nat : m = k + 1
    <3>1. m - 1 \in Nat /\ m = (m - 1) + 1
      BY <1>1
    <3> QED
      BY <3>1
  <2>2. Max(1 .. m) = m
    <3>1. 1 .. m \subseteq 1 .. k + 1 /\ k + 1 \in 1 .. m
      BY <2>1
    <3> QED
      BY <2>1, <3>1, LargestPosition
  <2>3. (1 .. m) \ {m} = 1 .. (m - 1) /\ 1 .. m # {} /\ 1 .. m \in SUBSET (1 .. n)
    <3>1. m \in Int /\ 1 <= m /\ m <= n
      BY <1>1
    <3>2. \A j : j \in (1 .. m) \ {m} <=> j \in 1 .. (m - 1)
      BY <3>1
    <3>3. m \in 1 .. m /\ \A j \in 1 .. m : j \in 1 .. n
      BY <1>1, <3>1
    <3> QED
      BY <3>2, <3>3
  <2> QED
    BY <1>5, <2>2, <2>3
<1> DEFINE f == [m \in 0 .. n |-> iter[1 .. m]]
           P == {m \in Nat : m <= n => iter[1 .. m] \in Int}
<1>8. \A m \in Nat : m \in P
  <2>1. 0 \in P
    BY <1>6
  <2>2. ASSUME NEW m \in Nat, m \in P
        PROVE  m + 1 \in P
    <3> SUFFICES ASSUME m + 1 <= n
                 PROVE  iter[1 .. m + 1] \in Int
      OBVIOUS
    <3>1. m <= n /\ m + 1 \in 1 .. n /\ (m + 1) - 1 = m
      BY <1>1
    <3>2. iter[1 .. m] \in Int /\ v[m + 1] \in Int
      BY <1>1, <2>2, <3>1
    <3>3. iter[1 .. m + 1] = iter[1 .. m] + v[m + 1]
      BY <1>7, <3>1
    <3> QED
      BY <3>2, <3>3
  <2> HIDE DEF P
  <2> QED
    BY <2>1, <2>2, AllFromZero
<1>9. PartialSums(f, v)
  <2>1. f \in [0 .. n -> Int]
    BY <1>1, <1>8
  <2>2. f[0] = 0
    BY <1>1, <1>6
  <2>3. \A m \in 1 .. n : f[m] = f[m - 1] + v[m]
    BY <1>1, <1>7
  <2> QED
    BY <2>1, <2>2, <2>3 DEF PartialSums, n
<1>10. Total(v) = f[n]
  BY <1>1, <1>2
<1> QED
  BY <1>9, <1>10 DEF n

LEMMA TotalBetween ==
  ASSUME NEW v \in Seq(Int), NEW lo \in Int, NEW hi \in Int,
         \A k \in DOMAIN v : lo <= v[k] /\ v[k] <= hi
  PROVE  Total(v) \in Int /\ lo * Len(v) <= Total(v) /\ Total(v) <= hi * Len(v)
<1> DEFINE n == Len(v)
<1>1. n \in Nat /\ DOMAIN v = 1 .. n /\ \A k \in 1 .. n : v[k] \in Int
  OBVIOUS
<1>2. PICK f : PartialSums(f, v) /\ Total(v) = f[n]
  BY TotalIsLastSum
<1>3. /\ f[0] = 0 /\ \A m \in 0 .. n : f[m] \in Int
      /\ \A m \in 1 .. n : f[m] = f[m - 1] + v[m]
  BY <1>2 DEF PartialSums
<1> HIDE DEF n
<1> DEFINE P == {m \in Nat : m <= n => lo * m <= f[m] /\ f[m] <= hi * m}
<1>4. 0 \in P
  BY <1>3
<1>5. ASSUME NEW m \in Nat, m \in P
      PROVE  m + 1 \in P
  <2> SUFFICES ASSUME m + 1 <= n
               PROVE  lo * (m + 1) <= f[m + 1] /\ f[m + 1] <= hi * (m + 1)
    OBVIOUS
  <2>1. m <= n /\ m \in 0 .. n /\ m + 1 \in 1 .. n /\ (m + 1) - 1 = m
    BY <1>1
  <2>2. lo * m <= f[m] /\ f[m] <= hi * m
    BY <1>5, <2>1
  <2>3. f[m + 1] = f[m] + v[m + 1] /\ v[m + 1] \in Int /\ f[m] \in Int
        /\ lo <= v[m + 1] /\ v[m + 1] <= hi
    BY <1>1, <1>3, <2>1
  <2> DEFINE lom == lo * m
             him == hi * m
  <2>4. lo * (m + 1) = lom + lo /\ hi * (m + 1) = him + hi /\ lom \in Int /\ him \in Int
    OBVIOUS
  <2>5. lom <= f[m] /\ f[m] <= him
    BY <2>2
  <2> HIDE DEF lom, him
  <2>6. lom + lo <= f[m] + v[m + 1] /\ f[m] + v[m + 1] <= him + hi
    BY <2>3, <2>4, <2>5
  <2> QED
    BY <2>3, <2>4, <2>6
<1>6. \A m \in Nat : m \in P
  <2> HIDE DEF P
  <2> QED
    BY <1>4, <1>5, AllFromZero
<1>7. lo * n <= f[n] /\ f[n] <= hi * n
  BY <1>1, <1>6
<1>8. f[n] \in Int
  BY <1>1, <1>3
<1> QED
  BY <1>2, <1>7, <1>8 DEF n

\* The sequences of the first i ones end to end.
Joining(h, seqs, m) ==
  /\ h \in [1 .. m -> Seq(Int)]
  /\ \A i \in 1 .. m : h[i] = IF i = 1 THEN seqs[i] ELSE h[i - 1] \o seqs[i]

LEMMA JoiningExists ==
  ASSUME NEW seqs \in Seq(Seq(Int))
  PROVE  \E h : Joining(h, seqs, Len(seqs))
<1> DEFINE n == Len(seqs)
           P == {m \in Nat : m <= n => \E h : Joining(h, seqs, m)}
<1>1. n \in Nat /\ \A k \in 1 .. n : seqs[k] \in Seq(Int)
  OBVIOUS
<1> HIDE DEF n
<1>2. 0 \in P
  <2>1. 1 .. 0 = {}
    OBVIOUS
  <2>2. Joining([i \in 1 .. 0 |-> << >>], seqs, 0)
    BY <2>1 DEF Joining
  <2> QED
    BY <2>2
<1>3. ASSUME NEW m \in Nat, m \in P
      PROVE  m + 1 \in P
  <2> SUFFICES ASSUME m + 1 <= n
               PROVE  \E h : Joining(h, seqs, m + 1)
    OBVIOUS
  <2>1. m <= n /\ seqs[m + 1] \in Seq(Int)
    BY <1>1
  <2>2. PICK h : Joining(h, seqs, m)
    BY <1>3, <2>1
  <2> HIDE DEF P
  <2>3. /\ \A i \in 1 .. m : h[i] \in Seq(Int)
        /\ \A i \in 1 .. m : h[i] = IF i = 1 THEN seqs[i] ELSE h[i - 1] \o seqs[i]
    BY <2>2 DEF Joining
  <2> DEFINE last == IF m = 0 THEN seqs[1] ELSE h[m] \o seqs[m + 1]
             g == [i \in 1 .. m + 1 |-> IF i = m + 1 THEN last ELSE h[i]]
  <2>4. last \in Seq(Int)
    <3>1. CASE m = 0
      BY <2>1, <3>1
    <3>2. CASE m # 0
      <4>1. h[m] \in Seq(Int)
        BY <2>3, <3>2
      <4> QED
        BY <2>1, <3>2, <4>1
    <3> QED
      BY <3>1, <3>2
  <2>5. g[m + 1] = last /\ \A i \in 1 .. m : g[i] = h[i]
    <3> HIDE DEF last
    <3>1. m + 1 \in 1 .. m + 1 /\ m + 1 \notin 1 .. m /\ \A i \in 1 .. m : i \in 1 .. m + 1
      OBVIOUS
    <3> QED
      BY <3>1
  <2>6. \A i \in 1 .. m + 1 : i = m + 1 \/ i \in 1 .. m
    OBVIOUS
  <2>7. g \in [1 .. m + 1 -> Seq(Int)]
    BY <2>3, <2>4, <2>6
  <2> HIDE DEF g
  <2>8. ASSUME NEW i \in 1 .. m + 1
        PROVE  g[i] = IF i = 1 THEN seqs[i] ELSE g[i - 1] \o seqs[i]
    <3>1. CASE i \in 1 .. m
      <4>1. i = 1 \/ i - 1 \in 1 .. m
        BY <3>1
      <4> QED
        BY <2>3, <2>5, <3>1, <4>1
    <3>2. CASE i = m + 1
      <4>1. CASE m = 0
        BY <2>5, <3>2, <4>1
      <4>2. CASE m # 0
        <5>1. i # 1 /\ i - 1 = m /\ m \in 1 .. m
          BY <3>2, <4>2
        <5> QED
          BY <2>5, <3>2, <4>2, <5>1
      <4> QED
        BY <4>1, <4>2
    <3> QED
      BY <2>6, <3>1, <3>2
  <2>9. Joining(g, seqs, m + 1)
    BY <2>7, <2>8 DEF Joining
  <2> QED
    BY <2>9
<1>4. \A m \in Nat : m \in P
  <2> HIDE DEF P
  <2> QED
    BY <1>2, <1>3, AllFromZero
<1>5. \E h : Joining(h, seqs, n)
  <2>1. n \in P
    <3> HIDE DEF P
    <3> QED
      BY <1>1, <1>4
  <2>2. n <= n => \E h : Joining(h, seqs, n)
    BY <2>1
  <2> QED
    BY <1>1, <2>2
<1> QED
  BY <1>5 DEF n

LEMMA FlattenIsJoining ==
  ASSUME NEW seqs \in Seq(Seq(Int)), Len(seqs) >= 1
  PROVE  \E h : Joining(h, seqs, Len(seqs)) /\ FlattenSeq(seqs) = h[Len(seqs)]
<1> DEFINE n == Len(seqs)
           Fl(f) == [i \in 1 .. n |-> IF i = 1 THEN seqs[i] ELSE f[i - 1] \o seqs[i]]
           flatten == CHOOSE f : f = Fl(f)
<1>1. n \in Nat /\ n # 0 /\ \A k \in 1 .. n : seqs[k] \in Seq(Int)
  OBVIOUS
<1>2. FlattenSeq(seqs) = flatten[n]
  BY <1>1 DEF FlattenSeq
<1>3. \E f : f = Fl(f)
  <2>1. PICK h : Joining(h, seqs, n)
    BY JoiningExists
  <2>2. h = Fl(h)
    BY <2>1 DEF Joining
  <2> QED
    BY <2>2
<1>4. flatten = Fl(flatten)
  BY <1>3
<1> HIDE DEF flatten
<1>5. /\ DOMAIN flatten = 1 .. n
      /\ \A i \in 1 .. n : flatten[i] = IF i = 1 THEN seqs[i] ELSE flatten[i - 1] \o seqs[i]
  <2>1. /\ DOMAIN Fl(flatten) = 1 .. n
        /\ \A i \in 1 .. n :
             Fl(flatten)[i] = IF i = 1 THEN seqs[i] ELSE flatten[i - 1] \o seqs[i]
    OBVIOUS
  <2> QED
    BY <1>4, <2>1
<1>6. flatten = [i \in 1 .. n |-> flatten[i]]
  <2>1. Fl(flatten) = [i \in DOMAIN Fl(flatten) |-> Fl(flatten)[i]]
    OBVIOUS
  <2> QED
    BY <1>4, <1>5, <2>1
<1> HIDE DEF n, Fl
<1> DEFINE P == {m \in Nat : m + 1 <= n => flatten[m + 1] \in Seq(Int)}
<1>7. 0 \in P
  <2>1. 1 \in 1 .. n /\ 0 + 1 = 1
    BY <1>1
  <2>2. flatten[1] \in Seq(Int)
    BY <1>1, <1>5, <2>1
  <2> QED
    BY <2>1, <2>2
<1>8. ASSUME NEW m \in Nat, m \in P
      PROVE  m + 1 \in P
  <2> SUFFICES ASSUME m + 1 + 1 <= n
               PROVE  flatten[m + 1 + 1] \in Seq(Int)
    OBVIOUS
  <2>1. m + 1 <= n /\ m + 1 + 1 \in 1 .. n /\ m + 1 + 1 # 1 /\ (m + 1 + 1) - 1 = m + 1
    BY <1>1
  <2>2. flatten[m + 1] \in Seq(Int) /\ seqs[m + 1 + 1] \in Seq(Int)
    BY <1>1, <1>8, <2>1
  <2>3. flatten[m + 1 + 1] = flatten[m + 1] \o seqs[m + 1 + 1]
    BY <1>5, <2>1
  <2> QED
    BY <2>2, <2>3
<1>9. \A m \in Nat : m \in P
  <2> HIDE DEF P
  <2> QED
    BY <1>7, <1>8, AllFromZero
<1>10. \A i \in 1 .. n : flatten[i] \in Seq(Int)
  <2> SUFFICES ASSUME NEW i \in 1 .. n
               PROVE  flatten[i] \in Seq(Int)
    OBVIOUS
  <2>1. i - 1 \in Nat /\ (i - 1) + 1 = i /\ i <= n
    BY <1>1
  <2>2. i - 1 \in P
    BY <1>9, <2>1
  <2> QED
    BY <2>1, <2>2
<1>11. Joining(flatten, seqs, n)
  BY <1>5, <1>6, <1>10 DEF Joining
<1> QED
  BY <1>2, <1>11 DEF n

\* What FlattenSeq puts end to end is all there, and nothing else.
LEMMA FlattenKeeps ==
  ASSUME NEW seqs \in Seq(Seq(Int)), Len(seqs) >= 1
  PROVE  /\ FlattenSeq(seqs) \in Seq(Int)
         /\ Len(FlattenSeq(seqs)) = Total([k \in DOMAIN seqs |-> Len(seqs[k])])
         /\ \A j \in 1 .. Len(FlattenSeq(seqs)) :
              \E k \in DOMAIN seqs : \E l \in 1 .. Len(seqs[k]) : FlattenSeq(seqs)[j] = seqs[k][l]
         /\ \A k \in DOMAIN seqs : \A l \in 1 .. Len(seqs[k]) :
              \E j \in 1 .. Len(FlattenSeq(seqs)) : FlattenSeq(seqs)[j] = seqs[k][l]
<1> DEFINE n == Len(seqs)
           lens == [k \in DOMAIN seqs |-> Len(seqs[k])]
<1>1. n \in Nat /\ n >= 1 /\ DOMAIN seqs = 1 .. n /\ \A k \in 1 .. n : seqs[k] \in Seq(Int)
  OBVIOUS
<1>2. PICK h : Joining(h, seqs, n) /\ FlattenSeq(seqs) = h[n]
  BY FlattenIsJoining
<1>3. /\ \A i \in 1 .. n : h[i] \in Seq(Int)
      /\ \A i \in 1 .. n : h[i] = IF i = 1 THEN seqs[i] ELSE h[i - 1] \o seqs[i]
  BY <1>2 DEF Joining
<1>4. lens \in Seq(Int) /\ Len(lens) = n
  BY <1>1
<1>5. PICK f : PartialSums(f, lens) /\ Total(lens) = f[n]
  BY <1>4, TotalIsLastSum
<1>6. f[0] = 0 /\ \A m \in 1 .. n : f[m] = f[m - 1] + Len(seqs[m]) /\ f[m - 1] \in Int
  <2>1. \A m \in 1 .. n : lens[m] = Len(seqs[m])
    BY <1>1
  <2>2. \A m \in 1 .. n : m - 1 \in 0 .. n
    BY <1>1
  <2> HIDE DEF n, lens
  <2>3. /\ f[0] = 0 /\ \A m \in 0 .. n : f[m] \in Int
        /\ \A m \in 1 .. n : f[m] = f[m - 1] + lens[m]
    BY <1>4, <1>5 DEF PartialSums
  <2> QED
    BY <2>1, <2>2, <2>3
<1> HIDE DEF n, lens
<1> DEFINE Holds(i) ==
             /\ Len(h[i]) = f[i]
             /\ \A j \in 1 .. Len(h[i]) : \E k \in 1 .. i : \E l \in 1 .. Len(seqs[k]) :
                  h[i][j] = seqs[k][l]
             /\ \A k \in 1 .. i : \A l \in 1 .. Len(seqs[k]) : \E j \in 1 .. Len(h[i]) :
                  h[i][j] = seqs[k][l]
           P == {m \in Nat : m + 1 <= n => Holds(m + 1)}
<1>7. 0 \in P
  <2>1. 1 \in 1 .. n /\ h[1] = seqs[1] /\ 1 .. 1 = {1}
    <3>1. 1 \in 1 .. n /\ 1 .. 1 = {1}
      BY <1>1
    <3> QED
      BY <1>3, <3>1
  <2>2. f[1] = Len(seqs[1])
    <3>1. f[1] = f[1 - 1] + Len(seqs[1]) /\ 1 - 1 = 0 /\ Len(seqs[1]) \in Nat
      BY <1>1, <1>6, <2>1
    <3> QED
      BY <1>6, <3>1
  <2>3. Holds(1)
    BY <2>1, <2>2
  <2> HIDE DEF Holds
  <2> QED
    BY <2>3
<1>8. ASSUME NEW m \in Nat, m \in P
      PROVE  m + 1 \in P
  <2> DEFINE i == m + 1
             i1 == m + 1 + 1
             a == h[i]
             b == seqs[i1]
  <2> SUFFICES ASSUME i1 <= n
               PROVE  Holds(i1)
    BY DEF P
  <2>1. /\ i \in 1 .. n /\ i1 \in 1 .. n /\ i1 # 1 /\ i1 - 1 = i
        /\ 1 .. i1 = 1 .. i \cup {i1}
    BY <1>1
  <2>2. Holds(i)
    BY <1>8, <2>1 DEF P
  <2>3. h[i1] = a \o b /\ a \in Seq(Int) /\ b \in Seq(Int)
    BY <1>1, <1>3, <2>1
  <2>4. f[i1] = f[i] + Len(b)
    BY <1>6, <2>1
  <2> HIDE DEF P, i, i1, a, b
  <2>5. /\ Len(h[i1]) = Len(a) + Len(b) /\ Len(a) \in Nat /\ Len(b) \in Nat
        /\ \A j \in 1 .. Len(a) : h[i1][j] = a[j]
        /\ \A l \in 1 .. Len(b) : h[i1][Len(a) + l] = b[l]
    BY <2>3
  <2>6. Len(h[i1]) = f[i1]
    BY <2>2, <2>4, <2>5 DEF a
  <2>7. ASSUME NEW j \in 1 .. Len(h[i1])
        PROVE  \E k \in 1 .. i1 : \E l \in 1 .. Len(seqs[k]) : h[i1][j] = seqs[k][l]
    <3>1. CASE j \in 1 .. Len(a)
      <4>1. \E k \in 1 .. i : \E l \in 1 .. Len(seqs[k]) : a[j] = seqs[k][l]
        BY <2>2, <3>1 DEF a
      <4> QED
        BY <2>1, <2>5, <3>1, <4>1
    <3>2. CASE j \notin 1 .. Len(a)
      <4>1. PICK l \in 1 .. Len(b) : j = Len(a) + l
        <5>1. j - Len(a) \in 1 .. Len(b) /\ j = Len(a) + (j - Len(a))
          BY <2>5, <3>2
        <5> QED
          BY <5>1
      <4>2. h[i1][j] = seqs[i1][l] /\ l \in 1 .. Len(seqs[i1])
        BY <2>5, <4>1 DEF b
      <4> QED
        BY <2>1, <4>2
    <3> QED
      BY <3>1, <3>2
  <2>8. ASSUME NEW k \in 1 .. i1, NEW l \in 1 .. Len(seqs[k])
        PROVE  \E j \in 1 .. Len(h[i1]) : h[i1][j] = seqs[k][l]
    <3>1. CASE k \in 1 .. i
      <4>1. PICK j \in 1 .. Len(a) : a[j] = seqs[k][l]
        BY <2>2, <3>1 DEF a
      <4>2. j \in 1 .. Len(h[i1]) /\ h[i1][j] = a[j]
        BY <2>5, <4>1, SMTT(30)
      <4> QED
        BY <4>1, <4>2
    <3>2. CASE k = i1
      <4>1. l \in 1 .. Len(b) /\ b[l] = seqs[k][l]
        BY <3>2 DEF b
      <4>2. Len(a) + l \in 1 .. Len(h[i1]) /\ h[i1][Len(a) + l] = b[l]
        BY <2>5, <4>1
      <4> QED
        BY <4>1, <4>2
    <3> QED
      BY <2>1, <3>1, <3>2
  <2> QED
    BY <2>6, <2>7, <2>8
<1>9. \A m \in Nat : m \in P
  <2> HIDE DEF P
  <2> QED
    BY <1>7, <1>8, AllFromZero
<1>10. Holds(n)
  <2>1. n - 1 \in Nat /\ (n - 1) + 1 = n /\ n <= n
    BY <1>1
  <2>2. n - 1 \in P
    BY <1>9, <2>1
  <2> HIDE DEF Holds
  <2> QED
    BY <2>1, <2>2
<1>11. h[n] \in Seq(Int)
  BY <1>1, <1>3
<1>12. Len(h[n]) = Total(lens)
  BY <1>5, <1>10
<1>13. /\ \A j \in 1 .. Len(h[n]) : \E k \in 1 .. n : \E l \in 1 .. Len(seqs[k]) :
            h[n][j] = seqs[k][l]
       /\ \A k \in 1 .. n : \A l \in 1 .. Len(seqs[k]) : \E j \in 1 .. Len(h[n]) :
            h[n][j] = seqs[k][l]
  BY <1>10
<1> HIDE DEF Holds
<1> DEFINE flat == FlattenSeq(seqs)
<1>14. flat = h[n]
  BY <1>2
<1>15. flat \in Seq(Int) /\ Len(flat) = Total(lens)
  BY <1>11, <1>12, <1>14
<1>16. /\ \A j \in 1 .. Len(flat) : \E k \in DOMAIN seqs : \E l \in 1 .. Len(seqs[k]) :
            flat[j] = seqs[k][l]
       /\ \A k \in DOMAIN seqs : \A l \in 1 .. Len(seqs[k]) : \E j \in 1 .. Len(flat) :
            flat[j] = seqs[k][l]
  <2> HIDE DEF flat
  <2>1. /\ \A j \in 1 .. Len(flat) : \E k \in 1 .. n : \E l \in 1 .. Len(seqs[k]) :
             flat[j] = seqs[k][l]
        /\ \A k \in 1 .. n : \A l \in 1 .. Len(seqs[k]) : \E j \in 1 .. Len(flat) :
             flat[j] = seqs[k][l]
    BY <1>13, <1>14, Zenon
  <2> QED
    BY <1>1, <2>1, Zenon
<1>17. Len(flat) = Total([k \in DOMAIN seqs |-> Len(seqs[k])])
  BY <1>15 DEF lens
<1> HIDE DEF lens
<1> QED
  BY <1>15, <1>16, <1>17

-----------------------------------------------------------------------------
(* The summary.                                                            *)

LEMMA LatenciesOfRows ==
  ASSUME NEW rows \in Seq(Row)
  PROVE  /\ Latencies(rows) \in Seq(Int) /\ Len(Latencies(rows)) = Len(rows)
         /\ rows # << >> => Latencies(rows) # << >>
<1> DEFINE v == Latencies(rows)
<1>1. Len(rows) \in Nat /\ DOMAIN rows = 1 .. Len(rows) /\ \A k \in 1 .. Len(rows) : rows[k] \in Row
  OBVIOUS
<1>2. \A k \in 1 .. Len(rows) : rows[k].t_start - rows[k].t_reference \in Int
  BY <1>1 DEF Row
<1>3. v = [k \in 1 .. Len(rows) |-> rows[k].t_start - rows[k].t_reference]
  BY <1>1 DEF Latencies
<1> HIDE DEF v
<1>4. v \in Seq(Int) /\ Len(v) = Len(rows)
  BY <1>1, <1>2, <1>3
<1>5. rows # << >> => v # << >>
  BY <1>4
<1> QED
  BY <1>4, <1>5 DEF v

LEMMA LeastOf ==
  ASSUME NEW S, S \subseteq Int, NEW x \in S, \A y \in S : x <= y
  PROVE  Min(S) = x
<1>1. Min(S) \in S /\ \A y \in S : Min(S) <= y
  BY DEF Min
<1>2. Min(S) \in Int /\ x \in Int /\ Min(S) <= x /\ x <= Min(S)
  BY <1>1
<1> QED
  BY <1>2

LEMMA GreatestOf ==
  ASSUME NEW S, S \subseteq Int, NEW x \in S, \A y \in S : y <= x
  PROVE  Max(S) = x
<1>1. \A y \in S : x >= y
  OBVIOUS
<1>2. Max(S) \in S /\ \A y \in S : Max(S) >= y
  BY <1>1 DEF Max
<1>3. Max(S) \in Int /\ x \in Int /\ Max(S) >= x /\ x >= Max(S)
  BY <1>1, <1>2
<1> QED
  BY <1>3

\* The registry lists the recorders topic by topic.
LEMMA RecordersByTopic ==
  ASSUME IInv
  PROVE  recorders(recs) = [k \in 1 .. num_topics |-> recs[k - 1]]
<1> DEFINE n == num_topics
<1>1. n \in Nat /\ n >= 1 /\ Topics = 0 .. n - 1
  BY NumTopicsPositive DEF Topics
<1>2. DOMAIN recs = Topics
  BY DEF IInv, Types
<1> HIDE DEF n
<1>3. Cardinality(DOMAIN recs) = n
  <2>1. 0 \in Int /\ n - 1 \in Int /\ ~ (0 > n - 1)
    BY <1>1
  <2>2. Cardinality(0 .. n - 1) = IF 0 > n - 1 THEN 0 ELSE (n - 1) - 0 + 1
    BY <2>1, FS_Interval
  <2> QED
    BY <1>1, <1>2, <2>1, <2>2
<1>4. recorders(recs) = [k \in 1 .. n |-> recs[k - 1]]
  BY <1>3 DEF recorders
<1> QED
  BY <1>4 DEF n

\* The latencies of all subscriptions are those of each of them, and as
\* many as samples were received.
LEMMA AllOfThem ==
  ASSUME IInv
  PROVE  /\ AllLatencies(recs) \in Seq(Int)
         /\ Len(AllLatencies(recs)) = total_received(recs)
         /\ \A j \in 1 .. Len(AllLatencies(recs)) :
              \E i \in Topics : \E l \in 1 .. Len(Latencies(recs[i].rows)) :
                AllLatencies(recs)[j] = Latencies(recs[i].rows)[l]
         /\ \A i \in Topics : \A l \in 1 .. Len(Latencies(recs[i].rows)) :
              \E j \in 1 .. Len(AllLatencies(recs)) :
                AllLatencies(recs)[j] = Latencies(recs[i].rows)[l]
<1> DEFINE n == num_topics
           seqs == [k \in DOMAIN recorders(recs) |-> Latencies(recorders(recs)[k].rows)]
<1>1. n \in Nat /\ n >= 1 /\ Topics = 0 .. n - 1
  BY NumTopicsPositive DEF Topics
<1>2. DOMAIN recs = Topics /\ \A i \in Topics : recs[i].rows \in Seq(Row)
  BY DEF IInv, Types
<1> HIDE DEF n
<1>4. recorders(recs) = [k \in 1 .. n |-> recs[k - 1]]
  BY RecordersByTopic DEF n
<1>5. DOMAIN recorders(recs) = 1 .. n /\ \A k \in 1 .. n : recorders(recs)[k] = recs[k - 1]
  BY <1>4
<1>6. /\ \A k \in 1 .. n : k - 1 \in Topics
      /\ \A i \in Topics : i + 1 \in 1 .. n /\ (i + 1) - 1 = i
  BY <1>1
<1>7. DOMAIN seqs = 1 .. n /\ \A k \in 1 .. n : seqs[k] = Latencies(recs[k - 1].rows)
  BY <1>5
<1>8. seqs = [k \in 1 .. n |-> Latencies(recs[k - 1].rows)]
  BY <1>5
<1>9. AllLatencies(recs) = FlattenSeq(seqs)
  BY DEF AllLatencies
<1> HIDE DEF seqs
<1>10. \A k \in 1 .. n : seqs[k] \in Seq(Int) /\ Len(seqs[k]) = Len(recorders(recs)[k].rows)
  BY <1>2, <1>5, <1>6, <1>7, LatenciesOfRows
<1>11. seqs \in Seq(Seq(Int)) /\ Len(seqs) = n
  <2>1. seqs \in [1 .. n -> Seq(Int)]
    BY <1>7, <1>8, <1>10
  <2> QED
    BY <1>1, <2>1
<1>12. [k \in DOMAIN seqs |-> Len(seqs[k])]
         = [k \in DOMAIN recorders(recs) |-> Len(recorders(recs)[k].rows)]
  BY <1>5, <1>7, <1>10
<1> DEFINE all == FlattenSeq(seqs)
<1>13. /\ all \in Seq(Int)
       /\ Len(all) = Total([k \in DOMAIN seqs |-> Len(seqs[k])])
       /\ \A j \in 1 .. Len(all) :
            \E k \in DOMAIN seqs : \E l \in 1 .. Len(seqs[k]) : all[j] = seqs[k][l]
       /\ \A k \in DOMAIN seqs : \A l \in 1 .. Len(seqs[k]) :
            \E j \in 1 .. Len(all) : all[j] = seqs[k][l]
  BY <1>1, <1>11, FlattenKeeps
<1>14. Len(all) = total_received(recs)
  BY <1>12, <1>13 DEF total_received
<1> HIDE DEF all
<1>15. ASSUME NEW j \in 1 .. Len(all)
       PROVE  \E i \in Topics : \E l \in 1 .. Len(Latencies(recs[i].rows)) :
                all[j] = Latencies(recs[i].rows)[l]
  <2>1. PICK k \in 1 .. n : \E l \in 1 .. Len(seqs[k]) : all[j] = seqs[k][l]
    BY <1>7, <1>13
  <2> QED
    BY <1>6, <1>7, <2>1
<1>16. ASSUME NEW i \in Topics, NEW l \in 1 .. Len(Latencies(recs[i].rows))
       PROVE  \E j \in 1 .. Len(all) : all[j] = Latencies(recs[i].rows)[l]
  <2>1. PICK k \in 1 .. n : k - 1 = i
    BY <1>6
  <2>2. seqs[k] = Latencies(recs[i].rows) /\ k \in DOMAIN seqs
    BY <1>7, <2>1
  <2>3. \A m \in DOMAIN seqs : \A o \in 1 .. Len(seqs[m]) :
          \E j \in 1 .. Len(all) : all[j] = seqs[m][o]
    BY <1>13
  <2>4. \A o \in 1 .. Len(seqs[k]) : \E j \in 1 .. Len(all) : all[j] = seqs[k][o]
    BY <2>2, <2>3, Zenon
  <2> QED
    BY <2>2, <2>4, Zenon
<1>17. AllLatencies(recs) = all
  BY <1>9 DEF all
<1> QED
  BY <1>13, <1>14, <1>15, <1>16, <1>17

\* The row of all subscriptions counts and bounds the rows of each.
TellsAll(row, sum) ==
  /\ row.count = total_received(recs)
  /\ row.min = Min({sum[i].min : i \in WithRows(recs)})
  /\ row.max = Max({sum[i].max : i \in WithRows(recs)})
  /\ row.min * row.count <= latency_sum(recs)
  /\ latency_sum(recs) <= row.max * row.count

LEMMA RowOfAll ==
  ASSUME IInv, WithRows(recs) # {}, NEW row, row = dump(AllLatencies(recs)),
         NEW sum, sum = [i \in WithRows(recs) |-> dump(Latencies(recs[i].rows))]
  PROVE  TellsAll(row, sum)
<1> DEFINE A == AllLatencies(recs)
           L(i) == Latencies(recs[i].rows)
           W == WithRows(recs)
           Mins == {sum[i].min : i \in W}
           Maxs == {sum[i].max : i \in W}
           lo == Ascending(A)[1]
           hi == Ascending(A)[Len(A)]
           least(i) == Ascending(L(i))[1]
           most(i) == Ascending(L(i))[Len(L(i))]
<1>1. DOMAIN recs = Topics /\ \A i \in Topics : recs[i].rows \in Seq(Row)
  BY DEF IInv, Types
<1>2. /\ W \subseteq Topics /\ \A i \in W : recs[i].rows # << >>
      /\ \A i \in Topics : recs[i].rows # << >> => i \in W
  BY <1>1 DEF WithRows
<1>3. \A i \in Topics : /\ L(i) \in Seq(Int) /\ Len(L(i)) \in Nat
                        /\ Len(L(i)) = Len(recs[i].rows)
                        /\ i \in W => L(i) # << >>
  BY <1>1, <1>2, LatenciesOfRows
<1>4. /\ A \in Seq(Int) /\ Len(A) = total_received(recs)
      /\ \A j \in 1 .. Len(A) : \E i \in Topics : \E l \in 1 .. Len(L(i)) : A[j] = L(i)[l]
      /\ \A i \in Topics : \A l \in 1 .. Len(L(i)) : \E j \in 1 .. Len(A) : A[j] = L(i)[l]
  BY AllOfThem
<1>5. \A i \in W : sum[i] = dump(L(i))
  OBVIOUS
<1> HIDE DEF A, L, W
<1>6. \A i \in Topics : \A l \in 1 .. Len(L(i)) : i \in W
  <2> SUFFICES ASSUME NEW i \in Topics, NEW l \in 1 .. Len(L(i))
               PROVE  i \in W
    OBVIOUS
  <2>1. Len(recs[i].rows) # 0
    BY <1>3
  <2>2. recs[i].rows # << >>
    BY <1>1, <2>1
  <2> QED
    BY <1>2, <2>2
<1>7. A # << >> /\ Len(A) \in Nat
  <2>1. PICK i \in W : TRUE
    BY DEF W
  <2>2. i \in Topics /\ 1 \in 1 .. Len(L(i))
    BY <1>2, <1>3
  <2>3. PICK j \in 1 .. Len(A) : A[j] = L(i)[1]
    BY <1>4, <2>2
  <2> QED
    BY <1>4, <2>3
<1>8. row.count = Len(A) /\ row.min = lo /\ row.max = hi
  BY <1>4, <1>7, DumpDescribes DEF A
<1>9. \A i \in W : sum[i].min = least(i) /\ sum[i].max = most(i)
  BY <1>2, <1>3, <1>5, DumpDescribes
<1>10. /\ lo \in Int /\ hi \in Int
       /\ \A j \in 1 .. Len(A) : lo <= A[j] /\ A[j] <= hi
  <2>1. DOMAIN A = 1 .. Len(A)
    BY <1>4
  <2> QED
    BY <1>4, <1>7, <2>1, EndsBound
<1>11. \A i \in W : /\ least(i) \in Int /\ most(i) \in Int
                    /\ \A l \in 1 .. Len(L(i)) : least(i) <= L(i)[l] /\ L(i)[l] <= most(i)
  <2> SUFFICES ASSUME NEW i \in W
               PROVE  /\ least(i) \in Int /\ most(i) \in Int
                      /\ \A l \in 1 .. Len(L(i)) : least(i) <= L(i)[l] /\ L(i)[l] <= most(i)
    OBVIOUS
  <2>1. L(i) \in Seq(Int) /\ L(i) # << >> /\ DOMAIN L(i) = 1 .. Len(L(i))
    BY <1>2, <1>3
  <2> QED
    BY <2>1, EndsBound
<1>12. \A v \in Seq(Int) : v # << >> =>
         /\ \E k \in 1 .. Len(v) : Ascending(v)[1] = v[k]
         /\ \E k \in 1 .. Len(v) : Ascending(v)[Len(v)] = v[k]
  <2> SUFFICES ASSUME NEW v \in Seq(Int), v # << >>
               PROVE  /\ \E k \in 1 .. Len(v) : Ascending(v)[1] = v[k]
                      /\ \E k \in 1 .. Len(v) : Ascending(v)[Len(v)] = v[k]
    OBVIOUS
  <2>1. 1 \in DOMAIN v /\ Len(v) \in DOMAIN v /\ DOMAIN v = 1 .. Len(v)
    OBVIOUS
  <2>2. \A i \in DOMAIN v : \E k \in DOMAIN v : Ascending(v)[i] = v[k]
    BY Ordered
  <2> QED
    BY <2>1, <2>2
<1>13. /\ \E j \in 1 .. Len(A) : lo = A[j]
       /\ \E j \in 1 .. Len(A) : hi = A[j]
  BY <1>4, <1>7, <1>12
<1>14. \A i \in W : /\ \E l \in 1 .. Len(L(i)) : least(i) = L(i)[l]
                    /\ \E l \in 1 .. Len(L(i)) : most(i) = L(i)[l]
  BY <1>2, <1>3, <1>12
<1> HIDE DEF lo, hi, least, most
<1>15. ASSUME NEW i \in W
       PROVE  lo <= least(i) /\ most(i) <= hi
  <2>1. PICK l \in 1 .. Len(L(i)) : least(i) = L(i)[l]
    BY <1>14
  <2>2. PICK j \in 1 .. Len(A) : A[j] = L(i)[l]
    BY <1>2, <1>4
  <2>3. PICK m \in 1 .. Len(L(i)) : most(i) = L(i)[m]
    BY <1>14
  <2>4. PICK k \in 1 .. Len(A) : A[k] = L(i)[m]
    BY <1>2, <1>4
  <2> QED
    BY <1>10, <2>1, <2>2, <2>3, <2>4
<1>16. \E i \in W : least(i) = lo
  <2>1. PICK j \in 1 .. Len(A) : lo = A[j]
    BY <1>13
  <2>2. PICK i \in Topics : \E l \in 1 .. Len(L(i)) : A[j] = L(i)[l]
    BY <1>4
  <2>3. PICK l \in 1 .. Len(L(i)) : A[j] = L(i)[l]
    BY <2>2
  <2>4. i \in W
    BY <1>6, <2>3
  <2>5. least(i) <= lo /\ lo <= least(i) /\ least(i) \in Int /\ lo \in Int
    BY <1>10, <1>11, <1>15, <2>1, <2>3, <2>4
  <2> QED
    BY <2>4, <2>5
<1>17. \E i \in W : most(i) = hi
  <2>1. PICK j \in 1 .. Len(A) : hi = A[j]
    BY <1>13
  <2>2. PICK i \in Topics : \E l \in 1 .. Len(L(i)) : A[j] = L(i)[l]
    BY <1>4
  <2>3. PICK l \in 1 .. Len(L(i)) : A[j] = L(i)[l]
    BY <2>2
  <2>4. i \in W
    BY <1>6, <2>3
  <2>5. most(i) <= hi /\ hi <= most(i) /\ most(i) \in Int /\ hi \in Int
    BY <1>10, <1>11, <1>15, <2>1, <2>3, <2>4
  <2> QED
    BY <2>4, <2>5
<1>18. Min(Mins) = lo
  <2>1. Mins \subseteq Int /\ lo \in Mins /\ \A y \in Mins : lo <= y
    BY <1>9, <1>11, <1>15, <1>16
  <2> HIDE DEF Mins
  <2> QED
    BY <2>1, LeastOf
<1>19. Max(Maxs) = hi
  <2>1. Maxs \subseteq Int /\ hi \in Maxs /\ \A y \in Maxs : y <= hi
    BY <1>9, <1>11, <1>15, <1>17
  <2> HIDE DEF Maxs
  <2> QED
    BY <2>1, GreatestOf
<1>20. lo * Len(A) <= Total(A) /\ Total(A) <= hi * Len(A)
  <2>1. \A k \in DOMAIN A : lo <= A[k] /\ A[k] <= hi
    BY <1>4, <1>10
  <2> QED
    BY <1>4, <1>10, <2>1, TotalBetween
<1>21. latency_sum(recs) = Total(A)
  BY DEF latency_sum, A
<1> QED
  BY <1>4, <1>8, <1>18, <1>19, <1>20, <1>21 DEF W, TellsAll

(***************************************************************************)
(* In every callback group each subscription with rows has one summary row *)
(* that describes its latencies: its bounds hold them, each percentile has *)
(* its share of them on either side; and the row of all subscriptions      *)
(* counts and bounds them together.  For any numbers of topics and threads *)
(* and any lengths of the buffers.                                         *)
(***************************************************************************)
THEOREM SummaryTells == Spec => []SummaryAgreesWithRows
<1>1. IInv /\ GapInv => SummaryAgreesWithRows
  <2> SUFFICES ASSUME IInv, GapInv, report # NoReport
               PROVE  SummaryAgreesWithRows
    BY DEF SummaryAgreesWithRows
  <2>1. report.recs = recs /\ DOMAIN recs = Topics
    BY DEF IInv, Frozen, Types
  <2>2. /\ report.received = total_received(recs)
        /\ report.latency = latency_sum(recs)
        /\ report.summary = summary(recs)
        /\ report.all = IF WithRows(recs) = {} THEN {} ELSE {dump(AllLatencies(recs))}
    BY <2>1 DEF GapInv, Summed
  <2>3. summary(recs) = [i \in WithRows(recs) |-> dump(Latencies(recs[i].rows))]
    BY DEF summary
  <2>4. DOMAIN report.summary = WithRows(recs)
    BY <2>2, <2>3
  <2>5. ASSUME NEW i \in WithRows(recs)
        PROVE  Describes(report.summary[i], Latencies(recs[i].rows))
    <3>1. report.summary[i] = dump(Latencies(recs[i].rows))
      BY <2>2, <2>3
    <3>2. i \in Topics /\ recs[i].rows # << >>
      BY <2>1 DEF WithRows
    <3>3. recs[i].rows \in Seq(Row)
      BY <3>2 DEF IInv, Types
    <3>4. Latencies(recs[i].rows) \in Seq(Int) /\ Latencies(recs[i].rows) # << >>
      BY <3>2, <3>3, LatenciesOfRows
    <3> QED
      BY <3>1, <3>4, DumpDescribes
  <2>6. ASSUME NEW row \in report.all
        PROVE  /\ row.count = report.received
               /\ row.min = Min({report.summary[i].min : i \in WithRows(recs)})
               /\ row.max = Max({report.summary[i].max : i \in WithRows(recs)})
               /\ row.min * row.count <= report.latency
               /\ report.latency <= row.max * row.count
    <3>1. WithRows(recs) # {} /\ row = dump(AllLatencies(recs))
      BY <2>2
    <3>2. PICK sum : sum = report.summary
      OBVIOUS
    <3>3. sum = [i \in WithRows(recs) |-> dump(Latencies(recs[i].rows))]
      BY <2>2, <2>3, <3>2
    <3>4. TellsAll(row, sum)
      BY <3>1, <3>3, RowOfAll
    <3> QED
      BY <2>2, <3>2, <3>4 DEF TellsAll
  <2> QED
    BY <2>1, <2>4, <2>5, <2>6 DEF SummaryAgreesWithRows
<1> QED
  BY <1>1, InitIInv, NextIInv, InitOrder, NextOrder, InitGap, NextGap, PTL DEF Spec

\* The sums of two vectors are the sum of the vector of their sums.
LEMMA TotalAdds ==
  ASSUME NEW u \in Seq(Int), NEW v \in Seq(Int), NEW w \in Seq(Int),
         Len(u) = Len(w), Len(v) = Len(w),
         \A k \in 1 .. Len(w) : w[k] = u[k] + v[k]
  PROVE  Total(u) \in Int /\ Total(v) \in Int /\ Total(w) = Total(u) + Total(v)
<1> DEFINE n == Len(w)
<1>1. n \in Nat /\ \A k \in 1 .. n : u[k] \in Int /\ v[k] \in Int /\ w[k] = u[k] + v[k]
  OBVIOUS
<1>2. PICK f : PartialSums(f, u) /\ Total(u) = f[n]
  BY TotalIsLastSum
<1>3. PICK g : PartialSums(g, v) /\ Total(v) = g[n]
  BY TotalIsLastSum
<1>4. PICK h : PartialSums(h, w) /\ Total(w) = h[n]
  BY TotalIsLastSum
<1>5. /\ f[0] = 0 /\ \A m \in 0 .. n : f[m] \in Int
      /\ \A m \in 1 .. n : f[m] = f[m - 1] + u[m]
  BY <1>2 DEF PartialSums
<1>6. /\ g[0] = 0 /\ \A m \in 0 .. n : g[m] \in Int
      /\ \A m \in 1 .. n : g[m] = g[m - 1] + v[m]
  BY <1>3 DEF PartialSums
<1>7. /\ h[0] = 0 /\ \A m \in 0 .. n : h[m] \in Int
      /\ \A m \in 1 .. n : h[m] = h[m - 1] + w[m]
  BY <1>4 DEF PartialSums
<1> HIDE DEF n
<1> DEFINE P == {m \in Nat : m <= n => h[m] = f[m] + g[m]}
<1>8. 0 \in P
  BY <1>5, <1>6, <1>7
<1>9. ASSUME NEW m \in Nat, m \in P
      PROVE  m + 1 \in P
  <2> SUFFICES ASSUME m + 1 <= n
               PROVE  h[m + 1] = f[m + 1] + g[m + 1]
    OBVIOUS
  <2>1. m <= n /\ m \in 0 .. n /\ m + 1 \in 1 .. n /\ (m + 1) - 1 = m
    BY <1>1
  <2>2. h[m] = f[m] + g[m]
    BY <1>9, <2>1
  <2>3. /\ f[m] \in Int /\ g[m] \in Int /\ u[m + 1] \in Int /\ v[m + 1] \in Int
        /\ f[m + 1] = f[m] + u[m + 1] /\ g[m + 1] = g[m] + v[m + 1]
        /\ h[m + 1] = h[m] + (u[m + 1] + v[m + 1])
    BY <1>1, <1>5, <1>6, <1>7, <2>1
  <2> QED
    BY <2>2, <2>3, SMTT(30)
<1>10. \A m \in Nat : m \in P
  <2> HIDE DEF P
  <2> QED
    BY <1>8, <1>9, AllFromZero
<1>11. n \in Nat /\ n <= n /\ n \in 0 .. n
  BY <1>1
<1>12. h[n] = f[n] + g[n]
  BY <1>10, <1>11
<1> QED
  BY <1>2, <1>3, <1>4, <1>5, <1>6, <1>11, <1>12

\* What the recorders hold is what the queues have let through, all told.
LEMMA RecordersHoldTheRest ==
  ASSUME IInv, Joined
  PROVE  total_received(recs) + overflowed(recs)
           = Altogether(seq) - Altogether([i \in Topics |-> NeverTaken(i)])
<1> DEFINE n == num_topics
           kept == [k \in 1 .. n |-> Len(recs[k - 1].rows)]
           full == [k \in 1 .. n |-> recs[k - 1].lost]
           both == [k \in 1 .. n |-> Len(recs[k - 1].rows) + recs[k - 1].lost]
           away == [k \in 1 .. n |-> NeverTaken(k - 1)]
           sent == [k \in 1 .. n |-> seq[k - 1]]
<1>1. n \in Nat /\ Topics = 0 .. n - 1 /\ \A k \in 1 .. n : k - 1 \in Topics
  BY NumTopicsPositive DEF Topics
<1>2. total_received(recs) = Total(kept) /\ overflowed(recs) = Total(full)
  <2>1. /\ DOMAIN recorders(recs) = 1 .. n
        /\ \A k \in 1 .. n : recorders(recs)[k] = recs[k - 1]
    BY RecordersByTopic
  <2>2. /\ [k \in DOMAIN recorders(recs) |-> Len(recorders(recs)[k].rows)] = kept
        /\ [k \in DOMAIN recorders(recs) |-> recorders(recs)[k].lost] = full
    BY <2>1
  <2> QED
    BY <2>2 DEF total_received, overflowed
<1>3. /\ Altogether(seq) = Total(sent)
      /\ Altogether([i \in Topics |-> NeverTaken(i)]) = Total(away)
  <2>1. [k \in 1 .. n |-> [i \in Topics |-> NeverTaken(i)][k - 1]] = away
    BY <1>1
  <2> QED
    BY <2>1 DEF Altogether
<1>4. ASSUME NEW i \in Topics
      PROVE  /\ seq[i] \in Int /\ NeverTaken(i) \in Int
             /\ Len(recs[i].rows) \in Int /\ recs[i].lost \in Int
             /\ seq[i] = NeverTaken(i) + (Len(recs[i].rows) + recs[i].lost)
  <2>1. /\ seq[i] \in Nat /\ Len(queue[i]) \in Nat
        /\ Len(recs[i].rows) \in Nat /\ recs[i].lost \in Nat
    BY DEF IInv, Types
  <2>2. Cardinality(queue_lost[i]) \in Nat
    BY FS_CardinalityType DEF IInv, TopicInv, Finite
  <2>3. InFlight(i) = {} /\ Cardinality({}) = 0
    BY FS_EmptySet DEF Joined, InFlight
  <2>4. seq[i] = Cardinality(queue_lost[i]) + Len(queue[i]) + Cardinality(InFlight(i))
                 + Len(recs[i].rows) + recs[i].lost
    BY DEF IInv, TopicInv, Counted, Published, Discarded, Queued, Serving, Kept, TurnedAway
  <2>5. NeverTaken(i) = Cardinality(queue_lost[i]) + Len(queue[i])
    BY DEF NeverTaken
  <2>6. Cardinality(InFlight(i)) = 0
    BY <2>3
  <2> QED
    BY <2>1, <2>2, <2>4, <2>5, <2>6, SMTT(30)
<1>5. /\ kept \in [1 .. n -> Int] /\ full \in [1 .. n -> Int] /\ both \in [1 .. n -> Int]
      /\ away \in [1 .. n -> Int] /\ sent \in [1 .. n -> Int]
  BY <1>1, <1>4
<1>6. /\ \A k \in 1 .. n : both[k] = kept[k] + full[k]
      /\ \A k \in 1 .. n : sent[k] = away[k] + both[k]
  BY <1>1, <1>4
<1> HIDE DEF n, kept, full, both, away, sent
<1>7. /\ kept \in Seq(Int) /\ full \in Seq(Int) /\ both \in Seq(Int)
      /\ away \in Seq(Int) /\ sent \in Seq(Int)
      /\ Len(kept) = n /\ Len(full) = n /\ Len(both) = n /\ Len(away) = n /\ Len(sent) = n
  BY <1>1, <1>5
<1>8. Total(kept) \in Int /\ Total(full) \in Int /\ Total(both) = Total(kept) + Total(full)
  <2>1. /\ kept \in Seq(Int) /\ full \in Seq(Int) /\ both \in Seq(Int)
        /\ Len(kept) = Len(both) /\ Len(full) = Len(both)
    BY <1>7
  <2>2. \A k \in 1 .. Len(both) : both[k] = kept[k] + full[k]
    BY <1>6, <1>7
  <2> QED
    BY <2>1, <2>2, TotalAdds, Zenon
<1>9. Total(away) \in Int /\ Total(both) \in Int /\ Total(sent) = Total(away) + Total(both)
  <2>1. /\ away \in Seq(Int) /\ both \in Seq(Int) /\ sent \in Seq(Int)
        /\ Len(away) = Len(sent) /\ Len(both) = Len(sent)
    BY <1>7
  <2>2. \A k \in 1 .. Len(sent) : sent[k] = away[k] + both[k]
    BY <1>6, <1>7
  <2> QED
    BY <2>1, <2>2, TotalAdds, Zenon
<1> QED
  BY <1>2, <1>3, <1>8, <1>9

(***************************************************************************)
(* Every message a topic has published is in exactly one place, and the    *)
(* samples received and overflowed that the report shows are all that was  *)
(* published but what the queues discarded or hold: for any numbers of     *)
(* topics, threads and messages, whatever the queue depth, the capacity of *)
(* the buffers and the callback group.                                     *)
(***************************************************************************)
THEOREM MessagesAccounted == Spec => []EveryMessageAccounted
<1>1. IInv /\ GapInv => EveryMessageAccounted
  <2> SUFFICES ASSUME IInv, GapInv
               PROVE  EveryMessageAccounted
    OBVIOUS
  <2>1. ASSUME NEW i \in Topics
        PROVE  /\ seq[i] = NeverTaken(i) + Cardinality(InFlight(i))
                           + Len(recs[i].rows) + recs[i].lost
               /\ Cardinality(Seqs(recs[i].rows)) = Len(recs[i].rows)
               /\ Seqs(recs[i].rows) \cap queue_lost[i] = {}
    BY DEF IInv, TopicInv, Counted, PlacesApart, NeverTaken,
           Published, Discarded, Queued, Serving, Kept, TurnedAway
  <2>2. ASSUME report # NoReport
        PROVE  report.received + report.overflowed
                 = Altogether(seq) - Altogether([i \in Topics |-> NeverTaken(i)])
    <3>1. report.recs = recs /\ Joined
      BY <2>2 DEF IInv, Frozen
    <3>2. report.received = total_received(recs) /\ report.overflowed = overflowed(recs)
      BY <2>2, <3>1 DEF GapInv, Summed
    <3> QED
      BY <3>1, <3>2, RecordersHoldTheRest
  <2> QED
    BY <2>1, <2>2 DEF EveryMessageAccounted
<1> QED
  BY <1>1, InitIInv, NextIInv, InitOrder, NextOrder, InitGap, NextGap, PTL DEF Spec

-----------------------------------------------------------------------------
(* The path implements the log of whole samples: the callback that ends is *)
(* the hand-over, writing the results is the report, and everything before *)
(* is invisible.                                                           *)

\* A message handed over has left the queue, was not lost and is not served.
HandedOverMeans ==
  \A i \in Topics : \A s :
    s \in HandedOver(i) <=>
      /\ s \in Nat /\ s < Oldest(i)
      /\ s \notin queue_lost[i]
      /\ \A t \in InFlight(i) : running[t].seq # s

LEMMA HandedOverIs == IInv => HandedOverMeans
<1> SUFFICES ASSUME IInv, NEW i \in Topics, NEW s
             PROVE  s \in HandedOver(i) <=>
                      /\ s \in Nat /\ s < Oldest(i)
                      /\ s \notin queue_lost[i]
                      /\ \A t \in InFlight(i) : running[t].seq # s
  BY DEF HandedOverMeans
<1>1. seq[i] \in Nat /\ queue[i] \in Seq(Msg) /\ Len(queue[i]) \in Nat
      /\ Oldest(i) = seq[i] - Len(queue[i]) /\ Len(queue[i]) <= seq[i]
  BY DEF IInv, Types, Oldest, TopicInv, QueueIsTail
<1>2. \A k \in 1 .. Len(queue[i]) : queue[i][k].seq = Oldest(i) + k - 1
  BY DEF IInv, TopicInv, QueueIsTail
<1>3. s \in Seqs(queue[i]) <=> s \in Nat /\ Oldest(i) <= s /\ s < seq[i]
  <2>1. ASSUME s \in Seqs(queue[i])
        PROVE  s \in Nat /\ Oldest(i) <= s /\ s < seq[i]
    <3>1. PICK k \in 1 .. Len(queue[i]) : s = queue[i][k].seq
      BY <2>1 DEF Seqs
    <3>2. s = Oldest(i) + k - 1 /\ k \in Int /\ 1 <= k /\ k <= Len(queue[i])
      BY <1>1, <1>2, <3>1
    <3> QED
      BY <1>1, <3>2
  <2>2. ASSUME s \in Nat, Oldest(i) <= s, s < seq[i]
        PROVE  s \in Seqs(queue[i])
    <3>1. s - Oldest(i) + 1 \in 1 .. Len(queue[i])
      BY <1>1, <2>2
    <3>2. queue[i][s - Oldest(i) + 1].seq = s
      BY <1>1, <1>2, <2>2, <3>1
    <3> QED
      BY <3>1, <3>2 DEF Seqs
  <2> QED
    BY <2>1, <2>2
<1>4. s \in HandedOver(i) <=>
        /\ s \in 0 .. seq[i] - 1 /\ s \notin queue_lost[i] /\ s \notin Seqs(queue[i])
        /\ \A t \in InFlight(i) : running[t].seq # s
  BY DEF HandedOver, Waiting
<1>5. s \in 0 .. seq[i] - 1 /\ s \notin Seqs(queue[i]) <=> s \in Nat /\ s < Oldest(i)
  BY <1>1, <1>3
<1> QED
  BY <1>4, <1>5

LEMMA SameHandedOver ==
  ASSUME \A i \in Topics : HandedOver(i)' = HandedOver(i)
  PROVE  AbstractServed' = AbstractServed
BY DEF AbstractServed

\* The bound on the numbers, for the set of samples of the log.
SeqBounded == \A i \in Topics : seq[i] <= MaxSeq

LEMMA SeqStaysBounded ==
  /\ Init => SeqBounded
  /\ IInv /\ SeqBounded /\ [Next]_vars => SeqBounded'
<1>1. Init => SeqBounded
  BY GeneratorAssumption DEF GeneratorAssumption, Init, GeneratorInit, SeqBounded, Topics
<1>2. ASSUME IInv, SeqBounded, [Next]_vars
      PROVE  SeqBounded'
  <2>1. CASE UNCHANGED seq
    BY <1>2, <2>1 DEF SeqBounded
  <2>2. ASSUME NEW i \in Topics, Publish(i)
        PROVE  SeqBounded'
    <3>1. seq[i] < MaxSeq
      BY <2>2 DEF Publish, Publishes, RoundRobinTick, BurstIteration, TopicTimer,
                  publish_one
    <3>2. seq' = [j \in Topics |-> IF j = i THEN seq[i] + 1 ELSE seq[j]]
      BY <1>2, <2>2, PublishCounts DEF Publish, IInv
    <3>3. seq[i] \in Nat /\ MaxSeq \in Nat
      BY <1>2, GeneratorAssumption DEF IInv, Types, GeneratorAssumption
    <3>4. seq[i] + 1 <= MaxSeq
      BY <3>1, <3>3
    <3> QED
      BY <1>2, <3>2, <3>4 DEF SeqBounded
  <2> QED
    BY <1>2, <2>1, <2>2, WarmUpPublishesNothing
    DEF Next, StartProbe, FinishProbe, Shutdown, WriteResults, vars, generator
<1> QED
  BY <1>1, <1>2

\* A step that hands nothing over and leaves recorders and report alone.
LEMMA Invisible ==
  ASSUME recs' = recs, report' = report,
         \A i \in Topics : HandedOver(i)' = HandedOver(i)
  PROVE  UNCHANGED Log!vars
BY SameHandedOver DEF Log!vars, AbstractLog, AbstractReport

LEMMA PublishIsInvisible ==
  ASSUME IInv, HandedOverMeans, HandedOverMeans', NEW i \in Topics, Publish(i)
  PROVE  UNCHANGED Log!vars
<1>1. recs' = recs /\ report' = report /\ running' = running
  BY DEF Publish
<1>2. \A j \in Topics : InFlight(j)' = InFlight(j)
  BY <1>1 DEF InFlight
<1>3. ASSUME NEW j \in Topics, j # i
      PROVE  HandedOver(j)' = HandedOver(j)
  <2>1. queue'[j] = queue[j] /\ queue_lost'[j] = queue_lost[j]
    BY <1>3 DEF Publish, IInv, Types
  <2>2. seq'[j] = seq[j]
    BY <1>3, PublishCounts DEF Publish, IInv
  <2> QED
    BY <1>1, <1>2, <2>1, <2>2 DEF HandedOver, Waiting
<1>4. HandedOver(i)' = HandedOver(i)
  <2>1. Oldest(i) \in Int /\ \A s \in queue_lost[i] : s < Oldest(i)
    BY NumbersAreNatural DEF IInv, TopicInv, OthersAreOlder
  <2>2. \A s : (s \in Nat /\ s < Oldest(i) /\ s \notin queue_lost[i])
               <=> (s \in Nat /\ s < Oldest(i)' /\ s \notin queue_lost'[i])
    <3>1. CASE Oldest(i)' = Oldest(i) /\ queue_lost'[i] = queue_lost[i]
      BY <3>1
    <3>2. CASE Oldest(i)' = Oldest(i) + 1 /\ queue_lost'[i] = queue_lost[i] \cup {Oldest(i)}
      <4>1. \A s \in Nat : s < Oldest(i)' <=> s < Oldest(i) \/ s = Oldest(i)
        BY <2>1, <3>2
      <4> QED
        BY <2>1, <3>2, <4>1
    <3> QED
      BY <3>1, <3>2, PublishQueue
  <2>3. \A s : s \in HandedOver(i)' <=> s \in HandedOver(i)
    BY <1>1, <1>2, <2>2 DEF HandedOverMeans
  <2> QED
    BY <2>3
<1> QED
  BY <1>1, <1>3, <1>4, Invisible

LEMMA StartIsInvisible ==
  ASSUME IInv, HandedOverMeans, HandedOverMeans', NEW t \in Threads, NEW i \in Topics,
         StartProbe(t, i)
  PROVE  UNCHANGED Log!vars
<1>1. /\ recs' = recs /\ report' = report /\ queue_lost' = queue_lost /\ seq' = seq
      /\ running[t] = Idle
  BY DEF StartProbe, generator
<1>2. running'[t] # Idle
  BY StartEffect, IdleIsNoCall
<1>3. ASSUME NEW j \in Topics
      PROVE  InFlight(j)' = IF j = i THEN InFlight(j) \cup {t} ELSE InFlight(j)
  <2>1. \A u \in Threads : (running'[u] # Idle /\ running'[u].topic = j)
          <=> ((u = t /\ j = i) \/ (running[u] # Idle /\ running[u].topic = j))
    BY <1>1, <1>2, StartEffect
  <2> QED
    BY <2>1 DEF InFlight
<1>4. \A j \in Topics : \A u \in InFlight(j) : running'[u] = running[u]
  BY <1>1, StartEffect DEF InFlight
<1>5. ASSUME NEW j \in Topics, j # i
      PROVE  HandedOver(j)' = HandedOver(j)
  <2>1. queue'[j] = queue[j]
    BY <1>5, StartEffect
  <2>2. InFlight(j)' = InFlight(j)
    BY <1>3, <1>5
  <2>3. {running'[u].seq : u \in InFlight(j)} = {running[u].seq : u \in InFlight(j)}
    BY <1>4
  <2> QED
    BY <1>1, <2>1, <2>2, <2>3 DEF HandedOver, Waiting
<1>6. HandedOver(i)' = HandedOver(i)
  <2>1. Oldest(i) \in Int /\ Oldest(i)' = Oldest(i) + 1 /\ running'[t].seq = Oldest(i)
    BY StartEffect, NumbersAreNatural DEF IInv
  <2>2. InFlight(i)' = InFlight(i) \cup {t}
    BY <1>3
  <2>3. \A s \in Nat : (s < Oldest(i)' /\ s # Oldest(i)) <=> s < Oldest(i)
    BY <2>1
  <2>4. ASSUME NEW s
        PROVE  (\A u \in InFlight(i)' : running'[u].seq # s)
                 <=> s # Oldest(i) /\ \A u \in InFlight(i) : running[u].seq # s
    BY <1>4, <2>1, <2>2
  <2>5. \A s : s \in HandedOver(i)' <=> s \in HandedOver(i)
    BY <1>1, <2>3, <2>4 DEF HandedOverMeans
  <2> QED
    BY <2>5
<1> QED
  BY <1>1, <1>5, <1>6, Invisible

\* A row more is an entry more.
LEMMA LogOfAppend ==
  ASSUME NEW i, NEW rows \in Seq(Row), NEW row \in Row
  PROVE  LogOf(i, Append(rows, row)) = Append(LogOf(i, rows), <<i, row.seq>>)
<1>1. /\ Len(Append(rows, row)) = Len(rows) + 1
      /\ Append(rows, row)[Len(rows) + 1] = row
      /\ \A k \in 1 .. Len(rows) : Append(rows, row)[k] = rows[k]
      /\ Len(rows) \in Nat
      /\ DOMAIN rows = 1 .. Len(rows)
      /\ DOMAIN Append(rows, row) = 1 .. Len(rows) + 1
  OBVIOUS
<1> DEFINE T == {<<i, s>> : s \in Nat}
<1>2. LogOf(i, rows) \in Seq(T) /\ Len(LogOf(i, rows)) = Len(rows)
  <2>1. \A k \in 1 .. Len(rows) : <<i, rows[k].seq>> \in T
    <3>1. \A k \in 1 .. Len(rows) : rows[k].seq \in Nat
      BY RowIsRow DEF Row
    <3> QED
      BY <3>1
  <2>2. LogOf(i, rows) = [k \in 1 .. Len(rows) |-> <<i, rows[k].seq>>]
    BY <1>1 DEF LogOf
  <2> HIDE DEF T
  <2> QED
    BY <1>1, <2>1, <2>2
<1>3. <<i, row.seq>> \in T
  BY DEF Row
<1> HIDE DEF T
<1>4. Append(LogOf(i, rows), <<i, row.seq>>) =
        [k \in 1 .. Len(rows) + 1 |-> IF k = Len(rows) + 1 THEN <<i, row.seq>>
                                     ELSE LogOf(i, rows)[k]]
  BY <1>1, <1>2, <1>3
<1>5. LogOf(i, Append(rows, row)) =
        [k \in 1 .. Len(rows) + 1 |-> <<i, Append(rows, row)[k].seq>>]
  BY <1>1 DEF LogOf
<1>6. ASSUME NEW k \in 1 .. Len(rows) + 1
      PROVE  <<i, Append(rows, row)[k].seq>> =
               IF k = Len(rows) + 1 THEN <<i, row.seq>> ELSE LogOf(i, rows)[k]
  <2>1. CASE k = Len(rows) + 1
    BY <1>1, <2>1
  <2>2. CASE k \in 1 .. Len(rows)
    BY <1>1, <2>2 DEF LogOf
  <2> QED
    BY <1>1, <2>1, <2>2
<1> QED
  BY <1>4, <1>5, <1>6

LEMMA FinishIsHandOver ==
  ASSUME IInv, SeqBounded, HandedOverMeans, HandedOverMeans', NEW t \in Threads, FinishProbe(t)
  PROVE  Log!Next
<1>1. /\ seq' = seq /\ now' = now /\ queue' = queue /\ queue_lost' = queue_lost
      /\ running[t] # Idle /\ report' = report /\ report = NoReport
  BY DEF FinishProbe, generator, IInv, Frozen, Joined
<1>2. PICK i \in Topics : i = running[t].topic
  BY FinishEffect DEF Call
<1>3. PICK row \in Row :
        row = [seq |-> running[t].seq, t_reference |-> running[t].t_reference,
               t_start |-> running[t].t_start]
  BY FinishEffect DEF Call, Row
<1>4. row.seq = running[t].seq /\ row.seq \in Nat
  BY <1>3 DEF Row
<1>5. recs[i] \in [rows : Seq(Row), lost : Nat] /\ Len(recs[i].rows) <= Capacity
  BY DEF IInv, Types, TopicInv, Counted
<1>6. recs'[i] = Keep(recs[i], row) /\ \A j \in Topics : j # i => recs'[j] = recs[j]
  BY <1>2, <1>3, FinishEffect
<1>7. \A u \in Threads : u # t => running'[u] = running[u]
  BY FinishEffect
<1>8. ASSUME NEW j \in Topics
      PROVE  InFlight(j)' = IF j = i THEN InFlight(j) \ {t} ELSE InFlight(j)
  <2>1. running'[t] = Idle
    BY FinishEffect
  <2>2. \A u \in Threads : (running'[u] # Idle /\ running'[u].topic = j)
                             <=> (u # t /\ running[u] # Idle /\ running[u].topic = j)
    BY <1>7, <2>1
  <2> QED
    BY <1>2, <2>2 DEF InFlight
<1>9. t \in InFlight(i)
  BY <1>1, <1>2 DEF InFlight
<1> DEFINE c == <<i, row.seq>>
<1>10. /\ row.seq < Oldest(i) /\ row.seq \notin queue_lost[i]
       /\ \A u \in InFlight(i) : u # t => running[u].seq # row.seq
  BY <1>4, <1>9 DEF IInv, TopicInv, OthersAreOlder, PlacesApart
<1>11. ASSUME NEW j \in Topics
       PROVE  HandedOver(j)' = IF j = i THEN HandedOver(j) \cup {row.seq} ELSE HandedOver(j)
  <2>1. Oldest(j)' = Oldest(j) /\ queue_lost'[j] = queue_lost[j]
    BY <1>1 DEF Oldest
  <2>2. CASE j # i
    <3>1. InFlight(j)' = InFlight(j)
      BY <1>8, <2>2
    <3>2. \A u \in InFlight(j) : running'[u] = running[u]
      BY <1>2, <1>7, <2>2 DEF InFlight
    <3>3. \A s : s \in HandedOver(j)' <=> s \in HandedOver(j)
      BY <2>1, <3>1, <3>2 DEF HandedOverMeans
    <3> QED
      BY <2>2, <3>3
  <2>3. CASE j = i
    <3>1. \A u \in InFlight(i)' : u \in InFlight(i) /\ u # t /\ running'[u] = running[u]
      BY <1>7, <1>8 DEF InFlight
    <3>2. \A u \in InFlight(i) : u # t => u \in InFlight(i)' /\ running'[u] = running[u]
      BY <1>7, <1>8 DEF InFlight
    <3>3. ASSUME NEW s
          PROVE  (\A u \in InFlight(i)' : running'[u].seq # s)
                   <=> s = row.seq \/ \A u \in InFlight(i) : running[u].seq # s
      BY <1>4, <1>9, <1>10, <3>1, <3>2
    <3>4. \A s : s \in HandedOver(i)' <=> s \in HandedOver(i) \/ s = row.seq
      BY <1>4, <1>10, <2>1, <2>3, <3>3 DEF HandedOverMeans
    <3> QED
      BY <2>3, <3>4
  <2> QED
    BY <2>2, <2>3
<1>12. row.seq \notin HandedOver(i)
  BY <1>4, <1>9 DEF HandedOverMeans
<1>13. AbstractServed' = AbstractServed \cup {c} /\ c \notin AbstractServed
  <2>1. \A x : x \in AbstractServed <=> \E j \in Topics : \E s \in HandedOver(j) : x = <<j, s>>
    BY DEF AbstractServed
  <2>2. \A x : x \in AbstractServed' <=> \E j \in Topics : \E s \in HandedOver(j)' : x = <<j, s>>
    BY DEF AbstractServed
  <2>3. c \notin AbstractServed
    BY <1>12, <2>1
  <2>4. \A x : x \in AbstractServed' <=> x \in AbstractServed \/ x = c
    BY <1>11, <2>1, <2>2
  <2> QED
    BY <2>3, <2>4
<1>14. c \in {<<j, s>> : j \in Topics, s \in 0 .. MaxSeq - 1}
  <2>1. seq[i] <= MaxSeq /\ Oldest(i) <= seq[i] /\ seq[i] \in Nat /\ Oldest(i) \in Int
    BY NumbersAreNatural DEF SeqBounded, IInv, Types, Oldest
  <2>2. MaxSeq \in Nat
    BY GeneratorAssumption DEF GeneratorAssumption
  <2>3. row.seq \in 0 .. MaxSeq - 1
    BY <1>4, <1>10, <2>1, <2>2
  <2> QED
    BY <2>3
<1>15. Log!HandOver(c)
  BY <1>1, <1>13 DEF Log!HandOver, AbstractReport
<1>16. AbstractReport' = AbstractReport
  BY <1>1 DEF AbstractReport
<1>17. Len(AbstractLog[i]) = Len(recs[i].rows) /\ AbstractLog[i] = LogOf(i, recs[i].rows)
  <2>1. recs[i].rows \in Seq(Row)
    BY <1>5
  <2> QED
    BY <2>1 DEF AbstractLog, LogOf
<1>18. CASE /\ recs'[i].rows = Append(recs[i].rows, row)
            /\ recs'[i].lost = recs[i].lost
            /\ Len(recs[i].rows) < Capacity
  <2>1. LogOf(i, recs'[i].rows) = Append(AbstractLog[i], c)
    BY <1>5, <1>17, <1>18, LogOfAppend
  <2>2. AbstractLog' = [AbstractLog EXCEPT ![i] = Append(@, c)]
    <3>1. AbstractLog' = [j \in Topics |-> LogOf(j, recs'[j].rows)]
      BY DEF AbstractLog
    <3>2. \A j \in Topics : j # i => LogOf(j, recs'[j].rows) = AbstractLog[j]
      BY <1>6 DEF AbstractLog
    <3>3. DOMAIN AbstractLog = Topics
      BY DEF AbstractLog
    <3>4. [AbstractLog EXCEPT ![i] = Append(@, c)] =
            [j \in Topics |-> IF j = i THEN Append(AbstractLog[i], c) ELSE AbstractLog[j]]
      BY <3>3
    <3> HIDE DEF c
    <3> QED
      BY <2>1, <3>1, <3>2, <3>4
  <2>3. [j \in Topics |-> recs'[j].lost] = [j \in Topics |-> recs[j].lost]
    BY <1>6, <1>18
  <2>4. Len(AbstractLog[i]) < Capacity
    BY <1>17, <1>18
  <2>5. Log!Keep(i, c)
    BY <1>15, <1>16, <2>2, <2>3, <2>4 DEF Log!Keep
  <2> QED
    BY <1>14, <2>5 DEF Log!Next
<1>19. CASE /\ recs'[i].rows = recs[i].rows
            /\ recs'[i].lost = recs[i].lost + 1
            /\ Len(recs[i].rows) = Capacity
  <2>1. AbstractLog' = AbstractLog
    BY <1>6, <1>19 DEF AbstractLog
  <2>2. [j \in Topics |-> recs'[j].lost] =
          [[j \in Topics |-> recs[j].lost] EXCEPT ![i] = @ + 1]
    BY <1>6, <1>19
  <2>3. Len(AbstractLog[i]) = Capacity
    BY <1>17, <1>19
  <2>4. Log!Lose(i, c)
    BY <1>15, <1>16, <2>1, <2>2, <2>3 DEF Log!Lose
  <2> QED
    BY <1>14, <2>4 DEF Log!Next
<1>20. \/ /\ recs'[i].rows = Append(recs[i].rows, row)
          /\ recs'[i].lost = recs[i].lost
          /\ Len(recs[i].rows) < Capacity
       \/ /\ recs'[i].rows = recs[i].rows
          /\ recs'[i].lost = recs[i].lost + 1
          /\ Len(recs[i].rows) = Capacity
  <2>1. recs'[i] = Keep(recs[i], row)
    BY <1>6
  <2> QED
    BY ONLY <1>5, <2>1, KeepEffect, ZenonT(40)
<1> QED
  BY <1>18, <1>19, <1>20

LEMMA WriteIsReport ==
  ASSUME IInv, WriteResults
  PROVE  Log!Next \/ UNCHANGED Log!vars
<1>1. /\ recs' = recs /\ report = NoReport /\ report'.recs = recs
      /\ seq' = seq /\ queue' = queue /\ queue_lost' = queue_lost /\ running' = running
  BY DEF WriteResults, generator
<1>2. \A i \in Topics : HandedOver(i)' = HandedOver(i)
  BY <1>1 DEF HandedOver, Waiting, InFlight
<1>3. CASE report' = NoReport
  BY <1>1, <1>2, <1>3, Invisible
<1>4. CASE report' # NoReport
  <2>1. AbstractReport = NoReport
    BY <1>1 DEF AbstractReport
  <2>2. AbstractReport' = [i \in Topics |-> [rows |-> LogOf(i, recs[i].rows), lost |-> recs[i].lost]]
    BY <1>1, <1>4 DEF AbstractReport
  <2>3. \A i \in Topics : /\ AbstractLog[i] = LogOf(i, recs[i].rows)
                          /\ [j \in Topics |-> recs[j].lost][i] = recs[i].lost
    BY DEF AbstractLog
  <2>4. AbstractLog' = AbstractLog /\ AbstractServed' = AbstractServed
    BY <1>1, <1>2, SameHandedOver DEF AbstractLog
  <2>5. Log!MakeReport
    BY <1>1, <2>1, <2>2, <2>3, <2>4 DEF Log!MakeReport
  <2> QED
    BY <2>5 DEF Log!Next
<1> QED
  BY <1>3, <1>4

LEMMA RefineInit == Init => Log!Init
<1> SUFFICES ASSUME Init PROVE Log!Init
  OBVIOUS
<1>1. \A i \in Topics : recs[i].rows = << >> /\ recs[i].lost = 0 /\ seq[i] = 0
  BY DEF Init, GeneratorInit, Topics
<1>2. AbstractLog = [i \in Topics |-> << >>]
  <2>1. \A i \in Topics : LogOf(i, recs[i].rows) = << >>
    BY <1>1 DEF LogOf
  <2> QED
    BY <2>1 DEF AbstractLog
<1>3. [i \in Topics |-> recs[i].lost] = [i \in Topics |-> 0]
  BY <1>1
<1>4. AbstractServed = {}
  <2>1. \A i \in Topics : HandedOver(i) = {}
    BY <1>1 DEF HandedOver
  <2> QED
    BY <2>1 DEF AbstractServed
<1>5. AbstractReport = NoReport
  BY DEF Init, AbstractReport
<1> QED
  BY <1>2, <1>3, <1>4, <1>5 DEF Log!Init

LEMMA RefineNext == IInv /\ SeqBounded /\ [Next]_vars => [Log!Next]_(Log!vars)
<1> SUFFICES ASSUME IInv, SeqBounded, [Next]_vars
             PROVE  Log!Next \/ UNCHANGED Log!vars
  OBVIOUS
<1>1. HandedOverMeans /\ HandedOverMeans'
  <2>1. IInv'
    BY NextIInv
  <2>2. IInv' => HandedOverMeans'
    BY HandedOverIs, PTL
  <2> QED
    BY <2>1, <2>2, HandedOverIs
<1>2. CASE WarmUpEnds \/ Shutdown \/ UNCHANGED vars
  <2>1. /\ recs' = recs /\ report' = report /\ seq' = seq /\ queue' = queue
        /\ queue_lost' = queue_lost /\ running' = running
    BY <1>2, WarmUpPublishesNothing DEF Shutdown, vars, path, generator
  <2>2. \A i \in Topics : HandedOver(i)' = HandedOver(i)
    BY <2>1 DEF HandedOver, Waiting, InFlight
  <2> QED
    BY <2>1, <2>2, Invisible
<1>3. CASE WriteResults
  BY <1>3, WriteIsReport
<1>4. ASSUME NEW i \in Topics, Publish(i)
      PROVE  UNCHANGED Log!vars
  BY <1>1, <1>4, PublishIsInvisible
<1>5. ASSUME NEW i \in Topics, NEW t \in Threads, StartProbe(t, i)
      PROVE  UNCHANGED Log!vars
  BY <1>1, <1>5, StartIsInvisible
<1>6. ASSUME NEW t \in Threads, FinishProbe(t)
      PROVE  Log!Next
  BY <1>1, <1>6, FinishIsHandOver
<1> QED
  BY <1>2, <1>3, <1>4, <1>5, <1>6 DEF Next

(***************************************************************************)
(* The path implements SampleLog: a callback that ends hands its message   *)
(* over, once, and the report holds exactly what was handed over, for any  *)
(* numbers of topics, threads and messages and every callback group.       *)
(***************************************************************************)
THEOREM Implementation == Spec => ImplementsLog
  BY InitIInv, NextIInv, SeqStaysBounded, RefineInit, RefineNext, PTL
  DEF Spec, ImplementsLog, Log!Spec
=============================================================================
