----------------------------- MODULE ProbePath -----------------------------
(***************************************************************************)
(* A message from the load generator to the figures of the report:         *)
(* LoadGenerator publishes it, the KEEP_LAST queue of its subscription     *)
(* holds or drops it, an executor thread runs on_probe() for it, the       *)
(* recorder of the subscription keeps it or counts it as overflowed, and   *)
(* at the end write_results() reduces what was kept (RunMetrics).          *)
(*                                                                         *)
(* on_probe() is two steps, because other threads act in between; record() *)
(* is one (CallbackRecorder).                                              *)
(***************************************************************************)
EXTENDS LoadGenerator, RunMetrics

CONSTANTS Threads,        \* threads of the executor
          CallbackGroups, \* values of callback_group in this run
          QosDepth,       \* the parameter qos_depth, at least 1
          Capacity,       \* samples a recorder keeps, at least 1
          DurationS,      \* meta.duration_s
          Idle,           \* a thread that runs no callback
          NoReport        \* the results have not been written

VARIABLES callback_group, \* the callback group of the subscriptions
          queue,          \* messages waiting, by topic
          queue_lost,     \* history: sequence numbers the queue dropped
          running,        \* the message each thread is serving
          recs,           \* the recorders
          spinning,       \* the executor dispatches callbacks
          report          \* what write_results() printed

path == <<callback_group, queue, queue_lost, running, recs, spinning, report>>

vars == <<generator, path>>

ASSUME ProbePathAssumption ==
  /\ QosDepth \in Nat \ {0}
  /\ Capacity \in Nat \ {0}
  /\ DurationS \in Nat
  /\ Idle \notin [topic : Topics, seq : Nat, t_reference : Nat, t_start : Nat]
  /\ CallbackGroups \subseteq {"per_entity", "reentrant"}

Init ==
  /\ GeneratorInit
  /\ callback_group \in CallbackGroups
  /\ queue = [i \in Topics |-> << >>]
  /\ queue_lost = [i \in Topics |-> {}]
  /\ running = [t \in Threads |-> Idle]
  /\ recs = [i \in Topics |-> [rows |-> << >>, lost |-> 0]]
  /\ spinning = TRUE
  /\ report = NoReport

-----------------------------------------------------------------------------
(* Faulty variants of definitions below.                                   *)

\* PathTypeOK: the buffer takes one sample more than its capacity.
FaultyRoom(rec) == Len(rec.rows) <= Capacity

\* EveryMessageAccounted: a full buffer is not counted.
FaultyKeep(rec, row) ==
  IF Len(rec.rows) < Capacity THEN [rec EXCEPT !.rows = Append(@, row)] ELSE rec

\* ImplementsLog: the results are written while callbacks still run.
FaultyJoined == TRUE

\* WindowCoversRows: a busy callback does not keep its subscription from
\* being served again.
FaultyMayServe(i) == TRUE

-----------------------------------------------------------------------------
WarmUpEnds == Start /\ UNCHANGED path

\* The publisher's stamp and number travel with the message; a full queue
\* drops its oldest one.
Publish(i) ==
  /\ Publishes(i)
  /\ IF Len(queue[i]) < QosDepth
     THEN /\ queue' = [queue EXCEPT ![i] = Append(@, Message(i))]
          /\ UNCHANGED queue_lost
     ELSE /\ queue' = [queue EXCEPT ![i] = Append(Tail(@), Message(i))]
          /\ queue_lost' = [queue_lost EXCEPT ![i] = @ \cup {Head(queue[i]).seq}]
  /\ UNCHANGED <<callback_group, running, recs, spinning, report>>

\* The executor may start a callback of subscription i.
MayServe(i) ==
  \/ callback_group = "reentrant"
  \/ \A t \in Threads : running[t] # Idle => running[t].topic # i

StartProbe(t, i) ==
  /\ spinning
  /\ running[t] = Idle
  /\ queue[i] # << >>
  /\ MayServe(i)
  /\ running' = [running EXCEPT ![t] =
       [topic |-> i, seq |-> Head(queue[i]).seq,
        t_reference |-> Head(queue[i]).t_published, t_start |-> now]]
  /\ queue' = [queue EXCEPT ![i] = Tail(@)]
  /\ UNCHANGED <<callback_group, queue_lost, recs, spinning, report>>
  /\ UNCHANGED generator

Room(rec) == Len(rec.rows) < Capacity

Keep(rec, row) ==
  IF Room(rec) THEN [rec EXCEPT !.rows = Append(@, row)]
               ELSE [rec EXCEPT !.lost = @ + 1]

\* record(), and the callback returns.
FinishProbe(t) ==
  /\ running[t] # Idle
  /\ LET m == running[t]
     IN  recs' = [recs EXCEPT ![m.topic] =
           Keep(@, [seq |-> m.seq, t_reference |-> m.t_reference, t_start |-> m.t_start])]
  /\ running' = [running EXCEPT ![t] = Idle]
  /\ UNCHANGED <<callback_group, queue, queue_lost, spinning, report>>
  /\ UNCHANGED generator

Shutdown ==
  /\ spinning
  /\ spinning' = FALSE
  /\ UNCHANGED <<callback_group, queue, queue_lost, running, recs, report>>
  /\ UNCHANGED generator

\* The threads of the executor have been joined.
Joined == \A t \in Threads : running[t] = Idle

\* A generator in a process of its own may still be publishing.
WriteResults ==
  /\ ~ spinning
  /\ Joined
  /\ report = NoReport
  /\ report' = [recs |-> recs, dropped |-> dropped(recs), overflowed |-> overflowed(recs),
                received |-> total_received(recs), latency |-> latency_sum(recs),
                window |-> window(recs, DurationS), summary |-> summary(recs),
                all |-> IF WithRows(recs) = {} THEN {} ELSE {dump(AllLatencies(recs))}]
  /\ UNCHANGED <<callback_group, queue, queue_lost, running, recs, spinning>>
  /\ UNCHANGED generator

Next ==
  \/ WarmUpEnds
  \/ \E i \in Topics : Publish(i) \/ \E t \in Threads : StartProbe(t, i)
  \/ \E t \in Threads : FinishProbe(t)
  \/ Shutdown
  \/ WriteResults

Spec == Init /\ [][Next]_vars

-----------------------------------------------------------------------------
PathTypeOK ==
  /\ \A i \in Topics :
       /\ Len(queue[i]) <= QosDepth
       /\ queue_lost[i] \subseteq 0 .. seq[i] - 1
       /\ Len(recs[i].rows) <= Capacity
       /\ recs[i].lost \in Nat
  /\ \A t \in Threads :
       running[t] # Idle => running[t].topic \in Topics /\ running[t].t_reference < now
  /\ spinning \in BOOLEAN

InFlight(i) == {t \in Threads : running[t] # Idle /\ running[t].topic = i}

\* The messages that the queue of topic i discarded or still holds.
NeverTaken(i) == Cardinality(queue_lost[i]) + Len(queue[i])

\* The sum over all topics.
Altogether(f) == Total([k \in 1 .. num_topics |-> f[k - 1]])

(***************************************************************************)
(* Every message a topic has published is in exactly one place: dropped by *)
(* the queue, waiting in it, being served, kept by the recorder or counted *)
(* by overflowed().  So the samples received and overflowed that the       *)
(* report shows are all that was published but what the queues discarded   *)
(* or still hold, whatever the callback group, and however much more is    *)
(* published behind the report.  (publish_one() to record() and            *)
(* write_results(), which sums up recorder by recorder)                    *)
(***************************************************************************)
EveryMessageAccounted ==
  /\ \A i \in Topics :
       /\ seq[i] = NeverTaken(i) + Cardinality(InFlight(i))
                   + Len(recs[i].rows) + recs[i].lost
       /\ Cardinality(Seqs(recs[i].rows)) = Len(recs[i].rows)
       /\ Seqs(recs[i].rows) \cap queue_lost[i] = {}
  /\ report # NoReport =>
       report.received + report.overflowed
         = Altogether(seq) - Altogether([i \in Topics |-> NeverTaken(i)])

Between(i, rows) == {s \in queue_lost[i] : Head(rows).seq < s /\ s < Last(rows).seq}

(***************************************************************************)
(* With callbacks of a subscription kept apart, the number reported as     *)
(* dropped is exactly the number of messages the queues discarded between  *)
(* the first and the last one kept: a sample lost to a full buffer is not  *)
(* in it.  ("anything missing between the first and last one we saw was    *)
(* dropped somewhere between the publisher and the callback")              *)
(***************************************************************************)
DroppedIsQueueLoss ==
  (report # NoReport /\ callback_group # "reentrant") =>
    report.dropped =
      SumFunction([i \in WithRows(report.recs) |->
                     Cardinality(Between(i, report.recs[i].rows))])

Covers(rep) ==
  \A i \in DOMAIN rep.recs : \A k \in 1 .. Len(rep.recs[i].rows) :
    /\ window_lo(rep.recs) <= rep.recs[i].rows[k].t_reference
    /\ rep.recs[i].rows[k].t_reference <= window_hi(rep.recs)

(***************************************************************************)
(* With callbacks of a subscription kept apart, the publish window read    *)
(* off the ends of the buffers holds the stamps of all rows of all topics, *)
(* so that a starved topic is measured against the same window as the      *)
(* others.  ("Taken globally rather than per topic so that a topic being   *)
(* starved does not shrink its own denominator")                           *)
(***************************************************************************)
WindowCoversRows ==
  (report # NoReport /\ callback_group # "reentrant") => Covers(report)

AtMost(v, x) == Cardinality({k \in DOMAIN v : v[k] <= x})
AtLeast(v, x) == Cardinality({k \in DOMAIN v : v[k] >= x})

\* A row of the summary describes the latencies v: they lie between its
\* bounds, and each percentile has its share of them on either side.
Describes(row, v) ==
  /\ row.count = Len(v)
  /\ AtLeast(v, row.min) = Len(v) /\ AtMost(v, row.max) = Len(v)
  /\ \A p \in {<<50, row.p50>>, <<90, row.p90>>, <<95, row.p95>>, <<99, row.p99>>} :
       /\ 100 * AtMost(v, p[2]) >= p[1] * Len(v) - 50
       /\ 100 * AtLeast(v, p[2]) >= (100 - p[1]) * Len(v) - 50
       /\ row.min <= p[2] /\ p[2] <= row.max

(***************************************************************************)
(* The summary and the rows tell the same story in every callback group:   *)
(* each subscription with rows has one summary row, which describes its    *)
(* latencies although they are stored in order of completion, and the row  *)
(* of all subscriptions counts and bounds them together.  ("Collected per  *)
(* entity as we stream the rows out, then reduced into the summary")       *)
(***************************************************************************)
SummaryAgreesWithRows ==
  report # NoReport =>
    /\ DOMAIN report.summary = WithRows(report.recs)
    /\ \A i \in DOMAIN report.summary :
         Describes(report.summary[i], Latencies(report.recs[i].rows))
    /\ \A row \in report.all :
         /\ row.count = report.received
         /\ row.min = Min({report.summary[i].min : i \in DOMAIN report.summary})
         /\ row.max = Max({report.summary[i].max : i \in DOMAIN report.summary})
         /\ row.min * row.count <= report.latency /\ report.latency <= row.max * row.count

-----------------------------------------------------------------------------
(* The path as a log of whole samples.                                     *)

Waiting(i) == Seqs(queue[i]) \cup {running[t].seq : t \in InFlight(i)}

\* The messages of topic i that have been handed to record().
HandedOver(i) == (0 .. seq[i] - 1) \ (queue_lost[i] \cup Waiting(i))

LogOf(i, rows) == [k \in DOMAIN rows |-> <<i, rows[k].seq>>]

AbstractLog == [i \in Topics |-> LogOf(i, recs[i].rows)]

AbstractServed == UNION {{<<i, s>> : s \in HandedOver(i)} : i \in Topics}

AbstractReport ==
  IF report = NoReport THEN NoReport
  ELSE [i \in Topics |-> [rows |-> LogOf(i, report.recs[i].rows), lost |-> report.recs[i].lost]]

Log ==
  INSTANCE SampleLog WITH
    Recorders <- Topics,
    Calls <- {<<i, s>> : i \in Topics, s \in 0 .. MaxSeq - 1},
    Size <- Capacity,
    log <- AbstractLog,
    lost <- [i \in Topics |-> recs[i].lost],
    served <- AbstractServed,
    report <- AbstractReport

(***************************************************************************)
(* From the publisher to the report the path is still the log of whole     *)
(* samples that the recorder alone is: a message is recorded at most once, *)
(* in the recorder of its topic, none after the report, and the report     *)
(* holds exactly what was recorded.                                        *)
(***************************************************************************)
ImplementsLog == Log!Spec

-----------------------------------------------------------------------------
(* What a comment says and the code does not do in a reentrant group.      *)

(***************************************************************************)
(* "anything missing between the first and last one we saw was dropped     *)
(* somewhere between the publisher and the callback": the number reported  *)
(* as dropped counts no message whose callback ran.                        *)
(***************************************************************************)
DroppedNeverReachedCallback ==
  report # NoReport =>
    report.dropped <= SumFunction([i \in Topics |-> Cardinality(queue_lost[i])])
=============================================================================
