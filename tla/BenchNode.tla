----------------------------- MODULE BenchNode -----------------------------
(***************************************************************************)
(* The bench nodes of a container (bench_node.cpp) and the executor that   *)
(* dispatches their callbacks.                                             *)
(*                                                                         *)
(* Every node owns subscriptions and timers.  An executor thread picks a   *)
(* ready entity if the entity's callback group lets it, and runs on_probe  *)
(* or on_timer, whose reads and writes of node state are separate steps.   *)
(* record() is one step here: CallbackRecorder shows that it may be.       *)
(*                                                                         *)
(* External (rclcpp, rcl and the middleware), modelled from how the node   *)
(* uses them: the KEEP_LAST queue of a subscription, the schedule of a     *)
(* wall timer, and callback groups, of which a mutually exclusive one runs *)
(* one callback at a time.                                                 *)
(***************************************************************************)
EXTENDS Integers, Sequences, FiniteSets

CONSTANTS Nodes,          \* the bench nodes, num_nodes of them
          Subscriptions,  \* their subscriptions
          Timers,         \* their timers
          NodeOf,         \* the node of a subscription or timer
          Threads,        \* threads of the executor
          CallbackGroups, \* values of the parameter callback_group
          TimerPeriod,    \* timer_period_ns_, in ticks of the clock
          CallbackWork,   \* work_ns_, in ticks of the clock
          QosDepth,       \* the parameter qos_depth
          Idle,           \* a thread that runs no callback
          MaxClock,       \* bound: the last tick of the clock
          MaxPublished    \* bound: messages published on a topic

Entities == Subscriptions \cup Timers

ASSUME BenchNodeAssumption ==
  /\ Subscriptions \cap Timers = {}
  /\ NodeOf \in [Entities -> Nodes]
  /\ TimerPeriod \in Nat \ {0}
  /\ CallbackWork \in Int
  /\ QosDepth \in Int
  /\ MaxClock \in Nat
  /\ MaxPublished \in Nat

VARIABLES callback_group_type,  \* callback_group_type_, the same in every node
          now,                  \* CLOCK_MONOTONIC
          published,            \* next seq of each topic
          queue,                \* messages waiting at each subscription
          next_call,            \* when each timer is due
          timer_prev_fire,      \* timer_prev_fire_ns_
          timer_seq,            \* timer_seq_
          running,              \* the callback each thread is in
          rows                  \* what each recorder holds

vars == <<callback_group_type, now, published, queue, next_call,
          timer_prev_fire, timer_seq, running, rows>>

\* What running callbacks leave alone.
world == <<callback_group_type, now, published>>

KnownGroups == {"default", "mutually_exclusive", "reentrant", "per_entity"}

\* Constructor: an unknown value falls back to "default".
GroupType(param) == IF param \in KnownGroups THEN param ELSE "default"

Depth == IF QosDepth < 1 THEN 1 ELSE QosDepth

Init ==
  /\ callback_group_type \in {GroupType(p) : p \in CallbackGroups}
  /\ now = 1
  /\ published = [s \in Subscriptions |-> 0]
  /\ queue = [s \in Subscriptions |-> << >>]
  /\ next_call = [m \in Timers |-> 1 + TimerPeriod]
  /\ timer_prev_fire = [m \in Timers |-> 0]
  /\ timer_seq = [m \in Timers |-> 0]
  /\ running = [t \in Threads |-> Idle]
  /\ rows = [e \in Entities |-> << >>]

\* Thread t is at this point of its callback.
At(t, pc) == running[t] # Idle /\ running[t].pc = pc

-----------------------------------------------------------------------------
(* Faulty variants of definitions below.                                   *)

\* GroupMembersNeverOverlap: group_for_entity() forgets the shared group and
\* gives every entity one of its own.
FaultyGroup(e) == <<"own", e>>

\* TimerRowsChain: the work delays the stamp that becomes the previous tick.
FaultyTimerWork(t) ==
  /\ At(t, "work")
  /\ running[t].entity \in Timers
  /\ now >= running[t].start + CallbackWork
  /\ timer_prev_fire' = [timer_prev_fire EXCEPT ![running[t].entity] = now]
  /\ running' = [running EXCEPT ![t].pc = "read_seq", ![t].end = now]
  /\ UNCHANGED <<queue, next_call, timer_seq, rows>>
  /\ UNCHANGED world

\* ProbeRowsInOrder: the message stays in the queue until it was served.
FaultyTake(s) == queue[s]

\* TypeOK: the queue has room for one message more than its depth.
FaultyKeepLast(q) == IF Len(q) <= Depth + 1 THEN q ELSE Tail(q)

-----------------------------------------------------------------------------
(* Callback groups.                                                        *)

\* group_for_entity(): the callback group of an entity.
group_for_entity(e) ==
  CASE callback_group_type = "per_entity" -> <<"own", e>>
    [] callback_group_type = "default"    -> <<"default", NodeOf[e]>>
    [] OTHER                              -> <<"shared", NodeOf[e]>>

Reentrant == callback_group_type = "reentrant"

Runs(t, e) == running[t] # Idle /\ running[t].entity = e

\* The executor may start e: its group is reentrant or none of it is running.
CanBeTaken(e) ==
  \/ Reentrant
  \/ \A t \in Threads, f \in Entities :
       Runs(t, f) => group_for_entity(f) # group_for_entity(e)

-----------------------------------------------------------------------------
(* Around the nodes: the clock, the middleware and the timers.             *)

Tick ==
  /\ now < MaxClock
  /\ now' = now + 1
  /\ UNCHANGED <<callback_group_type, published, queue, next_call,
                 timer_prev_fire, timer_seq, running, rows>>

\* A KEEP_LAST queue drops its oldest message when it is full.
KeepLast(q) == IF Len(q) <= Depth THEN q ELSE Tail(q)

\* A stamped message reaches the queue of its subscription.
Publish(s) ==
  /\ published[s] < MaxPublished
  /\ published' = [published EXCEPT ![s] = @ + 1]
  /\ queue' = [queue EXCEPT ![s] =
                 KeepLast(Append(@, [seq |-> published[s], t_published |-> now]))]
  /\ UNCHANGED <<callback_group_type, now, next_call, timer_prev_fire,
                 timer_seq, running, rows>>

\* A late timer skips the periods it has missed.
NextCall(due) ==
  LET next == due + TimerPeriod
  IN  IF next >= now THEN next
      ELSE next + TimerPeriod * (1 + (now - next - 1) \div TimerPeriod)

Enter(t, e, seq, ref) ==
  /\ running[t] = Idle
  /\ CanBeTaken(e)
  /\ running' = [running EXCEPT ![t] =
       [entity |-> e, pc |-> "enter", seq |-> seq, ref |-> ref, start |-> 0, end |-> 0]]
  /\ UNCHANGED <<timer_prev_fire, timer_seq, rows>>
  /\ UNCHANGED world

Take(s) == Tail(queue[s])

StartProbe(t, s) ==
  /\ queue[s] # << >>
  /\ Enter(t, s, Head(queue[s]).seq, Head(queue[s]).t_published)
  /\ queue' = [queue EXCEPT ![s] = Take(s)]
  /\ UNCHANGED next_call

StartTimer(t, m) ==
  /\ now >= next_call[m]
  /\ Enter(t, m, 0, 0)
  /\ next_call' = [next_call EXCEPT ![m] = NextCall(@)]
  /\ UNCHANGED queue

-----------------------------------------------------------------------------
(* on_probe and on_timer.  Steps that touch no node state are merged.       *)

\* Both begin with t_start.
Stamp(t) ==
  /\ At(t, "enter")
  /\ running' = [running EXCEPT
       ![t].start = now,
       ![t].pc = IF running[t].entity \in Timers THEN "read_prev" ELSE "work"]
  /\ UNCHANGED <<queue, next_call, timer_prev_fire, timer_seq, rows>>
  /\ UNCHANGED world

\* due is t_start on the first tick, else one period after the previous one.
ReadPrev(t) ==
  /\ At(t, "read_prev")
  /\ LET prev == timer_prev_fire[running[t].entity]
     IN  running' = [running EXCEPT
           ![t].ref = IF prev = 0 THEN running[t].start ELSE prev + TimerPeriod,
           ![t].pc = "write_prev"]
  /\ UNCHANGED <<queue, next_call, timer_prev_fire, timer_seq, rows>>
  /\ UNCHANGED world

WritePrev(t) ==
  /\ At(t, "write_prev")
  /\ timer_prev_fire' = [timer_prev_fire EXCEPT ![running[t].entity] = running[t].start]
  /\ running' = [running EXCEPT ![t].pc = "work"]
  /\ UNCHANGED <<queue, next_call, timer_seq, rows>>
  /\ UNCHANGED world

\* busy_wait_ns(work_ns_), then t_end.
ProbeWork(t) ==
  /\ At(t, "work")
  /\ running[t].entity \in Subscriptions
  /\ now >= running[t].start + CallbackWork
  /\ running' = [running EXCEPT ![t].pc = "record", ![t].end = now]
  /\ UNCHANGED <<queue, next_call, timer_prev_fire, timer_seq, rows>>
  /\ UNCHANGED world

TimerWork(t) ==
  /\ At(t, "work")
  /\ running[t].entity \in Timers
  /\ now >= running[t].start + CallbackWork
  /\ running' = [running EXCEPT ![t].pc = "read_seq", ![t].end = now]
  /\ UNCHANGED <<queue, next_call, timer_prev_fire, timer_seq, rows>>
  /\ UNCHANGED world

\* timer_seq_[slot]++ is a load and a store.
ReadSeq(t) ==
  /\ At(t, "read_seq")
  /\ running' = [running EXCEPT ![t].seq = timer_seq[running[t].entity],
                                ![t].pc = "write_seq"]
  /\ UNCHANGED <<queue, next_call, timer_prev_fire, timer_seq, rows>>
  /\ UNCHANGED world

WriteSeq(t) ==
  /\ At(t, "write_seq")
  /\ timer_seq' = [timer_seq EXCEPT ![running[t].entity] = running[t].seq + 1]
  /\ running' = [running EXCEPT ![t].pc = "record"]
  /\ UNCHANGED <<queue, next_call, timer_prev_fire, rows>>
  /\ UNCHANGED world

\* record() of the entity's recorder, and the callback returns.
Record(t) ==
  /\ At(t, "record")
  /\ rows' = [rows EXCEPT ![running[t].entity] =
       Append(@, [seq |-> running[t].seq, t_reference |-> running[t].ref,
                  t_start |-> running[t].start, t_end |-> running[t].end])]
  /\ running' = [running EXCEPT ![t] = Idle]
  /\ UNCHANGED <<queue, next_call, timer_prev_fire, timer_seq>>
  /\ UNCHANGED world

on_probe(t) == Stamp(t) \/ ProbeWork(t) \/ Record(t)

on_timer(t) ==
  Stamp(t) \/ ReadPrev(t) \/ WritePrev(t) \/ TimerWork(t)
  \/ ReadSeq(t) \/ WriteSeq(t) \/ Record(t)

Next ==
  \/ Tick
  \/ \E s \in Subscriptions : Publish(s)
  \/ \E t \in Threads :
       \/ \E s \in Subscriptions : StartProbe(t, s)
       \/ \E m \in Timers : StartTimer(t, m)
       \/ on_probe(t)
       \/ on_timer(t)

Spec == Init /\ [][Next]_vars

-----------------------------------------------------------------------------
Message == [seq : Nat, t_published : Nat]

Callback == [entity : Entities,
             pc : {"enter", "read_prev", "write_prev", "work", "read_seq",
                   "write_seq", "record"},
             seq : Nat, ref : Nat, start : Nat, end : Nat]

Row == [seq : Nat, t_reference : Nat, t_start : Nat, t_end : Nat]

ASSUME IdleAssumption == Idle \notin Callback

TypeOK ==
  /\ callback_group_type \in KnownGroups
  /\ now \in Nat \ {0}
  /\ published \in [Subscriptions -> Nat]
  /\ queue \in [Subscriptions -> Seq(Message)]
  /\ \A s \in Subscriptions : Len(queue[s]) <= Depth
  /\ next_call \in [Timers -> Nat]
  /\ timer_prev_fire \in [Timers -> Nat]
  /\ timer_seq \in [Timers -> Nat]
  /\ running \in [Threads -> Callback \cup {Idle}]
  /\ rows \in [Entities -> Seq(Row)]

\* Entities the parameter promises never to run in parallel with each other.
Apart(e, f) ==
  \/ e = f /\ ~ Reentrant
  \/ callback_group_type \in {"default", "mutually_exclusive"} /\ NodeOf[e] = NodeOf[f]

Before(x, y) == x.t_end <= y.t_start

(***************************************************************************)
(* The measured spans of callbacks that share a mutually exclusive group   *)
(* do not overlap: of one entity unless the group is reentrant, and of one *)
(* node when the group is the node's.  (README: "nothing runs in           *)
(* parallel", "entities parallel with each other, never with themselves")  *)
(***************************************************************************)
GroupMembersNeverOverlap ==
  \A e, f \in Entities : Apart(e, f) =>
    \A k \in 1 .. Len(rows[e]), l \in 1 .. Len(rows[f]) :
      (e # f \/ k < l) =>
        \/ Before(rows[e][k], rows[f][l])
        \/ e # f /\ Before(rows[f][l], rows[e][k])

ChainOf(m) ==
  \A k \in 1 .. Len(rows[m]) :
    /\ rows[m][k].seq = k - 1
    /\ rows[m][k].t_reference =
         IF k = 1 THEN rows[m][k].t_start ELSE rows[m][k - 1].t_start + TimerPeriod

(***************************************************************************)
(* The rows of a timer are numbered 0, 1, 2, ... and each is measured from *)
(* the start of the row before it, so that its latency is "actual interval *)
(* minus nominal period; first tick records 0", as long as the group keeps *)
(* the ticks of a timer apart.  (on_timer())                               *)
(***************************************************************************)
TimerRowsChain == ~ Reentrant => \A m \in Timers : ChainOf(m)

(***************************************************************************)
(* No message is served twice, none before it was published, and unless    *)
(* the group is reentrant the rows of a subscription follow the order of   *)
(* publication.  (on_probe())                                              *)
(***************************************************************************)
ProbeRowsInOrder ==
  \A s \in Subscriptions :
    \A l \in 1 .. Len(rows[s]) :
      /\ rows[s][l].seq < published[s]
      /\ rows[s][l].t_reference <= rows[s][l].t_start
      /\ \A k \in 1 .. l - 1 :
           /\ rows[s][k].seq # rows[s][l].seq
           /\ ~ Reentrant => rows[s][k].seq < rows[s][l].seq

-----------------------------------------------------------------------------
(* What the documentation says and the code does not do.                   *)

Latest(S) == CHOOSE x \in S : \A y \in S : y <= x

(***************************************************************************)
(* README, timer latency: "actual interval minus nominal period; first     *)
(* tick records 0", said of every callback group and in whatever order the *)
(* rows were stored: when nothing is running, a row is measured from the   *)
(* latest tick of the timer that started before it.                        *)
(***************************************************************************)
TimerLatencyIsIntervalError ==
  (\A t \in Threads : running[t] = Idle) =>
    \A m \in Timers : \A k \in 1 .. Len(rows[m]) :
      LET x == rows[m][k]
          others == {rows[m][l].t_start : l \in (1 .. Len(rows[m])) \ {k}}
          earlier == {start \in others : start < x.t_start}
      IN  x.t_start \notin others =>
            x.t_reference = IF earlier = {} THEN x.t_start
                            ELSE Latest(earlier) + TimerPeriod
=============================================================================
