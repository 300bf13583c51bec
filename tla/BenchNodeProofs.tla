--------------------------- MODULE BenchNodeProofs ---------------------------
(***************************************************************************)
(* Type correctness of BenchNode; that the measured spans of callbacks of  *)
(* one mutually exclusive group never overlap; that timer rows chain and   *)
(* probe rows are in order: for every number of nodes, entities and        *)
(* threads, every queue depth and every bound.                             *)
(***************************************************************************)
EXTENDS BenchNode, TLAPS

InCallback(t) == running[t] # Idle

Ended(c) == c.pc \in {"read_seq", "write_seq", "record"}

\* Threads in callbacks are in different groups, unless these are reentrant.
Exclusive ==
  ~ Reentrant =>
    \A t, u \in Threads :
      t # u /\ InCallback(t) /\ InCallback(u) =>
        group_for_entity(running[t].entity) # group_for_entity(running[u].entity)

\* The steps of on_timer that touch timer state are a timer's.
TimerSteps ==
  \A t \in Threads :
    InCallback(t) /\ running[t].pc \in {"read_prev", "write_prev", "read_seq", "write_seq"} =>
      running[t].entity \in Timers

\* Stamps are in order and not ahead of the clock.
CallbackTimes ==
  \A t \in Threads : InCallback(t) =>
    /\ running[t].pc # "enter" => 1 <= running[t].start /\ running[t].start <= now
    /\ Ended(running[t]) => running[t].start <= running[t].end /\ running[t].end <= now

RowTimes ==
  \A e \in Entities : \A k \in 1 .. Len(rows[e]) :
    /\ 1 <= rows[e][k].t_start
    /\ rows[e][k].t_start <= rows[e][k].t_end
    /\ rows[e][k].t_end <= now

\* The rows of a group ended before its running callback began.
RowsBehind ==
  \A t \in Threads : InCallback(t) /\ running[t].pc # "enter" =>
    \A f \in Entities : Apart(running[t].entity, f) =>
      \A k \in 1 .. Len(rows[f]) : rows[f][k].t_end <= running[t].start

Spans == Exclusive /\ CallbackTimes /\ RowTimes /\ RowsBehind /\ GroupMembersNeverOverlap

-----------------------------------------------------------------------------
(* Types.                                                                  *)

LEMMA DepthIsPositive == Depth \in Nat /\ Depth >= 1
BY BenchNodeAssumption DEF BenchNodeAssumption, Depth

LEMMA QuotientIsNatural ==
  ASSUME NEW a \in Nat, NEW p \in Nat \ {0}
  PROVE  a \div p \in Nat
OBVIOUS

LEMMA ProductIsNatural ==
  ASSUME NEW a \in Nat, NEW b \in Nat
  PROVE  a * b \in Nat
OBVIOUS

LEMMA NextCallIsNatural ==
  ASSUME NEW due \in Nat, now \in Nat
  PROVE  NextCall(due) \in Nat
<1> DEFINE next == due + TimerPeriod
           missed == now - next - 1
<1>1. TimerPeriod \in Nat \ {0} /\ next \in Nat
    BY BenchNodeAssumption DEF BenchNodeAssumption
<1>2. NextCall(due) = IF next >= now THEN next
                      ELSE next + TimerPeriod * (1 + missed \div TimerPeriod)
    BY DEF NextCall
<1> HIDE DEF next
<1>3. CASE next >= now
    BY <1>1, <1>2, <1>3
<1>4. CASE ~ (next >= now)
  <2>1. missed \in Nat
      BY <1>1, <1>4
  <2> HIDE DEF missed
  <2>2. 1 + missed \div TimerPeriod \in Nat
      BY <1>1, <2>1, QuotientIsNatural
  <2>3. TimerPeriod * (1 + missed \div TimerPeriod) \in Nat
      BY <1>1, <2>2, ProductIsNatural
  <2> QED BY <1>1, <1>2, <1>4, <2>3
<1> QED BY <1>3, <1>4

LEMMA KeepLastFits ==
  ASSUME NEW q \in Seq(Message), NEW x \in Message, Len(q) <= Depth
  PROVE  /\ KeepLast(Append(q, x)) \in Seq(Message)
         /\ Len(KeepLast(Append(q, x))) <= Depth
<1>1. /\ Append(q, x) \in Seq(Message)
      /\ Len(Append(q, x)) = Len(q) + 1
    OBVIOUS
<1> DEFINE a == Append(q, x)
<1> HIDE DEF a
<1>2. CASE Len(a) <= Depth
    BY <1>1, <1>2, DepthIsPositive DEF KeepLast, a
<1>3. CASE ~ (Len(a) <= Depth)
  <2>1. /\ Tail(a) \in Seq(Message)
        /\ Len(Tail(a)) = Len(a) - 1
      BY <1>1, <1>3, DepthIsPositive DEF a
  <2> QED BY <1>1, <1>3, <2>1, DepthIsPositive DEF KeepLast, a
<1> QED BY <1>2, <1>3

\* A callback that a step of its thread has moved on.
MovedTo(t, r) ==
  /\ InCallback(t)
  /\ r \in Callback
  /\ running' = [running EXCEPT ![t] = r]
  /\ r.entity = running[t].entity
  /\ r.pc # "enter"
  /\ \/ running[t].pc = "enter" /\ r.start = now
     \/ running[t].pc # "enter" /\ r.start = running[t].start
  /\ Ended(r) => \/ r.end = now
                 \/ Ended(running[t]) /\ r.end = running[t].end
  /\ UNCHANGED <<callback_group_type, now, rows>>

Moves(t) == \E r \in Callback : MovedTo(t, r)

Enters(t) ==
  /\ running[t] = Idle
  /\ \E e \in Entities :
       /\ CanBeTaken(e)
       /\ \E seq, ref \in Nat :
            running' = [running EXCEPT ![t] =
              [entity |-> e, pc |-> "enter", seq |-> seq, ref |-> ref,
               start |-> 0, end |-> 0]]
  /\ UNCHANGED <<callback_group_type, now, rows>>

LEMMA StampMoves ==
  ASSUME TypeOK, NEW t \in Threads, Stamp(t)
  PROVE  Moves(t)
<1>1. running[t] \in Callback /\ running[t].pc = "enter" /\ InCallback(t)
    BY DEF TypeOK, Stamp, At, InCallback
<1> DEFINE r == [running[t] EXCEPT
                   !.start = now,
                   !.pc = IF running[t].entity \in Timers THEN "read_prev" ELSE "work"]
<1>2. running' = [running EXCEPT ![t] = r]
    BY DEF Stamp, TypeOK
<1>3. r \in Callback
    BY <1>1 DEF Callback, TypeOK
<1>4. /\ r.entity = running[t].entity /\ r.start = now
      /\ r.pc \in {"read_prev", "work"}
    BY <1>1 DEF Callback
<1> HIDE DEF r
<1> QED BY <1>1, <1>2, <1>3, <1>4 DEF Moves, MovedTo, Stamp, Ended, world

LEMMA ReadPrevMoves ==
  ASSUME TypeOK, TimerSteps, NEW t \in Threads, ReadPrev(t)
  PROVE  Moves(t)
<1>1. running[t] \in Callback /\ running[t].pc = "read_prev" /\ InCallback(t)
    BY DEF TypeOK, ReadPrev, At, InCallback
<1> DEFINE prev == timer_prev_fire[running[t].entity]
           ref == IF prev = 0 THEN running[t].start ELSE prev + TimerPeriod
           r == [running[t] EXCEPT !.ref = ref, !.pc = "write_prev"]
<1>a. ref \in Nat
  <2>1. prev \in Nat
      BY <1>1 DEF TypeOK, TimerSteps
  <2>2. TimerPeriod \in Nat /\ running[t].start \in Nat
      BY <1>1, BenchNodeAssumption DEF Callback, BenchNodeAssumption
  <2> QED BY <2>1, <2>2
<1>2. running' = [running EXCEPT ![t] = r]
    BY DEF ReadPrev, TypeOK
<1>3. r \in Callback
    BY <1>1, <1>a DEF Callback
<1>4. r.entity = running[t].entity /\ r.start = running[t].start /\ r.pc = "write_prev"
    BY <1>1 DEF Callback
<1> HIDE DEF r
<1> QED BY <1>1, <1>2, <1>3, <1>4 DEF Moves, MovedTo, ReadPrev, Ended, world

LEMMA WritePrevMoves ==
  ASSUME TypeOK, NEW t \in Threads, WritePrev(t)
  PROVE  Moves(t)
<1>1. running[t] \in Callback /\ running[t].pc = "write_prev" /\ InCallback(t)
    BY DEF TypeOK, WritePrev, At, InCallback
<1> DEFINE r == [running[t] EXCEPT !.pc = "work"]
<1>2. running' = [running EXCEPT ![t] = r]
    BY DEF WritePrev, TypeOK
<1>3. r \in Callback
    BY <1>1 DEF Callback, TypeOK
<1>4. r.entity = running[t].entity /\ r.start = running[t].start /\ r.pc = "work"
    BY <1>1 DEF Callback
<1> HIDE DEF r
<1> QED BY <1>1, <1>2, <1>3, <1>4 DEF Moves, MovedTo, WritePrev, Ended, world

LEMMA ProbeWorkMoves ==
  ASSUME TypeOK, NEW t \in Threads, ProbeWork(t)
  PROVE  Moves(t)
<1>1. running[t] \in Callback /\ running[t].pc = "work" /\ InCallback(t)
    BY DEF TypeOK, ProbeWork, At, InCallback
<1> DEFINE r == [running[t] EXCEPT !.pc = "record", !.end = now]
<1>2. running' = [running EXCEPT ![t] = r]
    BY DEF ProbeWork, TypeOK
<1>3. r \in Callback
    BY <1>1 DEF Callback, TypeOK
<1>4. r.entity = running[t].entity /\ r.start = running[t].start /\ r.pc = "record"
      /\ r.end = now
    BY <1>1 DEF Callback
<1> HIDE DEF r
<1> QED BY <1>1, <1>2, <1>3, <1>4 DEF Moves, MovedTo, ProbeWork, Ended, world

LEMMA TimerWorkMoves ==
  ASSUME TypeOK, NEW t \in Threads, TimerWork(t)
  PROVE  Moves(t)
<1>1. running[t] \in Callback /\ running[t].pc = "work" /\ InCallback(t)
    BY DEF TypeOK, TimerWork, At, InCallback
<1> DEFINE r == [running[t] EXCEPT !.pc = "read_seq", !.end = now]
<1>2. running' = [running EXCEPT ![t] = r]
    BY DEF TimerWork, TypeOK
<1>3. r \in Callback
    BY <1>1 DEF Callback, TypeOK
<1>4. r.entity = running[t].entity /\ r.start = running[t].start /\ r.pc = "read_seq"
      /\ r.end = now
    BY <1>1 DEF Callback
<1> HIDE DEF r
<1> QED BY <1>1, <1>2, <1>3, <1>4 DEF Moves, MovedTo, TimerWork, Ended, world

LEMMA ReadSeqMoves ==
  ASSUME TypeOK, TimerSteps, NEW t \in Threads, ReadSeq(t)
  PROVE  Moves(t)
<1>1. running[t] \in Callback /\ running[t].pc = "read_seq" /\ InCallback(t)
    BY DEF TypeOK, ReadSeq, At, InCallback
<1> DEFINE r == [running[t] EXCEPT !.seq = timer_seq[running[t].entity],
                                  !.pc = "write_seq"]
<1>2. running' = [running EXCEPT ![t] = r]
    BY DEF ReadSeq, TypeOK
<1>3. r \in Callback
    BY <1>1 DEF Callback, TypeOK, TimerSteps
<1>4. r.entity = running[t].entity /\ r.start = running[t].start /\ r.pc = "write_seq"
      /\ r.end = running[t].end
    BY <1>1 DEF Callback
<1> HIDE DEF r
<1> QED BY <1>1, <1>2, <1>3, <1>4 DEF Moves, MovedTo, ReadSeq, Ended, world

LEMMA WriteSeqMoves ==
  ASSUME TypeOK, NEW t \in Threads, WriteSeq(t)
  PROVE  Moves(t)
<1>1. running[t] \in Callback /\ running[t].pc = "write_seq" /\ InCallback(t)
    BY DEF TypeOK, WriteSeq, At, InCallback
<1> DEFINE r == [running[t] EXCEPT !.pc = "record"]
<1>2. running' = [running EXCEPT ![t] = r]
    BY DEF WriteSeq, TypeOK
<1>3. r \in Callback
    BY <1>1 DEF Callback, TypeOK
<1>4. r.entity = running[t].entity /\ r.start = running[t].start /\ r.pc = "record"
      /\ r.end = running[t].end
    BY <1>1 DEF Callback
<1> HIDE DEF r
<1> QED BY <1>1, <1>2, <1>3, <1>4 DEF Moves, MovedTo, WriteSeq, Ended, world

LEMMA StartEnters ==
  ASSUME TypeOK, NEW t \in Threads,
         \/ \E s \in Subscriptions : StartProbe(t, s)
         \/ \E m \in Timers : StartTimer(t, m)
  PROVE  Enters(t)
<1>1. ASSUME NEW s \in Subscriptions, StartProbe(t, s) PROVE Enters(t)
  <2>1. queue[s] \in Seq(Message) /\ queue[s] # << >>
      BY <1>1 DEF TypeOK, StartProbe
  <2>2. Head(queue[s]) \in Message
      BY <2>1
  <2>3. Head(queue[s]).seq \in Nat /\ Head(queue[s]).t_published \in Nat
      BY <2>2 DEF Message
  <2> QED BY <1>1, <2>3 DEF StartProbe, Enter, Enters, Entities, world
<1>2. ASSUME NEW m \in Timers, StartTimer(t, m) PROVE Enters(t)
    BY <1>2 DEF StartTimer, Enter, Enters, Entities, world
<1> QED BY <1>1, <1>2

\* What a row of a callback holds.
RowOf(c) == [seq |-> c.seq, t_reference |-> c.ref, t_start |-> c.start, t_end |-> c.end]

Records(t) ==
  /\ InCallback(t)
  /\ running[t].pc = "record"
  /\ rows' = [rows EXCEPT ![running[t].entity] = Append(@, RowOf(running[t]))]
  /\ running' = [running EXCEPT ![t] = Idle]
  /\ UNCHANGED <<callback_group_type, now>>

\* Every step leaves the callbacks alone or does one of these to one of them.
Passes ==
  /\ now' \in {now, now + 1}
  /\ UNCHANGED <<callback_group_type, running, rows>>

LEMMA StepsOfThreads ==
  ASSUME TypeOK, TimerSteps, [Next]_vars
  PROVE  Passes \/ \E t \in Threads : Enters(t) \/ Moves(t) \/ Records(t)
<1>1. CASE Tick
    BY <1>1 DEF Tick, Passes
<1>2. ASSUME NEW s \in Subscriptions, Publish(s) PROVE Passes
    BY <1>2 DEF Publish, Passes
<1>3. ASSUME NEW t \in Threads, Record(t) PROVE Records(t)
    BY <1>3 DEF Record, Records, RowOf, At, InCallback, world
<1>4. CASE UNCHANGED vars
    BY <1>4 DEF vars, Passes
<1> QED
    BY <1>1, <1>2, <1>3, <1>4, StartEnters, StampMoves, ReadPrevMoves, WritePrevMoves,
       ProbeWorkMoves, TimerWorkMoves, ReadSeqMoves, WriteSeqMoves
       DEF Next, on_probe, on_timer

LEMMA RunningTyped ==
  ASSUME TypeOK, TimerSteps, [Next]_vars
  PROVE  /\ running' \in [Threads -> Callback \cup {Idle}]
         /\ rows' \in [Entities -> Seq(Row)]
         /\ callback_group_type' \in KnownGroups
         /\ now' \in Nat \ {0}
<1>1. CASE Passes
    BY <1>1 DEF Passes, TypeOK
<1>2. ASSUME NEW t \in Threads, Enters(t)
      PROVE  running' \in [Threads -> Callback \cup {Idle}]
  <2>1. PICK e \in Entities, seq \in Nat, ref \in Nat :
          running' = [running EXCEPT ![t] =
            [entity |-> e, pc |-> "enter", seq |-> seq, ref |-> ref,
             start |-> 0, end |-> 0]]
      BY <1>2 DEF Enters
  <2>2. [entity |-> e, pc |-> "enter", seq |-> seq, ref |-> ref,
         start |-> 0, end |-> 0] \in Callback
      BY DEF Callback
  <2> QED BY <2>1, <2>2 DEF TypeOK
<1>3. ASSUME NEW t \in Threads, Moves(t)
      PROVE  running' \in [Threads -> Callback \cup {Idle}]
    BY <1>3 DEF Moves, MovedTo, TypeOK
<1>4. ASSUME NEW t \in Threads, Records(t)
      PROVE  /\ running' \in [Threads -> Callback \cup {Idle}]
             /\ rows' \in [Entities -> Seq(Row)]
  <2>1. running[t] \in Callback
      BY <1>4 DEF Records, InCallback, TypeOK
  <2>2. RowOf(running[t]) \in Row /\ running[t].entity \in Entities
      BY <2>1 DEF RowOf, Row, Callback
  <2>3. running' \in [Threads -> Callback \cup {Idle}]
      BY <1>4 DEF Records, TypeOK
  <2>4. rows' \in [Entities -> Seq(Row)]
      BY <1>4, <2>2 DEF Records, TypeOK
  <2> QED BY <2>3, <2>4
<1>5. ASSUME NEW t \in Threads, Enters(t) \/ Moves(t)
      PROVE  rows' \in [Entities -> Seq(Row)]
    BY <1>5 DEF Enters, Moves, MovedTo, TypeOK
<1>6. ASSUME NEW t \in Threads, Enters(t) \/ Moves(t) \/ Records(t)
      PROVE  callback_group_type' \in KnownGroups /\ now' \in Nat \ {0}
    BY <1>6 DEF Enters, Moves, MovedTo, Records, TypeOK
<1> QED
    BY <1>1, <1>2, <1>3, <1>4, <1>5, <1>6, StepsOfThreads

LEMMA QueuesTyped ==
  ASSUME TypeOK, TimerSteps, [Next]_vars
  PROVE  /\ published' \in [Subscriptions -> Nat]
         /\ queue' \in [Subscriptions -> Seq(Message)]
         /\ \A s \in Subscriptions : Len(queue'[s]) <= Depth
<1>1. ASSUME NEW s \in Subscriptions, Publish(s)
      PROVE  /\ published' \in [Subscriptions -> Nat]
             /\ queue' \in [Subscriptions -> Seq(Message)]
             /\ \A o \in Subscriptions : Len(queue'[o]) <= Depth
  <2> DEFINE x == [seq |-> published[s], t_published |-> now]
  <2>1. x \in Message
      BY DEF TypeOK, Message
  <2>2. queue' = [queue EXCEPT ![s] = KeepLast(Append(queue[s], x))]
      BY <1>1 DEF Publish, TypeOK
  <2>3. queue[s] \in Seq(Message) /\ Len(queue[s]) <= Depth
      BY DEF TypeOK
  <2> HIDE DEF x
  <2>4. /\ KeepLast(Append(queue[s], x)) \in Seq(Message)
        /\ Len(KeepLast(Append(queue[s], x))) <= Depth
      BY <2>1, <2>3, KeepLastFits
  <2>5. published' \in [Subscriptions -> Nat]
      BY <1>1 DEF Publish, TypeOK
  <2> QED BY <2>2, <2>4, <2>5 DEF TypeOK
<1>2. ASSUME NEW t \in Threads, NEW s \in Subscriptions, StartProbe(t, s)
      PROVE  /\ published' \in [Subscriptions -> Nat]
             /\ queue' \in [Subscriptions -> Seq(Message)]
             /\ \A o \in Subscriptions : Len(queue'[o]) <= Depth
  <2>1. /\ queue' = [queue EXCEPT ![s] = Tail(queue[s])]
        /\ queue[s] # << >> /\ published' = published
      BY <1>2 DEF StartProbe, Take, Enter, world
  <2>2. queue[s] \in Seq(Message) /\ Len(queue[s]) <= Depth
      BY DEF TypeOK
  <2>3. Tail(queue[s]) \in Seq(Message) /\ Len(Tail(queue[s])) = Len(queue[s]) - 1
      BY <2>1, <2>2
  <2>4. Len(Tail(queue[s])) <= Depth
      BY <2>2, <2>3, DepthIsPositive
  <2> QED BY <2>1, <2>3, <2>4 DEF TypeOK
<1>3. ASSUME NEW t \in Threads, NEW m \in Timers, StartTimer(t, m)
      PROVE  UNCHANGED <<published, queue>>
    BY <1>3 DEF StartTimer, Enter, world
<1>4. ASSUME NEW t \in Threads, on_probe(t) \/ on_timer(t)
      PROVE  UNCHANGED <<published, queue>>
    BY <1>4 DEF on_probe, on_timer, Stamp, ReadPrev, WritePrev, ProbeWork, TimerWork,
                ReadSeq, WriteSeq, Record, world
<1>5. CASE Tick \/ UNCHANGED vars
    BY <1>5 DEF Tick, vars, TypeOK
<1> QED
    BY <1>1, <1>2, <1>3, <1>4, <1>5 DEF Next, TypeOK

LEMMA TimersTyped ==
  ASSUME TypeOK, TimerSteps, [Next]_vars
  PROVE  /\ next_call' \in [Timers -> Nat]
         /\ timer_prev_fire' \in [Timers -> Nat]
         /\ timer_seq' \in [Timers -> Nat]
<1>1. ASSUME NEW t \in Threads, NEW m \in Timers, StartTimer(t, m)
      PROVE  /\ next_call' \in [Timers -> Nat]
             /\ UNCHANGED <<timer_prev_fire, timer_seq>>
    BY <1>1, NextCallIsNatural DEF StartTimer, Enter, TypeOK
<1>2. ASSUME NEW t \in Threads, WritePrev(t)
      PROVE  /\ timer_prev_fire' \in [Timers -> Nat]
             /\ UNCHANGED <<next_call, timer_seq>>
  <2>1. running[t] \in Callback
      BY <1>2 DEF WritePrev, At, TypeOK
  <2> QED BY <1>2, <2>1 DEF WritePrev, TypeOK, Callback
<1>3. ASSUME NEW t \in Threads, WriteSeq(t)
      PROVE  /\ timer_seq' \in [Timers -> Nat]
             /\ UNCHANGED <<next_call, timer_prev_fire>>
  <2>1. running[t] \in Callback
      BY <1>3 DEF WriteSeq, At, TypeOK
  <2>2. running[t].seq + 1 \in Nat
      BY <2>1 DEF Callback
  <2>3. /\ timer_seq' = [timer_seq EXCEPT ![running[t].entity] = running[t].seq + 1]
        /\ UNCHANGED <<next_call, timer_prev_fire>>
      BY <1>3 DEF WriteSeq
  <2> QED BY <2>2, <2>3 DEF TypeOK
<1>4. ASSUME NEW t \in Threads,
             \/ \E s \in Subscriptions : StartProbe(t, s)
             \/ Stamp(t) \/ ReadPrev(t) \/ ProbeWork(t) \/ TimerWork(t) \/ ReadSeq(t)
             \/ Record(t)
      PROVE  UNCHANGED <<next_call, timer_prev_fire, timer_seq>>
    BY <1>4 DEF StartProbe, Enter, Stamp, ReadPrev, ProbeWork, TimerWork, ReadSeq, Record
<1>5. CASE Tick \/ (\E s \in Subscriptions : Publish(s)) \/ UNCHANGED vars
    BY <1>5 DEF Tick, Publish, vars, TypeOK
<1> QED
    BY <1>1, <1>2, <1>3, <1>4, <1>5 DEF Next, on_probe, on_timer, TypeOK

LEMMA TimerStepsKept ==
  ASSUME TypeOK, TimerSteps, [Next]_vars
  PROVE  TimerSteps'
<1>1. ASSUME NEW t \in Threads, Stamp(t) PROVE TimerSteps'
  <2>1. running[t] \in Callback
      BY <1>1 DEF Stamp, At, TypeOK
  <2> QED BY <1>1, <2>1 DEF Stamp, TypeOK, TimerSteps, InCallback, Callback
<1>2. ASSUME NEW t \in Threads, ReadPrev(t) PROVE TimerSteps'
  <2>1. running[t] \in Callback
      BY <1>2 DEF ReadPrev, At, TypeOK
  <2> QED BY <1>2, <2>1 DEF ReadPrev, At, TypeOK, TimerSteps, InCallback, Callback
<1>3. ASSUME NEW t \in Threads, WritePrev(t) PROVE TimerSteps'
  <2>1. running[t] \in Callback
      BY <1>3 DEF WritePrev, At, TypeOK
  <2> QED BY <1>3, <2>1 DEF WritePrev, At, TypeOK, TimerSteps, InCallback, Callback
<1>4. ASSUME NEW t \in Threads, ProbeWork(t) PROVE TimerSteps'
  <2>1. running[t] \in Callback
      BY <1>4 DEF ProbeWork, At, TypeOK
  <2> QED BY <1>4, <2>1 DEF ProbeWork, At, TypeOK, TimerSteps, InCallback, Callback
<1>5. ASSUME NEW t \in Threads, TimerWork(t) PROVE TimerSteps'
  <2>1. running[t] \in Callback
      BY <1>5 DEF TimerWork, At, TypeOK
  <2> QED BY <1>5, <2>1 DEF TimerWork, At, TypeOK, TimerSteps, InCallback, Callback
<1>6. ASSUME NEW t \in Threads, ReadSeq(t) PROVE TimerSteps'
  <2>1. running[t] \in Callback
      BY <1>6 DEF ReadSeq, At, TypeOK
  <2>2. running[t].entity \in Timers
      BY <1>6 DEF ReadSeq, At, TimerSteps, InCallback
  <2>3. PICK r : /\ running' = [running EXCEPT ![t] = r]
                 /\ r.entity = running[t].entity
      BY <1>6, ReadSeqMoves DEF Moves, MovedTo
  <2>4. \A u \in Threads : running'[u] = IF u = t THEN r ELSE running[u]
      BY <2>3 DEF TypeOK
  <2>5. r.entity \in Timers
      BY <2>2, <2>3
  <2> QED BY <2>4, <2>5 DEF TimerSteps, InCallback
<1>7. ASSUME NEW t \in Threads, WriteSeq(t) PROVE TimerSteps'
  <2>1. running[t] \in Callback
      BY <1>7 DEF WriteSeq, At, TypeOK
  <2> QED BY <1>7, <2>1 DEF WriteSeq, At, TypeOK, TimerSteps, InCallback, Callback
<1>8. ASSUME NEW t \in Threads, Record(t) PROVE TimerSteps'
    BY <1>8 DEF Record, TypeOK, TimerSteps, InCallback
<1>9. ASSUME NEW t \in Threads, Enters(t) PROVE TimerSteps'
    BY <1>9 DEF Enters, TypeOK, TimerSteps, InCallback
<1>10. CASE Tick \/ (\E s \in Subscriptions : Publish(s)) \/ UNCHANGED vars
    BY <1>10 DEF Tick, Publish, vars, TimerSteps, InCallback
<1> QED
    BY <1>1, <1>2, <1>3, <1>4, <1>5, <1>6, <1>7, <1>8, <1>9, <1>10, StartEnters
       DEF Next, on_probe, on_timer

LEMMA TypeKept == TypeOK /\ TimerSteps /\ [Next]_vars => TypeOK' /\ TimerSteps'
<1> SUFFICES ASSUME TypeOK, TimerSteps, [Next]_vars PROVE TypeOK' /\ TimerSteps'
    OBVIOUS
<1> QED BY RunningTyped, QueuesTyped, TimersTyped, TimerStepsKept DEF TypeOK

LEMMA InitTyped == Init => TypeOK /\ TimerSteps
<1> SUFFICES ASSUME Init PROVE TypeOK /\ TimerSteps
    OBVIOUS
<1>1. callback_group_type \in KnownGroups
    BY DEF Init, GroupType, KnownGroups
<1>2. next_call \in [Timers -> Nat]
    BY BenchNodeAssumption DEF Init, BenchNodeAssumption
<1>3. \A s \in Subscriptions : queue[s] = << >> /\ Len(queue[s]) <= Depth
    BY DepthIsPositive DEF Init
<1>4. /\ << >> \in Seq(Message) /\ << >> \in Seq(Row)
    OBVIOUS
<1>5. TypeOK
    BY <1>1, <1>2, <1>3, <1>4 DEF Init, TypeOK
<1> QED BY <1>5 DEF Init, TimerSteps, InCallback

-----------------------------------------------------------------------------
(* Spans.                                                                  *)

LEMMA ApartMeansOneGroup ==
  ASSUME NEW e \in Entities, NEW f \in Entities, Apart(e, f)
  PROVE  ~ Reentrant /\ group_for_entity(e) = group_for_entity(f)
BY DEF Apart, Reentrant, group_for_entity

LEMMA ApartIsSymmetric ==
  ASSUME NEW e \in Entities, NEW f \in Entities, Apart(e, f)
  PROVE  Apart(f, e)
BY DEF Apart, Reentrant

LEMMA SameGroupsAfter ==
  ASSUME callback_group_type' = callback_group_type
  PROVE  /\ Reentrant' <=> Reentrant
         /\ \A e \in Entities : group_for_entity(e)' = group_for_entity(e)
         /\ \A e, f \in Entities : Apart(e, f)' <=> Apart(e, f)
BY DEF Reentrant, group_for_entity, Apart

\* A step of one thread, seen thread by thread.
LEMMA ThreadByThread ==
  ASSUME TypeOK, NEW t \in Threads, NEW r, running' = [running EXCEPT ![t] = r]
  PROVE  \A u \in Threads : running'[u] = IF u = t THEN r ELSE running[u]
BY DEF TypeOK

LEMMA PassesKeepsSpans ==
  ASSUME TypeOK, Spans, Passes
  PROVE  Spans'
<1> USE DEF Spans, Passes
<1>1. now' >= now /\ now \in Nat /\ now' \in Nat
    BY DEF TypeOK
<1>2. Exclusive'
    BY SameGroupsAfter DEF Exclusive, InCallback, Reentrant, group_for_entity
<1>3. CallbackTimes'
  <2> SUFFICES ASSUME NEW t \in Threads, InCallback(t)
               PROVE  /\ running[t].pc # "enter" =>
                           1 <= running[t].start /\ running[t].start <= now'
                      /\ Ended(running[t]) =>
                           running[t].start <= running[t].end /\ running[t].end <= now'
      BY DEF CallbackTimes, InCallback, Ended
  <2>1. running[t].start \in Nat /\ running[t].end \in Nat
      BY DEF TypeOK, InCallback, Callback
  <2> QED BY <1>1, <2>1 DEF CallbackTimes
<1>4. RowTimes'
  <2> SUFFICES ASSUME NEW e \in Entities, NEW k \in 1 .. Len(rows[e])
               PROVE  /\ 1 <= rows[e][k].t_start
                      /\ rows[e][k].t_start <= rows[e][k].t_end
                      /\ rows[e][k].t_end <= now'
      BY DEF RowTimes
  <2>1. rows[e] \in Seq(Row)
      BY DEF TypeOK
  <2>2. rows[e][k] \in Row
      BY <2>1
  <2>3. rows[e][k].t_end \in Nat
      BY <2>2 DEF Row
  <2>4. /\ 1 <= rows[e][k].t_start
        /\ rows[e][k].t_start <= rows[e][k].t_end
        /\ rows[e][k].t_end <= now
      BY DEF RowTimes
  <2> QED BY <1>1, <2>3, <2>4
<1>5. RowsBehind'
    BY DEF RowsBehind, InCallback, Apart, Reentrant
<1>6. GroupMembersNeverOverlap'
    BY DEF GroupMembersNeverOverlap, Apart, Reentrant, Before
<1> QED BY <1>2, <1>3, <1>4, <1>5, <1>6

LEMMA EntersKeepsSpans ==
  ASSUME TypeOK, Spans, NEW t \in Threads, Enters(t)
  PROVE  Spans'
<1> USE DEF Spans
<1>1. PICK e \in Entities, seq \in Nat, ref \in Nat :
        /\ CanBeTaken(e)
        /\ running' = [running EXCEPT ![t] =
             [entity |-> e, pc |-> "enter", seq |-> seq, ref |-> ref, start |-> 0, end |-> 0]]
    BY DEF Enters
<1> DEFINE r == [entity |-> e, pc |-> "enter", seq |-> seq, ref |-> ref,
                 start |-> 0, end |-> 0]
<1>2. /\ running' = [running EXCEPT ![t] = r]
      /\ r.entity = e /\ r.pc = "enter"
    BY <1>1
<1> HIDE DEF r
<1>3. /\ \A u \in Threads : running'[u] = IF u = t THEN r ELSE running[u]
      /\ UNCHANGED <<callback_group_type, now, rows>>
      /\ running[t] = Idle
    BY <1>2, ThreadByThread, ZenonT(40) DEF Enters
<1>4. Exclusive'
  <2> SUFFICES ASSUME ~ Reentrant,
                      NEW u \in Threads, NEW v \in Threads, u # v,
                      running'[u] # Idle, running'[v] # Idle
               PROVE  group_for_entity(running'[u].entity)
                        # group_for_entity(running'[v].entity)
      BY <1>3 DEF Exclusive, InCallback, Reentrant, group_for_entity
  <2>1. \A w \in Threads, f \in Entities :
          Runs(w, f) => group_for_entity(f) # group_for_entity(e)
      BY <1>1 DEF CanBeTaken
  <2>2. \A w \in Threads : running[w] # Idle =>
          /\ running[w].entity \in Entities
          /\ group_for_entity(running[w].entity) # group_for_entity(e)
      BY <2>1 DEF Runs, TypeOK, Callback
  <2>3. CASE u # t /\ v # t
      BY <1>3, <2>3 DEF Exclusive, InCallback
  <2>4. CASE u = t
      BY <1>2, <1>3, <2>2, <2>4
  <2>5. CASE v = t
      BY <1>2, <1>3, <2>2, <2>5
  <2> QED BY <2>3, <2>4, <2>5
<1>5. CallbackTimes'
    BY <1>2, <1>3 DEF CallbackTimes, InCallback, Ended
<1>6. RowTimes'
    BY <1>3 DEF RowTimes
<1>7. RowsBehind'
    BY <1>2, <1>3 DEF RowsBehind, InCallback, Apart, Reentrant
<1>8. GroupMembersNeverOverlap'
    BY <1>3 DEF GroupMembersNeverOverlap, Apart, Reentrant, Before
<1> QED BY <1>4, <1>5, <1>6, <1>7, <1>8

LEMMA MovesKeepsSpans ==
  ASSUME TypeOK, Spans, NEW t \in Threads, Moves(t)
  PROVE  Spans'
<1> USE DEF Spans
<1>1. PICK r \in Callback : MovedTo(t, r)
    BY DEF Moves
<1>2. /\ \A u \in Threads : running'[u] = IF u = t THEN r ELSE running[u]
      /\ UNCHANGED <<callback_group_type, now, rows>>
      /\ running[t] # Idle
      /\ r.entity = running[t].entity
    BY <1>1, ThreadByThread DEF MovedTo, InCallback
<1>3. running[t] \in Callback /\ now \in Nat /\ now >= 1
    BY <1>2 DEF TypeOK
<1>4. Exclusive'
    BY <1>2 DEF Exclusive, InCallback, Reentrant, group_for_entity
<1>5. /\ 1 <= r.start /\ r.start <= now
      /\ Ended(r) => r.start <= r.end /\ r.end <= now
  <2>1. CASE running[t].pc = "enter"
    <3>1. r.start = now /\ ~ Ended(running[t])
        BY <1>1, <2>1 DEF MovedTo, Ended
    <3>2. Ended(r) => r.end = now
        BY <1>1, <3>1 DEF MovedTo
    <3> QED BY <1>3, <3>1, <3>2
  <2>2. CASE running[t].pc # "enter"
    <3>1. r.start = running[t].start
        BY <1>1, <2>2 DEF MovedTo
    <3>2. /\ 1 <= running[t].start /\ running[t].start <= now
          /\ Ended(running[t]) => running[t].start <= running[t].end
                                  /\ running[t].end <= now
        BY <1>2, <2>2 DEF CallbackTimes, InCallback
    <3>3. Ended(r) => \/ r.end = now
                      \/ Ended(running[t]) /\ r.end = running[t].end
        BY <1>1 DEF MovedTo
    <3> QED BY <1>3, <3>1, <3>2, <3>3
  <2> QED BY <2>1, <2>2
<1>6. CallbackTimes'
    BY <1>2, <1>5 DEF CallbackTimes, InCallback, Ended
<1>7. RowTimes'
    BY <1>2 DEF RowTimes
<1>8. ASSUME NEW f \in Entities, Apart(r.entity, f), NEW k \in 1 .. Len(rows[f])
      PROVE  rows[f][k].t_end <= r.start
  <2>1. CASE running[t].pc = "enter"
    <3>1. r.start = now
        BY <1>1, <2>1 DEF MovedTo
    <3> QED BY <3>1 DEF RowTimes
  <2>2. CASE running[t].pc # "enter"
    <3>1. r.start = running[t].start
        BY <1>1, <2>2 DEF MovedTo
    <3> QED BY <1>2, <1>8, <2>2, <3>1 DEF RowsBehind, InCallback
  <2> QED BY <2>1, <2>2
<1>9. RowsBehind'
    BY <1>2, <1>8 DEF RowsBehind, InCallback, Apart, Reentrant
<1>10. GroupMembersNeverOverlap'
    BY <1>2 DEF GroupMembersNeverOverlap, Apart, Reentrant, Before
<1> QED BY <1>4, <1>6, <1>7, <1>9, <1>10

LEMMA RecordsKeepsSpans ==
  ASSUME TypeOK, Spans, NEW t \in Threads, Records(t)
  PROVE  Spans'
<1> USE DEF Spans
<1> DEFINE c == running[t]
           e == running[t].entity
           n == Len(rows[running[t].entity])
           row == RowOf(running[t])
<1>1. c \in Callback /\ c.pc = "record" /\ c # Idle
    BY DEF Records, InCallback, TypeOK
<1>2. /\ e \in Entities /\ c.start \in Nat /\ c.end \in Nat
      /\ row \in Row /\ row.t_start = c.start /\ row.t_end = c.end
    BY <1>1 DEF Callback, RowOf, Row
<1>3. /\ 1 <= c.start /\ c.start <= c.end /\ c.end <= now
      /\ \A f \in Entities : Apart(e, f) =>
           \A k \in 1 .. Len(rows[f]) : rows[f][k].t_end <= c.start
    BY <1>1 DEF CallbackTimes, RowsBehind, InCallback, Ended
<1>4. /\ \A u \in Threads : running'[u] = IF u = t THEN Idle ELSE running[u]
      /\ UNCHANGED <<callback_group_type, now>>
      /\ rows' = [rows EXCEPT ![e] = Append(rows[e], row)]
    BY ThreadByThread DEF Records, TypeOK
<1>5. rows[e] \in Seq(Row) /\ n \in Nat
    BY <1>2 DEF TypeOK
<1>6. /\ rows'[e] = Append(rows[e], row)
      /\ \A f \in Entities : f # e => rows'[f] = rows[f]
    BY <1>2, <1>4 DEF TypeOK
<1>7. /\ Len(rows'[e]) = n + 1
      /\ \A k \in 1 .. n : rows'[e][k] = rows[e][k]
      /\ rows'[e][n + 1] = row
    BY <1>2, <1>5, <1>6
<1> HIDE DEF c, e, n, row
<1>8. Exclusive'
    BY <1>4 DEF Exclusive, InCallback, Reentrant, group_for_entity
<1>9. CallbackTimes'
    BY <1>4 DEF CallbackTimes, InCallback, Ended
<1>10. RowTimes'
  <2> SUFFICES ASSUME NEW f \in Entities, NEW k \in 1 .. Len(rows'[f])
               PROVE  /\ 1 <= rows'[f][k].t_start
                      /\ rows'[f][k].t_start <= rows'[f][k].t_end
                      /\ rows'[f][k].t_end <= now
      BY <1>4 DEF RowTimes
  <2>1. CASE f # e
      BY <1>6, <2>1 DEF RowTimes
  <2>2. CASE f = e /\ k \in 1 .. n
    <3>1. rows'[f][k] = rows[e][k] /\ k \in 1 .. Len(rows[e])
        BY <1>7, <2>2 DEF n, e
    <3> QED BY <1>2, <3>1 DEF RowTimes
  <2>3. CASE f = e /\ k = n + 1
      BY <1>2, <1>3, <1>7, <2>3
  <2> QED BY <1>5, <1>7, <2>1, <2>2, <2>3
<1>11. RowsBehind'
  <2> SUFFICES ASSUME NEW u \in Threads, running'[u] # Idle, running'[u].pc # "enter",
                      NEW f \in Entities, Apart(running'[u].entity, f),
                      NEW k \in 1 .. Len(rows'[f])
               PROVE  rows'[f][k].t_end <= running'[u].start
      BY <1>4 DEF RowsBehind, InCallback, Apart, Reentrant
  <2>1. u # t /\ running'[u] = running[u] /\ running[u] # Idle
      BY <1>4
  <2>2. running[u].entity \in Entities
      BY <2>1 DEF TypeOK, Callback
  <2>3. f # e
    <3>1. SUFFICES ASSUME f = e PROVE FALSE
        OBVIOUS
    <3>2. ~ Reentrant /\ group_for_entity(running[u].entity) = group_for_entity(e)
        BY <1>2, <2>1, <2>2, <3>1, ApartMeansOneGroup
    <3> QED BY <1>1, <2>1, <3>2 DEF Exclusive, InCallback, c, e
  <2>4. rows'[f] = rows[f]
      BY <1>6, <2>3
  <2> QED BY <2>1, <2>4 DEF RowsBehind, InCallback
<1>12. GroupMembersNeverOverlap'
  <2> SUFFICES ASSUME NEW f \in Entities, NEW g \in Entities, Apart(f, g),
                      NEW k \in 1 .. Len(rows'[f]), NEW l \in 1 .. Len(rows'[g]),
                      f # g \/ k < l
               PROVE  \/ Before(rows'[f][k], rows'[g][l])
                      \/ f # g /\ Before(rows'[g][l], rows'[f][k])
      BY <1>4, SMTT(30) DEF GroupMembersNeverOverlap, Apart, Reentrant, Before
  <2>1. CASE k \in 1 .. Len(rows[f]) /\ l \in 1 .. Len(rows[g])
    <3>1. rows'[f][k] = rows[f][k] /\ rows'[g][l] = rows[g][l]
        BY <1>6, <1>7, <2>1 DEF n, e
    <3> QED BY <2>1, <3>1 DEF GroupMembersNeverOverlap
  <2>2. CASE g = e /\ l = n + 1
    <3>1. CASE f = e
      <4>1. k \in 1 .. n /\ rows'[f][k] = rows[e][k]
          BY <1>5, <1>7, <2>2, <3>1
      <4>2. Apart(e, e) /\ k \in 1 .. Len(rows[e])
          BY <2>2, <3>1, <4>1 DEF n, e
      <4>3. rows[e][k].t_end <= c.start
          BY <1>2, <1>3, <4>2
      <4> QED BY <1>2, <1>7, <2>2, <4>1, <4>3 DEF Before
    <3>2. CASE f # e
      <4>1. rows'[f] = rows[f] /\ Apart(e, f)
          BY <1>6, <2>2, <3>2, ApartIsSymmetric
      <4>2. rows[f][k].t_end <= c.start
          BY <1>3, <4>1
      <4> QED BY <1>2, <1>7, <2>2, <4>1, <4>2 DEF Before
    <3> QED BY <3>1, <3>2
  <2>3. CASE f = e /\ k = n + 1 /\ g # e
    <3>1. rows'[g] = rows[g]
        BY <1>6, <2>3
    <3>2. rows[g][l].t_end <= c.start
        BY <1>3, <2>3, <3>1
    <3> QED BY <1>2, <1>7, <2>3, <3>1, <3>2 DEF Before
  <2>4. k \in 1 .. Len(rows[f]) \/ (f = e /\ k = n + 1)
      BY <1>5, <1>6, <1>7, SMTT(30) DEF n, e
  <2>5. l \in 1 .. Len(rows[g]) \/ (g = e /\ l = n + 1)
      BY <1>5, <1>6, <1>7 DEF n, e
  <2>6. CASE f = e /\ k = n + 1 /\ g = e
    <3>1. l \in 1 .. n + 1 /\ k < l
        BY <1>7, <2>6
    <3> QED BY <1>5, <2>6, <3>1
  <2> QED BY <2>1, <2>2, <2>3, <2>4, <2>5, <2>6
<1> QED BY <1>8, <1>9, <1>10, <1>11, <1>12

LEMMA InitSpans == Init => Spans
<1> SUFFICES ASSUME Init PROVE Spans
    OBVIOUS
<1>1. \A e \in Entities : rows[e] = << >> /\ Len(rows[e]) = 0
    BY DEF Init
<1>2. \A t \in Threads : ~ InCallback(t)
    BY DEF Init, InCallback
<1> QED BY <1>1, <1>2 DEF Spans, Exclusive, CallbackTimes, RowTimes, RowsBehind,
                          GroupMembersNeverOverlap

LEMMA SpansKept == TypeOK /\ TimerSteps /\ Spans /\ [Next]_vars => Spans'
<1> SUFFICES ASSUME TypeOK, TimerSteps, Spans, [Next]_vars PROVE Spans'
    OBVIOUS
<1> QED BY StepsOfThreads, PassesKeepsSpans, EntersKeepsSpans, MovesKeepsSpans,
           RecordsKeepsSpans

-----------------------------------------------------------------------------
(* Timer rows.                                                             *)

\* The start of the last row of a timer, and what a row after it that starts
\* at "start" is measured from.
LastStart(m) == IF Len(rows[m]) = 0 THEN 0 ELSE rows[m][Len(rows[m])].t_start

Reference(m, start) == IF Len(rows[m]) = 0 THEN start ELSE LastStart(m) + TimerPeriod

Early(c) == c.pc \in {"enter", "read_prev", "write_prev"}

\* How far a tick of timer m has come.
InStep(m, c) ==
  /\ c.pc \notin {"enter", "read_prev"} => c.ref = Reference(m, c.start)
  /\ ~ Early(c) => timer_prev_fire[m] = c.start
  /\ Early(c) => timer_prev_fire[m] = LastStart(m)
  /\ c.pc \in {"write_seq", "record"} => c.seq = Len(rows[m])
  /\ timer_seq[m] = Len(rows[m]) + (IF c.pc = "record" THEN 1 ELSE 0)

AtRest(m) == timer_prev_fire[m] = LastStart(m) /\ timer_seq[m] = Len(rows[m])

TimerState(m) ==
  /\ ChainOf(m)
  /\ (\A t \in Threads : ~ Runs(t, m)) => AtRest(m)
  /\ \A t \in Threads : Runs(t, m) => InStep(m, running[t])

TimerStates == ~ Reentrant => \A m \in Timers : TimerState(m)

LEMMA OneTickAtATime ==
  ASSUME Exclusive, ~ Reentrant, NEW m \in Timers,
         NEW t \in Threads, NEW u \in Threads, Runs(t, m), Runs(u, m)
  PROVE  t = u
BY DEF Exclusive, Runs, InCallback

\* A step that leaves the rows, the state and the ticks of a timer alone.
Leaves(m) ==
  /\ rows'[m] = rows[m]
  /\ timer_prev_fire'[m] = timer_prev_fire[m]
  /\ timer_seq'[m] = timer_seq[m]
  /\ \A t \in Threads :
       /\ Runs(t, m)' <=> Runs(t, m)
       /\ Runs(t, m) => running'[t] = running[t]

LEMMA LeftAlone ==
  ASSUME NEW m \in Timers, TimerState(m), Leaves(m)
  PROVE  TimerState(m)'
<1>1. ChainOf(m)'
    BY DEF Leaves, TimerState, ChainOf
<1>2. LastStart(m)' = LastStart(m) /\ (AtRest(m)' <=> AtRest(m))
    BY DEF Leaves, AtRest, LastStart
<1>3. ASSUME NEW t \in Threads, Runs(t, m)'
      PROVE  InStep(m, running[t])'
  <2>1. Runs(t, m) /\ running'[t] = running[t]
      BY <1>3 DEF Leaves
  <2>2. InStep(m, running[t])
      BY <2>1 DEF TimerState
  <2> QED BY <1>2, <2>1, <2>2 DEF InStep, Leaves, Reference, Early
<1> QED BY <1>1, <1>2, <1>3 DEF TimerState, Leaves

\* A step of thread t leaves alone every timer but the one of its callback.
LEMMA OtherTimersLeft ==
  ASSUME TypeOK, NEW t \in Threads, NEW r, NEW m \in Timers,
         running' = [running EXCEPT ![t] = r],
         running[t] # Idle => running[t].entity # m,
         r # Idle => r.entity # m,
         rows'[m] = rows[m], timer_prev_fire'[m] = timer_prev_fire[m],
         timer_seq'[m] = timer_seq[m]
  PROVE  Leaves(m)
<1>1. \A u \in Threads : running'[u] = IF u = t THEN r ELSE running[u]
    BY ThreadByThread
<1> QED BY <1>1 DEF Leaves, Runs

\* A step after which thread t is in a tick of timer m.
LEMMA TickMovesOn ==
  ASSUME NEW m \in Timers, NEW t \in Threads, Exclusive', ~ Reentrant',
         Runs(t, m)', ChainOf(m)', InStep(m, running[t])'
  PROVE  TimerState(m)'
<1>1. \A u \in Threads : Runs(u, m)' => u = t
    BY DEF Exclusive, Runs, InCallback
<1> QED BY <1>1 DEF TimerState

\* A step inside the callback of entity e.
Inside(t, e, r) ==
  /\ running[t] # Idle /\ running[t].entity = e
  /\ r # Idle /\ r.entity = e
  /\ running' = [running EXCEPT ![t] = r]
  /\ rows' = rows
  /\ callback_group_type' = callback_group_type
  /\ \A m \in Timers : m # e =>
       timer_prev_fire'[m] = timer_prev_fire[m] /\ timer_seq'[m] = timer_seq[m]

LEMMA InsideKeepsTimers ==
  ASSUME TypeOK, Exclusive', TimerStates, NEW t \in Threads, NEW e \in Entities, NEW r,
         Inside(t, e, r),
         e \in Timers /\ ~ Reentrant => InStep(e, r)'
  PROVE  TimerStates'
<1>1. Reentrant' <=> Reentrant
    BY DEF Inside, Reentrant
<1> SUFFICES ASSUME ~ Reentrant, NEW m \in Timers PROVE TimerState(m)'
    BY <1>1 DEF TimerStates
<1>a. running' = [running EXCEPT ![t] = r]
    BY DEF Inside
<1>2. \A u \in Threads : running'[u] = IF u = t THEN r ELSE running[u]
    BY <1>a, ThreadByThread
<1>3. CASE m = e
  <2>1. ChainOf(m)'
      BY DEF Inside, TimerStates, TimerState, ChainOf
  <2>2. Runs(t, m)' /\ InStep(m, running[t])'
      BY <1>2, <1>3 DEF Inside, Runs, InStep, Early, Reference, LastStart
  <2> QED BY <1>1, <2>1, <2>2, TickMovesOn
<1>4. CASE m # e
  <2>1. Leaves(m)
      BY <1>4, OtherTimersLeft DEF Inside
  <2> QED BY <2>1, LeftAlone DEF TimerStates
<1> QED BY <1>3, <1>4

\* What the rows say of a timer is the same after a step that adds no row.
LEMMA SameRowsSay ==
  ASSUME NEW m \in Timers, NEW start, rows' = rows
  PROVE  LastStart(m)' = LastStart(m) /\ Reference(m, start)' = Reference(m, start)
BY DEF LastStart, Reference

LEMMA TickInStep ==
  ASSUME TimerStates, ~ Reentrant, NEW m \in Timers, NEW t \in Threads,
         running[t] # Idle, running[t].entity = m
  PROVE  InStep(m, running[t])
BY DEF TimerStates, TimerState, Runs

\* The last start is zero only when there is no row.
LEMMA LastStartOfRows ==
  ASSUME TypeOK, RowTimes, NEW m \in Timers
  PROVE  /\ LastStart(m) \in Nat
         /\ Len(rows[m]) # 0 => LastStart(m) >= 1
<1>1. rows[m] \in Seq(Row) /\ m \in Entities
    BY DEF TypeOK, Entities
<1>2. CASE Len(rows[m]) = 0
    BY <1>2 DEF LastStart
<1>3. CASE Len(rows[m]) # 0
  <2>1. Len(rows[m]) \in 1 .. Len(rows[m])
      BY <1>1, <1>3
  <2>2. rows[m][Len(rows[m])] \in Row
      BY <1>1, <2>1
  <2>3. rows[m][Len(rows[m])].t_start \in Nat /\ rows[m][Len(rows[m])].t_start >= 1
      BY <1>1, <2>1, <2>2 DEF Row, RowTimes
  <2> QED BY <1>3, <2>3 DEF LastStart
<1> QED BY <1>2, <1>3

LEMMA StampKeepsTimers ==
  ASSUME TypeOK, TimerSteps, RowTimes, Exclusive', TimerStates, NEW t \in Threads, Stamp(t)
  PROVE  TimerStates'
<1>1. running[t] \in Callback /\ running[t].pc = "enter" /\ running[t] # Idle
    BY DEF Stamp, At, TypeOK
<1>2. PICK e \in Entities : e = running[t].entity
    BY <1>1 DEF Callback
<1>3. PICK r \in Callback : MovedTo(t, r)
    BY StampMoves DEF Moves
<1>4. /\ r.entity = e
      /\ r.pc = IF e \in Timers THEN "read_prev" ELSE "work"
  <2>1. running'[t] = r
      BY <1>3 DEF MovedTo, TypeOK
  <2>2. running'[t] = [running[t] EXCEPT
                   !.start = now, !.pc = IF e \in Timers THEN "read_prev" ELSE "work"]
      BY <1>2 DEF Stamp, TypeOK
  <2> QED BY <1>1, <1>2, <2>1, <2>2 DEF Callback
<1>5. r # Idle
    BY IdleAssumption
<1>6. Inside(t, e, r)
    BY <1>1, <1>2, <1>3, <1>4, <1>5 DEF Inside, MovedTo, Stamp
<1>7. ASSUME e \in Timers, ~ Reentrant
      PROVE  InStep(e, r)'
  <2>1. InStep(e, running[t])
      BY <1>1, <1>2, <1>7, TickInStep
  <2>2. LastStart(e)' = LastStart(e) /\ Reference(e, r.start)' = Reference(e, r.start)
      BY <1>6, <1>7, SameRowsSay DEF Inside
  <2> QED BY <1>1, <1>4, <1>7, <2>1, <2>2 DEF InStep, Early, Stamp
<1> QED BY <1>6, <1>7, InsideKeepsTimers

LEMMA ReadPrevKeepsTimers ==
  ASSUME TypeOK, TimerSteps, RowTimes, Exclusive', TimerStates, NEW t \in Threads, ReadPrev(t)
  PROVE  TimerStates'
<1>1. running[t] \in Callback /\ running[t].pc = "read_prev" /\ running[t] # Idle
    BY DEF ReadPrev, At, TypeOK
<1>2. PICK e \in Entities : e = running[t].entity
    BY <1>1 DEF Callback
<1>3. PICK r \in Callback : MovedTo(t, r)
    BY ReadPrevMoves DEF Moves
<1>4. /\ r.entity = e
      /\ r.pc = "write_prev" /\ r.start = running[t].start
      /\ r.ref = IF timer_prev_fire[e] = 0 THEN running[t].start
                 ELSE timer_prev_fire[e] + TimerPeriod
  <2>1. running'[t] = r
      BY <1>3 DEF MovedTo, TypeOK
  <2>2. running'[t] = [running[t] EXCEPT
                   !.ref = IF timer_prev_fire[e] = 0 THEN running[t].start
                           ELSE timer_prev_fire[e] + TimerPeriod,
                   !.pc = "write_prev"]
      BY <1>2 DEF ReadPrev, TypeOK
  <2> QED BY <1>1, <1>2, <2>1, <2>2 DEF Callback
<1>5. r # Idle
    BY IdleAssumption
<1>6. Inside(t, e, r)
    BY <1>1, <1>2, <1>3, <1>4, <1>5 DEF Inside, MovedTo, ReadPrev
<1>7. ASSUME e \in Timers, ~ Reentrant
      PROVE  InStep(e, r)'
  <2>1. InStep(e, running[t])
      BY <1>1, <1>2, <1>7, TickInStep
  <2>2. LastStart(e)' = LastStart(e) /\ Reference(e, r.start)' = Reference(e, r.start)
      BY <1>6, <1>7, SameRowsSay DEF Inside
  <2>3. timer_prev_fire[e] = LastStart(e)
      BY <1>1, <2>1 DEF InStep, Early
  <2>4. LastStart(e) = 0 <=> Len(rows[e]) = 0
      BY <1>7, LastStartOfRows DEF LastStart
  <2>5. r.ref = Reference(e, r.start)
      BY <1>4, <2>3, <2>4 DEF Reference
  <2> QED BY <1>1, <1>4, <2>1, <2>2, <2>5 DEF InStep, Early, ReadPrev
<1> QED BY <1>6, <1>7, InsideKeepsTimers

LEMMA WritePrevKeepsTimers ==
  ASSUME TypeOK, TimerSteps, RowTimes, Exclusive', TimerStates, NEW t \in Threads, WritePrev(t)
  PROVE  TimerStates'
<1>1. running[t] \in Callback /\ running[t].pc = "write_prev" /\ running[t] # Idle
    BY DEF WritePrev, At, TypeOK
<1>2. PICK e \in Entities : e = running[t].entity
    BY <1>1 DEF Callback
<1>3. PICK r \in Callback : MovedTo(t, r)
    BY WritePrevMoves DEF Moves
<1>4. /\ r.entity = e
      /\ r.pc = "work" /\ r.start = running[t].start /\ r.ref = running[t].ref
  <2>1. running'[t] = r
      BY <1>3 DEF MovedTo, TypeOK
  <2>2. running'[t] = [running[t] EXCEPT !.pc = "work"]
      BY <1>2 DEF WritePrev, TypeOK
  <2> QED BY <1>1, <1>2, <2>1, <2>2 DEF Callback
<1>5. r # Idle
    BY IdleAssumption
<1>6. Inside(t, e, r)
    BY <1>1, <1>2, <1>3, <1>4, <1>5 DEF Inside, MovedTo, WritePrev, TypeOK
<1>7. ASSUME e \in Timers, ~ Reentrant
      PROVE  InStep(e, r)'
  <2>1. InStep(e, running[t])
      BY <1>1, <1>2, <1>7, TickInStep
  <2>2. LastStart(e)' = LastStart(e) /\ Reference(e, r.start)' = Reference(e, r.start)
      BY <1>6, <1>7, SameRowsSay DEF Inside
  <2>3. timer_prev_fire'[e] = r.start
      BY <1>2, <1>4, <1>7 DEF WritePrev, TypeOK
  <2>4. UNCHANGED <<timer_seq, rows>>
      BY DEF WritePrev
  <2> QED BY <1>1, <1>4, <2>1, <2>2, <2>3, <2>4 DEF InStep, Early
<1> QED BY <1>6, <1>7, InsideKeepsTimers

LEMMA ProbeWorkKeepsTimers ==
  ASSUME TypeOK, TimerSteps, RowTimes, Exclusive', TimerStates, NEW t \in Threads, ProbeWork(t)
  PROVE  TimerStates'
<1>1. running[t] \in Callback /\ running[t].pc = "work" /\ running[t] # Idle
    BY DEF ProbeWork, At, TypeOK
<1>2. PICK e \in Entities : e = running[t].entity
    BY <1>1 DEF Callback
<1>3. PICK r \in Callback : MovedTo(t, r)
    BY ProbeWorkMoves DEF Moves
<1>4. /\ r.entity = e
      /\ r.pc = "record"
  <2>1. running'[t] = r
      BY <1>3 DEF MovedTo, TypeOK
  <2>2. running'[t] = [running[t] EXCEPT !.pc = "record", !.end = now]
      BY <1>2 DEF ProbeWork, TypeOK
  <2> QED BY <1>1, <1>2, <2>1, <2>2 DEF Callback
<1>5. r # Idle
    BY IdleAssumption
<1>6. Inside(t, e, r)
    BY <1>1, <1>2, <1>3, <1>4, <1>5 DEF Inside, MovedTo, ProbeWork
<1>7. ASSUME e \in Timers, ~ Reentrant
      PROVE  InStep(e, r)'
  <2>1. InStep(e, running[t])
      BY <1>1, <1>2, <1>7, TickInStep
  <2>2. LastStart(e)' = LastStart(e) /\ Reference(e, r.start)' = Reference(e, r.start)
      BY <1>6, <1>7, SameRowsSay DEF Inside
  <2>3. e \in Subscriptions
      BY <1>2 DEF ProbeWork
  <2> QED BY <1>7, <2>3, BenchNodeAssumption DEF BenchNodeAssumption
<1> QED BY <1>6, <1>7, InsideKeepsTimers

LEMMA TimerWorkKeepsTimers ==
  ASSUME TypeOK, TimerSteps, RowTimes, Exclusive', TimerStates, NEW t \in Threads, TimerWork(t)
  PROVE  TimerStates'
<1>1. running[t] \in Callback /\ running[t].pc = "work" /\ running[t] # Idle
    BY DEF TimerWork, At, TypeOK
<1>2. PICK e \in Entities : e = running[t].entity
    BY <1>1 DEF Callback
<1>3. PICK r \in Callback : MovedTo(t, r)
    BY TimerWorkMoves DEF Moves
<1>4. /\ r.entity = e
      /\ r.pc = "read_seq" /\ r.start = running[t].start /\ r.ref = running[t].ref
  <2>1. running'[t] = r
      BY <1>3 DEF MovedTo, TypeOK
  <2>2. running'[t] = [running[t] EXCEPT !.pc = "read_seq", !.end = now]
      BY <1>2 DEF TimerWork, TypeOK
  <2> QED BY <1>1, <1>2, <2>1, <2>2 DEF Callback
<1>5. r # Idle
    BY IdleAssumption
<1>6. Inside(t, e, r)
    BY <1>1, <1>2, <1>3, <1>4, <1>5 DEF Inside, MovedTo, TimerWork
<1>7. ASSUME e \in Timers, ~ Reentrant
      PROVE  InStep(e, r)'
  <2>1. InStep(e, running[t])
      BY <1>1, <1>2, <1>7, TickInStep
  <2>2. LastStart(e)' = LastStart(e) /\ Reference(e, r.start)' = Reference(e, r.start)
      BY <1>6, <1>7, SameRowsSay DEF Inside
  <2> QED BY <1>1, <1>4, <2>1, <2>2 DEF InStep, Early, TimerWork
<1> QED BY <1>6, <1>7, InsideKeepsTimers

LEMMA ReadSeqKeepsTimers ==
  ASSUME TypeOK, TimerSteps, RowTimes, Exclusive', TimerStates, NEW t \in Threads, ReadSeq(t)
  PROVE  TimerStates'
<1>1. running[t] \in Callback /\ running[t].pc = "read_seq" /\ running[t] # Idle
    BY DEF ReadSeq, At, TypeOK
<1>2. PICK e \in Entities : e = running[t].entity
    BY <1>1 DEF Callback
<1>3. PICK r \in Callback : MovedTo(t, r)
    BY ReadSeqMoves DEF Moves
<1>4. /\ r.entity = e
      /\ r.pc = "write_seq" /\ r.start = running[t].start /\ r.ref = running[t].ref
      /\ r.seq = timer_seq[e]
  <2>1. running'[t] = r
      BY <1>3 DEF MovedTo, TypeOK
  <2>2. running'[t] = [running[t] EXCEPT !.seq = timer_seq[e], !.pc = "write_seq"]
      BY <1>2 DEF ReadSeq, TypeOK
  <2> QED BY <1>1, <1>2, <2>1, <2>2 DEF Callback
<1>5. r # Idle
    BY IdleAssumption
<1>6. Inside(t, e, r)
    BY <1>1, <1>2, <1>3, <1>4, <1>5 DEF Inside, MovedTo, ReadSeq
<1>7. ASSUME e \in Timers, ~ Reentrant
      PROVE  InStep(e, r)'
  <2>1. InStep(e, running[t])
      BY <1>1, <1>2, <1>7, TickInStep
  <2>2. LastStart(e)' = LastStart(e) /\ Reference(e, r.start)' = Reference(e, r.start)
      BY <1>6, <1>7, SameRowsSay DEF Inside
  <2>3. timer_seq[e] = Len(rows[e])
    <3>1. timer_seq[e] = Len(rows[e]) + 0
        BY <1>1, <2>1 DEF InStep
    <3>2. Len(rows[e]) \in Nat
        BY DEF TypeOK
    <3> QED BY <3>1, <3>2
  <2> QED BY <1>1, <1>4, <2>1, <2>2, <2>3 DEF InStep, Early, ReadSeq
<1> QED BY <1>6, <1>7, InsideKeepsTimers

LEMMA WriteSeqKeepsTimers ==
  ASSUME TypeOK, TimerSteps, RowTimes, Exclusive', TimerStates, NEW t \in Threads, WriteSeq(t)
  PROVE  TimerStates'
<1>1. running[t] \in Callback /\ running[t].pc = "write_seq" /\ running[t] # Idle
    BY DEF WriteSeq, At, TypeOK
<1>2. PICK e \in Entities : e = running[t].entity
    BY <1>1 DEF Callback
<1>3. PICK r \in Callback : MovedTo(t, r)
    BY WriteSeqMoves DEF Moves
<1>4. /\ r.entity = e
      /\ r.pc = "record" /\ r.start = running[t].start /\ r.ref = running[t].ref
      /\ r.seq = running[t].seq
  <2>1. running'[t] = r
      BY <1>3 DEF MovedTo, TypeOK
  <2>2. running'[t] = [running[t] EXCEPT !.pc = "record"]
      BY <1>2 DEF WriteSeq, TypeOK
  <2> QED BY <1>1, <1>2, <2>1, <2>2 DEF Callback
<1>5. r # Idle
    BY IdleAssumption
<1>6. Inside(t, e, r)
    BY <1>1, <1>2, <1>3, <1>4, <1>5 DEF Inside, MovedTo, WriteSeq, TypeOK
<1>7. ASSUME e \in Timers, ~ Reentrant
      PROVE  InStep(e, r)'
  <2>1. InStep(e, running[t])
      BY <1>1, <1>2, <1>7, TickInStep
  <2>2. LastStart(e)' = LastStart(e) /\ Reference(e, r.start)' = Reference(e, r.start)
      BY <1>6, <1>7, SameRowsSay DEF Inside
  <2>3. timer_seq'[e] = r.seq + 1 /\ r.seq = Len(rows[e])
      BY <1>1, <1>2, <1>4, <1>7, <2>1 DEF WriteSeq, TypeOK, InStep
  <2>4. UNCHANGED <<timer_prev_fire, rows>>
      BY DEF WriteSeq
  <2> QED BY <1>1, <1>4, <2>1, <2>2, <2>3, <2>4 DEF InStep, Early
<1> QED BY <1>6, <1>7, InsideKeepsTimers

LEMMA RecordKeepsTimers ==
  ASSUME TypeOK, Exclusive, TimerStates, NEW t \in Threads, Record(t)
  PROVE  TimerStates'
<1>1. Records(t) /\ UNCHANGED <<timer_prev_fire, timer_seq>>
    BY DEF Record, Records, RowOf, At, InCallback, world
<1>2. running[t] \in Callback /\ running[t].pc = "record" /\ running[t] # Idle
    BY <1>1 DEF Records, InCallback, TypeOK
<1>3. PICK c \in Callback : c = running[t]
    BY <1>2
<1>4. PICK e \in Entities : e = c.entity
    BY <1>2, <1>3 DEF Callback
<1>5. /\ running' = [running EXCEPT ![t] = Idle]
      /\ rows' = [rows EXCEPT ![e] = Append(rows[e], RowOf(c))]
      /\ callback_group_type' = callback_group_type
    BY <1>1, <1>3, <1>4 DEF Records, TypeOK
<1>6. \A u \in Threads : running'[u] = IF u = t THEN Idle ELSE running[u]
    BY <1>5, ThreadByThread
<1>7. Reentrant' <=> Reentrant
    BY <1>5 DEF Reentrant
<1> SUFFICES ASSUME ~ Reentrant, NEW m \in Timers PROVE TimerState(m)'
    BY <1>7 DEF TimerStates
<1>8. m \in Entities /\ TimerState(m)
    BY DEF TimerStates, Entities
<1>9. CASE m # e
  <2>1. rows'[m] = rows[m]
      BY <1>5, <1>8, <1>9 DEF TypeOK
  <2>2. Leaves(m)
      BY <1>1, <1>3, <1>4, <1>5, <1>9, <2>1, OtherTimersLeft
  <2> QED BY <1>8, <2>2, LeftAlone
<1>10. CASE m = e
  <2> DEFINE n == Len(rows[m])
             row == RowOf(c)
  <2>1. InStep(m, c)
      BY <1>2, <1>3, <1>4, <1>10, TickInStep
  <2>2. /\ row.seq = c.seq /\ row.t_reference = c.ref /\ row.t_start = c.start
        /\ row \in Row
      BY <1>3 DEF RowOf, Row, Callback
  <2>3. rows[m] \in Seq(Row) /\ n \in Nat
      BY <1>8 DEF TypeOK
  <2>4. rows'[m] = Append(rows[m], row)
      BY <1>5, <1>8, <1>10 DEF TypeOK
  <2>5. /\ Len(rows'[m]) = n + 1
        /\ \A k \in 1 .. n : rows'[m][k] = rows[m][k]
        /\ rows'[m][n + 1] = row
      BY <2>2, <2>3, <2>4
  <2> HIDE DEF row
  <2>6. /\ row.seq = n
        /\ row.t_reference = Reference(m, c.start)
        /\ timer_prev_fire[m] = row.t_start
        /\ timer_seq[m] = n + 1
      BY <1>2, <1>3, <2>1, <2>2 DEF InStep, Early
  <2>7. ChainOf(m)'
    <3> SUFFICES ASSUME NEW k \in 1 .. n + 1
                 PROVE  /\ rows'[m][k].seq = k - 1
                        /\ rows'[m][k].t_reference =
                             IF k = 1 THEN rows'[m][k].t_start
                             ELSE rows'[m][k - 1].t_start + TimerPeriod
        BY <2>5 DEF ChainOf
    <3>1. CASE k \in 1 .. n
      <4>1. /\ rows[m][k].seq = k - 1
            /\ rows[m][k].t_reference =
                 IF k = 1 THEN rows[m][k].t_start
                 ELSE rows[m][k - 1].t_start + TimerPeriod
          BY <1>8, <3>1 DEF TimerState, ChainOf
      <4>2. k # 1 => k - 1 \in 1 .. n
          BY <2>3, <3>1
      <4> QED BY <2>5, <3>1, <4>1, <4>2
    <3>2. CASE k = n + 1
      <4>1. rows'[m][k] = row /\ row.seq = k - 1
          BY <2>3, <2>5, <2>6, <3>2
      <4>2. CASE n = 0
          BY <2>2, <2>6, <3>2, <4>1, <4>2 DEF Reference
      <4>3. CASE n # 0
        <5>1. k # 1 /\ k - 1 = n /\ n \in 1 .. n
            BY <2>3, <3>2, <4>3
        <5>2. row.t_reference = rows[m][n].t_start + TimerPeriod
            BY <2>6, <4>3 DEF Reference, LastStart
        <5> QED BY <2>5, <4>1, <5>1, <5>2
      <4> QED BY <4>2, <4>3
    <3> QED BY <2>3, <3>1, <3>2
  <2>8. AtRest(m)'
      BY <1>1, <2>3, <2>5, <2>6 DEF AtRest, LastStart
  <2>9. ASSUME NEW u \in Threads, Runs(u, m)' PROVE FALSE
    <3>1. u # t /\ Runs(u, m)
        BY <1>6, <2>9 DEF Runs
    <3>2. Runs(t, m)
        BY <1>2, <1>3, <1>4, <1>10 DEF Runs
    <3> QED BY <3>1, <3>2, OneTickAtATime
  <2> QED BY <2>7, <2>8, <2>9 DEF TimerState
<1> QED BY <1>9, <1>10

LEMMA EntersKeepsTimers ==
  ASSUME TypeOK, Exclusive', TimerStates, NEW t \in Threads, Enters(t),
         UNCHANGED <<timer_prev_fire, timer_seq>>
  PROVE  TimerStates'
<1>1. PICK e \in Entities, seq \in Nat, ref \in Nat :
        /\ CanBeTaken(e)
        /\ running' = [running EXCEPT ![t] =
             [entity |-> e, pc |-> "enter", seq |-> seq, ref |-> ref, start |-> 0, end |-> 0]]
    BY DEF Enters
<1>2. PICK r \in Callback : r = [entity |-> e, pc |-> "enter", seq |-> seq, ref |-> ref,
                                 start |-> 0, end |-> 0]
    BY DEF Callback
<1>3. /\ running' = [running EXCEPT ![t] = r]
      /\ r.entity = e /\ r.pc = "enter" /\ r # Idle
    BY <1>1, <1>2, IdleAssumption
<1>a. \A u \in Threads : running'[u] = IF u = t THEN r ELSE running[u]
    BY <1>3, ThreadByThread
<1>4. running[t] = Idle /\ rows' = rows /\ callback_group_type' = callback_group_type
    BY DEF Enters
<1>5. Reentrant' <=> Reentrant
    BY <1>4 DEF Reentrant
<1> SUFFICES ASSUME ~ Reentrant, NEW m \in Timers PROVE TimerState(m)'
    BY <1>5 DEF TimerStates
<1>6. m \in Entities /\ TimerState(m)
    BY DEF TimerStates, Entities
<1>7. CASE m # e
  <2>1. Leaves(m)
      BY <1>3, <1>4, <1>7, OtherTimersLeft
  <2> QED BY <1>6, <2>1, LeftAlone
<1>8. CASE m = e
  <2>1. \A u \in Threads : ~ Runs(u, m)
      BY <1>1, <1>6, <1>8 DEF CanBeTaken
  <2>2. AtRest(m)
      BY <1>6, <2>1 DEF TimerState
  <2>3. Len(rows[m]) \in Nat
      BY <1>6 DEF TypeOK
  <2>4. LastStart(m)' = LastStart(m)
      BY <1>4 DEF LastStart
  <2>5. running'[t] = r
      BY <1>a
  <2>6. InStep(m, running[t])'
    <3>1. timer_prev_fire'[m] = LastStart(m)'
        BY <2>2, <2>4 DEF AtRest
    <3>2. timer_seq'[m] = Len(rows'[m]) + 0
        BY <1>4, <2>2, <2>3 DEF AtRest
    <3> QED BY <1>3, <2>5, <3>1, <3>2 DEF InStep, Early
  <2>7. Runs(t, m)'
      BY <1>3, <1>8, <2>5 DEF Runs
  <2>8. ChainOf(m)'
      BY <1>4, <1>6 DEF TimerState, ChainOf
  <2> QED BY <1>5, <2>6, <2>7, <2>8, TickMovesOn
<1> QED BY <1>7, <1>8

LEMMA InitTimers == Init => TimerStates
<1> SUFFICES ASSUME Init, NEW m \in Timers PROVE TimerState(m)
    BY DEF TimerStates
<1>1. rows[m] = << >> /\ Len(rows[m]) = 0
    BY DEF Init, Entities
<1>2. AtRest(m)
    BY <1>1 DEF Init, AtRest, LastStart
<1> QED BY <1>1, <1>2 DEF Init, TimerState, ChainOf, Runs

LEMMA TimersKept ==
  ASSUME TypeOK, TimerSteps, Spans, TimerStates, [Next]_vars, Spans'
  PROVE  TimerStates'
<1>1. Exclusive /\ Exclusive' /\ RowTimes
    BY DEF Spans
<1>2. CASE Tick \/ (\E s \in Subscriptions : Publish(s)) \/ UNCHANGED vars
  <2>1. UNCHANGED <<callback_group_type, rows, running, timer_prev_fire, timer_seq>>
      BY <1>2 DEF Tick, Publish, vars
  <2>2. \A m \in Timers : Leaves(m)
      BY <2>1 DEF Leaves, Runs
  <2> QED BY <2>1, <2>2, LeftAlone DEF TimerStates, Reentrant
<1>3. ASSUME NEW t \in Threads,
             \/ \E s \in Subscriptions : StartProbe(t, s)
             \/ \E m \in Timers : StartTimer(t, m)
      PROVE  TimerStates'
  <2>1. UNCHANGED <<timer_prev_fire, timer_seq>>
      BY <1>3 DEF StartProbe, StartTimer, Enter
  <2> QED BY <1>1, <1>3, <2>1, StartEnters, EntersKeepsTimers
<1> QED
    BY <1>1, <1>2, <1>3, StampKeepsTimers, ReadPrevKeepsTimers, WritePrevKeepsTimers,
       ProbeWorkKeepsTimers, TimerWorkKeepsTimers, ReadSeqKeepsTimers,
       WriteSeqKeepsTimers, RecordKeepsTimers
       DEF Next, on_probe, on_timer

-----------------------------------------------------------------------------
(* Probe rows.                                                             *)

\* Message number n of subscription s has left its queue.
Behind(s, n) ==
  /\ n < published[s]
  /\ \A i \in 1 .. Len(queue[s]) : n < queue[s][i].seq

\* A message in the hands of a callback: later than those that have a row,
\* or at least another one where callbacks overtake each other.
Served(s, c) ==
  /\ Behind(s, c.seq)
  /\ c.ref <= now
  /\ c.pc # "enter" => c.ref <= c.start
  /\ \A k \in 1 .. Len(rows[s]) :
       /\ rows[s][k].seq # c.seq
       /\ ~ Reentrant => rows[s][k].seq < c.seq

QueueInOrder(s) ==
  /\ \A i \in 1 .. Len(queue[s]) :
       queue[s][i].seq < published[s] /\ queue[s][i].t_published <= now
  /\ \A i, j \in 1 .. Len(queue[s]) : i < j => queue[s][i].seq < queue[s][j].seq

RowsInOrder(s) ==
  /\ \A l \in 1 .. Len(rows[s]) :
       Behind(s, rows[s][l].seq) /\ rows[s][l].t_reference <= rows[s][l].t_start
  /\ \A l \in 1 .. Len(rows[s]) : \A k \in 1 .. l - 1 :
       /\ rows[s][k].seq # rows[s][l].seq
       /\ ~ Reentrant => rows[s][k].seq < rows[s][l].seq

ServedInOrder(s) ==
  /\ \A t \in Threads : Runs(t, s) => Served(s, running[t])
  /\ \A t, u \in Threads :
       t # u /\ Runs(t, s) /\ Runs(u, s) => running[t].seq # running[u].seq

ProbeState(s) == QueueInOrder(s) /\ RowsInOrder(s) /\ ServedInOrder(s)

ProbeStates == \A s \in Subscriptions : ProbeState(s)

\* A step that leaves a subscription and its callbacks alone.
LeavesProbe(s) ==
  /\ rows'[s] = rows[s] /\ queue'[s] = queue[s] /\ published'[s] = published[s]
  /\ callback_group_type' = callback_group_type
  /\ now' \in {now, now + 1}
  /\ \A t \in Threads :
       /\ Runs(t, s)' <=> Runs(t, s)
       /\ Runs(t, s) => running'[t] = running[t]

\* The messages at hand, when neither the queue nor the rows change.
LEMMA SameQueueSays ==
  ASSUME NEW s \in Subscriptions, NEW n,
         queue'[s] = queue[s], published'[s] = published[s], Behind(s, n)
  PROVE  Behind(s, n)'
BY DEF Behind

LEMMA LaterClock ==
  ASSUME TypeOK, now' \in {now, now + 1}, NEW n \in Nat, n <= now
  PROVE  n <= now'
BY DEF TypeOK

LEMMA QueueTypes ==
  ASSUME TypeOK, NEW s \in Subscriptions, NEW i \in 1 .. Len(queue[s])
  PROVE  /\ queue[s][i] \in Message
         /\ queue[s][i].seq \in Nat /\ queue[s][i].t_published \in Nat
<1>1. queue[s] \in Seq(Message)
    BY DEF TypeOK
<1>2. queue[s][i] \in Message
    BY <1>1
<1> QED BY <1>2 DEF Message

LEMMA QueueLeftInOrder ==
  ASSUME TypeOK, NEW s \in Subscriptions, QueueInOrder(s),
         queue'[s] = queue[s], published'[s] = published[s], now' \in {now, now + 1}
  PROVE  QueueInOrder(s)'
<1>1. \A i \in 1 .. Len(queue[s]) : queue[s][i].t_published <= now'
    BY QueueTypes, LaterClock DEF QueueInOrder
<1> QED BY <1>1 DEF QueueInOrder

LEMMA RowsLeftInOrder ==
  ASSUME NEW s \in Subscriptions, RowsInOrder(s), rows'[s] = rows[s],
         \A n \in {rows[s][k].seq : k \in 1 .. Len(rows[s])} : Behind(s, n)',
         callback_group_type' = callback_group_type
  PROVE  RowsInOrder(s)'
<1>1. Reentrant' <=> Reentrant
    BY DEF Reentrant
<1>2. \A l \in 1 .. Len(rows[s]) : Behind(s, rows[s][l].seq)'
  <2> TAKE l \in 1 .. Len(rows[s])
  <2>1. PICK n : n = rows[s][l].seq
      OBVIOUS
  <2>2. Behind(s, n)'
      BY <2>1
  <2> QED BY <2>1, <2>2 DEF Behind
<1> QED BY <1>1, <1>2 DEF RowsInOrder, Behind

LEMMA ServedLeft ==
  ASSUME TypeOK, NEW s \in Subscriptions, NEW c \in Callback, Served(s, c),
         rows'[s] = rows[s], Behind(s, c.seq)', now' \in {now, now + 1},
         callback_group_type' = callback_group_type
  PROVE  Served(s, c)'
<1>1. c.ref <= now'
    BY LaterClock DEF Served, Callback
<1>2. Reentrant' <=> Reentrant
    BY DEF Reentrant
<1> QED BY <1>1, <1>2 DEF Served

LEMMA ProbeLeftAlone ==
  ASSUME TypeOK, NEW s \in Subscriptions, ProbeState(s), LeavesProbe(s)
  PROVE  ProbeState(s)'
<1> USE DEF ProbeState
<1>1. /\ rows'[s] = rows[s] /\ queue'[s] = queue[s] /\ published'[s] = published[s]
      /\ callback_group_type' = callback_group_type /\ now' \in {now, now + 1}
    BY DEF LeavesProbe
<1>2. QueueInOrder(s)'
    BY <1>1, QueueLeftInOrder
<1>3. RowsInOrder(s)'
  <2>1. \A n \in {rows[s][k].seq : k \in 1 .. Len(rows[s])} : Behind(s, n)'
      BY <1>1, SameQueueSays DEF RowsInOrder
  <2> QED BY <1>1, <2>1, RowsLeftInOrder
<1>4. ASSUME NEW t \in Threads, Runs(t, s)'
      PROVE  Served(s, running[t])'
  <2>1. Runs(t, s) /\ running'[t] = running[t]
      BY <1>4 DEF LeavesProbe
  <2>2. PICK c \in Callback : c = running[t]
      BY <2>1 DEF Runs, TypeOK
  <2>3. Served(s, c)
      BY <2>1, <2>2 DEF ServedInOrder
  <2>4. Behind(s, c.seq)'
      BY <1>1, <2>3, SameQueueSays DEF Served
  <2>5. Served(s, c)'
      BY <1>1, <2>3, <2>4, ServedLeft
  <2> QED BY <2>1, <2>2, <2>5 DEF Served, Behind
<1>5. ServedInOrder(s)'
    BY <1>4 DEF ServedInOrder, LeavesProbe
<1> QED BY <1>2, <1>3, <1>5

\* A step of thread t leaves alone every subscription but its callback's.
LEMMA OtherProbesLeft ==
  ASSUME TypeOK, NEW t \in Threads, NEW r, NEW s \in Subscriptions,
         running' = [running EXCEPT ![t] = r],
         running[t] # Idle => running[t].entity # s,
         r # Idle => r.entity # s,
         rows'[s] = rows[s], queue'[s] = queue[s], published'[s] = published[s],
         UNCHANGED <<now, callback_group_type>>
  PROVE  LeavesProbe(s)
<1>1. \A u \in Threads : running'[u] = IF u = t THEN r ELSE running[u]
    BY ThreadByThread
<1> QED BY <1>1 DEF LeavesProbe, Runs

\* A step inside the callback that keeps the message at hand.
LEMMA InsideKeepsProbes ==
  ASSUME TypeOK, ProbeStates, NEW t \in Threads, NEW r \in Callback, MovedTo(t, r),
         running[t].entity \in Subscriptions =>
           r.seq = running[t].seq /\ r.ref = running[t].ref,
         UNCHANGED <<queue, published>>
  PROVE  ProbeStates'
<1> SUFFICES ASSUME NEW s \in Subscriptions PROVE ProbeState(s)'
    BY DEF ProbeStates
<1>1. /\ running' = [running EXCEPT ![t] = r]
      /\ running[t] # Idle /\ r.entity = running[t].entity
      /\ UNCHANGED <<rows, now, callback_group_type>>
    BY DEF MovedTo, InCallback
<1>2. ProbeState(s)
    BY DEF ProbeStates
<1>3. CASE running[t].entity # s
  <2>1. LeavesProbe(s)
      BY <1>1, <1>3, OtherProbesLeft
  <2> QED BY <1>2, <2>1, ProbeLeftAlone
<1>4. CASE running[t].entity = s
  <2>1. PICK c \in Callback : c = running[t]
      BY <1>1 DEF TypeOK
  <2>2. Served(s, c)
      BY <1>1, <1>2, <1>4, <2>1 DEF ProbeState, ServedInOrder, Runs
  <2>3. r.seq = c.seq /\ r.ref = c.ref
      BY <1>4, <2>1
  <2>4. r.ref <= r.start
    <3>1. CASE c.pc = "enter"
        BY <2>1, <2>2, <2>3, <3>1 DEF MovedTo, Served
    <3>2. CASE c.pc # "enter"
        BY <2>1, <2>2, <2>3, <3>2 DEF MovedTo, Served
    <3> QED BY <3>1, <3>2
  <2>5. Served(s, r)
      BY <2>2, <2>3, <2>4 DEF Served
  <2>6. \A u \in Threads : running'[u] = IF u = t THEN r ELSE running[u]
      BY <1>1, ThreadByThread
  <2>7. ASSUME NEW u \in Threads, Runs(u, s)'
        PROVE  /\ Runs(u, s) /\ running'[u].seq = running[u].seq
               /\ Served(s, running'[u])
    <3>1. CASE u = t
        BY <1>1, <1>4, <2>1, <2>3, <2>5, <2>6, <3>1 DEF Runs
    <3>2. CASE u # t
      <4>1. running'[u] = running[u] /\ Runs(u, s)
          BY <2>6, <2>7, <3>2 DEF Runs
      <4> QED BY <1>2, <4>1 DEF ProbeState, ServedInOrder
    <3> QED BY <3>1, <3>2
  <2>8. ServedInOrder(s)'
      BY <1>1, <1>2, <2>7
         DEF ServedInOrder, ProbeState, Served, Behind, Reentrant
  <2>9. QueueInOrder(s)' /\ RowsInOrder(s)'
      BY <1>1, <1>2 DEF ProbeState, QueueInOrder, RowsInOrder, Behind, Reentrant
  <2> QED BY <2>8, <2>9 DEF ProbeState
<1> QED BY <1>3, <1>4

LEMMA OnProbeKeepsProbes ==
  ASSUME TypeOK, TimerSteps, ProbeStates, NEW t \in Threads,
         \/ Stamp(t) \/ ReadPrev(t) \/ WritePrev(t) \/ ProbeWork(t) \/ TimerWork(t)
         \/ ReadSeq(t) \/ WriteSeq(t)
  PROVE  ProbeStates'
<1>1. Moves(t)
    BY StampMoves, ReadPrevMoves, WritePrevMoves, ProbeWorkMoves, TimerWorkMoves,
       ReadSeqMoves, WriteSeqMoves
<1>2. PICK r \in Callback : MovedTo(t, r)
    BY <1>1 DEF Moves
<1>3. running[t] \in Callback /\ running'[t] = r
    BY <1>2 DEF MovedTo, InCallback, TypeOK
<1>4. UNCHANGED <<queue, published>>
    BY DEF Stamp, ReadPrev, WritePrev, ProbeWork, TimerWork, ReadSeq, WriteSeq, world
<1>5. ASSUME running[t].entity \in Subscriptions
      PROVE  r.seq = running[t].seq /\ r.ref = running[t].ref
  <2>1. running[t].entity \notin Timers
      BY <1>5, BenchNodeAssumption DEF BenchNodeAssumption
  <2>2. CASE Stamp(t)
      BY <1>3, <2>2 DEF Stamp, TypeOK, Callback
  <2>3. CASE ProbeWork(t)
      BY <1>3, <2>3 DEF ProbeWork, TypeOK, Callback
  <2>4. ~ (ReadPrev(t) \/ WritePrev(t) \/ TimerWork(t) \/ ReadSeq(t) \/ WriteSeq(t))
      BY <2>1 DEF ReadPrev, WritePrev, TimerWork, ReadSeq, WriteSeq, TimerSteps, At,
                  InCallback
  <2> QED BY <2>2, <2>3, <2>4
<1> QED BY <1>2, <1>4, <1>5, InsideKeepsProbes

LEMMA StartTimerKeepsProbes ==
  ASSUME TypeOK, ProbeStates, NEW t \in Threads, NEW m \in Timers, StartTimer(t, m)
  PROVE  ProbeStates'
<1> SUFFICES ASSUME NEW s \in Subscriptions PROVE ProbeState(s)'
    BY DEF ProbeStates
<1>1. PICK r : r = [entity |-> m, pc |-> "enter", seq |-> 0, ref |-> 0,
                    start |-> 0, end |-> 0]
    OBVIOUS
<1>a. running' = [running EXCEPT ![t] = r] /\ r.entity = m
    BY <1>1 DEF StartTimer, Enter
<1>2. /\ running[t] = Idle /\ m # s
      /\ UNCHANGED <<rows, queue, published, now, callback_group_type>>
    BY BenchNodeAssumption DEF StartTimer, Enter, world, BenchNodeAssumption
<1>3. LeavesProbe(s)
    BY <1>a, <1>2, OtherProbesLeft
<1> QED BY <1>3, ProbeLeftAlone DEF ProbeStates

LEMMA StartProbeKeepsProbes ==
  ASSUME TypeOK, ProbeStates, Exclusive', NEW t \in Threads, NEW o \in Subscriptions,
         StartProbe(t, o)
  PROVE  ProbeStates'
<1> SUFFICES ASSUME NEW s \in Subscriptions PROVE ProbeState(s)'
    BY DEF ProbeStates
<1>0. PICK head : head = Head(queue[o])
    OBVIOUS
<1>1. PICK r : r = [entity |-> o, pc |-> "enter", seq |-> head.seq,
                    ref |-> head.t_published, start |-> 0, end |-> 0]
    OBVIOUS
<1>2. /\ running' = [running EXCEPT ![t] = r]
      /\ r.entity = o /\ r.pc = "enter" /\ r.seq = head.seq /\ r.ref = head.t_published
    BY <1>0, <1>1 DEF StartProbe, Enter
<1>3. /\ running[t] = Idle /\ queue[o] # << >> /\ CanBeTaken(o)
      /\ queue' = [queue EXCEPT ![o] = Tail(queue[o])]
      /\ UNCHANGED <<rows, published, now, callback_group_type>>
    BY DEF StartProbe, Enter, Take, world
<1>4. ProbeState(s)
    BY DEF ProbeStates
<1>5. CASE s # o
  <2>1. queue'[s] = queue[s]
      BY <1>3, <1>5 DEF TypeOK
  <2>2. LeavesProbe(s)
      BY <1>2, <1>3, <1>5, <2>1, OtherProbesLeft
  <2> QED BY <1>4, <2>2, ProbeLeftAlone
<1>6. CASE s = o
  <2> DEFINE q == queue[s]
             w == queue'[s]
  <2>1. q \in Seq(Message) /\ q # << >>
      BY <1>3, <1>6 DEF TypeOK
  <2>2. /\ head = q[1] /\ 1 \in 1 .. Len(q)
        /\ w = Tail(q) /\ Len(w) = Len(q) - 1
        /\ \A i \in 1 .. Len(w) : w[i] = q[i + 1] /\ i + 1 \in 1 .. Len(q)
      BY <1>0, <1>3, <1>6, <2>1 DEF TypeOK
  <2>3. /\ head.seq < published[s] /\ head.t_published <= now
        /\ \A i \in 1 .. Len(w) : head.seq < w[i].seq
    <3>1. \A i \in 1 .. Len(w) : q[1].seq < q[i + 1].seq
      <4> TAKE i \in 1 .. Len(w)
      <4>1. i + 1 \in 1 .. Len(q) /\ 1 < i + 1
          BY <2>2
      <4> QED BY <1>4, <2>2, <4>1 DEF ProbeState, QueueInOrder
    <3> QED BY <1>4, <2>2, <3>1 DEF ProbeState, QueueInOrder
  <2>4. ASSUME NEW n, Behind(s, n)
        PROVE  Behind(s, n)' /\ n < head.seq
      BY <1>3, <2>2, <2>4 DEF Behind
  <2>5. QueueInOrder(s)'
    <3>1. \A i \in 1 .. Len(w) : w[i].seq < published[s] /\ w[i].t_published <= now
        BY <1>4, <2>2 DEF ProbeState, QueueInOrder
    <3>2. \A i, j \in 1 .. Len(w) : i < j => w[i].seq < w[j].seq
      <4> SUFFICES ASSUME NEW i \in 1 .. Len(w), NEW j \in 1 .. Len(w), i < j
                   PROVE  w[i].seq < w[j].seq
          OBVIOUS
      <4>1. i + 1 \in 1 .. Len(q) /\ j + 1 \in 1 .. Len(q) /\ i + 1 < j + 1
          BY <2>2
      <4> QED BY <1>4, <2>2, <4>1 DEF ProbeState, QueueInOrder
    <3> QED BY <1>3, <3>1, <3>2 DEF QueueInOrder
  <2> HIDE DEF w, q
  <2>6. RowsInOrder(s)'
    <3>1. \A n \in {rows[s][k].seq : k \in 1 .. Len(rows[s])} : Behind(s, n)'
        BY <1>4, <2>4 DEF ProbeState, RowsInOrder
    <3> QED BY <1>3, <1>4, <3>1, RowsLeftInOrder DEF ProbeState
  <2>7. \A u \in Threads : running'[u] = IF u = t THEN r ELSE running[u]
      BY <1>2, ThreadByThread, ZenonT(40)
  <2>8. Behind(s, head.seq)'
      BY <1>3, <2>3 DEF Behind, w
  <2>9. \A k \in 1 .. Len(rows[s]) : rows[s][k].seq < head.seq /\ rows[s][k].seq # head.seq
    <3> TAKE k \in 1 .. Len(rows[s])
    <3>1. rows[s][k].seq < head.seq
        BY <1>4, <2>4 DEF ProbeState, RowsInOrder
    <3>2. rows[s] \in Seq(Row)
        BY DEF TypeOK, Entities
    <3>3. rows[s][k] \in Row
        BY <3>2
    <3>4. rows[s][k].seq \in Nat /\ head \in Message
        BY <2>1, <2>2, <3>3 DEF Row, q
    <3>5. head.seq \in Nat
        BY <3>4 DEF Message
    <3> QED BY <3>1, <3>4, <3>5
  <2>10. Served(s, r)'
      BY <1>2, <1>3, <2>3, <2>8, <2>9 DEF Served, Behind
  <2>11. ASSUME NEW u \in Threads, u # t, Runs(u, s)'
         PROVE  Runs(u, s) /\ Served(s, running[u])' /\ running'[u].seq # head.seq
    <3>1. running'[u] = running[u] /\ Runs(u, s)
        BY <2>7, <2>11 DEF Runs
    <3>2. PICK c \in Callback : c = running[u]
        BY <3>1 DEF Runs, TypeOK
    <3>3. Served(s, c)
        BY <1>4, <3>1, <3>2 DEF ProbeState, ServedInOrder
    <3>4. Behind(s, c.seq)' /\ c.seq < head.seq
        BY <2>4, <3>3 DEF Served
    <3>5. Served(s, c)'
        BY <1>3, <3>3, <3>4, ServedLeft
    <3>6. c.seq \in Nat /\ head \in Message
        BY <2>1, <2>2 DEF Callback, q
    <3>7. head.seq \in Nat
        BY <3>6 DEF Message
    <3> QED BY <3>1, <3>2, <3>4, <3>5, <3>6, <3>7 DEF Served, Behind
  <2>12. running'[t] = r
      BY <2>7
  <2>13. \A u \in Threads : Runs(u, s)' => Served(s, running[u])'
      BY <2>10, <2>11, <2>12 DEF Served, Behind
  <2>14. ASSUME NEW u \in Threads, NEW v \in Threads, u # v, Runs(u, s)', Runs(v, s)'
         PROVE  running'[u].seq # running'[v].seq
    <3>1. CASE u # t /\ v # t
        BY <1>4, <2>7, <2>11, <2>14, <3>1 DEF ProbeState, ServedInOrder
    <3>2. CASE u = t
        BY <1>2, <2>11, <2>12, <2>14, <3>2
    <3>3. CASE v = t
        BY <1>2, <2>11, <2>12, <2>14, <3>3
    <3> QED BY <3>1, <3>2, <3>3
  <2>15. ServedInOrder(s)'
      BY <2>13, <2>14 DEF ServedInOrder
  <2> QED BY <2>5, <2>6, <2>15 DEF ProbeState
<1> QED BY <1>5, <1>6

\* What is left of a queue has kept its order.
LEMMA KeepLastShifts ==
  ASSUME NEW a \in Seq(Message)
  PROVE  \E d \in {0, 1} :
           \A i \in 1 .. Len(KeepLast(a)) :
             i + d \in 1 .. Len(a) /\ KeepLast(a)[i] = a[i + d]
<1>1. CASE Len(a) <= Depth
  <2>1. KeepLast(a) = a
      BY <1>1 DEF KeepLast
  <2>2. \A i \in 1 .. Len(a) : i + 0 \in 1 .. Len(a) /\ a[i] = a[i + 0]
      OBVIOUS
  <2> QED BY <2>1, <2>2
<1>2. CASE ~ (Len(a) <= Depth)
  <2>1. KeepLast(a) = Tail(a) /\ a # << >>
      BY <1>2, DepthIsPositive DEF KeepLast
  <2>2. \A i \in 1 .. Len(Tail(a)) : i + 1 \in 1 .. Len(a) /\ Tail(a)[i] = a[i + 1]
      BY <2>1
  <2> QED BY <2>1, <2>2
<1> QED BY <1>1, <1>2

LEMMA RowTypes ==
  ASSUME TypeOK, NEW e \in Entities, NEW k \in 1 .. Len(rows[e])
  PROVE  rows[e][k] \in Row /\ rows[e][k].seq \in Nat
<1>1. rows[e] \in Seq(Row)
    BY DEF TypeOK
<1>2. rows[e][k] \in Row
    BY <1>1
<1> QED BY <1>2 DEF Row

LEMMA PublishKeepsProbes ==
  ASSUME TypeOK, ProbeStates, NEW o \in Subscriptions, Publish(o)
  PROVE  ProbeStates'
<1> SUFFICES ASSUME NEW s \in Subscriptions PROVE ProbeState(s)'
    BY DEF ProbeStates
<1>1. /\ published' = [published EXCEPT ![o] = @ + 1]
      /\ UNCHANGED <<callback_group_type, now, running, rows>>
    BY DEF Publish
<1>2. ProbeState(s) /\ s \in Entities
    BY DEF ProbeStates, Entities
<1>3. CASE s # o
  <2>1. queue'[s] = queue[s] /\ published'[s] = published[s]
      BY <1>1, <1>3 DEF Publish, TypeOK
  <2>2. LeavesProbe(s)
      BY <1>1, <2>1 DEF LeavesProbe, Runs
  <2> QED BY <1>2, <2>2, ProbeLeftAlone
<1>4. CASE s = o
  <2>1. PICK p \in Nat : p = published[s]
      BY DEF TypeOK
  <2>2. PICK x \in Message : x = [seq |-> published[s], t_published |-> now]
      BY DEF TypeOK, Message
  <2>3. PICK q \in Seq(Message) : q = queue[s]
      BY DEF TypeOK
  <2>a. Append(q, x) \in Seq(Message)
      BY <2>2, <2>3
  <2>4. PICK a \in Seq(Message) : a = Append(q, x)
      BY <2>a, Zenon
  <2>5. x.seq = p /\ x.t_published = now /\ published'[s] = p + 1
      BY <1>1, <1>4, <2>1, <2>2 DEF TypeOK
  <2>6. PICK w : w = queue'[s]
      OBVIOUS
  <2>7. w = KeepLast(a)
      BY <1>4, <2>2, <2>3, <2>4, <2>6 DEF Publish, TypeOK
  <2>8. PICK d \in {0, 1} :
          \A i \in 1 .. Len(w) : i + d \in 1 .. Len(a) /\ w[i] = a[i + d]
      BY <2>7, KeepLastShifts
  <2>9. /\ Len(a) = Len(q) + 1 /\ a[Len(q) + 1] = x
        /\ \A j \in 1 .. Len(q) : a[j] = q[j]
      BY <2>4
  <2>10. /\ \A j \in 1 .. Len(q) :
              /\ q[j].seq \in Nat /\ q[j].seq < p /\ q[j].t_published <= now
         /\ \A i, j \in 1 .. Len(q) : i < j => q[i].seq < q[j].seq
      BY <1>2, <2>1, <2>3, QueueTypes DEF ProbeState, QueueInOrder
  <2>11. /\ \A j \in 1 .. Len(a) : a[j].seq < p + 1 /\ a[j].t_published <= now
         /\ \A i, j \in 1 .. Len(a) : i < j => a[i].seq < a[j].seq
    <3>1. now \in Nat
        BY DEF TypeOK
    <3>2. ASSUME NEW j \in 1 .. Len(a)
          PROVE  a[j].seq < p + 1 /\ a[j].t_published <= now
      <4>1. CASE j \in 1 .. Len(q)
          BY <2>9, <2>10, <4>1
      <4>2. CASE j = Len(q) + 1
          BY <2>5, <2>9, <3>1, <4>2
      <4> QED BY <2>9, <4>1, <4>2
    <3>3. ASSUME NEW i \in 1 .. Len(a), NEW j \in 1 .. Len(a), i < j
          PROVE  a[i].seq < a[j].seq
      <4>1. i \in 1 .. Len(q)
          BY <2>9, <3>3
      <4>2. CASE j \in 1 .. Len(q)
          BY <2>9, <2>10, <3>3, <4>1, <4>2
      <4>3. CASE j = Len(q) + 1
          BY <2>5, <2>9, <2>10, <4>1, <4>3
      <4> QED BY <2>9, <4>2, <4>3
    <3> QED BY <3>2, <3>3
  <2>12. QueueInOrder(s)'
    <3>1. \A i \in 1 .. Len(w) : w[i].seq < p + 1 /\ w[i].t_published <= now
        BY <2>8, <2>11
    <3>2. \A i, j \in 1 .. Len(w) : i < j => w[i].seq < w[j].seq
      <4> SUFFICES ASSUME NEW i \in 1 .. Len(w), NEW j \in 1 .. Len(w), i < j
                   PROVE  w[i].seq < w[j].seq
          OBVIOUS
      <4>1. i + d \in 1 .. Len(a) /\ j + d \in 1 .. Len(a) /\ i + d < j + d
          BY <2>8
      <4> QED BY <2>8, <2>11, <4>1
    <3> QED BY <1>1, <2>5, <2>6, <3>1, <3>2 DEF QueueInOrder
  <2>13. ASSUME NEW n \in Nat, Behind(s, n)
         PROVE  Behind(s, n)'
    <3>1. n < p /\ \A j \in 1 .. Len(q) : n < q[j].seq
        BY <2>1, <2>3, <2>13 DEF Behind
    <3>2. ASSUME NEW j \in 1 .. Len(a) PROVE n < a[j].seq
      <4>1. CASE j \in 1 .. Len(q)
          BY <2>9, <3>1, <4>1
      <4>2. CASE j = Len(q) + 1
          BY <2>5, <2>9, <3>1, <4>2
      <4> QED BY <2>9, <4>1, <4>2
    <3>3. \A i \in 1 .. Len(w) : n < w[i].seq
        BY <2>8, <3>2
    <3> QED BY <2>5, <2>6, <3>1, <3>3 DEF Behind
  <2>14. RowsInOrder(s)'
    <3>1. \A n \in {rows[s][k].seq : k \in 1 .. Len(rows[s])} : Behind(s, n)'
        BY <1>2, <2>13, RowTypes DEF ProbeState, RowsInOrder
    <3> QED BY <1>1, <1>2, <3>1, RowsLeftInOrder DEF ProbeState
  <2>15. ASSUME NEW t \in Threads, Runs(t, s)'
         PROVE  Served(s, running[t])'
    <3>1. Runs(t, s) /\ running'[t] = running[t]
        BY <1>1, <2>15 DEF Runs
    <3>2. PICK c \in Callback : c = running[t]
        BY <3>1 DEF Runs, TypeOK
    <3>3. Served(s, c)
        BY <1>2, <3>1, <3>2 DEF ProbeState, ServedInOrder
    <3>4. Behind(s, c.seq)'
        BY <2>13, <3>3 DEF Served, Callback
    <3>5. Served(s, c)'
        BY <1>1, <3>3, <3>4, ServedLeft
    <3> QED BY <3>1, <3>2, <3>5 DEF Served, Behind
  <2>16. ServedInOrder(s)'
      BY <1>1, <1>2, <2>15 DEF ServedInOrder, ProbeState, Runs
  <2> QED BY <2>12, <2>14, <2>16 DEF ProbeState
<1> QED BY <1>3, <1>4

LEMMA RecordKeepsProbes ==
  ASSUME TypeOK, Exclusive, ProbeStates, NEW t \in Threads, Record(t)
  PROVE  ProbeStates'
<1> SUFFICES ASSUME NEW s \in Subscriptions PROVE ProbeState(s)'
    BY DEF ProbeStates
<1>1. Records(t) /\ UNCHANGED <<queue, published, now, callback_group_type>>
    BY DEF Record, Records, RowOf, At, InCallback, world
<1>2. running[t] \in Callback /\ running[t].pc = "record" /\ running[t] # Idle
    BY <1>1 DEF Records, InCallback, TypeOK
<1>3. PICK c \in Callback : c = running[t]
    BY <1>2
<1>4. PICK e \in Entities : e = c.entity
    BY <1>2, <1>3 DEF Callback
<1>5. /\ running' = [running EXCEPT ![t] = Idle]
      /\ rows' = [rows EXCEPT ![e] = Append(rows[e], RowOf(c))]
    BY <1>1, <1>3, <1>4 DEF Records, TypeOK
<1>6. \A u \in Threads : running'[u] = IF u = t THEN Idle ELSE running[u]
    BY <1>5, ThreadByThread
<1>7. ProbeState(s) /\ s \in Entities
    BY DEF ProbeStates, Entities
<1>8. CASE s # e
  <2>1. rows'[s] = rows[s]
      BY <1>5, <1>7, <1>8 DEF TypeOK
  <2>2. LeavesProbe(s)
      BY <1>1, <1>3, <1>4, <1>5, <1>8, <2>1, OtherProbesLeft
  <2> QED BY <1>7, <2>2, ProbeLeftAlone
<1>9. CASE s = e
  <2>1. Runs(t, s) /\ Served(s, c)
      BY <1>2, <1>3, <1>4, <1>7, <1>9 DEF Runs, ProbeState, ServedInOrder
  <2>2. PICK row \in Row : row = RowOf(c)
      BY <1>3 DEF RowOf, Row, Callback
  <2>3. row.seq = c.seq /\ row.t_reference = c.ref /\ row.t_start = c.start
      BY <2>2 DEF RowOf
  <2>4. PICK old \in Seq(Row) : old = rows[s]
      BY <1>7 DEF TypeOK
  <2>5. PICK new : new = rows'[s]
      OBVIOUS
  <2>6. new = Append(old, row)
      BY <1>5, <1>7, <1>9, <2>2, <2>4, <2>5 DEF TypeOK
  <2>7. /\ Len(new) = Len(old) + 1 /\ new[Len(old) + 1] = row /\ Len(old) \in Nat
        /\ \A k \in 1 .. Len(old) : new[k] = old[k]
      BY <2>6
  <2>8. Reentrant' <=> Reentrant
      BY <1>1 DEF Reentrant
  <2>9. ASSUME NEW n, Behind(s, n) PROVE Behind(s, n)'
      BY <1>1, <2>9 DEF Behind
  <2>10. QueueInOrder(s)'
      BY <1>1, <1>7 DEF ProbeState, QueueInOrder
  <2>11. /\ Behind(s, row.seq)' /\ row.t_reference <= row.t_start
         /\ \A k \in 1 .. Len(old) :
              /\ old[k].seq # row.seq
              /\ ~ Reentrant => old[k].seq < row.seq
      BY <1>2, <1>3, <2>1, <2>3, <2>4, <2>9 DEF Served
  <2>12. ASSUME NEW l \in 1 .. Len(old)
         PROVE  Behind(s, old[l].seq)' /\ old[l].t_reference <= old[l].t_start
      BY <1>7, <2>4, <2>9 DEF ProbeState, RowsInOrder
  <2>13. \A l \in 1 .. Len(old) : \A k \in 1 .. l - 1 :
           /\ old[k].seq # old[l].seq
           /\ ~ Reentrant => old[k].seq < old[l].seq
      BY <1>7, <2>4 DEF ProbeState, RowsInOrder
  <2>14. ASSUME NEW l \in 1 .. Len(new)
         PROVE  /\ Behind(s, new[l].seq)' /\ new[l].t_reference <= new[l].t_start
                /\ \A k \in 1 .. l - 1 :
                     /\ new[k].seq # new[l].seq
                     /\ ~ Reentrant => new[k].seq < new[l].seq
    <3>1. CASE l \in 1 .. Len(old)
      <4>1. new[l] = old[l] /\ \A k \in 1 .. l - 1 : k \in 1 .. Len(old) /\ new[k] = old[k]
          BY <2>7, <3>1
      <4> QED BY <2>12, <2>13, <3>1, <4>1
    <3>2. CASE l = Len(old) + 1
      <4>1. new[l] = row /\ \A k \in 1 .. l - 1 : k \in 1 .. Len(old) /\ new[k] = old[k]
          BY <2>7, <3>2
      <4> QED BY <2>11, <4>1
    <3> QED BY <2>7, <3>1, <3>2
  <2>15. RowsInOrder(s)'
      BY <2>5, <2>8, <2>14 DEF RowsInOrder, Behind
  <2>16. ASSUME NEW u \in Threads, Runs(u, s)'
         PROVE  /\ Served(s, running[u])'
                /\ Runs(u, s) /\ running'[u] = running[u]
    <3>1. u # t /\ Runs(u, s) /\ running'[u] = running[u]
        BY <1>6, <2>16 DEF Runs
    <3>2. PICK b \in Callback : b = running[u]
        BY <3>1 DEF Runs, TypeOK
    <3>3. Served(s, b) /\ b.seq # row.seq
        BY <1>3, <1>7, <2>1, <2>3, <3>1, <3>2 DEF ProbeState, ServedInOrder
    <3>4. Reentrant
        BY <2>1, <3>1 DEF Exclusive, Runs, InCallback
    <3>5. \A k \in 1 .. Len(new) : new[k].seq # b.seq
        BY <2>4, <2>7, <3>3 DEF Served
    <3>6. Served(s, b)'
        BY <1>1, <2>5, <2>8, <2>9, <3>3, <3>4, <3>5 DEF Served
    <3> QED BY <3>1, <3>2, <3>6 DEF Served, Behind
  <2>17. ServedInOrder(s)'
      BY <1>7, <2>16 DEF ProbeState, ServedInOrder
  <2> QED BY <2>10, <2>15, <2>17 DEF ProbeState
<1> QED BY <1>8, <1>9

LEMMA InitProbes == Init => ProbeStates
<1> SUFFICES ASSUME Init, NEW s \in Subscriptions PROVE ProbeState(s)
    BY DEF ProbeStates
<1>1. queue[s] = << >> /\ rows[s] = << >> /\ Len(queue[s]) = 0 /\ Len(rows[s]) = 0
    BY DEF Init, Entities
<1>2. \A t \in Threads : ~ Runs(t, s)
    BY DEF Init, Runs
<1> QED BY <1>1, <1>2 DEF ProbeState, QueueInOrder, RowsInOrder, ServedInOrder

LEMMA ProbesKept ==
  ASSUME TypeOK, TimerSteps, Spans, ProbeStates, [Next]_vars, Spans'
  PROVE  ProbeStates'
<1>1. Exclusive /\ Exclusive'
    BY DEF Spans
<1>2. CASE Tick \/ UNCHANGED vars
  <2>1. /\ UNCHANGED <<callback_group_type, rows, running, queue, published>>
        /\ now' \in {now, now + 1}
      BY <1>2 DEF Tick, vars
  <2>2. \A s \in Subscriptions : LeavesProbe(s)
      BY <2>1 DEF LeavesProbe, Runs
  <2> QED BY <2>2, ProbeLeftAlone DEF ProbeStates
<1> QED
    BY <1>1, <1>2, PublishKeepsProbes, StartProbeKeepsProbes, StartTimerKeepsProbes,
       OnProbeKeepsProbes, RecordKeepsProbes
       DEF Next, on_probe, on_timer

-----------------------------------------------------------------------------
(* The theorems.                                                           *)

IInv == TypeOK /\ TimerSteps /\ Spans /\ TimerStates /\ ProbeStates

(***************************************************************************)
(* The inductive invariant holds in every reachable state.                 *)
(***************************************************************************)
THEOREM Invariance == Spec => []IInv
<1>1. Init => IInv
    BY InitTyped, InitSpans, InitTimers, InitProbes DEF IInv
<1>2. IInv /\ [Next]_vars => IInv'
    BY TypeKept, SpansKept, TimersKept, ProbesKept DEF IInv
<1> QED BY <1>1, <1>2, PTL DEF Spec

(***************************************************************************)
(* Queues stay within their depth and every callback is where its entity   *)
(* can be, for every number of threads and entities.                       *)
(***************************************************************************)
THEOREM TypeCorrect == Spec => []TypeOK
<1>1. IInv => TypeOK
    BY DEF IInv
<1> QED BY <1>1, Invariance, PTL

(***************************************************************************)
(* Callbacks of one mutually exclusive group are measured one after the    *)
(* other, however many threads dispatch them.                              *)
(***************************************************************************)
THEOREM GroupsExclude == Spec => []GroupMembersNeverOverlap
<1>1. IInv => GroupMembersNeverOverlap
    BY DEF IInv, Spans
<1> QED BY <1>1, Invariance, PTL

(***************************************************************************)
(* Unless the group is reentrant, the ticks of a timer are numbered with   *)
(* no gap and each is measured from the one before, although prev and seq  *)
(* are plain variables that on_timer reads and writes without a lock.      *)
(***************************************************************************)
THEOREM TimersChain == Spec => []TimerRowsChain
<1>1. IInv => TimerRowsChain
    BY DEF IInv, TimerStates, TimerState, TimerRowsChain
<1> QED BY <1>1, Invariance, PTL

(***************************************************************************)
(* No message is served twice or before it was published, and only         *)
(* reentrant callbacks overtake each other, at any queue depth.            *)
(***************************************************************************)
THEOREM ProbesInOrder == Spec => []ProbeRowsInOrder
<1>1. IInv => ProbeRowsInOrder
    BY DEF IInv, ProbeStates, ProbeState, RowsInOrder, Behind, ProbeRowsInOrder
<1> QED BY <1>1, Invariance, PTL
=============================================================================
