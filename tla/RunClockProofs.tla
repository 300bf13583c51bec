--------------------------- MODULE RunClockProofs ---------------------------
(***************************************************************************)
(* What a run measures, for any number of topics, any rates, any warm-up   *)
(* and duration, and however the generator is held up: every topic keeps a *)
(* beat from the moment publishing starts, whichever timer serves it, and  *)
(* the window the writer reads off the rows is as long as the beats in it, *)
(* but for the jitter of a timer that was on time, or two beats otherwise. *)
(***************************************************************************)
EXTENDS RunClock, WellFoundedInduction, TLAPS

\* Ticks between two messages of topic k.
Spacing(k) == TopicPeriodOf(cfg, k)

\* Topics served before topic k is, in round robin.
Ahead(k) ==
  IF k >= round_robin_cursor THEN k - round_robin_cursor
                             ELSE k - round_robin_cursor + NumTopics

\* When the next message of topic k is due.
NextDue(k) ==
  CASE cfg.publish_mode = "burst" -> IF k \in pending THEN due[0] - Period(0) ELSE due[0]
    [] cfg.publish_mode = "round_robin" -> Since(0) + Ahead(k) * Period(k)
    [] OTHER -> Since(k)

(***************************************************************************)
(* The beat of a topic of spacing T at time t, when publishing started at  *)
(* s with timers of period P: n is when its next message is due, p how     *)
(* many have been published, row what became of them.                      *)
(***************************************************************************)
Beat(s, P, T, t, n, p) == s + P + T * p <= n /\ n <= t + T

Within(s, P, t, row) ==
  row.count > 0 => s + P <= row.first /\ row.first <= t /\ row.last <= t

\* Rows in order are not much closer to each other than the beats are.  The
\* first may have been held up for long, until the next tick.
Close(T, n, row) == row.first + T * row.count <= n + 2 * T

Loose(T, n, row) ==
  row.count > 0 =>
    /\ row.first + T * row.count <= row.last + 3 * T
    /\ row.count = 1 \/ Close(T, n, row)

\* Rows in order of a timer that was on time.
Sharp(T, n, row) ==
  row.count > 0 =>
    /\ row.first + T * row.count <= n + Jitter
    /\ row.first + T * row.count <= row.last + Jitter + T

Ordered == cfg.callback_group # "reentrant"

OnBeat(s, k) ==
  /\ Beat(s, Period(k), Spacing(k), now, NextDue(k), published[k])
  /\ Within(s, Period(k), now, rows[k])
  /\ k \in pending => NextDue(k) <= now
  /\ TimerOf(k) \notin late => NextDue(k) <= s + Spacing(k) * published[k] + Spacing(k)
  /\ Ordered => Loose(Spacing(k), NextDue(k), rows[k])
  /\ Ordered /\ k \in pending /\ rows[k].count > 0 => Close(Spacing(k), NextDue(k), rows[k])
  /\ Ordered /\ TimerOf(k) \notin late => Sharp(Spacing(k), NextDue(k), rows[k])

InBeat(s) == \A k \in Topics : OnBeat(s, k)

\* A timer that was always on time is.
Punctual == \A t \in Timers \ late : now <= Since(t) + Jitter

\* A topic that lost nothing has a row for each message.
Complete == \A k \in Topics \ lost : rows[k].count = published[k]

\* Before the publish timers.
Quiet ==
  /\ published = [k \in Topics |-> 0]
  /\ pending = {} /\ unheard = {} /\ lost = {} /\ round_robin_cursor = 0
  /\ \A k \in Topics : rows[k].count = 0
  /\ generator = "warming" => \A k \in Topics : WarmUp <= due[k]

IInv ==
  /\ TypeOK /\ Complete /\ HeardFromTheStart
  /\ cfg.generator_mode = "composed" /\ generator # "absent" => loaded = NumTopics
  /\ generator # "publishing" => Quiet
  /\ generator = "publishing" => Punctual /\ \E s \in WarmUp .. now : InBeat(s)
  /\ cfg.publish_mode = "round_robin" => pending \subseteq {round_robin_cursor}

-----------------------------------------------------------------------------
(* Periods and rates.                                                      *)

LEMMA QuotientIsNatural ==
  ASSUME NEW a \in Nat, NEW b \in Nat \ {0}
  PROVE  a \div b \in Nat
OBVIOUS

LEMMA ProductIsNatural ==
  ASSUME NEW a \in Nat, NEW b \in Nat
  PROVE  a * b \in Nat
OBVIOUS

LEMMA ProductMonotone ==
  ASSUME NEW a \in Int, NEW b \in Int, a <= b, NEW p \in Nat
  PROVE  p * a <= p * b
<1>1. b - a \in Nat
  OBVIOUS
<1>2. p * (b - a) \in Nat
  BY <1>1
<1>3. p * b = p * a + p * (b - a)
  OBVIOUS
<1>4. p * a \in Int /\ p * b \in Int
  OBVIOUS
<1> QED
  BY <1>2, <1>3, <1>4

LEMMA RatesMean ==
  ASSUME NEW c \in Configs, NEW k \in Topics
  PROVE  /\ rate_num(c, NumTopics, k) \in Nat \ {0}
         /\ rate_den(c, NumTopics) \in Nat \ {0}
         /\ PeriodOf(c, k) \in Nat /\ Jitter < PeriodOf(c, k)
         /\ TopicPeriodOf(c, k) \in Nat /\ PeriodOf(c, k) <= TopicPeriodOf(c, k)
         /\ rate_num(c, NumTopics, k) * TopicPeriodOf(c, k) = rate_den(c, NumTopics) * Second
<1>1. /\ NumTopics \in Nat \ {0} /\ Second \in Nat \ {0} /\ Jitter \in Nat
      /\ rate_num(c, NumTopics, k) \in Nat \ {0} /\ Jitter < PeriodOf(c, k)
      /\ rate_num(c, NumTopics, k) * TopicPeriodOf(c, k) = rate_den(c, NumTopics) * Second
  BY ClockAssumption
<1>2. rate_den(c, NumTopics) \in Nat \ {0}
  BY <1>1 DEF rate_den
<1>3. PeriodOf(c, k) \in Nat
  <2> DEFINE num == rate_num(c, NumTopics, k)  den == rate_den(c, NumTopics)
  <2>1. PeriodOf(c, k) = IF c.publish_mode = "round_robin" THEN Second \div (num * NumTopics)
                                                           ELSE (Second * den) \div num
    BY DEF PeriodOf
  <2>2. num \in Nat \ {0} /\ den \in Nat \ {0}
    BY <1>1, <1>2
  <2> HIDE DEF num, den
  <2>3. num * NumTopics \in Nat \ {0} /\ Second * den \in Nat
    BY <1>1, <2>2
  <2>4. Second \div (num * NumTopics) \in Nat
    BY <1>1, <2>3, QuotientIsNatural
  <2>5. (Second * den) \div num \in Nat
    BY <2>2, <2>3, QuotientIsNatural
  <2> QED
    BY <2>1, <2>4, <2>5
<1>4. TopicPeriodOf(c, k) \in Nat /\ PeriodOf(c, k) <= TopicPeriodOf(c, k)
  <2>1. NumTopics * PeriodOf(c, k) \in Nat
    BY <1>1, <1>3, ProductIsNatural
  <2>2. PeriodOf(c, k) * 1 <= PeriodOf(c, k) * NumTopics
    <3>1. 1 <= NumTopics
      BY <1>1
    <3> QED
      BY <1>1, <1>3, <3>1, ProductMonotone
  <2>3. PeriodOf(c, k) <= NumTopics * PeriodOf(c, k)
    BY <1>1, <1>3, <2>2
  <2> QED
    BY <1>3, <2>1, <2>3 DEF TopicPeriodOf
<1> QED
  BY <1>1, <1>2, <1>3, <1>4

LEMMA Spacings ==
  ASSUME TypeOK, NEW k \in Topics
  PROVE  /\ Period(k) \in Nat /\ Spacing(k) \in Nat
         /\ Jitter < Period(k) /\ Period(k) <= Spacing(k)
         /\ cfg.publish_mode # "round_robin" => Spacing(k) = Period(k)
         /\ cfg.publish_mode = "round_robin" => Spacing(k) = NumTopics * Period(k)
BY RatesMean DEF TypeOK, Period, Spacing, TopicPeriodOf

\* Outside multi_rate all timers are alike.
LEMMA OnePeriod ==
  ASSUME cfg.publish_mode # "multi_rate", NEW k \in Topics, NEW l \in Topics
  PROVE  Period(k) = Period(l)
BY DEF Period, PeriodOf, rate_num

LEMMA FirstTopic == 0 \in Topics /\ NumTopics \in Nat \ {0} /\ Topics \subseteq Nat
BY ClockAssumption DEF Topics

LEMMA AheadMeans ==
  ASSUME round_robin_cursor \in Topics, NEW k \in Topics
  PROVE  Ahead(k) \in 0 .. NumTopics - 1 /\ Ahead(k) \in Nat
BY FirstTopic DEF Ahead, Topics

LEMMA TimersAreTopics ==
  /\ Timers \subseteq Topics
  /\ \A k \in Topics : TimerOf(k) \in Timers
  /\ cfg.publish_mode = "multi_rate" => \A k \in Topics : TimerOf(k) = k
  /\ cfg.publish_mode # "multi_rate" => Timers = {0} /\ \A k \in Topics : TimerOf(k) = 0
BY FirstTopic DEF Timers, TimerOf

LEMMA SinceMeans ==
  ASSUME TypeOK, NEW t \in Timers
  PROVE  /\ Since(t) \in Int /\ due[t] - Period(t) <= Since(t) /\ Since(t) <= due[t]
         /\ pending = {} => Since(t) = due[t]
         /\ cfg.publish_mode # "multi_rate" =>
              Since(0) = IF pending = {} THEN due[0] ELSE due[0] - Period(0)
<1>1. t \in Topics /\ pending \subseteq Topics
  BY TimersAreTopics DEF TypeOK
<1>2. due[t] \in Nat /\ Period(t) \in Nat
  BY <1>1, Spacings DEF TypeOK
<1>3. Since(t) = IF \E j \in pending : TimerOf(j) = t THEN due[t] - Period(t) ELSE due[t]
  BY DEF Since
<1>4. cfg.publish_mode # "multi_rate" =>
        Since(0) = IF pending = {} THEN due[0] ELSE due[0] - Period(0)
  BY <1>1, TimersAreTopics DEF Since
<1> QED
  BY <1>2, <1>3, <1>4

\* The next message of a topic is due when its timer is, or later.
LEMMA NextDueMeans ==
  ASSUME TypeOK, NEW k \in Topics
  PROVE  NextDue(k) \in Int /\ Since(TimerOf(k)) <= NextDue(k)
<1>1. /\ due[0] \in Nat /\ due[k] \in Nat /\ round_robin_cursor \in Topics
      /\ Period(0) \in Nat /\ pending \subseteq Topics
  BY FirstTopic, Spacings DEF TypeOK
<1>2. TimerOf(k) \in Timers /\ Since(TimerOf(k)) \in Int
  BY TimersAreTopics, SinceMeans
<1>3. CASE cfg.publish_mode = "burst"
  <2>1. TimerOf(k) = 0 /\ Since(0) = IF pending = {} THEN due[0] ELSE due[0] - Period(0)
    BY <1>2, <1>3, SinceMeans, TimersAreTopics
  <2>2. NextDue(k) = IF k \in pending THEN due[0] - Period(0) ELSE due[0]
    BY <1>3 DEF NextDue
  <2> QED
    BY <1>1, <2>1, <2>2
<1>4. CASE cfg.publish_mode = "round_robin"
  <2>1. TimerOf(k) = 0
    BY <1>4, TimersAreTopics
  <2>2. NextDue(k) = Since(0) + Ahead(k) * Period(k)
    BY <1>4 DEF NextDue
  <2>3. Ahead(k) * Period(k) \in Nat
    BY <1>1, AheadMeans, Spacings, ProductIsNatural
  <2> QED
    BY <1>2, <2>1, <2>2, <2>3
<1>5. CASE cfg.publish_mode \notin {"burst", "round_robin"}
  <2>1. cfg.publish_mode = "multi_rate"
    BY <1>5, ClockAssumption DEF TypeOK
  <2>2. TimerOf(k) = k /\ NextDue(k) = Since(k)
    BY <1>5, <2>1, TimersAreTopics DEF NextDue
  <2> QED
    BY <1>2, <2>2
<1> QED
  BY <1>3, <1>4, <1>5

-----------------------------------------------------------------------------
(* The beat.                                                               *)

Row == [count : Nat, first : Nat, last : Nat]

LEMMA RowMeans ==
  ASSUME NEW row \in Row
  PROVE  row.count \in Nat /\ row.first \in Nat /\ row.last \in Nat
BY DEF Row

LEMMA StoredMeans ==
  ASSUME NEW row \in Row, now \in Nat, NEW new \in Stored(row)
  PROVE  /\ new \in Row /\ new.count = row.count + 1
         /\ new.first = now \/ (row.count > 0 /\ new.first = row.first)
         /\ new.last = now \/ (row.count > 0 /\ new.last = row.last)
         /\ Ordered => /\ new.last = now
                       /\ row.count = 0 => new.first = now
                       /\ row.count > 0 => new.first = row.first
<1>1. row.count \in Nat /\ row.first \in Nat /\ row.last \in Nat
  BY RowMeans
<1> DEFINE more == [row EXCEPT !.count = @ + 1]
<1>2. CASE row.count = 0
  <2>1. new = [count |-> 1, first |-> now, last |-> now]
    BY <1>2 DEF Stored
  <2> QED
    BY <1>1, <1>2, <2>1 DEF Row
<1>3. CASE row.count > 0
  <2>1. \/ new = [more EXCEPT !.last = now]
        \/ ~ Ordered /\ (new = [more EXCEPT !.first = now] \/ new = more)
    BY <1>1, <1>3 DEF Stored, Ordered
  <2>2. more \in Row /\ more.count = row.count + 1
        /\ more.first = row.first /\ more.last = row.last
    BY <1>1 DEF Row
  <2> HIDE DEF more
  <2>3. CASE new = [more EXCEPT !.last = now]
    BY <1>1, <1>3, <2>2, <2>3 DEF Row
  <2>4. CASE ~ Ordered /\ new = [more EXCEPT !.first = now]
    BY <1>1, <1>3, <2>2, <2>4 DEF Row
  <2>5. CASE ~ Ordered /\ new = more
    BY <1>1, <1>3, <2>2, <2>5 DEF Row
  <2> QED
    BY <2>1, <2>3, <2>4, <2>5
<1> QED
  BY <1>1, <1>2, <1>3

\* A message is published after it was due.
LEMMA BeatGoesOn ==
  ASSUME NEW s \in Nat, NEW P \in Nat, NEW T \in Nat, NEW t \in Nat, NEW n \in Int,
         NEW p \in Nat, Beat(s, P, T, t, n, p), n <= t
  PROVE  /\ Beat(s, P, T, t, n + T, p + 1) /\ s + P <= t
         /\ n <= s + T * p + T => n + T <= s + T * (p + 1) + T
<1>1. T * p \in Nat /\ T * (p + 1) = T * p + T
  BY ProductIsNatural
<1> QED
  BY <1>1 DEF Beat

\* The beat may be put off.
LEMMA BeatPutOff ==
  ASSUME NEW T \in Nat, NEW n \in Int, NEW m \in Int, n <= m, NEW row \in Row
  PROVE  /\ Loose(T, n, row) => Loose(T, m, row)
         /\ Close(T, n, row) => Close(T, m, row)
         /\ Sharp(T, n, row) => Sharp(T, m, row)
<1>1. T * row.count \in Nat /\ row.count \in Nat /\ row.first \in Nat /\ row.last \in Nat
  BY RowMeans, ProductIsNatural
<1> QED
  BY <1>1, ClockAssumption DEF Loose, Close, Sharp

\* A row is stored at the end.
LEMMA RowAdded ==
  ASSUME NEW T \in Nat, NEW t \in Nat, NEW n \in Int, n <= t,
         NEW row \in Row, NEW new \in Row, new.count = row.count + 1, new.last = t,
         row.count = 0 => new.first = t,
         row.count > 0 => new.first = row.first
  PROVE  /\ (row.count > 0 => Close(T, n, row)) => Loose(T, n + T, new)
         /\ t <= n + Jitter /\ Sharp(T, n, row) => Sharp(T, n + T, new)
<1>1. /\ row.count \in Nat /\ row.first \in Nat /\ row.last \in Nat
      /\ new.count \in Nat /\ new.first \in Nat /\ Jitter \in Nat
  BY RowMeans, ClockAssumption
<1>2. T * row.count \in Nat /\ T * (row.count + 1) = T * row.count + T /\ T * 0 = 0
  BY <1>1, ProductIsNatural
<1>3. T * new.count = T * row.count + T
  BY <1>2
<1>4. CASE row.count = 0
  <2>1. T * new.count = T /\ new.first = t /\ new.count = 1
    BY <1>2, <1>3, <1>4
  <2> QED
    BY <1>1, <1>4, <2>1 DEF Loose, Sharp
<1>5. CASE row.count > 0
  <2>1. new.first = row.first /\ new.count > 0
    BY <1>1, <1>5
  <2>2. Close(T, n, row) => Loose(T, n + T, new)
    BY <1>1, <1>2, <1>3, <2>1 DEF Close, Loose
  <2>3. t <= n + Jitter /\ Sharp(T, n, row) => Sharp(T, n + T, new)
    BY <1>1, <1>2, <1>3, <1>5, <2>1 DEF Sharp
  <2> QED
    BY <1>5, <2>2, <2>3
<1> QED
  BY <1>1, <1>4, <1>5

-----------------------------------------------------------------------------
(* What a timer serves.                                                    *)

LEMMA CursorTurns ==
  ASSUME NEW c \in Topics
  PROVE  /\ (c + 1) % NumTopics = IF c + 1 = NumTopics THEN 0 ELSE c + 1
         /\ (c + 1) % NumTopics \in Topics
<1>1. NumTopics \in Nat \ {0} /\ c \in 0 .. NumTopics - 1
  BY FirstTopic DEF Topics
<1>2. CASE c + 1 = NumTopics
  <2>1. NumTopics % NumTopics = 0
    BY <1>1
  <2> QED
    BY <1>1, <1>2, <2>1 DEF Topics
<1>3. CASE c + 1 # NumTopics
  <2>1. c + 1 \in 0 .. NumTopics - 1
    BY <1>1, <1>3
  <2>2. (c + 1) % NumTopics = c + 1
    BY <1>1, <2>1
  <2> QED
    BY <1>3, <2>1, <2>2 DEF Topics
<1> QED
  BY <1>2, <1>3

\* After the topic at the cursor has been served it is the last in turn.
LEMMA AheadTurns ==
  ASSUME TypeOK, NEW k \in Topics,
         round_robin_cursor' = (round_robin_cursor + 1) % NumTopics
  PROVE  /\ Ahead(k) \in Nat
         /\ k = round_robin_cursor => Ahead(k) = 0 /\ Ahead(k)' = NumTopics - 1
         /\ k # round_robin_cursor => Ahead(k)' = Ahead(k) - 1
<1>1. /\ NumTopics \in Nat \ {0} /\ k \in 0 .. NumTopics - 1
      /\ round_robin_cursor \in 0 .. NumTopics - 1
      /\ round_robin_cursor' = IF round_robin_cursor + 1 = NumTopics
                               THEN 0 ELSE round_robin_cursor + 1
  BY FirstTopic, CursorTurns DEF TypeOK, Topics
<1> QED
  BY <1>1 DEF Ahead

\* A late timer skips what is past and keeps its phase.
LEMMA NextCallMeans ==
  ASSUME TypeOK, NEW t \in Topics, now >= due[t]
  PROVE  /\ NextCall(t) \in Nat /\ due[t] + Period(t) <= NextCall(t)
         /\ now <= NextCall(t) /\ NextCall(t) <= now + Period(t)
         /\ now <= due[t] + Period(t) => NextCall(t) = due[t] + Period(t)
<1>1. /\ due[t] \in Nat /\ Period(t) \in Nat /\ Period(t) > 0 /\ now \in Nat
  BY Spacings, ClockAssumption DEF TypeOK, ShutdownDue
<1> DEFINE P == Period(t)  next == due[t] + P
<1>2. NextCall(t) = IF next >= now THEN next ELSE next + (1 + (now - next - 1) \div P) * P
  BY DEF NextCall
<1>3. CASE next >= now
  BY <1>1, <1>2, <1>3
<1>4. CASE ~ (next >= now)
  <2> DEFINE x == now - next - 1  q == x \div P
  <2>1. x \in Nat
    BY <1>1, <1>4
  <2>2. P \in Nat /\ P > 0 /\ next \in Nat /\ next = due[t] + P
    BY <1>1
  <2>3. NextCall(t) = next + (1 + q) * P
    BY <1>2, <1>4
  <2>4. next + x + 1 = now /\ ~ (now <= next)
    BY <1>1, <1>4, <2>2
  <2> HIDE DEF P, next, x
  <2>5. q \in Nat /\ P * q <= x /\ x < P * (q + 1)
    BY <2>1, <2>2
  <2> HIDE DEF q
  <2>6. (1 + q) * P = P * q + P /\ P * (q + 1) = P * q + P /\ P * q \in Nat
    BY <2>2, <2>5, ProductIsNatural
  <2>7. /\ NextCall(t) \in Nat /\ next <= NextCall(t)
        /\ now <= NextCall(t) /\ NextCall(t) <= now + P
    BY <1>1, <2>1, <2>2, <2>3, <2>4, <2>5, <2>6
  <2> QED
    BY <2>2, <2>4, <2>7 DEF P
<1> QED
  BY <1>3, <1>4

\* A timer is called: the messages of its tick are due, and no other is put
\* off unless the timer was late.
LEMMA FireMeans ==
  ASSUME TypeOK, cfg' = cfg, now' = now, round_robin_cursor' = round_robin_cursor,
         NEW t \in Timers, now >= due[t], pending = {},
         due' = [due EXCEPT ![t] = NextCall(t)], pending' = Served(t), NEW k \in Topics
  PROVE  /\ NextDue(k)' \in Int /\ NextDue(k) <= NextDue(k)'
         /\ NextDue(k)' = NextDue(k) \/ NextDue(k)' <= now + Spacing(k)
         /\ k \in Served(t) => NextDue(k)' <= now /\ now <= NextDue(k)' + Period(k)
         /\ TimerOf(k) # t \/ now <= due[t] + Jitter => NextDue(k)' = NextDue(k)
<1>1. t \in Topics
  BY TimersAreTopics
<1>2. /\ due[0] \in Nat /\ due[k] \in Nat /\ due[t] \in Nat /\ now \in Nat /\ Jitter \in Nat
      /\ Period(k) \in Nat /\ Spacing(k) \in Nat /\ Period(k)' = Period(k)
      /\ Period(k) <= Spacing(k) /\ 0 \in Topics /\ Period(0)' = Period(0)
      /\ round_robin_cursor \in Topics /\ Period(t) \in Nat /\ Jitter < Period(t)
  BY <1>1, FirstTopic, Spacings, ClockAssumption DEF TypeOK, Period, ShutdownDue
<1>3. /\ NextCall(t) \in Nat /\ due[t] + Period(t) <= NextCall(t)
      /\ now <= NextCall(t) /\ NextCall(t) <= now + Period(t)
      /\ now <= due[t] + Jitter => NextCall(t) = due[t] + Period(t)
  BY <1>1, <1>2, NextCallMeans
<1>4. due'[t] = NextCall(t) /\ \A j \in Topics \ {t} : due'[j] = due[j]
  BY <1>1 DEF TypeOK
<1>5. \A j : TimerOf(j)' = TimerOf(j)
  BY DEF TimerOf
<1>6. CASE cfg.publish_mode = "burst"
  <2>1. t = 0 /\ Served(t) = Topics /\ \A j \in Topics : TimerOf(j) = 0
    BY <1>6, TimersAreTopics DEF Served
  <2>2. NextDue(k) = due[0] /\ NextDue(k)' = due'[0] - Period(k)
    BY <1>2, <1>6, <2>1, OnePeriod DEF NextDue
  <2>3. Period(0) = Period(k)
    BY <1>2, <1>6, OnePeriod
  <2> HIDE DEF NextDue, NextCall
  <2> QED
    BY <1>2, <1>3, <1>4, <2>1, <2>2, <2>3
<1>7. CASE cfg.publish_mode = "round_robin"
  <2>1. t = 0 /\ Served(t) = {round_robin_cursor} /\ \A j \in Topics : TimerOf(j) = 0
    BY <1>7, TimersAreTopics DEF Served
  <2>2. Period(0) = Period(k) /\ Spacing(k) = NumTopics * Period(k)
    BY <1>2, <1>7, OnePeriod, Spacings
  <2>3. Since(0) = due[0] /\ Since(0)' = due'[0] - Period(k)
    <3>1. Since(0)' = due'[0] - Period(0)'
      BY <1>2, <1>5, <2>1 DEF Since
    <3> QED
      BY <1>2, <2>1, <2>2, <3>1, SinceMeans
  <2> DEFINE a == Ahead(k) * Period(k)
  <2>4. Ahead(k)' = Ahead(k) /\ Ahead(k) \in 0 .. NumTopics - 1
    BY <1>2, AheadMeans DEF Ahead
  <2>5. a \in Nat /\ a + Period(k) <= Spacing(k)
    <3>1. Ahead(k) \in Nat /\ Ahead(k) + 1 \in Nat /\ NumTopics \in Nat /\ Ahead(k) + 1 <= NumTopics
      BY <2>4, FirstTopic
    <3>2. Period(k) * (Ahead(k) + 1) <= Period(k) * NumTopics
      BY <1>2, <3>1, ProductMonotone
    <3>3. Period(k) * (Ahead(k) + 1) = a + Period(k) /\ Period(k) * NumTopics = NumTopics * Period(k)
          /\ NumTopics * Period(k) \in Nat /\ a \in Nat
      BY <1>2, <3>1, ProductIsNatural
    <3> QED
      BY <1>2, <2>2, <3>2, <3>3
  <2>6. NextDue(k) = due[0] + a /\ NextDue(k)' = due'[0] - Period(k) + a
    BY <1>2, <1>7, <2>3, <2>4 DEF NextDue
  <2>7. k = round_robin_cursor => a = 0
    BY <1>2, FirstTopic DEF Ahead
  <2> HIDE DEF a
  <2>8. /\ due'[0] = NextCall(0) /\ due[0] + Period(k) <= NextCall(0)
        /\ now <= NextCall(0) /\ NextCall(0) <= now + Period(k) /\ NextCall(0) \in Nat
        /\ now <= due[0] + Jitter => NextCall(0) = due[0] + Period(k)
    BY <1>3, <1>4, <2>1, <2>2
  <2>9. /\ NextDue(k)' \in Int /\ NextDue(k) <= NextDue(k)' /\ NextDue(k)' <= now + Spacing(k)
        /\ now <= due[0] + Jitter => NextDue(k)' = NextDue(k)
    BY <1>2, <2>5, <2>6, <2>8
  <2>10. k = round_robin_cursor => NextDue(k)' <= now /\ now <= NextDue(k)' + Period(k)
    BY <1>2, <2>6, <2>7, <2>8
  <2> QED
    BY <2>1, <2>9, <2>10
<1>8. CASE cfg.publish_mode \notin {"burst", "round_robin"}
  <2>1. cfg.publish_mode = "multi_rate"
    BY <1>8, ClockAssumption DEF TypeOK
  <2>2. Served(t) = {t} /\ NextDue(k) = Since(k) /\ NextDue(k)' = Since(k)'
        /\ \A j \in Topics : TimerOf(j) = j
    BY <1>8, <2>1, TimersAreTopics DEF Served, NextDue
  <2>3. Since(k) = due[k]
    BY <2>1, SinceMeans, TimersAreTopics
  <2>4. Since(k)' = IF k = t THEN due'[k] - Period(k) ELSE due'[k]
    BY <1>1, <1>2, <1>5, <2>2 DEF Since
  <2>5. CASE k = t
    BY <1>2, <1>3, <1>4, <2>2, <2>3, <2>4, <2>5
  <2>6. CASE k # t
    BY <1>2, <1>4, <2>2, <2>3, <2>4, <2>6
  <2> QED
    BY <2>5, <2>6
<1> QED
  BY <1>6, <1>7, <1>8

\* publish_one() puts its topic off by the spacing.
LEMMA PublishMeans ==
  ASSUME TypeOK, cfg' = cfg, due' = due, NEW j \in pending, pending' = pending \ {j},
         cfg.publish_mode = "round_robin" => pending \subseteq {round_robin_cursor},
         round_robin_cursor' = IF cfg.publish_mode = "round_robin"
                               THEN (round_robin_cursor + 1) % NumTopics
                               ELSE round_robin_cursor,
         NEW k \in Topics
  PROVE  NextDue(k)' = IF k = j THEN NextDue(k) + Spacing(k) ELSE NextDue(k)
<1>1. /\ due[0] \in Nat /\ due[k] \in Nat /\ pending \subseteq Topics
      /\ Period(k) \in Nat /\ Spacing(k) \in Nat /\ Period(k)' = Period(k)
      /\ 0 \in Topics /\ Period(0)' = Period(0)
  BY FirstTopic, Spacings DEF TypeOK, Period
<1>2. \A i : TimerOf(i)' = TimerOf(i)
  BY DEF TimerOf
<1>3. CASE cfg.publish_mode = "burst"
  <2>1. Spacing(k) = Period(k) /\ Period(0) = Period(k)
    BY <1>1, <1>3, Spacings, OnePeriod
  <2>2. /\ NextDue(k) = IF k \in pending THEN due[0] - Period(k) ELSE due[0]
        /\ NextDue(k)' = IF k \in pending' THEN due[0] - Period(k) ELSE due[0]
    BY <1>1, <1>3, <2>1 DEF NextDue
  <2> HIDE DEF NextDue
  <2> QED
    BY <1>1, <2>1, <2>2
<1>4. CASE cfg.publish_mode = "round_robin"
  <2>1. pending = {round_robin_cursor} /\ j = round_robin_cursor /\ pending' = {}
    BY <1>4
  <2>2. Period(0) = Period(k) /\ Spacing(k) = NumTopics * Period(k)
    BY <1>1, <1>4, OnePeriod, Spacings
  <2>3. Since(0) = due[0] - Period(k) /\ Since(0)' = due[0]
    <3>1. TimerOf(round_robin_cursor) = 0
      BY <1>4 DEF TimerOf
    <3> QED
      BY <2>1, <2>2, <3>1 DEF Since
  <2>4. /\ NextDue(k) = due[0] - Period(k) + Ahead(k) * Period(k)
        /\ NextDue(k)' = due[0] + Ahead(k)' * Period(k)
    BY <1>1, <1>4, <2>3 DEF NextDue
  <2>5. CASE k = round_robin_cursor
    <3>1. Ahead(k) = 0 /\ Ahead(k)' = NumTopics - 1
      BY <1>4, <2>5, AheadTurns
    <3>2. 0 * Period(k) = 0 /\ (NumTopics - 1) * Period(k) = NumTopics * Period(k) - Period(k)
      BY <1>1, FirstTopic
    <3>3. NumTopics * Period(k) \in Nat
      BY <1>1, FirstTopic, ProductIsNatural
    <3>4. NextDue(k) = due[0] - Period(k)
      BY <1>1, <2>4, <3>1, <3>2
    <3>5. NextDue(k)' = due[0] + NumTopics * Period(k) - Period(k)
      BY <1>1, <2>4, <3>1, <3>2, <3>3
    <3> QED
      BY <1>1, <2>1, <2>2, <2>5, <3>3, <3>4, <3>5
  <2>6. CASE k # round_robin_cursor
    <3>1. Ahead(k) \in Nat /\ Ahead(k)' = Ahead(k) - 1
      BY <1>4, <2>6, AheadTurns
    <3>2. (Ahead(k) - 1) * Period(k) = Ahead(k) * Period(k) - Period(k)
      BY <1>1, <3>1
    <3>3. Ahead(k) * Period(k) \in Nat
      BY <1>1, <3>1, ProductIsNatural
    <3>4. NextDue(k)' = NextDue(k)
      BY <1>1, <2>4, <3>1, <3>2, <3>3
    <3> QED
      BY <2>1, <2>6, <3>4
  <2> QED
    BY <2>5, <2>6
<1>5. CASE cfg.publish_mode \notin {"burst", "round_robin"}
  <2>1. cfg.publish_mode = "multi_rate"
    BY <1>5, ClockAssumption DEF TypeOK
  <2>2. /\ NextDue(k) = Since(k) /\ NextDue(k)' = Since(k)' /\ Spacing(k) = Period(k)
        /\ \A i \in Topics : TimerOf(i) = i
    BY <1>5, <2>1, Spacings, TimersAreTopics DEF NextDue
  <2>3. /\ Since(k) = IF k \in pending THEN due[k] - Period(k) ELSE due[k]
        /\ Since(k)' = IF k \in pending' THEN due[k] - Period(k) ELSE due[k]
    BY <1>1, <1>2, <2>2 DEF Since
  <2> HIDE DEF NextDue, Since
  <2> QED
    BY <1>1, <2>2, <2>3
<1> QED
  BY <1>3, <1>4, <1>5

\* No timer is later for what it or another one does.
LEMMA SinceGrowsFiring ==
  ASSUME TypeOK, cfg' = cfg, NEW t \in Timers, now >= due[t], pending = {},
         due' = [due EXCEPT ![t] = NextCall(t)], pending' = Served(t), NEW i \in Timers
  PROVE  Since(i) <= Since(i)'
<1>1. t \in Topics /\ i \in Topics /\ 0 \in Topics
  BY TimersAreTopics, FirstTopic
<1>2. /\ due[i] \in Nat /\ due[t] \in Nat /\ Period(i) \in Nat
      /\ NextCall(t) \in Nat /\ due[t] + Period(t) <= NextCall(t)
  BY <1>1, NextCallMeans, Spacings DEF TypeOK
<1>3. /\ due'[t] = NextCall(t) /\ \A j \in Topics \ {t} : due'[j] = due[j]
      /\ Period(i)' = Period(i) /\ \A j : TimerOf(j)' = TimerOf(j)
  BY <1>1 DEF TypeOK, TimerOf, Period
<1>4. Since(i) = due[i]
  BY SinceMeans
<1>5. Since(i)' = IF \E j \in Served(t) : TimerOf(j) = i THEN due'[i] - Period(i) ELSE due'[i]
  BY <1>3 DEF Since
<1>6. CASE i = t
  BY <1>2, <1>3, <1>4, <1>5, <1>6
<1>7. CASE i # t
  <2>1. cfg.publish_mode = "multi_rate"
    BY <1>7, TimersAreTopics
  <2>2. Served(t) = {t} /\ TimerOf(t) = t
    BY <1>1, <2>1, TimersAreTopics DEF Served
  <2> QED
    BY <1>1, <1>2, <1>3, <1>4, <1>5, <1>7, <2>2
<1> QED
  BY <1>6, <1>7

LEMMA SinceGrowsPublishing ==
  ASSUME TypeOK, cfg' = cfg, due' = due, NEW j \in pending, pending' = pending \ {j},
         NEW i \in Timers
  PROVE  Since(i) <= Since(i)'
<1>1. i \in Topics
  BY TimersAreTopics
<1>2. due[i] \in Nat /\ Period(i) \in Nat
  BY <1>1, Spacings DEF TypeOK
<1>3. Period(i)' = Period(i) /\ \A k : TimerOf(k)' = TimerOf(k)
  BY DEF TimerOf, Period
<1>4. /\ Since(i) = IF \E k \in pending : TimerOf(k) = i THEN due[i] - Period(i) ELSE due[i]
      /\ Since(i)' = IF \E k \in pending' : TimerOf(k) = i THEN due[i] - Period(i) ELSE due[i]
  BY <1>3 DEF Since
<1> QED
  BY <1>2, <1>4

-----------------------------------------------------------------------------
(* The invariant.                                                          *)

LEMMA InitIInv == Init => IInv
<1> SUFFICES ASSUME Init PROVE IInv
  OBVIOUS
<1>1. TypeOK
  BY FirstTopic, ClockAssumption DEF Init, TypeOK, ClockAssumption, ShutdownDue
<1>2. Quiet
  BY DEF Init, Quiet
<1>3. Complete
  BY DEF Init, Complete
<1> QED
  BY <1>1, <1>2, <1>3 DEF Init, IInv, HeardFromTheStart

LEMMA StartsInBeat ==
  ASSUME IInv, Start
  PROVE  IInv'
<1>1. TypeOK /\ Quiet /\ Complete
  BY DEF IInv, Start
<1>2. /\ due' = [k \in Topics |-> now + Period(k)]
      /\ UNCHANGED <<cfg, now, loaded, round_robin_cursor, pending, published, late, unheard,
                     lost, rows, spinning>>
      /\ generator' = "publishing" /\ now >= due[0] /\ generator = "warming" /\ pending = {}
  BY <1>1 DEF Start, Quiet
<1>3. now \in Nat /\ WarmUp \in Nat /\ Jitter \in Nat /\ due[0] \in Nat
  BY <1>1, FirstTopic, ClockAssumption DEF TypeOK, ShutdownDue
<1>4. now \in WarmUp .. now
  BY <1>1, <1>2, <1>3, FirstTopic DEF Quiet
<1>5. \A k \in Topics : /\ Period(k) \in Nat /\ Period(k)' = Period(k)
                         /\ due'[k] = now + Period(k)
  BY <1>1, <1>2, Spacings DEF Period
<1>6. TypeOK'
  <2>1. due' \in [Topics -> Nat]
    BY <1>2, <1>3, <1>5
  <2>2. Timers' = Timers
    BY <1>2 DEF Timers, TimerOf
  <2> QED
    BY <1>1, <1>2, <2>1, <2>2 DEF TypeOK, ShutdownDue
<1>7. \A t \in Topics : Since(t)' = due'[t]
  BY <1>2 DEF Since
<1>8. Punctual'
  <2>1. \A t \in Timers' : now' <= Since(t)' + Jitter
    <3>1. Timers' \subseteq Topics
      BY <1>2, TimersAreTopics DEF Timers, TimerOf
    <3> QED
      BY <1>2, <1>3, <1>5, <1>7, <3>1
  <2> QED
    BY <2>1 DEF Punctual
<1>9. ASSUME NEW k \in Topics
      PROVE  OnBeat(now, k)'
  <2>1. /\ Period(k)' = Period(k) /\ Spacing(k)' = Spacing(k) /\ now' = now
        /\ published'[k] = 0 /\ rows'[k].count = 0 /\ pending' = {}
    BY <1>1, <1>2 DEF Period, Spacing, Quiet
  <2>2. Period(k) \in Nat /\ Spacing(k) \in Nat /\ Period(k) <= Spacing(k)
    BY <1>1, Spacings
  <2>3. due'[k] = now + Period(k) /\ due'[0] = now + Period(0)
    BY <1>5, FirstTopic
  <2>4. now + Period(k) <= NextDue(k)' /\ NextDue(k)' <= now + Spacing(k) /\ NextDue(k)' \in Nat
    <3>1. CASE cfg.publish_mode = "burst"
      <4>1. NextDue(k)' = due'[0] /\ Period(0) = Period(k)
        BY <1>2, <2>1, <3>1, OnePeriod, FirstTopic DEF NextDue
      <4> QED
        BY <1>3, <2>2, <2>3, <4>1
    <3>2. CASE cfg.publish_mode = "round_robin"
      <4>1. NextDue(k)' = due'[0] + Ahead(k)' * Period(k) /\ Period(0) = Period(k)
        BY <1>2, <1>7, <2>1, <3>2, OnePeriod, FirstTopic DEF NextDue
      <4>2. Spacing(k) = NumTopics * Period(k)
        BY <1>1, <3>2, Spacings
      <4>3. Ahead(k)' \in Nat /\ Ahead(k)' + 1 <= NumTopics /\ NumTopics \in Nat
        <5>1. Ahead(k)' = Ahead(k)
          BY <1>2 DEF Ahead
        <5>2. Ahead(k) \in 0 .. NumTopics - 1
          BY <1>1, AheadMeans DEF TypeOK
        <5> QED
          BY <5>1, <5>2, FirstTopic
      <4>4. Period(k) * (Ahead(k)' + 1) <= Period(k) * NumTopics
        BY <2>2, <4>3, ProductMonotone
      <4>5. Period(k) * (Ahead(k)' + 1) = Ahead(k)' * Period(k) + Period(k)
        BY <2>2, <4>3
      <4>6. Ahead(k)' * Period(k) \in Nat /\ Period(k) * NumTopics = NumTopics * Period(k)
            /\ NumTopics * Period(k) \in Nat
        BY <2>2, <4>3, ProductIsNatural
      <4> QED
        BY <1>3, <2>2, <2>3, <4>1, <4>2, <4>4, <4>5, <4>6
    <3>3. CASE cfg.publish_mode \notin {"burst", "round_robin"}
      <4>1. NextDue(k)' = due'[k]
        BY <1>2, <1>7, <3>3 DEF NextDue
      <4> QED
        BY <1>3, <2>2, <2>3, <4>1
    <3> QED
      BY <3>1, <3>2, <3>3
  <2>5. Spacing(k) * 0 = 0
    BY <2>2
  <2>6. /\ Within(now, Period(k), now, rows[k])' /\ Loose(Spacing(k), NextDue(k), rows[k])'
        /\ Sharp(Spacing(k), NextDue(k), rows[k])'
    BY <2>1 DEF Within, Loose, Sharp
  <2>7. /\ Beat(now, Period(k), Spacing(k), now, NextDue(k), published[k])'
        /\ NextDue(k)' <= now + Spacing(k) * 0 + Spacing(k)
    BY <1>3, <2>1, <2>2, <2>4, <2>5 DEF Beat
  <2> QED
    BY <2>1, <2>6, <2>7 DEF OnBeat
<1>10. \E s \in WarmUp .. now' : InBeat(s)'
  <2>1. InBeat(now)'
    BY <1>9 DEF InBeat
  <2> QED
    BY <1>2, <1>4, <2>1
<1>11. Complete' /\ HeardFromTheStart'
  BY <1>1, <1>2 DEF IInv, Complete, HeardFromTheStart
<1>12. (cfg.generator_mode = "composed" /\ generator # "absent" => loaded = NumTopics)'
  BY <1>2 DEF IInv
<1> QED
  BY <1>2, <1>6, <1>8, <1>10, <1>11, <1>12 DEF IInv

\* What holds of a topic on its beat.
LEMMA TopicTypes ==
  ASSUME TypeOK, NEW k \in Topics
  PROVE  /\ Period(k) \in Nat /\ Spacing(k) \in Nat /\ Period(k) <= Spacing(k)
         /\ NextDue(k) \in Int /\ published[k] \in Nat /\ now \in Nat
         /\ rows[k] \in Row /\ TimerOf(k) \in Timers /\ due[k] \in Nat
BY Spacings, NextDueMeans, TimersAreTopics, ClockAssumption DEF TypeOK, Row, ShutdownDue

LEMMA FiresInBeat ==
  ASSUME IInv, NEW t \in Topics, Fire(t)
  PROVE  IInv'
<1>1. TypeOK /\ Complete /\ Punctual /\ generator = "publishing"
  BY DEF IInv, Fire
<1>2. /\ t \in Timers /\ now >= due[t] /\ pending = {}
      /\ due' = [due EXCEPT ![t] = NextCall(t)] /\ pending' = Served(t)
      /\ UNCHANGED <<cfg, now, loaded, generator, round_robin_cursor, published, late, unheard,
                     lost, rows, spinning>>
  BY DEF Fire
<1>3. Timers' = Timers /\ \A k : TimerOf(k)' = TimerOf(k)
  BY <1>2 DEF Timers, TimerOf
<1>4. TypeOK'
  <2>1. due' \in [Topics -> Nat]
    BY <1>1, <1>2, NextCallMeans DEF TypeOK
  <2>2. pending' \subseteq Topics
    BY <1>1, <1>2 DEF Served, TypeOK
  <2> QED
    BY <1>1, <1>2, <1>3, <2>1, <2>2 DEF TypeOK, ShutdownDue
<1>5. Punctual'
  <2>1. ASSUME NEW i \in Timers \ late
        PROVE  now <= Since(i)' + Jitter
    <3>1. Since(i) <= Since(i)' /\ now <= Since(i) + Jitter
      BY <1>1, <1>2, SinceGrowsFiring DEF Punctual
    <3>2. now \in Nat /\ Jitter \in Nat /\ Since(i) \in Int
      BY <1>1, SinceMeans, ClockAssumption DEF TypeOK, ShutdownDue
    <3>3. Since(i)' \in Int
      <4>1. Since(i)' = IF \E j \in pending' : TimerOf(j)' = i
                        THEN due'[i] - Period(i)' ELSE due'[i]
        BY DEF Since
      <4>2. due'[i] \in Nat /\ Period(i)' = Period(i) /\ Period(i) \in Nat
        BY <1>1, <1>2, <1>4, TimersAreTopics, Spacings DEF TypeOK, Period
      <4> QED
        BY <4>1, <4>2
    <3> QED
      BY <3>1, <3>2, <3>3
  <2> QED
    BY <1>2, <1>3, <2>1 DEF Punctual
<1>6. PICK s \in WarmUp .. now : InBeat(s)
  BY <1>1 DEF IInv
<1>7. ASSUME NEW k \in Topics
      PROVE  OnBeat(s, k)'
  <2> DEFINE P == Period(k)  T == Spacing(k)  n == NextDue(k)  m == NextDue(k)'
             p == published[k]  row == rows[k]
  <2>1. /\ Period(k)' = P /\ Spacing(k)' = T /\ now' = now /\ published'[k] = p
        /\ rows'[k] = row /\ late' = late /\ TimerOf(k)' = TimerOf(k) /\ Ordered' = Ordered
    BY <1>2 DEF Period, Spacing, TimerOf, Ordered
  <2>2. OnBeat(s, k)
    BY <1>6 DEF InBeat
  <2>3. /\ P \in Nat /\ T \in Nat /\ P <= T /\ n \in Int /\ p \in Nat /\ now \in Nat
        /\ row \in Row /\ TimerOf(k) \in Timers /\ s \in Nat
    BY <1>1, <1>6, TopicTypes, ClockAssumption
  <2>4. /\ m \in Int /\ n <= m
        /\ m = n \/ m <= now + T
        /\ k \in Served(t) => m <= now /\ now <= m + P
        /\ TimerOf(k) # t \/ now <= due[t] + Jitter => m = n
    BY <1>1, <1>2, FireMeans
  <2>5. TimerOf(k) \notin late => m = n
    <3>1. Since(t) = due[t]
      BY <1>1, <1>2, SinceMeans
    <3> QED
      BY <1>1, <1>2, <2>3, <2>4, <3>1 DEF Punctual
  <2>6. /\ Beat(s, P, T, now, n, p) /\ Within(s, P, now, row)
        /\ TimerOf(k) \notin late => n <= s + T * p + T
        /\ Ordered => Loose(T, n, row)
        /\ Ordered /\ TimerOf(k) \notin late => Sharp(T, n, row)
    BY <2>2 DEF OnBeat
  <2> HIDE DEF P, T, n, m, p, row
  <2>7. Beat(s, P, T, now, m, p)
    <3>1. T * p \in Nat
      BY <2>3, ProductIsNatural
    <3> QED
      BY <2>3, <2>4, <2>6, <3>1 DEF Beat
  <2>8. Ordered => Loose(T, m, row)
    BY <2>3, <2>4, <2>6, BeatPutOff
  <2>9. Ordered /\ TimerOf(k) \notin late => Sharp(T, m, row)
    BY <2>5, <2>6
  <2>10. Ordered /\ k \in Served(t) /\ row.count > 0 => Close(T, m, row)
    <3>1. SUFFICES ASSUME Ordered, k \in Served(t), row.count > 0
                   PROVE  Close(T, m, row)
      OBVIOUS
    <3>2. row.count \in Nat /\ row.first \in Nat
      BY <2>3, RowMeans
    <3>3. CASE row.count = 1
      <4>1. T * row.count = T
        BY <2>3, <3>3
      <4>2. row.first <= now /\ now <= m + P
        BY <2>4, <2>6, <3>1 DEF Within
      <4> QED
        BY <2>3, <2>4, <3>2, <4>1, <4>2 DEF Close
    <3>4. CASE row.count # 1
      <4>1. Close(T, n, row)
        BY <2>6, <3>1, <3>4 DEF Loose
      <4> QED
        BY <2>3, <2>4, <4>1, BeatPutOff
    <3> QED
      BY <3>3, <3>4
  <2>11. TimerOf(k) \notin late => m <= s + T * p + T
    BY <2>5, <2>6
  <2>12. k \in pending' => m <= now
    BY <1>2, <2>4
  <2>13. k \in pending' <=> k \in Served(t)
    BY <1>2
  <2> QED
    BY <2>1, <2>6, <2>7, <2>8, <2>9, <2>10, <2>11, <2>12, <2>13 DEF OnBeat, P, T, n, m, p, row
<1>8. \E r \in WarmUp .. now' : InBeat(r)'
  <2>1. InBeat(s)'
    BY <1>7 DEF InBeat
  <2> QED
    BY <1>2, <1>6, <2>1
<1>9. (cfg.publish_mode = "round_robin" => pending \subseteq {round_robin_cursor})'
  BY <1>2 DEF Served
<1>10. Complete' /\ HeardFromTheStart'
  BY <1>1, <1>2 DEF IInv, Complete, HeardFromTheStart
<1>11. (cfg.generator_mode = "composed" /\ generator # "absent" => loaded = NumTopics)'
  BY <1>2 DEF IInv
<1> QED
  BY <1>1, <1>2, <1>4, <1>5, <1>8, <1>9, <1>10, <1>11 DEF IInv

LEMMA PublishesInBeat ==
  ASSUME IInv, NEW j \in Topics, PublishOne(j)
  PROVE  IInv'
<1>1. /\ TypeOK /\ Complete /\ HeardFromTheStart
      /\ cfg.publish_mode = "round_robin" => pending \subseteq {round_robin_cursor}
  BY DEF IInv
<1>2. /\ j \in pending /\ pending' = pending \ {j}
      /\ published' = [published EXCEPT ![j] = @ + 1]
      /\ round_robin_cursor' = IF cfg.publish_mode = "round_robin"
                               THEN (round_robin_cursor + 1) % NumTopics
                               ELSE round_robin_cursor
      /\ unheard' = IF j < loaded THEN unheard ELSE unheard \cup {j}
      /\ UNCHANGED <<cfg, now, loaded, generator, due, late, spinning>>
  BY DEF PublishOne
<1>3. PICK row : /\ rows' = [rows EXCEPT ![j] = row]
                 /\ \/ row \in Stored(rows[j]) /\ lost' = lost
                    \/ row = rows[j] /\ lost' = lost \cup {j}
  <2>1. CASE \E r \in Stored(rows[j]) : rows' = [rows EXCEPT ![j] = r] /\ lost' = lost
    BY <2>1
  <2>2. CASE lost' = lost \cup {j} /\ rows' = rows
    <3>1. rows' = [rows EXCEPT ![j] = rows[j]]
      BY <1>1, <2>2 DEF TypeOK
    <3> QED
      BY <2>2, <3>1
  <2> QED
    BY <2>1, <2>2 DEF PublishOne
<1>4. generator = "publishing" /\ Punctual
  BY <1>2 DEF IInv, Quiet
<1>5. Timers' = Timers /\ \A k : TimerOf(k)' = TimerOf(k)
  BY <1>2 DEF Timers, TimerOf
<1>6. /\ now \in Nat /\ rows \in [Topics -> Row] /\ rows[j] \in Row
      /\ published \in [Topics -> Nat] /\ round_robin_cursor \in Topics
  BY <1>1, TopicTypes DEF TypeOK, Row
<1>7. /\ row \in Row
      /\ row \in Stored(rows[j]) =>
           /\ row.count = rows[j].count + 1
           /\ row.first = now \/ (rows[j].count > 0 /\ row.first = rows[j].first)
           /\ row.last = now \/ (rows[j].count > 0 /\ row.last = rows[j].last)
           /\ Ordered => /\ row.last = now
                         /\ rows[j].count = 0 => row.first = now
                         /\ rows[j].count > 0 => row.first = rows[j].first
  BY <1>3, <1>6, StoredMeans
<1>8. TypeOK'
  <2>1. round_robin_cursor' \in Topics
    BY <1>2, <1>6, CursorTurns
  <2>2. rows' \in [Topics -> Row] /\ published' \in [Topics -> Nat]
    BY <1>2, <1>3, <1>6, <1>7
  <2>3. lost' \subseteq Topics /\ unheard' \subseteq Topics /\ pending' \subseteq Topics
    BY <1>1, <1>2, <1>3 DEF TypeOK
  <2> QED
    BY <1>1, <1>2, <1>5, <2>1, <2>2, <2>3 DEF TypeOK, Row, ShutdownDue
<1>9. Punctual'
  <2>1. ASSUME NEW i \in Timers \ late
        PROVE  now <= Since(i)' + Jitter
    <3>1. Since(i) <= Since(i)' /\ now <= Since(i) + Jitter
      BY <1>1, <1>2, <1>4, SinceGrowsPublishing DEF Punctual
    <3>2. Jitter \in Nat /\ Since(i) \in Int
      BY <1>1, SinceMeans, ClockAssumption
    <3>3. Since(i)' \in Int
      <4>1. Since(i)' = IF \E k \in pending' : TimerOf(k)' = i
                        THEN due'[i] - Period(i)' ELSE due'[i]
        BY DEF Since
      <4>2. due'[i] \in Nat /\ Period(i)' = Period(i) /\ Period(i) \in Nat
        BY <1>1, <1>2, TimersAreTopics, Spacings DEF TypeOK, Period
      <4> QED
        BY <4>1, <4>2
    <3> QED
      BY <1>6, <3>1, <3>2, <3>3
  <2> QED
    BY <1>2, <1>5, <2>1 DEF Punctual
<1>10. PICK s \in WarmUp .. now : InBeat(s)
  BY <1>4 DEF IInv
<1>11. ASSUME NEW k \in Topics
       PROVE  OnBeat(s, k)'
  <2>1. /\ Period(k)' = Period(k) /\ Spacing(k)' = Spacing(k) /\ now' = now
        /\ late' = late /\ TimerOf(k)' = TimerOf(k) /\ Ordered' = Ordered
    BY <1>2 DEF Period, Spacing, TimerOf, Ordered
  <2>2. OnBeat(s, k)
    BY <1>10 DEF InBeat
  <2>3. NextDue(k)' = IF k = j THEN NextDue(k) + Spacing(k) ELSE NextDue(k)
    BY <1>1, <1>2, PublishMeans
  <2>4. CASE k # j
    <3>1. published'[k] = published[k] /\ rows'[k] = rows[k] /\ NextDue(k)' = NextDue(k)
          /\ (k \in pending' <=> k \in pending)
      BY <1>2, <1>3, <1>6, <2>3, <2>4
    <3> QED
      BY <2>1, <2>2, <3>1 DEF OnBeat
  <2>5. CASE k = j
    <3> DEFINE P == Period(k)  T == Spacing(k)  n == NextDue(k)  p == published[k]  old == rows[k]
    <3>1. /\ P \in Nat /\ T \in Nat /\ P <= T /\ n \in Int /\ p \in Nat /\ old \in Row
          /\ TimerOf(k) \in Timers /\ s \in Nat
      BY <1>1, <1>10, TopicTypes, ClockAssumption
    <3>2. /\ Beat(s, P, T, now, n, p) /\ Within(s, P, now, old) /\ n <= now
          /\ TimerOf(k) \notin late => n <= s + T * p + T
          /\ Ordered => Loose(T, n, old)
          /\ Ordered /\ old.count > 0 => Close(T, n, old)
          /\ Ordered /\ TimerOf(k) \notin late => Sharp(T, n, old)
      BY <1>2, <2>2, <2>5 DEF OnBeat
    <3>3. NextDue(k)' = n + T /\ published'[k] = p + 1 /\ rows'[k] = row /\ k \notin pending'
      BY <1>2, <1>3, <1>6, <2>3, <2>5
    <3>4. /\ row \in Row
          /\ row \in Stored(old) \/ row = old
          /\ row \in Stored(old) =>
               /\ row.count = old.count + 1
               /\ row.first = now \/ (old.count > 0 /\ row.first = old.first)
               /\ row.last = now \/ (old.count > 0 /\ row.last = old.last)
               /\ Ordered => /\ row.last = now
                             /\ old.count = 0 => row.first = now
                             /\ old.count > 0 => row.first = old.first
      BY <1>3, <1>7, <2>5
    <3>5. TimerOf(k) \notin late => now <= n + Jitter
      <4>1. Since(TimerOf(k)) <= n /\ Since(TimerOf(k)) \in Int
        BY <1>1, <3>1, NextDueMeans, SinceMeans
      <4>2. TimerOf(k) \notin late => now <= Since(TimerOf(k)) + Jitter
        BY <1>4, <3>1 DEF Punctual
      <4> HIDE DEF n
      <4> QED
        BY <1>6, <3>1, <4>1, <4>2, ClockAssumption
    <3> HIDE DEF P, T, n, p, old
    <3>6. /\ Beat(s, P, T, now, n + T, p + 1) /\ s + P <= now
          /\ TimerOf(k) \notin late => n + T <= s + T * (p + 1) + T
      BY <1>6, <3>1, <3>2, BeatGoesOn
    <3>7. Within(s, P, now, row)
      <4>1. CASE row \in Stored(old)
        BY <1>6, <3>1, <3>2, <3>4, <3>6, <4>1 DEF Within
      <4>2. CASE row = old
        BY <3>2, <4>2
      <4> QED
        BY <3>4, <4>1, <4>2
    <3>8. /\ Ordered => Loose(T, n + T, row)
          /\ Ordered /\ TimerOf(k) \notin late => Sharp(T, n + T, row)
      <4>1. CASE row \in Stored(old)
        BY <1>6, <3>1, <3>2, <3>4, <3>5, <4>1, RowAdded
      <4>2. CASE row = old
        <5>1. n + T \in Int /\ n <= n + T
          BY <3>1
        <5> QED
          BY <3>1, <3>2, <4>2, <5>1, BeatPutOff
      <4> QED
        BY <3>4, <4>1, <4>2
    <3> QED
      BY <2>1, <3>3, <3>6, <3>7, <3>8 DEF OnBeat, P, T, n, p, old
  <2> QED
    BY <2>4, <2>5
<1>12. \E r \in WarmUp .. now' : InBeat(r)'
  <2>1. InBeat(s)'
    BY <1>11 DEF InBeat
  <2> QED
    BY <1>2, <1>10, <2>1
<1>13. Complete'
  <2>1. ASSUME NEW k \in Topics \ lost'
        PROVE  rows'[k].count = published'[k]
    <3>1. rows[k].count = published[k]
      BY <1>1, <1>3, <2>1 DEF Complete
    <3>2. CASE k = j
      <4>1. row \in Stored(rows[j])
        BY <1>3, <2>1, <3>2
      <4> QED
        BY <1>2, <1>3, <1>6, <1>7, <3>1, <3>2, <4>1
    <3>3. CASE k # j
      BY <1>2, <1>3, <1>6, <3>1, <3>3
    <3> QED
      BY <3>2, <3>3
  <2> QED
    BY <2>1 DEF Complete
<1>14. HeardFromTheStart'
  <2>1. ASSUME cfg.generator_mode = "composed"
        PROVE  unheard' = {}
    <3>1. loaded = NumTopics /\ unheard = {}
      BY <1>1, <1>4, <2>1 DEF IInv, HeardFromTheStart
    <3>2. j < NumTopics
      BY FirstTopic DEF Topics
    <3> QED
      BY <1>2, <3>1, <3>2
  <2> QED
    BY <1>2, <2>1 DEF HeardFromTheStart
<1>15. (cfg.publish_mode = "round_robin" => pending \subseteq {round_robin_cursor})'
  BY <1>1, <1>2
<1>16. (cfg.generator_mode = "composed" /\ generator # "absent" => loaded = NumTopics)'
  BY <1>2 DEF IInv
<1> QED
  BY <1>2, <1>4, <1>8, <1>9, <1>12, <1>13, <1>14, <1>15, <1>16 DEF IInv

LEMMA AdvanceInBeat ==
  ASSUME IInv, Advance
  PROVE  IInv'
<1>1. /\ TypeOK /\ Complete /\ now' = now + 1 /\ now < ShutdownDue + Overshoot
      /\ late' = IF generator = "publishing"
                 THEN late \cup {k \in Timers : now >= Since(k) + Jitter}
                 ELSE late
      /\ UNCHANGED <<cfg, loaded, generator, due, round_robin_cursor, pending, published,
                     unheard, lost, rows, spinning>>
  BY DEF Advance, IInv
<1>2. now \in Nat /\ ShutdownDue + Overshoot \in Nat /\ WarmUp \in Nat /\ Jitter \in Nat
  BY <1>1, ClockAssumption DEF TypeOK, ShutdownDue
<1>3. Timers' = Timers /\ \A k : TimerOf(k)' = TimerOf(k) /\ Since(k)' = Since(k)
  BY <1>1 DEF Timers, TimerOf, Since, Period
<1>4. TypeOK'
  <2>1. now' \in 0 .. ShutdownDue + Overshoot
    BY <1>1, <1>2
  <2>2. late' \subseteq Timers'
    BY <1>1, <1>3 DEF TypeOK
  <2> QED
    BY <1>1, <2>1, <2>2 DEF TypeOK, ShutdownDue
<1>5. ASSUME generator = "publishing"
      PROVE  Punctual' /\ \E s \in WarmUp .. now' : InBeat(s)'
  <2>1. PICK s \in WarmUp .. now : InBeat(s)
    BY <1>5 DEF IInv
  <2>2. ASSUME NEW i \in Timers \ late'
        PROVE  now + 1 <= Since(i) + Jitter
    <3>1. ~ (now >= Since(i) + Jitter) /\ Since(i) \in Int
      BY <1>1, <1>5, <2>2, SinceMeans
    <3> QED
      BY <1>2, <3>1
  <2>3. Punctual'
    BY <1>1, <1>3, <2>2 DEF Punctual
  <2>4. ASSUME NEW k \in Topics
        PROVE  OnBeat(s, k)'
    <3>1. /\ Period(k)' = Period(k) /\ Spacing(k)' = Spacing(k) /\ NextDue(k)' = NextDue(k)
          /\ TimerOf(k)' = TimerOf(k) /\ Ordered' = Ordered /\ late \subseteq late'
      BY <1>1 DEF Period, Spacing, NextDue, Ahead, Since, TimerOf, Ordered
    <3>2. OnBeat(s, k)
      BY <2>1 DEF InBeat
    <3>3. /\ Period(k) \in Nat /\ Spacing(k) \in Nat /\ NextDue(k) \in Int
          /\ published[k] \in Nat /\ rows[k] \in Row /\ s \in Nat
      BY <1>1, <1>2, <2>1, TopicTypes
    <3>4. Beat(s, Period(k), Spacing(k), now + 1, NextDue(k), published[k])
      BY <1>2, <3>2, <3>3 DEF OnBeat, Beat
    <3>5. Within(s, Period(k), now + 1, rows[k])
      <4>1. rows[k].count \in Nat /\ rows[k].first \in Nat /\ rows[k].last \in Nat
        BY <3>3, RowMeans
      <4> QED
        BY <1>2, <3>2, <3>3, <4>1 DEF OnBeat, Within
    <3>6. k \in pending => NextDue(k) <= now + 1
      BY <1>2, <3>2, <3>3 DEF OnBeat
    <3> QED
      BY <1>1, <3>1, <3>2, <3>4, <3>5, <3>6 DEF OnBeat
  <2>5. InBeat(s)'
    BY <2>4 DEF InBeat
  <2>6. s \in WarmUp .. now'
    BY <1>1, <1>2, <2>1
  <2> QED
    BY <2>3, <2>5, <2>6
<1>6. generator # "publishing" => Quiet'
  BY <1>1 DEF IInv, Quiet
<1>7. Complete' /\ HeardFromTheStart'
  BY <1>1 DEF IInv, Complete, HeardFromTheStart
<1> QED
  BY <1>1, <1>4, <1>5, <1>6, <1>7 DEF IInv

\* A step that none of the beats depends on.
LEMMA BeatUntouched ==
  ASSUME IInv, generator = "publishing",
         UNCHANGED <<cfg, now, due, round_robin_cursor, pending, published, late, rows>>
  PROVE  Punctual' /\ \E s \in WarmUp .. now' : InBeat(s)'
<1>1. PICK s \in WarmUp .. now : InBeat(s)
  BY DEF IInv
<1>2. ASSUME NEW k \in Topics
      PROVE  OnBeat(s, k)'
  <2>1. /\ Period(k)' = Period(k) /\ Spacing(k)' = Spacing(k) /\ NextDue(k)' = NextDue(k)
        /\ TimerOf(k)' = TimerOf(k) /\ Ordered' = Ordered
    BY DEF Period, Spacing, NextDue, Ahead, Since, TimerOf, Ordered
  <2>2. OnBeat(s, k)
    BY <1>1 DEF InBeat
  <2> QED
    BY <2>1, <2>2 DEF OnBeat
<1>3. InBeat(s)'
  BY <1>2 DEF InBeat
<1>4. Punctual'
  <2>1. Timers' = Timers /\ \A t : Since(t)' = Since(t)
    BY DEF Timers, TimerOf, Since, Period
  <2> QED
    BY <2>1 DEF IInv, Punctual
<1> QED
  BY <1>1, <1>3, <1>4

LEMMA NextIInv == IInv /\ [Next]_vars => IInv'
<1> SUFFICES ASSUME IInv, [Next]_vars
             PROVE  IInv'
  OBVIOUS
<1>0. TypeOK
  BY DEF IInv
<1>1. CASE LoadBenchNode
  <2>1. /\ loaded < NumTopics /\ loaded' = loaded + 1
        /\ UNCHANGED <<cfg, now, generator, due, round_robin_cursor, pending, published, late,
                       unheard, lost, rows, spinning>>
    BY <1>1 DEF LoadBenchNode, ToLoad
  <2>2. TypeOK'
    <3>1. loaded' \in 0 .. NumTopics
      BY <1>0, <2>1, FirstTopic DEF TypeOK
    <3>2. Timers' = Timers
      BY <2>1 DEF Timers, TimerOf
    <3> QED
      BY <1>0, <2>1, <3>1, <3>2 DEF TypeOK, ShutdownDue
  <2>3. generator = "publishing" => Punctual' /\ \E s \in WarmUp .. now' : InBeat(s)'
    BY <2>1, BeatUntouched
  <2>4. loaded # NumTopics
    BY <1>0, <2>1, FirstTopic DEF TypeOK
  <2> QED
    BY <2>1, <2>2, <2>3, <2>4 DEF IInv, Quiet, Complete, HeardFromTheStart
<1>2. CASE StartGenerator
  <2>1. /\ generator = "absent" /\ generator' = "warming" /\ MayLoad
        /\ due' = [k \in Topics |-> now + WarmUp]
        /\ UNCHANGED <<cfg, now, loaded, round_robin_cursor, pending, published, late, unheard,
                       lost, rows, spinning>>
    BY <1>2 DEF StartGenerator, WarmUpDue
  <2>2. now \in Nat /\ WarmUp \in Nat
    BY <1>0, ClockAssumption DEF TypeOK, ShutdownDue
  <2>3. TypeOK'
    <3>1. due' \in [Topics -> Nat]
      BY <2>1, <2>2
    <3>2. Timers' = Timers
      BY <2>1 DEF Timers, TimerOf
    <3> QED
      BY <1>0, <2>1, <3>1, <3>2 DEF TypeOK, ShutdownDue
  <2>4. Quiet'
    <3>1. \A k \in Topics : WarmUp <= due'[k]
      BY <2>1, <2>2
    <3> QED
      BY <2>1, <3>1 DEF IInv, Quiet
  <2> QED
    BY <2>1, <2>3, <2>4 DEF IInv, Complete, HeardFromTheStart, MayLoad
<1>3. CASE Start
  BY <1>3, StartsInBeat
<1>4. CASE \E t \in Topics : Fire(t) \/ PublishOne(t)
  BY <1>4, FiresInBeat, PublishesInBeat
<1>5. CASE SpinEnds \/ UNCHANGED vars
  <2>1. /\ spinning' \in BOOLEAN
        /\ UNCHANGED <<cfg, now, loaded, generator, due, round_robin_cursor, pending, published,
                       late, unheard, lost, rows>>
    BY <1>0, <1>5 DEF SpinEnds, vars, TypeOK
  <2>2. TypeOK'
    <3>1. Timers' = Timers
      BY <2>1 DEF Timers, TimerOf
    <3> QED
      BY <1>0, <2>1, <3>1 DEF TypeOK, ShutdownDue
  <2>3. generator = "publishing" => Punctual' /\ \E s \in WarmUp .. now' : InBeat(s)'
    BY <2>1, BeatUntouched
  <2> QED
    BY <2>1, <2>2, <2>3 DEF IInv, Quiet, Complete, HeardFromTheStart
<1>6. CASE Advance
  BY <1>6, AdvanceInBeat
<1> QED
  BY <1>1, <1>2, <1>3, <1>4, <1>5, <1>6 DEF Next

(***************************************************************************)
(* Every topic keeps its beat from a moment after the warm-up, and a       *)
(* message without a row is remembered.                                    *)
(***************************************************************************)
THEOREM Invariance == Spec => []IInv
BY InitIInv, NextIInv, PTL DEF Spec

\* The state of the clock stays well typed.
THEOREM TypeCorrect == Spec => []TypeOK
<1>1. IInv => TypeOK
  BY DEF IInv
<1> QED
  BY <1>1, Invariance, PTL

(***************************************************************************)
(* A generator in the container publishes nothing before all bench nodes   *)
(* are loaded, for any number of them and any warm-up.                     *)
(***************************************************************************)
THEOREM NobodyUnheard == Spec => []HeardFromTheStart
<1>1. IInv => HeardFromTheStart
  BY DEF IInv
<1> QED
  BY <1>1, Invariance, PTL

-----------------------------------------------------------------------------
(* From beats to messages.                                                 *)

LEMMA DenominatorMeans ==
  ASSUME TypeOK, NEW k \in Topics
  PROVE  /\ rate_num(cfg, NumTopics, k) \in Nat \ {0}
         /\ Denominator \in Nat
         /\ Denominator = rate_num(cfg, NumTopics, k) * Spacing(k)
<1>1. /\ rate_num(cfg, NumTopics, k) \in Nat \ {0} /\ rate_den(cfg, NumTopics) \in Nat
      /\ rate_num(cfg, NumTopics, k) * Spacing(k) = rate_den(cfg, NumTopics) * Second
  BY RatesMean DEF TypeOK, Spacing
<1>2. rate_den(cfg, NumTopics) * Second \in Nat
  BY <1>1, ProductIsNatural, ClockAssumption
<1> QED
  BY <1>1, <1>2 DEF Denominator

\* A bound on the time of c messages bounds their number.
LEMMA Scaled ==
  ASSUME NEW num \in Nat, NEW T \in Nat, NEW c \in Nat, NEW w \in Nat, T * c <= w + T
  PROVE  c * (num * T) <= num * w + num * T
<1>1. T * c \in Nat
  BY ProductIsNatural
<1>2. num * (T * c) <= num * (w + T)
  BY <1>1, ProductMonotone
<1>3. num * (T * c) = c * (num * T) /\ num * (w + T) = num * w + num * T
  OBVIOUS
<1> QED
  BY <1>2, <1>3

(***************************************************************************)
(* No entity is sent more than its rate brings in the duration and the     *)
(* overshoot, and the first message, for any rates and any warm-up.        *)
(***************************************************************************)
THEOREM PublishingFitted == Spec => []PublishingFits
<1>1. IInv => PublishingFits
  <2> SUFFICES ASSUME IInv, NEW k \in Topics
               PROVE  published[k] * rate_den(cfg, NumTopics) * Second
                        <= expected_for(rate_num(cfg, NumTopics, k),
                                        rate_den(cfg, NumTopics) * Second,
                                        Duration + Overshoot)
    BY DEF PublishingFits
  <2> DEFINE num == rate_num(cfg, NumTopics, k)  T == Spacing(k)  p == published[k]
             w == Duration + Overshoot
  <2>1. /\ num \in Nat \ {0} /\ Denominator \in Nat /\ Denominator = num * T
        /\ T \in Nat /\ p \in Nat /\ w \in Nat /\ now \in Nat /\ Period(k) \in Nat
        /\ rate_den(cfg, NumTopics) \in Nat /\ Second \in Nat
    BY DenominatorMeans, TopicTypes, RatesMean, ClockAssumption DEF IInv, TypeOK
  <2>2. T * p <= w + T
    <3>1. CASE generator = "publishing"
      <4>1. PICK s \in WarmUp .. now : InBeat(s)
        BY <3>1 DEF IInv
      <4>2. /\ s + Period(k) + T * p <= NextDue(k) /\ NextDue(k) <= now + T
            /\ WarmUp <= s /\ s \in Nat
        BY <4>1, ClockAssumption DEF InBeat, OnBeat, Beat
      <4>3. now <= Duration + WarmUp + Overshoot
        BY ClockAssumption DEF IInv, TypeOK, ShutdownDue
      <4>4. NextDue(k) \in Int /\ T * p \in Nat /\ WarmUp \in Nat
            /\ Duration \in Nat /\ Overshoot \in Nat
        BY <2>1, NextDueMeans, ProductIsNatural, ClockAssumption DEF IInv
      <4> HIDE DEF T, p
      <4> QED
        BY <2>1, <4>2, <4>3, <4>4
    <3>2. CASE generator # "publishing"
      <4>1. p = 0
        BY <3>2 DEF IInv, Quiet
      <4>2. T * p = 0
        BY <2>1, <4>1
      <4> QED
        BY <2>1, <4>2
    <3> QED
      BY <3>1, <3>2
  <2> HIDE DEF num, T, p, w
  <2>3. p * (num * T) <= num * w + num * T
    BY <2>1, <2>2, Scaled
  <2>4. p * rate_den(cfg, NumTopics) * Second = p * Denominator
    BY <2>1 DEF Denominator
  <2>5. p * Denominator <= num * w + Denominator
    BY <2>1, <2>3
  <2> QED
    BY <2>4, <2>5 DEF expected_for, Denominator, num, p, w
<1> QED
  BY <1>1, Invariance, PTL

-----------------------------------------------------------------------------
(* The window.                                                             *)

LEMMA MinIsLeast ==
  ASSUME NEW S, S \subseteq Nat, S # {}
  PROVE  Min(S) \in S /\ \A y \in S : Min(S) <= y
<1>1. PICK x \in S : \A y \in S : ~ (<<y, x>> \in OpToRel(<, Nat))
  BY NatLessThanWellFounded, WFMin
<1>2. \A y \in S : ~ (y < x)
  BY <1>1 DEF OpToRel
<1>3. \A y \in S : x <= y
  BY <1>2
<1> QED
  BY <1>3 DEF Min

\* The greatest element is the one nearest to a bound.
LEMMA MaxIsGreatest ==
  ASSUME NEW S, S \subseteq Nat, S # {}, NEW b \in Nat, \A y \in S : y <= b
  PROVE  Max(S) \in S /\ \A y \in S : y <= Max(S)
<1> DEFINE D == {b - y : y \in S}
<1>1. D \subseteq Nat /\ D # {}
  <2>1. \A y \in S : b - y \in Nat
    OBVIOUS
  <2> QED
    BY <2>1
<1>2. PICK d \in D : \A e \in D : d <= e
  <2> HIDE DEF D
  <2>1. Min(D) \in D /\ \A e \in D : Min(D) <= e
    BY <1>1, MinIsLeast
  <2> QED
    BY <2>1
<1>3. PICK x \in S : d = b - x
  OBVIOUS
<1>4. \A y \in S : y <= x
  BY <1>2, <1>3
<1>5. \A y \in S : x >= y
  BY <1>4
<1>6. Max(S) \in S /\ \A y \in S : Max(S) >= y
  BY <1>5 DEF Max
<1> QED
  BY <1>6

\* The window ends at the last row of a topic, starts at the first of one,
\* and holds the rows of all.
LEMMA WindowMeans ==
  ASSUME IInv, WindowObserved(Recorders)
  PROVE  \E lo, hi \in Nat :
           /\ window(Recorders, Duration) = hi - lo /\ lo < hi
           /\ \E j \in Topics : rows[j].count > 0 /\ lo = rows[j].first
           /\ \E j \in Topics : rows[j].count > 0 /\ hi = rows[j].last
           /\ \A j \in Topics : rows[j].count > 0 => lo <= rows[j].first /\ rows[j].last <= hi
<1> DEFINE W == {j \in Topics : rows[j].count > 0}
           Firsts == {rows[j].first : j \in W}
           Lasts == {rows[j].last : j \in W}
<1>1. \A j \in Topics : rows[j].count \in Nat /\ rows[j].first \in Nat /\ rows[j].last \in Nat
  BY DEF IInv, TypeOK
<1>2. WithRows(Recorders) = W
  <2>1. DOMAIN Recorders = Topics
    BY DEF Recorders
  <2>2. ASSUME NEW j \in Topics
        PROVE  Recorders[j].rows # << >> <=> rows[j].count > 0
    <3>1. Recorders[j].rows = IF rows[j].count = 0 THEN << >>
            ELSE <<[t_reference |-> rows[j].first], [t_reference |-> rows[j].last]>>
      BY DEF Recorders
    <3>2. rows[j].count = 0 \/ rows[j].count > 0
      BY <1>1
    <3> QED
      BY <1>1, <3>1, <3>2
  <2> QED
    BY <2>1, <2>2 DEF WithRows
<1>3. ASSUME NEW j \in W
      PROVE  /\ Head(Recorders[j].rows).t_reference = rows[j].first
             /\ Last(Recorders[j].rows).t_reference = rows[j].last
  <2>1. Recorders[j].rows = <<[t_reference |-> rows[j].first], [t_reference |-> rows[j].last]>>
    BY <1>1, <1>3 DEF Recorders
  <2> QED
    BY <2>1 DEF Last
<1>4. window_lo(Recorders) = Min(Firsts)
  <2>1. {Head(Recorders[r].rows).t_reference : r \in WithRows(Recorders)} = Firsts
    BY <1>2, <1>3
  <2> QED
    BY <2>1 DEF window_lo
<1>5. window_hi(Recorders) = Max(Lasts)
  <2>1. {Last(Recorders[r].rows).t_reference : r \in WithRows(Recorders)} = Lasts
    BY <1>2, <1>3
  <2> QED
    BY <2>1 DEF window_hi
<1>6. W # {} /\ window_hi(Recorders) > window_lo(Recorders)
  BY <1>2 DEF WindowObserved
<1>7. now \in Nat /\ \A j \in W : rows[j].last <= now
  <2>1. now \in Nat
    BY DEF IInv, TypeOK
  <2>2. generator = "publishing"
    BY <1>6, <1>1 DEF IInv, Quiet
  <2>3. PICK s \in WarmUp .. now : InBeat(s)
    BY <2>2 DEF IInv
  <2> QED
    BY <1>1, <2>1, <2>3 DEF InBeat, OnBeat, Within
<1>8. Min(Firsts) \in Firsts /\ \A y \in Firsts : Min(Firsts) <= y
  <2>1. Firsts \subseteq Nat /\ Firsts # {}
    BY <1>1, <1>6
  <2> HIDE DEF Firsts
  <2> QED
    BY <2>1, MinIsLeast
<1>9. Max(Lasts) \in Lasts /\ \A y \in Lasts : y <= Max(Lasts)
  <2>1. Lasts \subseteq Nat /\ Lasts # {} /\ \A y \in Lasts : y <= now
    BY <1>1, <1>6, <1>7
  <2> HIDE DEF Lasts
  <2> QED
    BY <1>7, <2>1, MaxIsGreatest
<1> DEFINE lo == Min(Firsts)  hi == Max(Lasts)
<1>10. /\ lo \in Nat /\ hi \in Nat
       /\ \E j \in Topics : rows[j].count > 0 /\ lo = rows[j].first
       /\ \E j \in Topics : rows[j].count > 0 /\ hi = rows[j].last
       /\ \A j \in Topics : rows[j].count > 0 => lo <= rows[j].first /\ rows[j].last <= hi
  <2>1. PICK j \in W : Min(Firsts) = rows[j].first
    BY <1>8
  <2>2. PICK i \in W : Max(Lasts) = rows[i].last
    BY <1>9
  <2>3. \A l \in W : Min(Firsts) <= rows[l].first /\ rows[l].last <= Max(Lasts)
    BY <1>8, <1>9
  <2> QED
    BY <1>1, <2>1, <2>2, <2>3
<1>11. window(Recorders, Duration) = hi - lo /\ lo < hi
  <2>1. window(Recorders, Duration) = window_hi(Recorders) - window_lo(Recorders)
    BY DEF window
  <2>2. lo < hi
    BY <1>4, <1>5, <1>6, <1>10
  <2> QED
    BY <2>1, <2>2, <1>4, <1>5
<1> HIDE DEF lo, hi
<1> QED
  BY <1>10, <1>11

(***************************************************************************)
(* For any rates, warm-up and duration, however the generator is held up   *)
(* and whichever topics starve, the expected number of messages is that of *)
(* the time of publishing: it is exceeded by at most two messages where    *)
(* callbacks complete in order, and a timer that was on time reaches it    *)
(* but for less than two, whatever the callback group.                     *)
(***************************************************************************)
THEOREM MeasuredAgainstPublishing == Spec => []ThroughputMeasured
<1>1. IInv => ThroughputMeasured
  <2> SUFFICES ASSUME IInv, WindowObserved(Recorders), NEW k \in Topics
               PROVE  /\ Ordered =>
                           /\ rows[k].count * Denominator <= Expected(k) + 2 * Denominator
                           /\ TimerOf(k) \notin late =>
                                rows[k].count * Denominator
                                  <= Expected(k) + rate_num(cfg, NumTopics, k) * Jitter
                      /\ k \notin lost /\ TimerOf(k) \notin late =>
                           Expected(k) < (rows[k].count + 2) * Denominator
    BY DEF ThroughputMeasured, Ordered
  <2>1. PICK lo \in Nat, hi \in Nat :
           /\ window(Recorders, Duration) = hi - lo /\ lo < hi
           /\ \E j \in Topics : rows[j].count > 0 /\ lo = rows[j].first
           /\ \E j \in Topics : rows[j].count > 0 /\ hi = rows[j].last
           /\ \A j \in Topics : rows[j].count > 0 => lo <= rows[j].first /\ rows[j].last <= hi
    BY WindowMeans
  <2>2. PICK i \in Topics : rows[i].count > 0 /\ lo = rows[i].first
    BY <2>1
  <2>3. PICK j \in Topics : rows[j].count > 0 /\ hi = rows[j].last
    BY <2>1
  <2>4. generator = "publishing" /\ Punctual
    <3>1. rows[i].count # 0
      BY <2>2
    <3>2. generator = "publishing"
      BY <3>1 DEF IInv, Quiet
    <3> QED
      BY <3>2 DEF IInv
  <2>5. PICK s \in WarmUp .. now : InBeat(s)
    BY <2>4 DEF IInv
  <2> DEFINE num == rate_num(cfg, NumTopics, k)  T == Spacing(k)  c == rows[k].count
             p == published[k]  n == NextDue(k)  w == hi - lo
  <2>6. /\ num \in Nat \ {0} /\ Denominator \in Nat /\ Denominator = num * T
        /\ T \in Nat /\ c \in Nat /\ p \in Nat /\ n \in Int
        /\ now \in Nat /\ s \in Nat /\ Jitter \in Nat
        /\ rows[k].first \in Nat /\ rows[k].last \in Nat
    BY <2>5, DenominatorMeans, TopicTypes, RowMeans, ClockAssumption DEF IInv
  <2>7. w \in Nat /\ w > 0
    BY <2>1
  <2>8. Expected(k) = num * w + Denominator
    BY <2>1 DEF Expected, expected_for
  <2>9. /\ TimerOf(k) \notin late => n <= s + T * p + T
        /\ Ordered /\ c > 0 => rows[k].first + T * c <= rows[k].last + 3 * T
        /\ Ordered /\ TimerOf(k) \notin late /\ c > 0 =>
             rows[k].first + T * c <= rows[k].last + Jitter + T
    BY <2>5 DEF InBeat, OnBeat, Loose, Sharp
  <2>10. s + Jitter < lo /\ hi <= now
    <3>1. s + Period(i) <= rows[i].first /\ rows[j].last <= now
      BY <2>2, <2>3, <2>5 DEF InBeat, OnBeat, Within
    <3>2. Jitter < Period(i) /\ Period(i) \in Nat
      BY Spacings DEF IInv
    <3> QED
      BY <2>2, <2>3, <2>6, <3>1, <3>2
  <2>11. TimerOf(k) \notin late => now <= n + Jitter
    <3>1. TimerOf(k) \in Timers /\ TypeOK
      BY TimersAreTopics DEF IInv
    <3>2. Since(TimerOf(k)) \in Int /\ Since(TimerOf(k)) <= NextDue(k)
      BY <3>1, SinceMeans, NextDueMeans
    <3>3. TimerOf(k) \notin late => now <= Since(TimerOf(k)) + Jitter
      BY <2>4, <3>1 DEF Punctual
    <3> HIDE DEF n
    <3>4. n = NextDue(k)
      BY DEF n
    <3> QED
      BY <2>6, <3>2, <3>3, <3>4
  <2>12. c > 0 => lo <= rows[k].first /\ rows[k].last <= hi
    BY <2>1
  <2>13. T * c \in Nat /\ T * p \in Nat /\ (c = 0 => T * c = 0)
    BY <2>6, ProductIsNatural
  <2> HIDE DEF num, T, c, p, n
  <2>14. /\ Ordered => T * c <= (w + 2 * T) + T
         /\ Ordered /\ TimerOf(k) \notin late => T * c <= (w + Jitter) + T
    BY <2>1, <2>6, <2>7, <2>9, <2>12, <2>13
  <2>15. TimerOf(k) \notin late => w + 1 <= T * p + T
    BY <2>1, <2>6, <2>9, <2>10, <2>11, <2>13
  <2> HIDE DEF w
  <2>16. ASSUME NEW x \in Nat, T * c <= (w + x) + T
         PROVE  c * Denominator <= Expected(k) + num * x
    <3>1. c * (num * T) <= num * (w + x) + num * T
      BY <2>6, <2>7, <2>16, Scaled
    <3>2. num * (w + x) = num * w + num * x /\ num * w \in Nat /\ num * x \in Nat
      BY <2>6, <2>7, ProductIsNatural
    <3>3. c * Denominator <= num * w + num * x + Denominator
      BY <2>6, <3>1, <3>2
    <3>4. c * Denominator \in Nat
      BY <2>6, ProductIsNatural
    <3> QED
      BY <2>6, <2>8, <3>2, <3>3, <3>4
  <2>17. ASSUME Ordered
         PROVE  c * Denominator <= Expected(k) + 2 * Denominator
    <3>1. PICK x \in Nat : x = 2 * T
      BY <2>6
    <3>2. c * Denominator <= Expected(k) + num * x
      BY <2>14, <2>16, <2>17, <3>1
    <3>3. num * x = 2 * Denominator
      BY <2>6, <3>1
    <3> QED
      BY <3>2, <3>3
  <2>18. ASSUME Ordered, TimerOf(k) \notin late
         PROVE  c * Denominator <= Expected(k) + num * Jitter
    BY <2>6, <2>14, <2>16, <2>18
  <2>19. ASSUME k \notin lost, TimerOf(k) \notin late
         PROVE  Expected(k) < (c + 2) * Denominator
    <3>1. c = p
      BY <2>19 DEF IInv, Complete, c, p
    <3>2. num * (w + 1) <= num * (T * c + T)
      <4>1. w + 1 <= T * c + T
        BY <2>15, <2>19, <3>1
      <4> QED
        BY <2>6, <2>7, <2>13, <4>1, ProductMonotone
    <3>3. num * (T * c + T) = c * (num * T) + num * T /\ num * (w + 1) = num * w + num
      BY <2>6, <2>7
    <3>4. num * w + num <= c * Denominator + Denominator
      BY <2>6, <3>2, <3>3
    <3>5. (c + 2) * Denominator = c * Denominator + Denominator + Denominator
          /\ c * Denominator \in Nat /\ num * w \in Nat
      BY <2>6, <2>7, ProductIsNatural
    <3> QED
      BY <2>6, <2>8, <3>4, <3>5
  <2> QED
    BY <2>17, <2>18, <2>19 DEF num, c
<1> QED
  BY <1>1, Invariance, PTL
=============================================================================
