-------------------------- MODULE LaunchPlanProofs --------------------------
(***************************************************************************)
(* The bench nodes divide the topics and the timers among them, each to    *)
(* one, for every number of nodes, subscriptions and timers: the remainder *)
(* goes to the front and the cursors run over all of them.  The buffers    *)
(* hold a run that ends within a fifth of its length after its time.       *)
(***************************************************************************)
EXTENDS LaunchPlan, WellFoundedInduction, TLAPS

\* How many of total entities the first k of buckets nodes have.
Before(total, buckets, k) ==
  k * (total \div buckets) + (IF k < total % buckets THEN k ELSE total % buckets)

\* The share of node n is one of those of size count that start at first.
Shares(total, n, first, count) ==
  /\ first = Before(total, cfg.num_nodes, n - 1)
  /\ count = Before(total, cfg.num_nodes, n) - Before(total, cfg.num_nodes, n - 1)

Building == stage \in {"nodes", "container", "started"}

IInv ==
  /\ cfg \in Arguments
  /\ bench \in Seq([first_topic_index : Int, num_subscriptions : Int,
                    first_timer_index : Int, num_timers : Int])
  /\ stage = "validate" => bench = << >> /\ topic_cursor = 0 /\ timer_cursor = 0
  /\ stage \in {"validate", "nodes", "container", "started", "refused"}
  /\ Building =>
       /\ Accepted(cfg)
       /\ Len(bench) <= cfg.num_nodes
       /\ stage # "nodes" => Len(bench) = cfg.num_nodes
       /\ topic_cursor = Before(cfg.num_subscriptions, cfg.num_nodes, Len(bench))
       /\ timer_cursor = Before(cfg.num_timers, cfg.num_nodes, Len(bench))
       /\ \A n \in 1 .. Len(bench) :
            /\ Shares(cfg.num_subscriptions, n, bench[n].first_topic_index,
                      bench[n].num_subscriptions)
            /\ Shares(cfg.num_timers, n, bench[n].first_timer_index, bench[n].num_timers)
  /\ stage \in {"container", "started"} =>
       generator = IF cfg.num_subscriptions > 0 THEN cfg.generator_mode ELSE "none"

-----------------------------------------------------------------------------
(* Arithmetic of the shares.                                               *)

LEMMA QuotientAndRemainder ==
  ASSUME NEW a \in Int, NEW b \in Int, b > 0
  PROVE  b * (a \div b) + (a % b) = a
BY SMTT(30)

LEMMA Division ==
  ASSUME NEW a \in Int, NEW b \in Nat \ {0}
  PROVE  /\ a \div b \in Int /\ a % b \in Int
         /\ 0 <= a % b /\ a % b < b
OBVIOUS

LEMMA ProductMonotone ==
  ASSUME NEW k \in Nat, NEW l \in Nat, k <= l, NEW q \in Nat
  PROVE  k * q <= l * q
<1>1. l - k \in Nat
  OBVIOUS
<1>2. (l - k) * q \in Nat
  BY <1>1
<1>3. l * q = k * q + (l - k) * q
  OBVIOUS
<1>4. k * q \in Int /\ l * q \in Int
  OBVIOUS
<1> QED
  BY <1>2, <1>3, <1>4

LEMMA BeforeIsInteger ==
  ASSUME NEW total \in Int, NEW buckets \in Nat \ {0}, NEW k \in Nat
  PROVE  Before(total, buckets, k) \in Int
<1>1. total \div buckets \in Int /\ total % buckets \in Int
  BY Division
<1>2. k * (total \div buckets) \in Int
  BY <1>1
<1> QED
  BY <1>1, <1>2 DEF Before

LEMMA BeforeEnds ==
  ASSUME NEW total \in Int, NEW buckets \in Nat \ {0}
  PROVE  Before(total, buckets, 0) = 0 /\ Before(total, buckets, buckets) = total
<1>1. /\ total \div buckets \in Int /\ total % buckets \in Int
      /\ 0 <= total % buckets /\ total % buckets < buckets
  BY Division
<1>5. buckets * (total \div buckets) + (total % buckets) = total
  <2>1. buckets \in Int /\ buckets > 0
    OBVIOUS
  <2> QED
    BY <2>1, QuotientAndRemainder
<1>2. 0 * (total \div buckets) = 0
  BY <1>1
<1>3. Before(total, buckets, 0) = 0
  BY <1>1, <1>2 DEF Before
<1>4. ~ (buckets < total % buckets)
  BY <1>1
<1> QED
  BY <1>1, <1>3, <1>4, <1>5 DEF Before

\* The share of a node is what the loop adds to the cursor.
LEMMA BeforeNext ==
  ASSUME NEW total \in Int, NEW buckets \in Nat \ {0}, NEW n \in 1 .. buckets
  PROVE  split_evenly(total, buckets)[n]
           = Before(total, buckets, n) - Before(total, buckets, n - 1)
<1>1. PICK q \in Int : q = total \div buckets
  BY Division
<1>2. PICK r \in Int : r = total % buckets
  BY Division
<1>3. split_evenly(total, buckets)[n] = q + (IF n - 1 < r THEN 1 ELSE 0)
  BY <1>1, <1>2 DEF split_evenly
<1>4. Before(total, buckets, n) = n * q + (IF n < r THEN n ELSE r)
  BY <1>1, <1>2 DEF Before
<1>5. Before(total, buckets, n - 1) = (n - 1) * q + (IF n - 1 < r THEN n - 1 ELSE r)
  BY <1>1, <1>2 DEF Before
<1>6. n * q = (n - 1) * q + q /\ n * q \in Int /\ (n - 1) * q \in Int
  OBVIOUS
<1>7. (IF n < r THEN n ELSE r) - (IF n - 1 < r THEN n - 1 ELSE r) = IF n - 1 < r THEN 1 ELSE 0
  OBVIOUS
<1> QED
  BY <1>3, <1>4, <1>5, <1>6, <1>7

LEMMA BeforeMonotone ==
  ASSUME NEW total \in Nat, NEW buckets \in Nat \ {0}, NEW k \in Nat, NEW l \in Nat, k <= l
  PROVE  Before(total, buckets, k) <= Before(total, buckets, l)
<1>1. /\ total \div buckets \in Int /\ total % buckets \in Int
      /\ 0 <= total % buckets /\ total % buckets < buckets
  BY Division
<1>2. total \div buckets \in Nat
  OBVIOUS
<1>3. k * (total \div buckets) <= l * (total \div buckets)
  BY <1>2, ProductMonotone
<1>4. k * (total \div buckets) \in Int /\ l * (total \div buckets) \in Int
  BY <1>1
<1> QED
  BY <1>1, <1>3, <1>4 DEF Before

\* Without entities no node has any.
LEMMA NoShares ==
  ASSUME NEW total \in Int, total <= 0, NEW buckets \in Nat \ {0}, NEW n \in 1 .. buckets
  PROVE  Before(total, buckets, n) - Before(total, buckets, n - 1) <= 0
<1>1. PICK q \in Int : q = total \div buckets
  BY Division
<1>2. PICK r \in Int : r = total % buckets
  BY Division
<1>3. 0 <= r /\ r < buckets /\ total = buckets * q + r
  <2>1. 0 <= r /\ r < buckets
    BY <1>2, Division
  <2>2. buckets * q + r = total
    BY <1>1, <1>2, QuotientAndRemainder
  <2> QED
    BY <2>1, <2>2
<1>4. split_evenly(total, buckets)[n] = q + (IF n - 1 < r THEN 1 ELSE 0)
  BY <1>1, <1>2 DEF split_evenly
<1>5. q <= 0
  <2>1. ASSUME q >= 1
        PROVE  FALSE
    <3>1. buckets * 1 <= buckets * q
      BY <2>1
    <3> QED
      BY <1>3, <3>1
  <2> QED
    BY <2>1
<1>6. q = 0 => r = 0
  BY <1>3
<1>7. q + (IF n - 1 < r THEN 1 ELSE 0) <= 0
  BY <1>5, <1>6
<1> QED
  BY <1>4, <1>7, BeforeNext

-----------------------------------------------------------------------------
(* The shares divide the entities.                                         *)

ShareOf(total, buckets, n) ==
  Indices(Before(total, buckets, n - 1),
          Before(total, buckets, n) - Before(total, buckets, n - 1))

LEMMA ShareRange ==
  ASSUME NEW total \in Int, NEW buckets \in Nat \ {0}, NEW n \in 1 .. buckets, NEW x
  PROVE  x \in ShareOf(total, buckets, n)
           <=> x \in Int /\ Before(total, buckets, n - 1) <= x /\ x < Before(total, buckets, n)
<1>1. Before(total, buckets, n - 1) \in Int /\ Before(total, buckets, n) \in Int
  BY BeforeIsInteger
<1> QED
  BY <1>1 DEF ShareOf, Indices

LEMMA SharesOfNone ==
  ASSUME NEW total \in Int, total <= 0, NEW buckets \in Nat \ {0}, NEW n \in 1 .. buckets
  PROVE  ShareOf(total, buckets, n) = {}
<1>1. Before(total, buckets, n - 1) \in Int /\ Before(total, buckets, n) \in Int
  BY BeforeIsInteger
<1>2. Before(total, buckets, n) - Before(total, buckets, n - 1) <= 0
  BY NoShares
<1>3. ~ \E x \in ShareOf(total, buckets, n) : TRUE
  BY <1>1, <1>2, ShareRange
<1> QED
  BY <1>3

LEMMA SharesApartInOrder ==
  ASSUME NEW total \in Int, NEW buckets \in Nat \ {0},
         NEW n \in 1 .. buckets, NEW o \in 1 .. buckets, n < o
  PROVE  ShareOf(total, buckets, n) \cap ShareOf(total, buckets, o) = {}
<1>1. CASE total <= 0
  BY <1>1, SharesOfNone
<1>2. CASE total > 0
  <2>1. Before(total, buckets, n) <= Before(total, buckets, o - 1)
    BY <1>2, BeforeMonotone
  <2>2. Before(total, buckets, n) \in Int /\ Before(total, buckets, o - 1) \in Int
    BY BeforeIsInteger
  <2>3. ASSUME NEW x \in ShareOf(total, buckets, n), x \in ShareOf(total, buckets, o)
        PROVE  FALSE
    BY <2>1, <2>2, <2>3, ShareRange
  <2> QED
    BY <2>3
<1> QED
  BY <1>1, <1>2

LEMMA SharesApart ==
  ASSUME NEW total \in Int, NEW buckets \in Nat \ {0},
         NEW n \in 1 .. buckets, NEW o \in 1 .. buckets, n # o
  PROVE  ShareOf(total, buckets, n) \cap ShareOf(total, buckets, o) = {}
<1>1. CASE n < o
  BY <1>1, SharesApartInOrder
<1>2. CASE o < n
  BY <1>2, SharesApartInOrder
<1> QED
  BY <1>1, <1>2

LEMMA LeastNumber ==
  ASSUME NEW S, S \subseteq Nat, S # {}
  PROVE  \E n \in S : \A m \in S : n <= m
<1>1. PICK n \in S : \A m \in S : ~ (<<m, n>> \in OpToRel(<, Nat))
  BY NatLessThanWellFounded, WFMin
<1>2. \A m \in S : ~ (m < n)
  BY <1>1 DEF OpToRel
<1> QED
  BY <1>2

\* The first node up to which more than an index are shared out has it.
LEMMA SharesReach ==
  ASSUME NEW total \in Nat, NEW buckets \in Nat \ {0}, NEW x \in 0 .. total - 1
  PROVE  \E n \in 1 .. buckets : x \in ShareOf(total, buckets, n)
<1> DEFINE Past == {k \in Nat : x < Before(total, buckets, k)}
<1>1. Before(total, buckets, 0) = 0 /\ Before(total, buckets, buckets) = total
  BY BeforeEnds
<1>2. buckets \in Past /\ Past \subseteq Nat /\ 0 \notin Past
  BY <1>1
<1>3. PICK n \in Past : \A m \in Past : n <= m
  <2> HIDE DEF Past
  <2> QED
    BY <1>2, LeastNumber
<1>4. n \in 1 .. buckets /\ n - 1 \in Nat
  <2> HIDE DEF Past
  <2>1. n \in Nat /\ n # 0 /\ n <= buckets
    BY <1>2, <1>3
  <2> QED
    BY <2>1
<1>5. n - 1 \notin Past
  <2> HIDE DEF Past
  <2> QED
    BY <1>2, <1>3, <1>4
<1>6. Before(total, buckets, n - 1) \in Int
  BY <1>4, BeforeIsInteger
<1>7. Before(total, buckets, n - 1) <= x /\ x < Before(total, buckets, n)
  BY <1>3, <1>4, <1>5, <1>6
<1>8. x \in ShareOf(total, buckets, n)
  BY <1>4, <1>7, ShareRange
<1> QED
  BY <1>4, <1>8

LEMMA SharesCover ==
  ASSUME NEW total \in Int, NEW buckets \in Nat \ {0}
  PROVE  UNION {ShareOf(total, buckets, n) : n \in 1 .. buckets} = Indices(0, total)
<1>1. CASE total <= 0
  <2>1. \A n \in 1 .. buckets : ShareOf(total, buckets, n) = {}
    BY <1>1, SharesOfNone
  <2>2. Indices(0, total) = {}
    BY <1>1 DEF Indices
  <2> QED
    BY <2>1, <2>2
<1>2. CASE total > 0
  <2>1. Indices(0, total) = 0 .. total - 1
    BY DEF Indices
  <2>2. ASSUME NEW n \in 1 .. buckets, NEW x \in ShareOf(total, buckets, n)
        PROVE  x \in 0 .. total - 1
    <3>1. /\ Before(total, buckets, 0) = 0 /\ Before(total, buckets, buckets) = total
      BY BeforeEnds
    <3>2. 0 <= Before(total, buckets, n - 1) /\ Before(total, buckets, n) <= total
      BY <1>2, <3>1, BeforeMonotone
    <3>3. Before(total, buckets, n - 1) \in Int /\ Before(total, buckets, n) \in Int
      BY BeforeIsInteger
    <3> QED
      BY <3>2, <3>3, <2>2, ShareRange
  <2>3. \A x \in 0 .. total - 1 : \E n \in 1 .. buckets : x \in ShareOf(total, buckets, n)
    BY <1>2, SharesReach
  <2> QED
    BY <2>1, <2>2, <2>3
<1> QED
  BY <1>1, <1>2

-----------------------------------------------------------------------------
(* The inductive invariant.                                                *)

LEMMA InitIInv == Init => IInv
BY LaunchAssumption DEF Init, IInv, Building

LEMMA StepOfBenchNode ==
  ASSUME IInv, AddBenchNode
  PROVE  IInv'
<1> DEFINE len == Len(bench)
           N == cfg.num_nodes
           subs == split_evenly(cfg.num_subscriptions, N)[len + 1]
           timers == split_evenly(cfg.num_timers, N)[len + 1]
           entry == [first_topic_index |-> topic_cursor, num_subscriptions |-> subs,
                     first_timer_index |-> timer_cursor, num_timers |-> timers]
<1>1. /\ stage = "nodes" /\ Building /\ Accepted(cfg) /\ cfg \in Arguments
      /\ UNCHANGED <<cfg, stage, generator>>
  BY DEF AddBenchNode, IInv, Building
<1>2. /\ N \in Nat \ {0} /\ cfg.num_subscriptions \in Int /\ cfg.num_timers \in Int
  BY <1>1 DEF Accepted, Arguments
<1>3. len \in Nat /\ len + 1 \in 1 .. N
  BY <1>2 DEF AddBenchNode, IInv
<1>4. /\ bench' = Append(bench, entry)
      /\ topic_cursor' = topic_cursor + subs
      /\ timer_cursor' = timer_cursor + timers
  BY DEF AddBenchNode, FirstTimer
<1>5. /\ topic_cursor = Before(cfg.num_subscriptions, N, len)
      /\ timer_cursor = Before(cfg.num_timers, N, len)
  BY <1>1 DEF IInv
<1>6. /\ topic_cursor \in Int /\ timer_cursor \in Int
      /\ Before(cfg.num_subscriptions, N, len + 1) \in Int
      /\ Before(cfg.num_timers, N, len + 1) \in Int
  <2>1. len + 1 \in Nat
    BY <1>3
  <2>2. \A total \in {cfg.num_subscriptions, cfg.num_timers}, k \in {len, len + 1} :
           Before(total, N, k) \in Int
    <3> HIDE DEF len, N
    <3> QED
      BY <1>2, <1>3, <2>1, BeforeIsInteger
  <2> QED
    BY <1>5, <2>2
<1>7. /\ subs = Before(cfg.num_subscriptions, N, len + 1) - topic_cursor
      /\ timers = Before(cfg.num_timers, N, len + 1) - timer_cursor
  <2>1. (len + 1) - 1 = len
    BY <1>3
  <2>2. /\ subs = Before(cfg.num_subscriptions, N, len + 1)
                    - Before(cfg.num_subscriptions, N, (len + 1) - 1)
        /\ timers = Before(cfg.num_timers, N, len + 1)
                      - Before(cfg.num_timers, N, (len + 1) - 1)
    BY <1>2, <1>3, BeforeNext
  <2> QED
    BY <2>1, <2>2, <1>5
<1> HIDE DEF subs, timers
<1>8. /\ topic_cursor' = Before(cfg.num_subscriptions, N, len + 1)
      /\ timer_cursor' = Before(cfg.num_timers, N, len + 1)
  BY <1>4, <1>6, <1>7
<1>9. entry \in [first_topic_index : Int, num_subscriptions : Int,
                 first_timer_index : Int, num_timers : Int]
  BY <1>6, <1>7
<1>10. bench \in Seq([first_topic_index : Int, num_subscriptions : Int,
                      first_timer_index : Int, num_timers : Int])
  BY DEF IInv
<1>11. /\ bench' \in Seq([first_topic_index : Int, num_subscriptions : Int,
                          first_timer_index : Int, num_timers : Int])
       /\ Len(bench') = len + 1
       /\ bench'[len + 1] = entry
       /\ \A n \in 1 .. len : bench'[n] = bench[n]
  BY <1>4, <1>9, <1>10
<1>12. ASSUME NEW n \in 1 .. Len(bench')
       PROVE  /\ Shares(cfg.num_subscriptions, n, bench'[n].first_topic_index,
                        bench'[n].num_subscriptions)
              /\ Shares(cfg.num_timers, n, bench'[n].first_timer_index, bench'[n].num_timers)
  <2>1. CASE n \in 1 .. len
    <3>1. bench'[n] = bench[n]
      BY <2>1, <1>11
    <3> QED
      BY <3>1, <2>1, <1>1 DEF IInv
  <2>2. CASE n = len + 1
    <3>1. n - 1 = len
      BY <2>2, <1>3
    <3> QED
      BY <3>1, <2>2, <1>5, <1>7, <1>11 DEF Shares
  <2> QED
    BY <2>1, <2>2, <1>3, <1>11
<1>13. Len(bench') <= cfg'.num_nodes
  BY <1>1, <1>2, <1>3, <1>11
<1>14. Accepted(cfg')
  BY <1>1
<1>15. (\A n \in 1 .. Len(bench) :
           /\ Shares(cfg.num_subscriptions, n, bench[n].first_topic_index,
                     bench[n].num_subscriptions)
           /\ Shares(cfg.num_timers, n, bench[n].first_timer_index, bench[n].num_timers))'
  BY <1>12, <1>1 DEF Shares
<1> QED
  BY <1>1, <1>8, <1>11, <1>13, <1>14, <1>15 DEF IInv, Building

LEMMA NextIInv ==
  ASSUME IInv, [Next]_vars
  PROVE  IInv'
<1>1. CASE Refuse
  BY <1>1 DEF Refuse, IInv, Building
<1>2. CASE Size
  <2>1. /\ cfg.num_nodes \in Nat \ {0} /\ cfg.num_subscriptions \in Int /\ cfg.num_timers \in Int
    BY <1>2 DEF Size, IInv, Accepted, Arguments
  <2>2. /\ bench = << >> /\ Len(bench) = 0 /\ topic_cursor = 0 /\ timer_cursor = 0
    BY <1>2 DEF Size, IInv
  <2>3. /\ Before(cfg.num_subscriptions, cfg.num_nodes, 0) = 0
        /\ Before(cfg.num_timers, cfg.num_nodes, 0) = 0
    BY <2>1, BeforeEnds
  <2>4. Accepted(cfg) /\ UNCHANGED <<cfg, topic_cursor, timer_cursor, bench>> /\ stage' = "nodes"
    BY <1>2 DEF Size
  <2>5. /\ Len(bench') <= cfg'.num_nodes
        /\ 1 .. Len(bench') = {}
        /\ topic_cursor' = Before(cfg.num_subscriptions, cfg.num_nodes, Len(bench))'
        /\ timer_cursor' = Before(cfg.num_timers, cfg.num_nodes, Len(bench))'
    BY <2>1, <2>2, <2>3, <2>4
  <2> QED
    BY <2>4, <2>5 DEF IInv, Building
<1>3. CASE AddBenchNode
  BY <1>3, StepOfBenchNode
<1>4. CASE PlaceGenerator
  BY <1>4 DEF PlaceGenerator, IInv, Building, Shares
<1>5. CASE PickContainer
  BY <1>5 DEF PickContainer, IInv, Building, Shares
<1>6. CASE UNCHANGED vars
  BY <1>6 DEF vars, IInv, Building, Shares
<1> QED
  BY <1>1, <1>2, <1>3, <1>4, <1>5, <1>6 DEF Next

(***************************************************************************)
(* While the nodes are placed, the cursors stand where the shares of the   *)
(* nodes placed so far end.                                                *)
(***************************************************************************)
THEOREM Invariance == Spec => []IInv
BY InitIInv, NextIInv, PTL DEF Spec

-----------------------------------------------------------------------------
(* The placed nodes have the shares.                                       *)

LEMMA StartedShares ==
  ASSUME IInv, stage = "started"
  PROVE  /\ cfg.num_nodes \in Nat \ {0} /\ Len(bench) = cfg.num_nodes
         /\ cfg.num_subscriptions \in Int /\ cfg.num_timers \in Int
         /\ \A n \in 1 .. Len(bench) :
              /\ SubscribedBy(n) = ShareOf(cfg.num_subscriptions, cfg.num_nodes, n)
              /\ TimersOn(n) = ShareOf(cfg.num_timers, cfg.num_nodes, n)
<1>1. Building /\ Accepted(cfg) /\ cfg \in Arguments /\ Len(bench) = cfg.num_nodes
  BY DEF IInv, Building
<1>2. /\ cfg.num_nodes \in Nat \ {0} /\ cfg.num_subscriptions \in Int /\ cfg.num_timers \in Int
  BY <1>1 DEF Accepted, Arguments
<1>3. ASSUME NEW n \in 1 .. Len(bench)
      PROVE  /\ SubscribedBy(n) = ShareOf(cfg.num_subscriptions, cfg.num_nodes, n)
             /\ TimersOn(n) = ShareOf(cfg.num_timers, cfg.num_nodes, n)
  <2>1. /\ Shares(cfg.num_subscriptions, n, bench[n].first_topic_index,
                  bench[n].num_subscriptions)
        /\ Shares(cfg.num_timers, n, bench[n].first_timer_index, bench[n].num_timers)
    BY <1>1 DEF IInv
  <2> QED
    BY <2>1 DEF Shares, SubscribedBy, TimersOn, ShareOf
<1> QED
  BY <1>1, <1>2, <1>3

LEMMA PublishedAreSubscribed ==
  ASSUME IInv, stage = "started"
  PROVE  PublishedTopics = Indices(0, cfg.num_subscriptions)
<1>1. /\ generator = (IF cfg.num_subscriptions > 0 THEN cfg.generator_mode ELSE "none")
      /\ cfg.num_subscriptions \in Int
      /\ cfg.generator_mode \in GeneratorModes
  BY DEF IInv, Building, Accepted, Arguments
<1>2. CASE cfg.num_subscriptions > 0
  <2>1. generator # "none"
    BY <1>1, <1>2 DEF GeneratorModes
  <2>2. Max({cfg.num_subscriptions, 1}) = cfg.num_subscriptions
    BY <1>1, <1>2 DEF Max
  <2> QED
    BY <2>1, <2>2 DEF PublishedTopics
<1>3. CASE ~ (cfg.num_subscriptions > 0)
  <2>1. PublishedTopics = {}
    BY <1>1, <1>3 DEF PublishedTopics
  <2>2. Indices(0, cfg.num_subscriptions) = {}
    BY <1>1, <1>3 DEF Indices
  <2> QED
    BY <2>1, <2>2
<1> QED
  BY <1>2, <1>3

(***************************************************************************)
(* However many subscriptions are asked of however many nodes, each        *)
(* published topic has one subscription and each subscription a publisher. *)
(***************************************************************************)
THEOREM TopicsShared == Spec => []SubscribersMatchTopics
<1>1. IInv => SubscribersMatchTopics
  <2> SUFFICES ASSUME IInv, stage = "started"
               PROVE  SubscribersMatchTopics
    BY DEF SubscribersMatchTopics
  <2>1. UNION {SubscribedBy(n) : n \in 1 .. Len(bench)}
          = UNION {ShareOf(cfg.num_subscriptions, cfg.num_nodes, n) : n \in 1 .. cfg.num_nodes}
    BY StartedShares
  <2>2. UNION {SubscribedBy(n) : n \in 1 .. Len(bench)} = PublishedTopics
    BY <2>1, StartedShares, SharesCover, PublishedAreSubscribed
  <2>3. \A n, o \in 1 .. Len(bench) : n # o => SubscribedBy(n) \cap SubscribedBy(o) = {}
    BY StartedShares, SharesApart
  <2> QED
    BY <2>2, <2>3 DEF SubscribersMatchTopics
<1> QED
  BY <1>1, Invariance, PTL

(***************************************************************************)
(* However many timers are asked of however many nodes, each has an index  *)
(* of its own below their number.                                          *)
(***************************************************************************)
THEOREM TimersNamedApart == Spec => []EntitiesNamedApart
<1>1. IInv => EntitiesNamedApart
  <2> SUFFICES ASSUME IInv, stage = "started"
               PROVE  EntitiesNamedApart
    BY DEF EntitiesNamedApart
  <2>1. UNION {TimersOn(n) : n \in 1 .. Len(bench)}
          = UNION {ShareOf(cfg.num_timers, cfg.num_nodes, n) : n \in 1 .. cfg.num_nodes}
    BY StartedShares
  <2>2. UNION {TimersOn(n) : n \in 1 .. Len(bench)} = Indices(0, cfg.num_timers)
    BY <2>1, StartedShares, SharesCover
  <2>3. \A n, o \in 1 .. Len(bench) : n # o => TimersOn(n) \cap TimersOn(o) = {}
    BY StartedShares, SharesApart
  <2> QED
    BY <2>2, <2>3 DEF EntitiesNamedApart
<1> QED
  BY <1>1, Invariance, PTL

-----------------------------------------------------------------------------
(* The size of the buffers.                                                *)

\* Where the constructors of the buffers are.
SizeInv ==
  /\ cfg \in Configs
  /\ container \in {"none", "own", "external"}
  /\ generator \in GeneratorModes \cup {"none"}
  /\ sample_capacity = IF Building THEN SampleCapacity(cfg) ELSE 0
  /\ ~ Building => topic_cursor = 0 /\ timer_cursor = 0

LEMMA SizeInvariance == Spec => []SizeInv
<1>1. Init => SizeInv
  BY DEF Init, SizeInv, Building
<1>2. IInv /\ SizeInv /\ [Next]_vars => SizeInv'
  <2> SUFFICES ASSUME IInv, SizeInv, [Next]_vars
               PROVE  SizeInv'
    OBVIOUS
  <2>1. CASE Refuse
    BY <2>1 DEF Refuse, IInv, SizeInv, Building
  <2>2. CASE Size
    BY <2>2 DEF Size, SizeInv, Building
  <2>3. CASE AddBenchNode
    BY <2>3 DEF AddBenchNode, SizeInv, Building
  <2>4. CASE PlaceGenerator
    <3>1. cfg.generator_mode \in GeneratorModes
      BY <2>4 DEF PlaceGenerator, IInv, Building, Accepted
    <3> QED
      BY <2>4, <3>1 DEF PlaceGenerator, SizeInv, Building
  <2>5. CASE PickContainer
    BY <2>5 DEF PickContainer, SizeInv, Building
  <2>6. CASE UNCHANGED vars
    BY <2>6 DEF vars, SizeInv, Building
  <2> QED
    BY <2>1, <2>2, <2>3, <2>4, <2>5, <2>6 DEF Next
<1> QED
  BY <1>1, <1>2, Invariance, PTL DEF Spec

LEMMA MaxOfTwo ==
  ASSUME NEW a \in Int, NEW b \in Int
  PROVE  Max({a, b}) \in {a, b} /\ Max({a, b}) >= a /\ Max({a, b}) >= b
BY DEF Max

LEMMA QuotientBelow ==
  ASSUME NEW c \in Nat, NEW b \in Nat, b > 0
  PROVE  c \div b \in Nat /\ c < ((c \div b) + 1) * b
OBVIOUS

LEMMA CeilIsEnough ==
  ASSUME NEW a \in Nat, NEW b \in Nat, b > 0
  PROVE  CeilDiv(a, b) \in Nat /\ a <= CeilDiv(a, b) * b
<1>1. a + b - 1 \in Nat
  OBVIOUS
<1> DEFINE c == a + b - 1
<1>2. c \div b \in Nat /\ c < ((c \div b) + 1) * b
  BY <1>1, QuotientBelow
<1>3. ((c \div b) + 1) * b = (c \div b) * b + b /\ (c \div b) * b \in Nat
  BY <1>2
<1> QED
  BY <1>2, <1>3 DEF CeilDiv

LEMMA PeakIsARate ==
  ASSUME NEW c \in Arguments, c.publish_rate_hz \in Nat
  PROVE  /\ PeakRate(c) \in Nat /\ PeakRate(c) >= c.publish_rate_hz
         /\ c.publish_mode = "multi_rate" => PeakRate(c) >= c.rate_max_hz
<1>1. c.publish_rate_hz \in Int /\ c.rate_max_hz \in Int
  BY DEF Arguments
<1>2. LET M == Max({c.publish_rate_hz, c.rate_max_hz})
      IN  M \in Nat /\ M >= c.publish_rate_hz /\ M >= c.rate_max_hz
  <2>1. /\ Max({c.publish_rate_hz, c.rate_max_hz}) \in {c.publish_rate_hz, c.rate_max_hz}
        /\ Max({c.publish_rate_hz, c.rate_max_hz}) >= c.publish_rate_hz
        /\ Max({c.publish_rate_hz, c.rate_max_hz}) >= c.rate_max_hz
    BY <1>1, MaxOfTwo
  <2> QED
    BY <1>1, <2>1
<1> QED
  BY <1>2 DEF PeakRate

LEMMA ProductsAreNatural ==
  ASSUME NEW a \in Nat, NEW b \in Nat
  PROVE  a * b \in Nat
OBVIOUS

LEMMA TicksCounted ==
  ASSUME NEW c \in Arguments, c.publish_rate_hz \in Nat
  PROVE  /\ PeriodOf(c) \in Nat /\ PeriodOf(c) > 0
         /\ ScaledTicks(c) \in Nat
         /\ PeakRate(c) * c.seconds * PeriodOf(c) <= ScaledTicks(c)
         /\ HasTimers(c) => PeriodOf(c) = c.timer_period_ms /\ 1000 * c.seconds <= ScaledTicks(c)
<1>1. PeriodOf(c) \in Nat /\ PeriodOf(c) > 0
  BY DEF PeriodOf, HasTimers, Arguments
<1>2. c.seconds \in Nat
  BY DEF Arguments
<1>3. PeakRate(c) * c.seconds \in Nat
  BY <1>2, PeakIsARate, ProductsAreNatural
<1>4. PeakRate(c) * c.seconds * PeriodOf(c) \in Nat
  BY <1>1, <1>3, ProductsAreNatural
<1> DEFINE topic == PeakRate(c) * c.seconds * PeriodOf(c)
<1>5. topic \in Int /\ 1000 * c.seconds \in Int
  BY <1>2, <1>4
<1>6. ScaledTicks(c) = IF HasTimers(c) THEN Max({topic, 1000 * c.seconds}) ELSE topic
  BY DEF ScaledTicks
<1>7. topic \in Nat
  BY <1>4
<1> HIDE DEF topic
<1>8. ScaledTicks(c) \in Nat /\ topic <= ScaledTicks(c)
      /\ (HasTimers(c) => 1000 * c.seconds <= ScaledTicks(c))
  <2> DEFINE ticks == 1000 * c.seconds
  <2>1. ticks \in Nat
    BY <1>2
  <2>2. ScaledTicks(c) = IF HasTimers(c) THEN Max({topic, ticks}) ELSE topic
    BY <1>6
  <2> HIDE DEF ticks
  <2>3. /\ Max({topic, ticks}) \in {topic, ticks}
        /\ Max({topic, ticks}) >= topic /\ Max({topic, ticks}) >= ticks
    BY <1>5, <2>1, MaxOfTwo
  <2>4. ScaledTicks(c) \in Nat /\ topic <= ScaledTicks(c)
        /\ (HasTimers(c) => ticks <= ScaledTicks(c))
    BY <1>7, <2>1, <2>2, <2>3
  <2> QED
    BY <2>4 DEF ticks
<1>9. HasTimers(c) => PeriodOf(c) = c.timer_period_ms
  BY DEF PeriodOf
<1> QED
  BY <1>1, <1>8, <1>9 DEF topic

\* Ten times the capacity, in the scale of the ticks.
LEMMA CapacityMeans ==
  ASSUME NEW c \in Arguments, c.publish_rate_hz \in Nat
  PROVE  /\ SampleCapacity(c) \in Nat
         /\ 12 * ScaledTicks(c) + 1000 * (10 * PeriodOf(c)) <= SampleCapacity(c) * (10 * PeriodOf(c))
<1> DEFINE P == 10 * PeriodOf(c)  T == 12 * ScaledTicks(c)  C == CeilDiv(T, P)
<1>1. P \in Nat /\ P > 0 /\ T \in Nat
  BY TicksCounted
<1>2. SampleCapacity(c) = C + 1000
  BY DEF SampleCapacity
<1> HIDE DEF P, T
<1>3. C \in Nat /\ T <= C * P
  BY <1>1, CeilIsEnough
<1> HIDE DEF C
<1>4. (C + 1000) * P = C * P + 1000 * P /\ C * P \in Nat
  BY <1>1, <1>3
<1> QED
  BY <1>1, <1>2, <1>3, <1>4 DEF P, T

LEMMA Cancelled ==
  ASSUME NEW a \in Nat, NEW b \in Nat, NEW p \in Nat, p > 0, a * p <= b * p
  PROVE  a <= b
<1>1. SUFFICES ASSUME b < a PROVE FALSE
  OBVIOUS
<1>2. b + 1 <= a
  BY <1>1
<1>3. (b + 1) * p <= a * p
  BY <1>2, ProductMonotone
<1>4. (b + 1) * p = b * p + p /\ b * p \in Nat /\ a * p \in Nat
  OBVIOUS
<1> QED
  BY <1>3, <1>4

LEMMA TimesMonotone ==
  ASSUME NEW a \in Int, NEW b \in Int, a <= b, NEW p \in Nat
  PROVE  a * p <= b * p
<1>1. b - a \in Nat
  OBVIOUS
<1>2. (b - a) * p \in Nat
  BY <1>1
<1>3. b * p = a * p + (b - a) * p
  OBVIOUS
<1>4. a * p \in Int /\ b * p \in Int
  OBVIOUS
<1> QED
  BY <1>2, <1>3, <1>4

\* The rates of multi_rate lie between the least and the greatest.
LEMMA SpreadBelow ==
  ASSUME NEW lo \in Int, NEW hi \in Int, lo <= hi, NEW m \in Nat, NEW k \in 0 .. m
  PROVE  lo * m + (hi - lo) * k \in Int /\ lo * m + (hi - lo) * k <= hi * m
<1>1. k * (hi - lo) <= m * (hi - lo)
  BY ProductMonotone
<1>2. /\ k * (hi - lo) = (hi - lo) * k /\ m * (hi - lo) = hi * m - lo * m
      /\ lo * m \in Int /\ hi * m \in Int /\ (hi - lo) * k \in Int
  OBVIOUS
<1> QED
  BY <1>1, <1>2

LEMMA RateBelowPeak ==
  ASSUME NEW c \in Arguments, c.publish_rate_hz \in Nat, Accepted(c),
         NEW n \in Nat \ {0}, NEW k \in 0 .. n - 1
  PROVE  /\ rate_num(c, n, k) \in Int /\ rate_den(c, n) \in Nat
         /\ rate_num(c, n, k) <= PeakRate(c) * rate_den(c, n)
<1>1. /\ c.publish_rate_hz \in Nat /\ c.rate_min_hz \in Int /\ c.rate_max_hz \in Int
      /\ PeakRate(c) \in Nat /\ PeakRate(c) >= c.publish_rate_hz
      /\ c.publish_mode = "multi_rate" => PeakRate(c) >= c.rate_max_hz
  BY PeakIsARate DEF Arguments
<1>2. CASE c.publish_mode # "multi_rate"
  <2>1. rate_num(c, n, k) = c.publish_rate_hz /\ rate_den(c, n) = 1
    BY <1>2 DEF rate_num, rate_den
  <2> QED
    BY <1>1, <2>1
<1>3. CASE c.publish_mode = "multi_rate" /\ n <= 1
  <2>1. rate_num(c, n, k) = c.rate_max_hz /\ rate_den(c, n) = 1
    BY <1>3 DEF rate_num, rate_den
  <2> QED
    BY <1>1, <1>3, <2>1
<1>4. CASE c.publish_mode = "multi_rate" /\ ~ (n <= 1)
  <2>1. /\ rate_num(c, n, k) = c.rate_min_hz * (n - 1) + (c.rate_max_hz - c.rate_min_hz) * k
        /\ rate_den(c, n) = n - 1
    BY <1>4 DEF rate_num, rate_den
  <2>2. c.rate_min_hz <= c.rate_max_hz
    BY <1>4 DEF Accepted
  <2>3. n - 1 \in Nat /\ k \in 0 .. n - 1
    OBVIOUS
  <2>4. rate_num(c, n, k) \in Int /\ rate_num(c, n, k) <= c.rate_max_hz * (n - 1)
    BY <1>1, <2>1, <2>2, <2>3, SpreadBelow
  <2>5. c.rate_max_hz * (n - 1) <= PeakRate(c) * (n - 1)
    BY <1>1, <1>4, <2>3, TimesMonotone
  <2>6. c.rate_max_hz * (n - 1) \in Int /\ PeakRate(c) * (n - 1) \in Int
    BY <1>1, <2>3
  <2> QED
    BY <2>1, <2>3, <2>4, <2>5, <2>6
<1> QED
  BY <1>2, <1>3, <1>4

LEMMA CapacityForTopics ==
  ASSUME NEW c \in Arguments, c.publish_rate_hz \in Nat,
         NEW d \in Nat, 5 * d <= c.seconds
  PROVE  PeakRate(c) * (c.seconds + d) <= SampleCapacity(c)
<1> DEFINE r == PeakRate(c)  s == c.seconds  P == PeriodOf(c)  C == SampleCapacity(c)
           T == ScaledTicks(c)
<1>1. /\ r \in Nat /\ s \in Nat /\ P \in Nat /\ P > 0 /\ C \in Nat /\ T \in Nat
      /\ r * s * P <= T /\ 12 * T + 1000 * (10 * P) <= C * (10 * P)
  BY PeakIsARate, TicksCounted, CapacityMeans DEF Arguments
<1>2. 5 * d <= s
  OBVIOUS
<1> HIDE DEF r, s, P, C, T
<1>3. r * s \in Nat /\ r * d \in Nat
  BY <1>1, ProductsAreNatural
<1> DEFINE w == r * s
<1>4. (12 * w) * P <= (10 * C) * P
  <2>1. w \in Nat /\ w * P \in Nat /\ C * P \in Nat
    BY <1>1, <1>3, ProductsAreNatural
  <2>2. w * P <= T
    BY <1>1
  <2> HIDE DEF w
  <2>3. C * (10 * P) = 10 * (C * P) /\ (10 * C) * P = 10 * (C * P) /\ (12 * w) * P = 12 * (w * P)
    BY <1>1, <2>1
  <2> QED
    BY <1>1, <2>1, <2>2, <2>3
<1>5. 12 * w <= 10 * C
  <2>1. 12 * w \in Nat /\ 10 * C \in Nat
    BY <1>1, <1>3
  <2> QED
    BY <1>1, <1>4, <2>1, Cancelled
<1>6. 5 * (r * d) <= w
  <2>1. (5 * d) * r <= s * r
    BY <1>1, <1>2, ProductMonotone
  <2>2. (5 * d) * r = 5 * (r * d) /\ s * r = r * s
    BY <1>1
  <2> QED
    BY <2>1, <2>2
<1>7. r * (s + d) = w + r * d
  BY <1>1
<1>8. r * (s + d) <= C
  <2> HIDE DEF w
  <2>1. w \in Nat
    BY <1>3 DEF w
  <2> QED
    BY <1>1, <1>3, <1>5, <1>6, <1>7, <2>1
<1> QED
  BY <1>8 DEF r, s, C

LEMMA CapacityForTimers ==
  ASSUME NEW c \in Arguments, c.publish_rate_hz \in Nat, HasTimers(c),
         NEW d \in Nat, 5 * d <= c.seconds
  PROVE  1000 * (c.seconds + d) <= SampleCapacity(c) * c.timer_period_ms
<1> DEFINE s == c.seconds  P == PeriodOf(c)  C == SampleCapacity(c)  T == ScaledTicks(c)
<1>1. /\ s \in Nat /\ P \in Nat /\ P > 0 /\ C \in Nat /\ T \in Nat
      /\ P = c.timer_period_ms /\ 1000 * s <= T /\ 12 * T + 1000 * (10 * P) <= C * (10 * P)
  BY TicksCounted, CapacityMeans DEF Arguments
<1>2. 5 * d <= s
  OBVIOUS
<1> HIDE DEF s, P, C, T
<1>3. C * P \in Nat /\ C * (10 * P) = 10 * (C * P)
  BY <1>1
<1>4. 1000 * (s + d) <= C * P
  BY <1>1, <1>2, <1>3
<1> QED
  BY <1>1, <1>4 DEF s, C

-----------------------------------------------------------------------------
(* The theorems on sizes.                                                  *)

\* Rates are not negative, which nothing in _build() checks.
RatesCount == \A c \in Configs : c.publish_rate_hz \in Nat

\* spin() ends within a fifth of the run after the shutdown timer.
ShortOvershoot == Overshoot \in Nat /\ \A c \in Configs : 5 * Overshoot <= c.seconds

(***************************************************************************)
(* For every number of topics and every mode the buffers hold what the     *)
(* busiest topic and the timers bring, until a fifth of the run after its  *)
(* end: what the twenty per cent in the sizing are worth.                  *)
(***************************************************************************)
THEOREM BuffersSuffice ==
  ASSUME RatesCount, ShortOvershoot
  PROVE  Spec => []BuffersHoldTheRun
<1>1. IInv /\ SizeInv => BuffersHoldTheRun
  <2> SUFFICES ASSUME IInv, SizeInv, stage = "started"
               PROVE  BuffersHoldTheRun
    BY DEF BuffersHoldTheRun
  <2> DEFINE n == cfg.num_subscriptions
  <2>1. /\ cfg \in Arguments /\ cfg.publish_rate_hz \in Nat /\ Accepted(cfg)
        /\ Overshoot \in Nat /\ 5 * Overshoot <= cfg.seconds
        /\ sample_capacity = SampleCapacity(cfg) /\ n \in Int /\ cfg.seconds \in Nat
    BY RatesCount, ShortOvershoot
       DEF IInv, SizeInv, Building, RatesCount, ShortOvershoot, Arguments
  <2>2. ASSUME NEW k \in PublishedTopics
        PROVE  rate_num(cfg, n, k) * (cfg.seconds + Overshoot)
                 <= sample_capacity * rate_den(cfg, n)
    <3>1. k \in Indices(0, n)
      BY PublishedAreSubscribed
    <3>2. n \in Nat \ {0} /\ k \in 0 .. n - 1
      BY <2>1, <3>1 DEF Indices
    <3> DEFINE num == rate_num(cfg, n, k)  den == rate_den(cfg, n)  peak == PeakRate(cfg)
               span == cfg.seconds + Overshoot
    <3>3. num \in Int /\ den \in Nat /\ num <= peak * den
      BY <2>1, <3>2, RateBelowPeak
    <3>4. peak \in Nat /\ span \in Nat
      BY <2>1, PeakIsARate
    <3>5. peak * span <= sample_capacity /\ sample_capacity \in Nat
      BY <2>1, CapacityForTopics, CapacityMeans
    <3> HIDE DEF num, den, peak, span
    <3>6. num * span <= (peak * den) * span
      BY <3>3, <3>4, ProductsAreNatural, TimesMonotone
    <3>7. (peak * span) * den <= sample_capacity * den
      BY <3>3, <3>4, <3>5, ProductsAreNatural, TimesMonotone
    <3>8. (peak * den) * span = (peak * span) * den
      BY <3>3, <3>4
    <3>9. /\ num * span \in Int /\ (peak * span) * den \in Int /\ sample_capacity * den \in Int
      <4>1. peak * span \in Nat
        BY <3>4, ProductsAreNatural
      <4>2. (peak * span) * den \in Nat /\ sample_capacity * den \in Nat
        BY <3>3, <3>5, <4>1, ProductsAreNatural
      <4>3. num * span \in Int
        BY <3>3, <3>4
      <4> QED
        BY <4>2, <4>3
    <3>10. num * span <= sample_capacity * den
      BY <3>6, <3>7, <3>8, <3>9
    <3> QED
      BY <3>10 DEF num, den, span
  <2>3. HasTimers(cfg) =>
          1000 * (cfg.seconds + Overshoot) <= sample_capacity * cfg.timer_period_ms
    BY <2>1, CapacityForTimers
  <2> QED
    BY <2>2, <2>3 DEF BuffersHoldTheRun
<1> QED
  BY <1>1, Invariance, SizeInvariance, PTL

LEMMA BeforeAtMost ==
  ASSUME NEW total \in Int, NEW buckets \in Nat \ {0}, NEW k \in 0 .. buckets
  PROVE  Before(total, buckets, k) \in Int /\ Before(total, buckets, k) <= Max({total, 0})
<1>1. Max({total, 0}) \in {total, 0} /\ Max({total, 0}) >= total /\ Max({total, 0}) >= 0
  BY MaxOfTwo
<1>2. Before(total, buckets, k) \in Int
  BY BeforeIsInteger
<1>3. CASE total >= 0
  <2>1. Before(total, buckets, k) <= Before(total, buckets, buckets)
    BY <1>3, BeforeMonotone
  <2>2. Before(total, buckets, buckets) = total
    BY BeforeEnds
  <2> QED
    BY <1>1, <1>2, <2>1, <2>2
<1>4. CASE total < 0
  <2>1. PICK q \in Int : q = total \div buckets
    BY Division
  <2>2. PICK r \in Int : r = total % buckets
    BY Division
  <2>3. 0 <= r /\ buckets * q + r = total
    <3>1. 0 <= r
      BY <2>2, Division
    <3>2. buckets * q + r = total
      BY <2>1, <2>2, QuotientAndRemainder
    <3> QED
      BY <3>1, <3>2
  <2>4. q <= -1
    <3>1. ASSUME q >= 0
          PROVE  FALSE
      <4>1. buckets * q \in Nat
        BY <3>1
      <4> QED
        BY <4>1, <2>3, <1>4
    <3> QED
      BY <3>1
  <2>5. k * q <= k * (-1)
    <3>1. q * k <= (-1) * k
      BY <2>4, TimesMonotone
    <3> QED
      BY <3>1
  <2>6. Before(total, buckets, k) = k * q + (IF k < r THEN k ELSE r)
    BY <2>1, <2>2 DEF Before
  <2>7. k * q \in Int /\ k * (-1) = -k
    OBVIOUS
  <2>8. Before(total, buckets, k) <= 0
    BY <2>3, <2>5, <2>6, <2>7
  <2> QED
    BY <1>1, <1>2, <2>8
<1> QED
  BY <1>3, <1>4

(***************************************************************************)
(* The state of the launch stays well typed: the cursors never pass the    *)
(* number of entities asked for, however they divide among the nodes.      *)
(***************************************************************************)
THEOREM TypeCorrect ==
  ASSUME RatesCount
  PROVE  Spec => []TypeOK
<1>1. IInv /\ SizeInv => TypeOK
  <2> SUFFICES ASSUME IInv, SizeInv
               PROVE  TypeOK
    OBVIOUS
  <2>1. /\ cfg \in Arguments /\ cfg.publish_rate_hz \in Nat
        /\ cfg.num_subscriptions \in Int /\ cfg.num_timers \in Int
    BY RatesCount DEF IInv, SizeInv, RatesCount, Arguments
  <2>2. sample_capacity \in Nat
    BY <2>1, CapacityMeans DEF SizeInv
  <2>3. /\ Len(bench) \in Nat
        /\ \A n \in 1 .. Len(bench) :
             bench[n] \in [first_topic_index : Int, num_subscriptions : Int,
                           first_timer_index : Int, num_timers : Int]
    <3> DEFINE Nodes == [first_topic_index : Int, num_subscriptions : Int,
                         first_timer_index : Int, num_timers : Int]
    <3>1. bench \in Seq(Nodes)
      BY DEF IInv
    <3> HIDE DEF Nodes
    <3>2. Len(bench) \in Nat /\ \A n \in 1 .. Len(bench) : bench[n] \in Nodes
      BY <3>1
    <3> QED
      BY <3>2 DEF Nodes
  <2>4. /\ topic_cursor \in Int /\ topic_cursor <= Max({cfg.num_subscriptions, 0})
        /\ timer_cursor \in Int /\ timer_cursor <= Max({cfg.num_timers, 0})
    <3>1. CASE Building
      <4>1. cfg.num_nodes \in Nat \ {0} /\ Len(bench) \in 0 .. cfg.num_nodes
        <5>1. Accepted(cfg) /\ Len(bench) <= cfg.num_nodes
          BY <3>1 DEF IInv
        <5>2. cfg.num_nodes \in Int /\ cfg.num_nodes >= 1
          BY <2>1, <5>1 DEF Accepted, Arguments
        <5> QED
          BY <2>3, <5>1, <5>2
      <4>2. /\ topic_cursor = Before(cfg.num_subscriptions, cfg.num_nodes, Len(bench))
            /\ timer_cursor = Before(cfg.num_timers, cfg.num_nodes, Len(bench))
        BY <3>1 DEF IInv
      <4> QED
        BY <2>1, <4>1, <4>2, BeforeAtMost
    <3>2. CASE ~ Building
      <4>1. topic_cursor = 0 /\ timer_cursor = 0
        BY <3>2 DEF SizeInv
      <4>2. /\ 0 <= Max({cfg.num_subscriptions, 0}) /\ 0 <= Max({cfg.num_timers, 0})
        <5>1. \A a \in Int : 0 <= Max({a, 0})
          <6>1. ASSUME NEW a \in Int
                PROVE  0 <= Max({a, 0})
            <7>1. Max({a, 0}) \in {a, 0} /\ Max({a, 0}) >= 0
              BY MaxOfTwo
            <7> QED
              BY <7>1
          <6> QED
            BY <6>1
        <5> QED
          BY <2>1, <5>1
      <4> QED
        BY <4>1, <4>2
    <3> QED
      BY <3>1, <3>2
  <2> QED
    BY <2>1, <2>2, <2>3, <2>4 DEF TypeOK, SizeInv, IInv, Stages
<1> QED
  BY <1>1, Invariance, SizeInvariance, PTL
=============================================================================
