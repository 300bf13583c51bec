------------------------ MODULE ResourceSamplerProofs ------------------------
(***************************************************************************)
(* Type correctness of ResourceSampler, that its statistics are final when *)
(* stop() has returned, that the samples average no tick twice and leave   *)
(* none out, and that no switch from before the first walk is reported,    *)
(* for every set of threads and every bound.                               *)
(***************************************************************************)
EXTENDS ResourceSampler, TLAPS, FiniteSetTheorems, FunctionTheorems

\* run() lies between start() and the end that stop() waits for.
Joined ==
  /\ owner = "constructed" => pc = "none"
  /\ owner = "stopped" => pc = "done"

\* Nothing is counted before the baseline, and the statistics come last.
Stages ==
  /\ pc \in {"none", "first_cpu"} => cpu_sum = 0 /\ prev_u = 0 /\ base_u = 0
  /\ stats.written <=> pc = "done"

\* The readings follow the process's ticks.
Readings == base_u <= prev_u /\ prev_u <= ticks

IInv == SamplerTypeOK /\ Joined /\ Stages /\ Readings /\ CpuTicksCountedOnce

-----------------------------------------------------------------------------
LEMMA GainedIsNatural ==
  ASSUME NEW l \in Nat, NEW b \in Nat
  PROVE  Gained(l, b) \in Nat
BY DEF Gained

\* The ticks between two readings.
LEMMA TicksBetween ==
  ASSUME NEW a \in Nat, NEW b \in Nat, a <= b
  PROVE  Cardinality(a + 1 .. b) = b - a
<1>1. Cardinality(a + 1 .. b) = IF a + 1 > b THEN 0 ELSE b - (a + 1) + 1
  <2>1. a + 1 \in Int /\ b \in Int
    OBVIOUS
  <2> QED BY <2>1, FS_Interval
<1> QED BY <1>1

LEMMA InitIInv == Init => IInv
<1> SUFFICES ASSUME Init PROVE IInv
    OBVIOUS
<1>1. SamplerTypeOK
  <2>1. NoStats \in [written : BOOLEAN, samples : Nat, cpu : Nat, switches : Nat]
      BY DEF NoStats
  <2>2. [w \in Workers |-> 0] \in [Workers -> Nat] /\ << >> \in Seq(Nat)
      OBVIOUS
  <2> QED BY <2>1, <2>2 DEF Init, SamplerTypeOK
<1>2. Joined /\ Stages /\ Readings
    BY DEF Init, Joined, Stages, Readings, NoStats
<1>3. CpuTicksCountedOnce
  <2>1. base_u = 0 /\ prev_u = 0 /\ cpu_sum = 0 /\ averaged = {} /\ ~ stats.written
      BY DEF Init, NoStats
  <2>2. 0 + 1 .. 0 = {}
      OBVIOUS
  <2>3. Cardinality({}) = 0
      BY FS_EmptySet
  <2> QED BY <2>1, <2>2, <2>3 DEF CpuTicksCountedOnce
<1> QED BY <1>1, <1>2, <1>3 DEF IInv

LEMMA NextIInv == IInv /\ [Next]_vars => IInv'
<1> SUFFICES ASSUME SamplerTypeOK, Joined, Stages, Readings, CpuTicksCountedOnce,
                    [Next]_vars
             PROVE  IInv'
    BY DEF IInv
<1> USE DEF reads, process, history
<1> DEFINE Ticks == Readings /\ CpuTicksCountedOnce
<1>1. CASE start
  <2>1. SamplerTypeOK'
      BY <1>1 DEF start, SamplerTypeOK
  <2>2. Joined' /\ Stages'
      BY <1>1 DEF start, Joined, Stages
  <2>3. Ticks'
      BY <1>1 DEF start, Readings, CpuTicksCountedOnce
  <2> QED BY <2>1, <2>2, <2>3 DEF IInv
<1>2. CASE stop
  <2>1. SamplerTypeOK'
      BY <1>2 DEF stop, SamplerTypeOK
  <2>2. Joined' /\ Stages'
      BY <1>2 DEF stop, Joined, Stages
  <2>3. Ticks'
      BY <1>2 DEF stop, Readings, CpuTicksCountedOnce
  <2> QED BY <2>1, <2>2, <2>3 DEF IInv
<1>3. CASE Join
  <2>1. SamplerTypeOK'
      BY <1>3 DEF Join, SamplerTypeOK
  <2>2. Joined' /\ Stages'
      BY <1>3 DEF Join, Joined, Stages
  <2>3. Ticks'
      BY <1>3 DEF Join, Readings, CpuTicksCountedOnce
  <2> QED BY <2>1, <2>2, <2>3 DEF IInv
<1>4. CASE FirstCpu
  <2>1. prev_u' \in Nat /\ base_u' = prev_u' /\ prev_u' <= ticks
      BY <1>4 DEF FirstCpu, SamplerTypeOK
  <2>2. SamplerTypeOK'
      BY <1>4, <2>1 DEF FirstCpu, SamplerTypeOK
  <2>3. Joined' /\ Stages'
      BY <1>4 DEF FirstCpu, Joined, Stages
  <2>4. cpu_sum' = 0 /\ ~ stats'.written /\ ticks' = ticks /\ averaged' = averaged
      BY <1>4 DEF FirstCpu, Stages
  <2>5. Readings'
      BY <2>1, <2>4 DEF Readings
  <2>6. averaged = {}
    <3>1. base_u = 0 /\ prev_u = 0
        BY <1>4 DEF FirstCpu, Stages
    <3> QED BY <3>1 DEF CpuTicksCountedOnce
  <2>7. base_u' + 1 .. prev_u' = {}
    <3>1. \A x \in Nat : x + 1 .. x = {}
        OBVIOUS
    <3> QED BY <2>1, <3>1
  <2>8. Cardinality({}) = 0
      BY FS_EmptySet
  <2>9. CpuTicksCountedOnce'
      BY <2>4, <2>6, <2>7, <2>8 DEF CpuTicksCountedOnce
  <2> QED BY <2>2, <2>3, <2>5, <2>9 DEF IInv
<1>5. CASE OpenTasks
  <2>1. SamplerTypeOK'
      BY <1>5 DEF OpenTasks, SamplerTypeOK
  <2>2. Joined' /\ Stages'
      BY <1>5 DEF OpenTasks, Joined, Stages
  <2>3. Ticks'
      BY <1>5 DEF OpenTasks, Readings, CpuTicksCountedOnce
  <2> QED BY <2>1, <2>2, <2>3 DEF IInv
<1>6. ASSUME NEW w \in Workers, ReadStatus(w) PROVE IInv'
  <2>1. SamplerTypeOK'
      BY <1>6 DEF ReadStatus, SamplerTypeOK
  <2>2. Joined' /\ Stages'
      BY <1>6 DEF ReadStatus, Joined, Stages
  <2>3. Ticks'
      BY <1>6 DEF ReadStatus, Readings, CpuTicksCountedOnce
  <2> QED BY <2>1, <2>2, <2>3 DEF IInv
<1>7. CASE EndWalk
  <2>1. SamplerTypeOK'
      BY <1>7 DEF EndWalk, SamplerTypeOK
  <2>2. Joined' /\ Stages'
      BY <1>7 DEF EndWalk, Joined, Stages
  <2>3. Ticks'
      BY <1>7 DEF EndWalk, Readings, CpuTicksCountedOnce
  <2> QED BY <2>1, <2>2, <2>3 DEF IInv
<1>8. CASE Loop
  <2>1. SamplerTypeOK'
      BY <1>8 DEF Loop, SamplerTypeOK
  <2>2. Joined' /\ Stages'
      BY <1>8 DEF Loop, Joined, Stages
  <2>3. Ticks'
      BY <1>8 DEF Loop, Readings, CpuTicksCountedOnce
  <2> QED BY <2>1, <2>2, <2>3 DEF IInv
<1>9. CASE Skip
  <2>1. SamplerTypeOK'
      BY <1>9 DEF Skip, SamplerTypeOK
  <2>2. Joined' /\ Stages'
      BY <1>9 DEF Skip, Joined, Stages
  <2>3. Ticks'
      BY <1>9 DEF Skip, Readings, CpuTicksCountedOnce
  <2> QED BY <2>1, <2>2, <2>3 DEF IInv
<1>10. CASE Count
  <2>1. /\ cpu_sum' = cpu_sum + (ticks - prev_u) /\ prev_u' = ticks /\ n' = n + 1
        /\ averaged' = averaged \cup (prev_u + 1 .. ticks)
      BY <1>10 DEF Count
  <2>2. /\ cpu_sum \in Nat /\ base_u \in Nat /\ prev_u \in Nat /\ ticks \in Nat /\ n \in Nat
        /\ base_u <= prev_u /\ prev_u <= ticks
      BY DEF SamplerTypeOK, Readings
  <2>3. averaged' = base_u + 1 .. ticks
    <3>1. averaged = base_u + 1 .. prev_u
        BY DEF CpuTicksCountedOnce
    <3>2. (base_u + 1 .. prev_u) \cup (prev_u + 1 .. ticks) = base_u + 1 .. ticks
        BY <2>2
    <3> QED BY <2>1, <3>1, <3>2
  <2>4. cpu_sum' = ticks - base_u
    <3>1. cpu_sum = prev_u - base_u
        BY <2>2, TicksBetween DEF CpuTicksCountedOnce
    <3> QED BY <2>1, <2>2, <3>1
  <2>5. ~ stats'.written /\ ticks' = ticks /\ base_u' = base_u
      BY <1>10 DEF Count, Stages
  <2>6. Cardinality(base_u + 1 .. ticks) = ticks - base_u
      BY <2>2, TicksBetween
  <2>7. CpuTicksCountedOnce'
      BY <2>1, <2>3, <2>4, <2>5, <2>6 DEF CpuTicksCountedOnce
  <2>8. Readings'
      BY <2>1, <2>2, <2>5 DEF Readings
  <2>9. SamplerTypeOK'
    <3>1. cpu_sum' \in Nat /\ averaged' \subseteq Nat /\ prev_u' \in Nat /\ n' \in Nat
        BY <2>1, <2>2, <2>3, <2>4
    <3> QED BY <1>10, <3>1 DEF Count, SamplerTypeOK
  <2>10. Joined' /\ Stages'
      BY <1>10 DEF Count, Joined, Stages
  <2> QED BY <2>7, <2>8, <2>9, <2>10 DEF IInv
<1>11. CASE Final
  <2>1. PICK end_u \in {ticks, prev_u} :
          stats' = [written |-> TRUE, samples |-> n, cpu |-> end_u - base_u,
                    switches |-> Gained(last, base)]
      BY <1>11 DEF Final
  <2>2. UNCHANGED <<running, owner, todo, sum, base, last, base_u, prev_u, cpu_sum, n,
                    at_base, process, history>>
      BY <1>11 DEF Final
  <2>3. pc = "final" /\ pc' = "done"
      BY <1>11 DEF Final
  <2>4. Gained(last, base) \in Nat
      BY GainedIsNatural DEF SamplerTypeOK
  <2>5. end_u - base_u \in Nat /\ end_u - base_u \in cpu_sum .. ticks - base_u
    <3>1. /\ base_u \in Nat /\ prev_u \in Nat /\ ticks \in Nat
          /\ base_u <= prev_u /\ prev_u <= ticks
        BY DEF SamplerTypeOK, Readings
    <3>2. cpu_sum = prev_u - base_u
        BY <3>1, TicksBetween DEF CpuTicksCountedOnce
    <3> QED BY <3>1, <3>2
  <2>6. stats' \in [written : BOOLEAN, samples : Nat, cpu : Nat, switches : Nat]
      BY <2>1, <2>4, <2>5 DEF SamplerTypeOK
  <2>7. stats'.written /\ stats'.cpu = end_u - base_u
      BY <2>1
  <2>8. SamplerTypeOK'
      BY <2>2, <2>3, <2>6 DEF SamplerTypeOK
  <2>9. Joined' /\ Stages'
      BY <2>2, <2>3, <2>7 DEF Joined, Stages
  <2>10. Ticks'
      BY <2>2, <2>5, <2>7 DEF Readings, CpuTicksCountedOnce
  <2> QED BY <2>8, <2>9, <2>10 DEF IInv
<1>12. ASSUME NEW w \in Workers, Switch(w) PROVE IInv'
  <2>1. SamplerTypeOK'
      BY <1>12 DEF Switch, SamplerTypeOK
  <2>2. Joined' /\ Stages'
      BY <1>12 DEF Switch, Joined, Stages
  <2>3. Ticks'
      BY <1>12 DEF Switch, Readings, CpuTicksCountedOnce
  <2> QED BY <2>1, <2>2, <2>3 DEF IInv
<1>13. ASSUME NEW w \in Workers, Exit(w) PROVE IInv'
  <2>1. SamplerTypeOK'
      BY <1>13 DEF Exit, SamplerTypeOK
  <2>2. Joined' /\ Stages'
      BY <1>13 DEF Exit, Joined, Stages
  <2>3. Ticks'
      BY <1>13 DEF Exit, Readings, CpuTicksCountedOnce
  <2> QED BY <2>1, <2>2, <2>3 DEF IInv
<1>14. ASSUME NEW w \in Workers, Spawn(w) PROVE IInv'
  <2>1. SamplerTypeOK'
      BY <1>14 DEF Spawn, SamplerTypeOK
  <2>2. Joined' /\ Stages'
      BY <1>14 DEF Spawn, Joined, Stages
  <2>3. Ticks'
      BY <1>14 DEF Spawn, Readings, CpuTicksCountedOnce
  <2> QED BY <2>1, <2>2, <2>3 DEF IInv
<1>15. CASE CpuTick
  <2>1. SamplerTypeOK'
      BY <1>15 DEF CpuTick, SamplerTypeOK
  <2>2. Joined' /\ Stages'
      BY <1>15 DEF CpuTick, Joined, Stages
  <2>3. Readings'
      BY <1>15 DEF CpuTick, Readings, SamplerTypeOK
  <2>4. CpuTicksCountedOnce'
    <3>1. /\ ticks' = ticks + 1 /\ ticks \in Nat /\ base_u \in Nat /\ cpu_sum \in Nat
          /\ UNCHANGED <<averaged, base_u, prev_u, cpu_sum, stats>>
        BY <1>15 DEF CpuTick, SamplerTypeOK
    <3>2. stats.written => stats.cpu \in cpu_sum .. ticks' - base_u
        BY <3>1 DEF CpuTicksCountedOnce
    <3> QED BY <3>1, <3>2 DEF CpuTicksCountedOnce
  <2> QED BY <2>1, <2>2, <2>3, <2>4 DEF IInv
<1>16. CASE UNCHANGED vars
  <2>1. SamplerTypeOK'
      BY <1>16 DEF vars, SamplerTypeOK
  <2>2. Joined' /\ Stages'
      BY <1>16 DEF vars, Joined, Stages
  <2>3. Ticks'
      BY <1>16 DEF vars, Readings, CpuTicksCountedOnce
  <2> QED BY <2>1, <2>2, <2>3 DEF IInv
<1> QED
    BY <1>1, <1>2, <1>3, <1>4, <1>5, <1>6, <1>7, <1>8, <1>9, <1>10, <1>11, <1>12,
       <1>13, <1>14, <1>15, <1>16 DEF Next, run

-----------------------------------------------------------------------------
(* Counting switches.                                                      *)

Counts == [Workers -> Nat]

\* How many switches there are in Switched.
Counted(S, from, upto) == Cardinality(Switched(S, from, upto))

LEMMA SwitchedIsFinite ==
  ASSUME NEW S \in SUBSET Workers, NEW from \in Counts, NEW upto \in Counts
  PROVE  /\ IsFiniteSet(Switched(S, from, upto))
         /\ Counted(S, from, upto) \in Nat
<1> DEFINE Of == [w \in S |-> {w} \X (from[w] + 1 .. upto[w])]
           Parts == {{w} \X (from[w] + 1 .. upto[w]) : w \in S}
<1>1. \A w \in S : from[w] \in Nat /\ upto[w] \in Nat
  BY DEF Counts
<1>2. \A T \in Parts : IsFiniteSet(T)
  <2>1. SUFFICES ASSUME NEW w \in S
                 PROVE  IsFiniteSet({w} \X (from[w] + 1 .. upto[w]))
    OBVIOUS
  <2>2. IsFiniteSet({w})
    BY FS_Singleton
  <2>3. from[w] + 1 \in Int /\ upto[w] \in Int
    BY <1>1
  <2>4. IsFiniteSet(from[w] + 1 .. upto[w])
    BY <2>3, FS_Interval
  <2> QED
    BY <2>2, <2>4, FS_Product
<1>3. Of \in Surjection(S, Parts)
  BY DEF Surjection
<1>4. IsFiniteSet(S)
  BY SamplerAssumption, FS_Subset DEF SamplerAssumption
<1>5. IsFiniteSet(Parts)
  BY <1>3, <1>4, FS_Surjection
<1>6. IsFiniteSet(UNION Parts)
  BY <1>2, <1>5, FS_UNION
<1>7. IsFiniteSet(Switched(S, from, upto))
  BY <1>6 DEF Switched
<1> QED
  BY <1>7, FS_CardinalityType DEF Counted

LEMMA SwitchedMembers ==
  ASSUME NEW S, NEW from, NEW upto, NEW e
  PROVE  e \in Switched(S, from, upto) <=>
           \E w \in S : \E k \in from[w] + 1 .. upto[w] : e = <<w, k>>
BY DEF Switched

\* A thread that is not in S adds its own switches.
LEMMA CountedAdd ==
  ASSUME NEW S \in SUBSET Workers, NEW w \in Workers \ S,
         NEW from \in Counts, NEW upto \in Counts, from[w] <= upto[w]
  PROVE  Counted(S \cup {w}, from, upto) = Counted(S, from, upto) + (upto[w] - from[w])
<1> DEFINE Own == {w} \X (from[w] + 1 .. upto[w])
<1>1. from[w] \in Nat /\ upto[w] \in Nat
  BY DEF Counts
<1>2. Switched(S \cup {w}, from, upto) = Switched(S, from, upto) \cup Own
  BY SwitchedMembers DEF Switched
<1>3. Switched(S, from, upto) \cap Own = {}
  BY SwitchedMembers
<1>4. IsFiniteSet(Own) /\ Cardinality(Own) = upto[w] - from[w]
  <2>1. IsFiniteSet({w}) /\ Cardinality({w}) = 1
    BY FS_Singleton
  <2>2. /\ IsFiniteSet(from[w] + 1 .. upto[w])
        /\ Cardinality(from[w] + 1 .. upto[w])
             = IF from[w] + 1 > upto[w] THEN 0 ELSE upto[w] - (from[w] + 1) + 1
    <3>1. from[w] + 1 \in Int /\ upto[w] \in Int
      BY <1>1
    <3> QED
      BY <3>1, FS_Interval
  <2>3. Cardinality(from[w] + 1 .. upto[w]) = upto[w] - from[w]
    BY <1>1, <2>2
  <2>4. IsFiniteSet(Own) /\ Cardinality(Own) = 1 * (upto[w] - from[w])
    BY <2>1, <2>2, <2>3, FS_Product, ZenonT(40)
  <2> QED
    BY <1>1, <2>4
<1>5. /\ IsFiniteSet(Switched(S, from, upto))
      /\ Cardinality(Switched(S, from, upto)) \in Nat
  BY SwitchedIsFinite DEF Counted
<1> HIDE DEF Own
<1>6. Cardinality(Switched(S, from, upto) \cup Own)
        = Cardinality(Switched(S, from, upto)) + Cardinality(Own) - Cardinality({})
  BY <1>3, <1>4, <1>5, FS_Union
<1>7. Cardinality({}) = 0
  BY FS_EmptySet
<1>8. Cardinality(Switched(S, from, upto) \cup Own)
        = Cardinality(Switched(S, from, upto)) + (upto[w] - from[w])
  BY <1>1, <1>4, <1>5, <1>6, <1>7
<1> QED
  BY <1>2, <1>8 DEF Counted

\* More threads and longer spans have no fewer switches.
LEMMA CountedMonotone ==
  ASSUME NEW S \in SUBSET Workers, NEW T \in SUBSET S, NEW from \in Counts,
         NEW upto \in Counts, NEW later \in Counts, \A w \in T : upto[w] <= later[w]
  PROVE  Counted(T, from, upto) <= Counted(S, from, later)
<1>1. \A w \in S : from[w] \in Nat /\ upto[w] \in Nat /\ later[w] \in Nat
  BY DEF Counts
<1>2. \A w \in T : from[w] + 1 .. upto[w] \subseteq from[w] + 1 .. later[w]
  BY <1>1
<1>3. Switched(T, from, upto) \subseteq Switched(S, from, later)
  BY <1>2 DEF Switched
<1>4. IsFiniteSet(Switched(S, from, later))
  BY SwitchedIsFinite
<1> QED
  BY <1>3, <1>4, FS_Subset DEF Counted

LEMMA CountedNone ==
  ASSUME NEW from, NEW upto
  PROVE  Counted({}, from, upto) = 0
<1>1. Switched({}, from, upto) = {}
  BY DEF Switched
<1> QED
  BY <1>1, FS_EmptySet DEF Counted

Zero == [w \in Workers |-> 0]

LEMMA CountedSame ==
  ASSUME NEW S \in SUBSET Workers, NEW f \in Counts
  PROVE  Counted(S, f, f) = 0
<1>1. \A w \in S : f[w] \in Nat
  BY DEF Counts
<1>2. \A w \in S : f[w] + 1 .. f[w] = {}
  BY <1>1
<1>3. Switched(S, f, f) = {}
  BY <1>2, SwitchedMembers
<1> QED
  BY <1>3, FS_EmptySet DEF Counted

-----------------------------------------------------------------------------
(* What the walks have added up, beside what has happened.                 *)

\* Threads that the walk has yet to read and that are still there.
Pending == alive \cap todo

\* The first walk has found at least the switches from before it, of the
\* threads that are left; a later one no more than the baseline and what has
\* happened since, the threads it has yet to read apart.
Walks ==
  /\ \A w \in Workers : at_base[w] <= switches[w]
  /\ \A w \in unborn : switches[w] = 0 /\ w \notin todo
  /\ pc \in {"none", "first_cpu"} => walks = << >>
  /\ pc \in {"loop", "sleep", "final", "done"} => walks # << >>
  /\ walks = << >> /\ pc # "walk" => at_base = Zero
  /\ walks = << >> /\ pc = "walk" => Counted(alive \ todo, Zero, at_base) <= sum
  /\ walks # << >> => /\ Counted(alive, Zero, at_base) <= base
                      /\ last <= base + Counted(Workers, at_base, switches)
  /\ walks # << >> /\ pc = "walk" =>
       sum + Counted(Pending, Zero, at_base) <= base + Counted(Workers \ Pending, at_base, switches)
  /\ stats.written => stats.switches <= Counted(Workers, at_base, switches)

LEMMA InitWalks == Init => Walks
<1> SUFFICES ASSUME Init PROVE Walks
  OBVIOUS
<1>1. at_base = Zero /\ switches = Zero /\ walks = << >> /\ pc = "none" /\ todo = {} /\ ~ stats.written
  BY DEF Init, Zero, NoStats
<1>2. unborn \subseteq Workers
  BY DEF Init
<1>3. \A w \in Workers : Zero[w] = 0
  BY DEF Zero
<1> QED
  BY <1>1, <1>2, <1>3 DEF Walks

\* Nothing that the walks depend on has changed.
SameWalks ==
  UNCHANGED <<todo, sum, base, last, stats, at_base, unborn, alive, switches, walks>>

LEMMA UndisturbedWalks ==
  ASSUME Walks, SameWalks, pc' = "walk" <=> pc = "walk",
         pc' \in {"none", "first_cpu"} => walks = << >>,
         pc' \in {"loop", "sleep", "final", "done"} => walks # << >>
  PROVE  Walks'
BY DEF Walks, SameWalks, Pending

LEMMA ZeroIsCounts == Zero \in Counts
BY DEF Zero, Counts

LEMMA WalksOpenTasks ==
  ASSUME IInv, Walks, OpenTasks
  PROVE  Walks'
<1>1. /\ at_base \in Counts /\ switches \in Counts /\ alive \subseteq Workers
      /\ base \in Nat /\ sum' = 0 /\ pc' = "walk" /\ pc = "open"
      /\ UNCHANGED <<base, last, stats, unborn, alive, switches, walks>>
  BY DEF OpenTasks, IInv, SamplerTypeOK, Counts, reads, process
<1>2. ~ stats.written /\ unborn \subseteq Workers \ alive
  BY <1>1 DEF IInv, Stages, SamplerTypeOK
<1>3. \A w \in Workers : switches[w] \in Nat
  BY <1>1 DEF Counts
<1>4. CASE walks = << >>
  <2>1. CASE todo' = alive /\ at_base' = switches
    <3>1. alive' \ todo' = {}
      BY <1>1, <2>1
    <3>2. Counted(alive' \ todo', Zero, at_base') = 0
      BY <3>1, CountedNone
    <3>3. \A w \in Workers : at_base'[w] <= switches'[w]
      BY <1>1, <1>3, <2>1
    <3> QED
      BY <1>1, <1>2, <1>4, <2>1, <3>2, <3>3 DEF Walks
  <2>2. CASE todo' = {} /\ at_base' = at_base
    <3>1. at_base = Zero
      BY <1>1, <1>4 DEF Walks
    <3>2. Counted(alive' \ todo', Zero, at_base') = 0
      BY <1>1, <2>2, <3>1, CountedSame, ZeroIsCounts
    <3> QED
      BY <1>1, <1>2, <1>4, <2>2, <3>2 DEF Walks
  <2> QED
    BY <1>4, <2>1, <2>2 DEF OpenTasks
<1>5. CASE walks # << >>
  <2>1. at_base' = at_base /\ (todo' = alive \/ todo' = {})
    BY <1>5 DEF OpenTasks
  <2>2. Counted(Pending', Zero, at_base) <= base
    <3>1. CASE todo' = alive
      <4>1. Pending' = alive
        BY <1>1, <3>1 DEF Pending
      <4> QED
        BY <1>5, <4>1 DEF Walks
    <3>2. CASE todo' = {}
      <4>1. Pending' = {}
        BY <3>2 DEF Pending
      <4> QED
        BY <1>1, <4>1, CountedNone
    <3> QED
      BY <2>1, <3>1, <3>2
  <2>3. Pending' \subseteq Workers
    BY <1>1 DEF Pending
  <2>4. /\ Counted(Workers \ Pending', at_base, switches) \in Nat
        /\ Counted(Pending', Zero, at_base) \in Nat
    BY <1>1, <2>3, SwitchedIsFinite, ZeroIsCounts
  <2>5. sum' + Counted(Pending', Zero, at_base') <= base' + Counted(Workers \ Pending', at_base', switches')
    <3>1. 0 + Counted(Pending', Zero, at_base) <= base + Counted(Workers \ Pending', at_base, switches)
      BY <1>1, <2>2, <2>4
    <3> QED
      BY <1>1, <2>1, <3>1
  <2>6. \A w \in unborn' : w \notin todo'
    BY <1>1, <1>2, <2>1
  <2> QED
    BY <1>1, <1>2, <1>5, <2>1, <2>5, <2>6 DEF Walks
<1> QED
  BY <1>4, <1>5

LEMMA WalksReadStatus ==
  ASSUME IInv, Walks, NEW w \in Workers, ReadStatus(w)
  PROVE  Walks'
<1>1. /\ at_base \in Counts /\ switches \in Counts /\ alive \subseteq Workers
      /\ base \in Nat /\ sum \in Nat /\ todo' = todo \ {w} /\ w \in todo /\ pc = "walk" /\ pc' = "walk"
      /\ sum' = IF w \in alive THEN sum + switches[w] ELSE sum
      /\ UNCHANGED <<base, last, stats, at_base, unborn, alive, switches, walks>>
  BY DEF ReadStatus, IInv, SamplerTypeOK, Counts, reads, process, history
<1>2. switches[w] \in Nat /\ at_base[w] \in Nat /\ at_base[w] <= switches[w] /\ Zero[w] = 0
  BY <1>1 DEF Counts, Walks, Zero
<1>3. CASE w \notin alive
  <2>1. alive' \ todo' = alive \ todo /\ Pending' = Pending /\ sum' = sum
    BY <1>1, <1>3 DEF Pending
  <2> QED
    BY <1>1, <2>1 DEF Walks
<1>4. CASE w \in alive
  <2>1. sum' = sum + switches[w]
    BY <1>1, <1>4
  <2>2. CASE walks = << >>
    <3>1. alive' \ todo' = (alive \ todo) \cup {w} /\ w \notin alive \ todo /\ alive \ todo \subseteq Workers
      BY <1>1, <1>4
    <3>2. Counted(alive' \ todo', Zero, at_base) = Counted(alive \ todo, Zero, at_base) + (at_base[w] - 0)
      BY <1>1, <1>2, <3>1, CountedAdd, ZeroIsCounts
    <3>3. Counted(alive \ todo, Zero, at_base) \in Nat
      BY <1>1, <3>1, SwitchedIsFinite, ZeroIsCounts
    <3>4. Counted(alive \ todo, Zero, at_base) <= sum
      BY <1>1, <2>2 DEF Walks
    <3>5. Counted(alive' \ todo', Zero, at_base) <= sum'
      BY <1>1, <1>2, <2>1, <3>2, <3>3, <3>4
    <3> QED
      BY <1>1, <2>2, <3>5 DEF Walks
  <2>3. CASE walks # << >>
    <3>1. /\ Pending = Pending' \cup {w} /\ w \in Workers \ Pending' /\ Pending' \subseteq Workers
          /\ Workers \ Pending' = (Workers \ Pending) \cup {w} /\ w \in Workers \ (Workers \ Pending)
      BY <1>1, <1>4 DEF Pending
    <3>2. Counted(Pending, Zero, at_base) = Counted(Pending', Zero, at_base) + (at_base[w] - 0)
      BY <1>1, <1>2, <3>1, CountedAdd, ZeroIsCounts
    <3>3. Counted(Workers \ Pending', at_base, switches)
            = Counted(Workers \ Pending, at_base, switches) + (switches[w] - at_base[w])
      <4> DEFINE S == Workers \ Pending
      <4>1. S \in SUBSET Workers /\ w \in Workers \ S
        BY <3>1
      <4> HIDE DEF S
      <4>2. Counted(S \cup {w}, at_base, switches)
              = Counted(S, at_base, switches) + (switches[w] - at_base[w])
        BY <1>1, <1>2, <4>1, CountedAdd
      <4>3. Workers \ Pending' = S \cup {w}
        BY <3>1 DEF S
      <4> QED
        BY <4>2, <4>3 DEF S
    <3>4. /\ Counted(Workers \ Pending, at_base, switches) \in Nat
          /\ Counted(Pending', Zero, at_base) \in Nat
      BY <1>1, <3>1, SwitchedIsFinite, ZeroIsCounts
    <3>5. sum + Counted(Pending, Zero, at_base) <= base + Counted(Workers \ Pending, at_base, switches)
      BY <1>1, <2>3 DEF Walks
    <3>6. sum' + Counted(Pending', Zero, at_base) <= base + Counted(Workers \ Pending', at_base, switches)
      BY <1>1, <1>2, <2>1, <3>2, <3>3, <3>4, <3>5
    <3>7. sum' + Counted(Pending', Zero, at_base') <= base' + Counted(Workers \ Pending', at_base', switches')
      BY <1>1, <3>6
    <3> QED
      BY <1>1, <2>3, <3>7 DEF Walks
  <2> QED
    BY <2>2, <2>3
<1> QED
  BY <1>3, <1>4

LEMMA WalksEndWalk ==
  ASSUME IInv, Walks, EndWalk
  PROVE  Walks'
<1>1. /\ at_base \in Counts /\ switches \in Counts /\ alive \subseteq Workers
      /\ base \in Nat /\ sum \in Nat /\ todo = {} /\ pc = "walk" /\ pc' = "loop" /\ last' = sum
      /\ base' = (IF walks = << >> THEN sum ELSE base) /\ walks' = Append(walks, sum) /\ walks \in Seq(Nat)
      /\ UNCHANGED <<stats, at_base, unborn, alive, switches, todo>>
  BY DEF EndWalk, IInv, SamplerTypeOK, Counts, process
<1>2. walks' # << >> /\ ~ stats.written
  BY <1>1 DEF IInv, Stages
<1>3. Counted(Workers, at_base, switches) \in Nat
  BY <1>1, SwitchedIsFinite
<1>4. Counted(alive, Zero, at_base) <= base' /\ last' <= base' + Counted(Workers, at_base, switches)
  <2>1. CASE walks = << >>
    <3>1. alive \ todo = alive /\ base' = sum
      BY <1>1, <2>1
    <3>2. Counted(alive \ todo, Zero, at_base) <= sum
      BY <1>1, <2>1 DEF Walks
    <3> QED
      BY <1>1, <1>3, <3>1, <3>2
  <2>2. CASE walks # << >>
    <3>1. Pending = {} /\ Workers \ Pending = Workers /\ base' = base
      BY <1>1, <2>2 DEF Pending
    <3>2. Counted(Pending, Zero, at_base) = 0
      BY <3>1, CountedNone
    <3>3. /\ Counted(alive, Zero, at_base) <= base
          /\ sum + Counted(Pending, Zero, at_base) <= base + Counted(Workers, at_base, switches)
      BY <1>1, <2>2, <3>1 DEF Walks
    <3>4. sum <= base + Counted(Workers, at_base, switches)
      BY <1>1, <3>2, <3>3
    <3> QED
      BY <1>1, <3>1, <3>3, <3>4
  <2> QED
    BY <2>1, <2>2
<1> QED
  BY <1>1, <1>2, <1>4 DEF Walks

LEMMA WalksFinal ==
  ASSUME IInv, Walks, Final
  PROVE  Walks'
<1>1. /\ stats'.switches = Gained(last, base) /\ pc = "final" /\ pc' = "done"
      /\ UNCHANGED <<todo, sum, base, last, at_base, unborn, alive, switches, walks>>
  BY DEF Final, process, history
<1>2. base \in Nat /\ last \in Nat /\ at_base \in Counts /\ switches \in Counts
  BY DEF IInv, SamplerTypeOK, Counts
<1>3. Counted(Workers, at_base, switches) \in Nat
  BY <1>2, SwitchedIsFinite
<1>4. last <= base + Counted(Workers, at_base, switches)
  BY <1>1 DEF Walks
<1>5. Gained(last, base) <= Counted(Workers, at_base, switches)
  BY <1>2, <1>3, <1>4 DEF Gained
<1> QED
  BY <1>1, <1>5 DEF Walks

LEMMA WalksSwitch ==
  ASSUME IInv, Walks, NEW w \in Workers, Switch(w)
  PROVE  Walks'
<1>1. /\ at_base \in Counts /\ switches \in Counts /\ alive \subseteq Workers
      /\ base \in Nat /\ sum \in Nat /\ last \in Nat /\ stats.switches \in Nat
      /\ w \in alive /\ unborn \subseteq Workers \ alive
      /\ switches' = [switches EXCEPT ![w] = @ + 1]
      /\ UNCHANGED <<pc, todo, sum, base, last, stats, at_base, unborn, alive, walks>>
  BY DEF Switch, IInv, SamplerTypeOK, Counts, reads, history
<1>2. /\ \A v \in Workers : switches[v] \in Nat /\ at_base[v] \in Nat /\ switches[v] <= switches'[v]
      /\ \A v \in Workers \ {w} : switches'[v] = switches[v]
      /\ switches' \in Counts
  BY <1>1 DEF Counts
<1>3. /\ Counted(Workers, at_base, switches) <= Counted(Workers, at_base, switches')
      /\ Counted(Workers, at_base, switches) \in Nat
      /\ Counted(Workers, at_base, switches') \in Nat
  BY <1>1, <1>2, CountedMonotone, SwitchedIsFinite
<1>4. Workers \ Pending \subseteq Workers /\ Pending' = Pending /\ Pending \subseteq Workers
  BY <1>1 DEF Pending
<1>5. /\ Counted(Workers \ Pending, at_base, switches) <= Counted(Workers \ Pending, at_base, switches')
      /\ Counted(Workers \ Pending, at_base, switches) \in Nat
      /\ Counted(Workers \ Pending, at_base, switches') \in Nat
  BY <1>1, <1>2, <1>4, CountedMonotone, SwitchedIsFinite
<1>6. Counted(Pending, Zero, at_base) \in Nat
  BY <1>1, <1>4, SwitchedIsFinite, ZeroIsCounts
<1>7. \A v \in Workers : at_base[v] <= switches'[v]
  <2>1. SUFFICES ASSUME NEW v \in Workers
                 PROVE  at_base[v] <= switches'[v]
    OBVIOUS
  <2>2. at_base[v] <= switches[v]
    BY DEF Walks
  <2>3. switches'[v] \in Nat
    BY <1>2 DEF Counts
  <2> QED
    BY <1>2, <2>2, <2>3
<1>8. \A v \in unborn : switches'[v] = 0 /\ v \notin todo
  BY <1>1, <1>2 DEF Walks
<1>9. walks # << >> => last <= base + Counted(Workers, at_base, switches')
  BY <1>1, <1>3 DEF Walks
<1>10. walks # << >> /\ pc = "walk" =>
         sum + Counted(Pending, Zero, at_base) <= base + Counted(Workers \ Pending, at_base, switches')
  BY <1>1, <1>5, <1>6 DEF Walks
<1>11. stats.written => stats.switches <= Counted(Workers, at_base, switches')
  BY <1>1, <1>3 DEF Walks
<1> QED
  BY <1>1, <1>4, <1>7, <1>8, <1>9, <1>10, <1>11 DEF Walks

LEMMA WalksSpawn ==
  ASSUME IInv, Walks, NEW w \in Workers, Spawn(w)
  PROVE  Walks'
<1>1. /\ at_base \in Counts /\ switches \in Counts /\ alive \subseteq Workers
      /\ base \in Nat /\ sum \in Nat /\ unborn \subseteq Workers \ alive /\ w \in unborn
      /\ unborn' = unborn \ {w} /\ alive' = alive \cup {w}
      /\ UNCHANGED <<pc, todo, sum, base, last, stats, at_base, switches, walks>>
  BY DEF Spawn, IInv, SamplerTypeOK, Counts, reads, history
<1>2. switches[w] = 0 /\ at_base[w] = 0 /\ w \notin todo /\ Zero[w] = 0 /\ w \notin alive
  BY <1>1 DEF Counts, Walks, Zero
<1>3. Pending' = Pending /\ alive' \ todo' = (alive \ todo) \cup {w}
  BY <1>1, <1>2 DEF Pending
<1>4. Counted(alive', Zero, at_base) = Counted(alive, Zero, at_base)
  <2>1. Counted(alive \cup {w}, Zero, at_base) = Counted(alive, Zero, at_base) + (at_base[w] - Zero[w])
    BY <1>1, <1>2, CountedAdd, ZeroIsCounts
  <2>2. Counted(alive, Zero, at_base) \in Nat
    BY <1>1, SwitchedIsFinite, ZeroIsCounts
  <2> QED
    BY <1>1, <1>2, <2>1, <2>2
<1>5. Counted(alive' \ todo', Zero, at_base) = Counted(alive \ todo, Zero, at_base)
  <2>1. alive \ todo \subseteq Workers /\ w \notin alive \ todo
    BY <1>1, <1>2
  <2>2. Counted((alive \ todo) \cup {w}, Zero, at_base)
          = Counted(alive \ todo, Zero, at_base) + (at_base[w] - Zero[w])
    BY <1>1, <1>2, <2>1, CountedAdd, ZeroIsCounts
  <2>3. Counted(alive \ todo, Zero, at_base) \in Nat
    BY <1>1, <2>1, SwitchedIsFinite, ZeroIsCounts
  <2>4. Counted((alive \ todo) \cup {w}, Zero, at_base) = Counted(alive \ todo, Zero, at_base)
    BY <1>2, <2>2, <2>3
  <2> QED
    BY <1>3, <2>4
<1> QED
  BY <1>1, <1>3, <1>4, <1>5 DEF Walks

LEMMA WalksExit ==
  ASSUME IInv, Walks, NEW w \in Workers, Exit(w)
  PROVE  Walks'
<1>1. /\ at_base \in Counts /\ switches \in Counts /\ alive \subseteq Workers
      /\ base \in Nat /\ sum \in Nat /\ alive' = alive \ {w}
      /\ UNCHANGED <<pc, todo, sum, base, last, stats, at_base, unborn, switches, walks>>
  BY DEF Exit, IInv, SamplerTypeOK, Counts, reads, history
<1>2. /\ alive' \subseteq alive /\ alive' \ todo \subseteq alive \ todo /\ alive \ todo \subseteq Workers
      /\ Pending' \subseteq Pending /\ Pending \subseteq Workers
      /\ Workers \ Pending \subseteq Workers \ Pending'
  BY <1>1 DEF Pending
<1>3. \A v \in Workers : at_base[v] <= at_base[v] /\ switches[v] <= switches[v]
  BY <1>1 DEF Counts
<1>4. Counted(alive', Zero, at_base) <= Counted(alive, Zero, at_base)
  BY <1>1, <1>2, <1>3, CountedMonotone, ZeroIsCounts
<1>5. Counted(alive' \ todo, Zero, at_base) <= Counted(alive \ todo, Zero, at_base)
  BY <1>1, <1>2, <1>3, CountedMonotone, ZeroIsCounts
<1>6. Counted(Pending', Zero, at_base) <= Counted(Pending, Zero, at_base)
  BY <1>1, <1>2, <1>3, CountedMonotone, ZeroIsCounts
<1>7. Counted(Workers \ Pending, at_base, switches) <= Counted(Workers \ Pending', at_base, switches)
  BY <1>1, <1>2, <1>3, CountedMonotone
<1>8. /\ Counted(alive', Zero, at_base) \in Nat /\ Counted(alive, Zero, at_base) \in Nat
      /\ Counted(alive' \ todo, Zero, at_base) \in Nat /\ Counted(alive \ todo, Zero, at_base) \in Nat
      /\ Counted(Pending', Zero, at_base) \in Nat /\ Counted(Pending, Zero, at_base) \in Nat
  BY <1>1, <1>2, SwitchedIsFinite, ZeroIsCounts
<1>9. /\ Counted(Workers \ Pending, at_base, switches) \in Nat
      /\ Counted(Workers \ Pending', at_base, switches) \in Nat
  BY <1>1, <1>2, SwitchedIsFinite
<1>10. walks = << >> /\ pc = "walk" => Counted(alive' \ todo, Zero, at_base) <= sum
  BY <1>1, <1>5, <1>8 DEF Walks
<1>11. walks # << >> => Counted(alive', Zero, at_base) <= base
  BY <1>1, <1>4, <1>8 DEF Walks
<1>12. walks # << >> /\ pc = "walk" =>
         sum + Counted(Pending', Zero, at_base) <= base + Counted(Workers \ Pending', at_base, switches)
  BY <1>1, <1>6, <1>7, <1>8, <1>9 DEF Walks
<1> QED
  BY <1>1, <1>10, <1>11, <1>12 DEF Walks

LEMMA NextWalks == IInv /\ Walks /\ [Next]_vars => Walks'
<1> SUFFICES ASSUME IInv, Walks, [Next]_vars
             PROVE  Walks'
  OBVIOUS
<1> USE DEF reads, process, history, SameWalks
<1>1. CASE start \/ FirstCpu \/ Loop \/ Skip \/ Count
  <2>1. /\ SameWalks
        /\ pc' # "walk" /\ pc # "walk"
        /\ pc' \in {"none", "first_cpu"} => walks = << >>
        /\ pc' \in {"loop", "sleep", "final", "done"} => walks # << >>
    BY <1>1 DEF start, FirstCpu, Loop, Skip, Count, Walks, IInv, Joined
  <2> QED
    BY <2>1, UndisturbedWalks
<1>2. CASE OpenTasks \/ EndWalk \/ Final
  BY <1>2, WalksOpenTasks, WalksEndWalk, WalksFinal
<1>3. ASSUME NEW w \in Workers, ReadStatus(w) \/ Switch(w) \/ Spawn(w) \/ Exit(w)
      PROVE  Walks'
  BY <1>3, WalksReadStatus, WalksSwitch, WalksSpawn, WalksExit
<1>4. CASE stop \/ Join \/ CpuTick \/ UNCHANGED vars
  <2>1. SameWalks /\ pc' = pc
    BY <1>4 DEF stop, Join, CpuTick, vars
  <2> QED
    BY <2>1, UndisturbedWalks DEF Walks
<1> QED
  BY <1>1, <1>2, <1>3, <1>4 DEF Next, run
-----------------------------------------------------------------------------
(* The theorems.                                                           *)

(***************************************************************************)
(* The inductive invariant holds in every reachable state.                 *)
(***************************************************************************)
THEOREM Invariance == Spec => []IInv
BY InitIInv, NextIInv, PTL DEF Spec

(***************************************************************************)
(* Counters and statistics stay natural numbers: no difference that run()  *)
(* takes can wrap below zero.                                              *)
(***************************************************************************)
THEOREM SamplerTypeCorrect == Spec => []SamplerTypeOK
<1>1. IInv => SamplerTypeOK
    BY DEF IInv
<1> QED BY <1>1, Invariance, PTL

(***************************************************************************)
(* When stop() has returned, run() has ended and has written its last      *)
(* word.                                                                   *)
(***************************************************************************)
THEOREM StatsFinal == Spec => []StatsAreFinal
<1>1. IInv => StatsAreFinal
    BY DEF IInv, Joined, Stages, StatsAreFinal
<1> QED BY <1>1, Invariance, PTL

(***************************************************************************)
(* However samples fail, those that succeed average the ticks between the  *)
(* baseline and the last of them, each in one sample; the report has these *)
(* and none from before the baseline.                                      *)
(***************************************************************************)
THEOREM CpuTicksOnce == Spec => []CpuTicksCountedOnce
<1>1. IInv => CpuTicksCountedOnce
    BY DEF IInv
<1> QED BY <1>1, Invariance, PTL

(***************************************************************************)
(* What the walks have added up never exceeds what they started from and   *)
(* the switches since.                                                     *)
(***************************************************************************)
THEOREM WalksBounded == Spec => []Walks
<1>1. IInv /\ Walks /\ [Next]_vars => IInv' /\ Walks'
    BY NextIInv, NextWalks
<1> QED BY <1>1, InitIInv, InitWalks, PTL DEF Spec

(***************************************************************************)
(* No switch from before the first walk is reported, and none twice,       *)
(* however many threads start, exit and switch while the walks read them.  *)
(***************************************************************************)
THEOREM SwitchesOfTheRun == Spec => []SwitchesWithinRun
<1>1. Walks => SwitchesWithinRun
    BY DEF Walks, SwitchesWithinRun, Counted
<1> QED BY <1>1, WalksBounded, PTL
=============================================================================
