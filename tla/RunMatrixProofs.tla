--------------------------- MODULE RunMatrixProofs ---------------------------
(***************************************************************************)
(* What holds of a campaign for every matrix with values on every axis,    *)
(* every number of runs and whatever killed runs leave:                    *)
(*   - the loops launch every combination before anything is plotted, and  *)
(*     none of them twice if no axis lists a value twice;                  *)
(*   - every complete run is drawn, in one row of its like;                *)
(*   - while the clock is not set back, no run overwrites the results of   *)
(*     another one.                                                        *)
(* The loops are at a position, one value for each axis.  The positions    *)
(* are ordered as the digits of numbers are, outermost loop first, and a   *)
(* step of the loops goes from one position to the next: what has been     *)
(* launched is what lies before the present position.                      *)
(***************************************************************************)
EXTENDS RunMatrix, TLAPS, NaturalsInduction, WellFoundedInduction

-----------------------------------------------------------------------------
(* The axes and the loops.                                                 *)

LEMMA AxesMean ==
  /\ DOMAIN Axes = 1 .. 10
  /\ AxisSet = {Axes[i] : i \in 1 .. 10}
  /\ \A i \in 1 .. 10 : Axes[i] \in AxisSet
  /\ \A a \in AxisSet : \E i \in 1 .. 10 : a = Axes[i]
<1>1. DOMAIN Axes = 1 .. 10
  BY DEF Axes
<1> QED
  BY <1>1 DEF AxisSet, ToSet

LEMMA AxesApart ==
  ASSUME NEW i \in 1 .. 10, NEW j \in 1 .. 10, Axes[i] = Axes[j]
  PROVE  i = j
BY DEF Axes

LEMMA AxisNames ==
  AxisSet = {"executor", "num_subscriptions", "num_timers", "num_nodes", "num_threads",
             "callback_group", "callback_work_us", "payload_bytes", "publish_mode", "use_ipc"}
BY AxesMean DEF Axes

LEMMA PositionsMean ==
  ASSUME NEW m, NEW p
  PROVE  p \in Positions(m) <=>
           /\ p = [a \in AxisSet |-> p[a]]
           /\ \A a \in AxisSet : p[a] \in DOMAIN m[a]
BY AxisNames DEF Positions

LEMMA SmallestOf ==
  ASSUME NEW S, S \subseteq Nat, S # {}
  PROVE  \E x \in S : \A y \in S : x <= y
<1>1. PICK x \in S : \A y \in S : ~ (<<y, x>> \in OpToRel(<, Nat))
  BY NatLessThanWellFounded, WFMin
<1>2. \A y \in S : ~ (y < x)
  BY <1>1 DEF OpToRel
<1> QED
  BY <1>2

LEMMA DeepestOf ==
  ASSUME NEW S, S \subseteq 1 .. 10, S # {}
  PROVE  Max(S) \in S /\ \A k \in S : k <= Max(S)
<1> DEFINE D == {10 - k : k \in S}
<1>1. D \subseteq Nat /\ D # {}
  <2>1. \A k \in S : 10 - k \in Nat
    OBVIOUS
  <2> QED
    BY <2>1
<1>2. PICK d \in D : \A e \in D : d <= e
  <2> HIDE DEF D
  <2> QED
    BY <1>1, SmallestOf
<1>3. PICK x \in S : d = 10 - x
  OBVIOUS
<1>4. ASSUME NEW k \in S
      PROVE  x >= k
  <2>1. 10 - k \in D /\ k \in Int /\ x \in Int
    OBVIOUS
  <2>2. 10 - x <= 10 - k
    BY <1>2, <1>3, <2>1
  <2> QED
    BY <2>1, <2>2
<1>5. Max(S) \in S /\ \A k \in S : Max(S) >= k
  BY <1>4 DEF Max
<1> QED
  BY <1>5

-----------------------------------------------------------------------------
(* The order of the loops, on the places of the ten loops by depth.        *)

Places == [1 .. 10 -> Nat]

\* The outermost loop that differs decides.
Earlier(x, y) ==
  \E k \in 1 .. 10 : x[k] < y[k] /\ \A i \in 1 .. k - 1 : x[i] = y[i]

LEMMA FirstDifference ==
  ASSUME NEW x \in Places, NEW y \in Places, x # y
  PROVE  \E k \in 1 .. 10 : x[k] # y[k] /\ \A i \in 1 .. k - 1 : x[i] = y[i]
<1> DEFINE S == {i \in 1 .. 10 : x[i] # y[i]}
<1>1. S # {} /\ S \subseteq Nat
  BY DEF Places
<1>2. PICK k \in S : \A i \in S : k <= i
  <2> HIDE DEF S
  <2> QED
    BY <1>1, SmallestOf
<1>3. k \in 1 .. 10 /\ x[k] # y[k]
  OBVIOUS
<1>4. ASSUME NEW i \in 1 .. k - 1
      PROVE  x[i] = y[i]
  <2>1. i \in 1 .. 10 /\ ~ (k <= i)
    BY <1>3
  <2> QED
    BY <2>1, <1>2
<1> QED
  BY <1>3, <1>4

LEMMA NoneEarlierThanItself ==
  ASSUME NEW x \in Places
  PROVE  ~ Earlier(x, x)
BY DEF Earlier, Places

LEMMA NoneEarlierThanOnes ==
  ASSUME NEW x \in Places, NEW y, \A i \in 1 .. 10 : y[i] = 1 /\ x[i] >= 1
  PROVE  ~ Earlier(x, y)
BY DEF Earlier, Places

\* Where every loop is at its last value, all else is earlier.
LEMMA EarlierThanLast ==
  ASSUME NEW x \in Places, NEW y \in Places, \A i \in 1 .. 10 : x[i] <= y[i], x # y
  PROVE  Earlier(x, y)
<1>1. PICK k \in 1 .. 10 : x[k] # y[k] /\ \A i \in 1 .. k - 1 : x[i] = y[i]
  BY FirstDifference
<1>2. x[k] <= y[k] /\ x[k] \in Nat /\ y[k] \in Nat
  BY DEF Places
<1>3. x[k] < y[k]
  BY <1>1, <1>2
<1> QED
  BY <1>1, <1>3 DEF Earlier

\* s is what y becomes when loop j goes on and those inside it restart:
\* nothing lies between the two.
LEMMA NothingBetween ==
  ASSUME NEW x \in Places, NEW y \in Places, NEW s \in Places, NEW j \in 1 .. 10,
         \A i \in 1 .. j - 1 : s[i] = y[i],
         s[j] = y[j] + 1,
         \A i \in j + 1 .. 10 : s[i] = 1 /\ x[i] >= 1 /\ x[i] <= y[i]
  PROVE  Earlier(x, s) <=> Earlier(x, y) \/ x = y
<1>1. \A i \in 1 .. 10 : x[i] \in Nat /\ y[i] \in Nat
  BY DEF Places
<1>2. ASSUME x = y
      PROVE  Earlier(x, s)
  BY <1>1, <1>2 DEF Earlier
<1>3. ASSUME Earlier(x, y)
      PROVE  Earlier(x, s)
  <2>1. PICK k \in 1 .. 10 : x[k] < y[k] /\ \A i \in 1 .. k - 1 : x[i] = y[i]
    BY <1>3 DEF Earlier
  <2>2. CASE k < j
    <3>1. x[k] < s[k]
      BY <2>1, <2>2
    <3>2. \A i \in 1 .. k - 1 : x[i] = s[i]
      BY <2>1, <2>2
    <3> QED
      BY <3>1, <3>2 DEF Earlier
  <2>3. CASE k >= j
    <3>1. x[j] <= y[j]
      BY <1>1, <2>1, <2>3
    <3>2. x[j] < s[j]
      BY <1>1, <3>1
    <3>3. \A i \in 1 .. j - 1 : x[i] = s[i]
      BY <2>1, <2>3
    <3> QED
      BY <3>2, <3>3 DEF Earlier
  <2> QED
    BY <2>2, <2>3
<1>4. ASSUME Earlier(x, s), x # y
      PROVE  Earlier(x, y)
  <2>1. PICK k \in 1 .. 10 : x[k] < s[k] /\ \A i \in 1 .. k - 1 : x[i] = s[i]
    BY <1>4 DEF Earlier
  <2>2. CASE k < j
    <3>1. x[k] < y[k]
      BY <2>1, <2>2
    <3>2. \A i \in 1 .. k - 1 : x[i] = y[i]
      BY <2>1, <2>2
    <3> QED
      BY <3>1, <3>2 DEF Earlier
  <2>3. CASE k > j
    <3>1. s[k] = 1 /\ x[k] >= 1
      BY <2>3
    <3> QED
      BY <1>1, <2>1, <3>1
  <2>4. CASE k = j
    <3>1. \A i \in 1 .. j - 1 : x[i] = y[i]
      BY <2>1, <2>4
    <3>2. x[j] <= y[j]
      BY <1>1, <2>1, <2>4
    <3>3. PICK l \in 1 .. 10 : x[l] # y[l] /\ \A i \in 1 .. l - 1 : x[i] = y[i]
      BY <1>4, FirstDifference
    <3>4. l >= j
      BY <3>1, <3>3
    <3>5. x[l] <= y[l]
      BY <3>2, <3>4
    <3>6. x[l] < y[l]
      BY <1>1, <3>3, <3>5
    <3> QED
      BY <3>3, <3>6 DEF Earlier
  <2> QED
    BY <2>2, <2>3, <2>4
<1> QED
  BY <1>2, <1>3, <1>4

-----------------------------------------------------------------------------
(* The positions of a matrix, in that order.                               *)

\* The lists of a matrix that may be run.
Listed(m) == \A a \in AxisSet : m[a] # << >> /\ m[a] \in Seq(ToSet(m[a]))

ByDepth(p) == [i \in 1 .. 10 |-> p[Axes[i]]]

Before(p, q) == Earlier(ByDepth(p), ByDepth(q))

LEMMA ListLengths ==
  ASSUME NEW m, Listed(m), NEW i \in 1 .. 10
  PROVE  /\ DOMAIN m[Axes[i]] = 1 .. Len(m[Axes[i]])
         /\ Len(m[Axes[i]]) \in Nat /\ Len(m[Axes[i]]) >= 1
<1>1. Axes[i] \in AxisSet
  BY AxesMean
<1>2. m[Axes[i]] # << >> /\ m[Axes[i]] \in Seq(ToSet(m[Axes[i]]))
  BY <1>1 DEF Listed
<1> QED
  BY <1>2

LEMMA PositionsAreNatural ==
  ASSUME NEW m, Listed(m), NEW p \in Positions(m)
  PROVE  /\ ByDepth(p) \in Places
         /\ \A i \in 1 .. 10 : /\ ByDepth(p)[i] = p[Axes[i]]
                               /\ p[Axes[i]] \in 1 .. Len(m[Axes[i]])
                               /\ p[Axes[i]] \in Nat
                               /\ ByDepth(p)[i] >= 1
<1>1. ASSUME NEW i \in 1 .. 10
      PROVE  p[Axes[i]] \in 1 .. Len(m[Axes[i]]) /\ p[Axes[i]] \in Nat
  <2>1. p[Axes[i]] \in DOMAIN m[Axes[i]]
    BY AxesMean, PositionsMean
  <2>2. DOMAIN m[Axes[i]] = 1 .. Len(m[Axes[i]]) /\ Len(m[Axes[i]]) \in Nat
    BY ListLengths
  <2> QED
    BY <2>1, <2>2
<1>2. ASSUME NEW i \in 1 .. 10
      PROVE  ByDepth(p)[i] = p[Axes[i]]
  BY DEF ByDepth
<1>3. ASSUME NEW i \in 1 .. 10
      PROVE  ByDepth(p)[i] \in Nat /\ ByDepth(p)[i] >= 1
  <2>1. p[Axes[i]] >= 1 /\ p[Axes[i]] \in Nat
    <3>1. p[Axes[i]] \in 1 .. Len(m[Axes[i]]) /\ Len(m[Axes[i]]) \in Nat
      BY <1>1, ListLengths
    <3> DEFINE v == p[Axes[i]]  w == Len(m[Axes[i]])
    <3>2. v \in 1 .. w /\ w \in Nat
      BY <3>1
    <3> HIDE DEF v, w
    <3>3. v \in Nat /\ v >= 1
      BY <3>2
    <3> QED
      BY <3>3 DEF v
  <2> QED
    BY <2>1, <1>2
<1>4. ByDepth(p) \in Places
  BY <1>3, <1>2 DEF ByDepth, Places
<1> QED
  BY <1>1, <1>2, <1>3, <1>4

LEMMA SamePosition ==
  ASSUME NEW m, NEW p \in Positions(m), NEW q \in Positions(m), ByDepth(p) = ByDepth(q)
  PROVE  p = q
<1>1. \A i \in 1 .. 10 : p[Axes[i]] = q[Axes[i]]
  <2>1. \A i \in 1 .. 10 : ByDepth(p)[i] = p[Axes[i]] /\ ByDepth(q)[i] = q[Axes[i]]
    BY DEF ByDepth
  <2> QED
    BY <2>1
<1>2. \A a \in AxisSet : p[a] = q[a]
  BY <1>1, AxesMean
<1>3. p = [a \in AxisSet |-> p[a]] /\ q = [a \in AxisSet |-> q[a]]
  BY PositionsMean
<1> QED
  BY <1>2, <1>3

LEMMA NothingBeforeItself ==
  ASSUME NEW m, Listed(m), NEW p \in Positions(m)
  PROVE  ~ Before(p, p)
BY PositionsAreNatural, NoneEarlierThanItself DEF Before

LEMMA NothingBeforeFirst ==
  ASSUME NEW m, Listed(m), NEW p \in Positions(m)
  PROVE  ~ Before(p, First)
<1>1. \A i \in 1 .. 10 : ByDepth(First)[i] = 1
  <2>1. \A i \in 1 .. 10 : First[Axes[i]] = 1
    BY AxesMean DEF First
  <2> QED
    BY <2>1 DEF ByDepth
<1>2. ByDepth(p) \in Places /\ \A i \in 1 .. 10 : ByDepth(p)[i] >= 1
  BY PositionsAreNatural
<1> QED
  BY <1>1, <1>2, NoneEarlierThanOnes DEF Before

LEMMA FirstIsPosition ==
  ASSUME NEW m, Listed(m)
  PROVE  First \in Positions(m)
<1>1. \A a \in AxisSet : First[a] = 1
  BY DEF First
<1>2. First = [a \in AxisSet |-> First[a]]
  BY DEF First
<1>3. \A a \in AxisSet : 1 \in DOMAIN m[a]
  BY DEF Listed
<1> QED
  BY <1>1, <1>2, <1>3, PositionsMean

-----------------------------------------------------------------------------
(* The step of the loops.                                                  *)

InMatrix == Listed(matrix) /\ pos \in Positions(matrix)

LEMMA SuccessorMeans ==
  ASSUME InMatrix, \E k \in DOMAIN Axes : More(k)
  PROVE  \E j \in 1 .. 10 :
           /\ pos[Axes[j]] < Len(matrix[Axes[j]])
           /\ \A i \in j + 1 .. 10 : pos[Axes[i]] = Len(matrix[Axes[i]])
           /\ Successor = [a \in AxisSet |-> Successor[a]]
           /\ \A i \in 1 .. j - 1 : Successor[Axes[i]] = pos[Axes[i]]
           /\ Successor[Axes[j]] = pos[Axes[j]] + 1
           /\ \A i \in j + 1 .. 10 : Successor[Axes[i]] = 1
<1> DEFINE S == {k \in DOMAIN Axes : More(k)}
           Depth(a) == CHOOSE k \in DOMAIN Axes : Axes[k] = a
           j == Max(S)
<1>1. S # {} /\ S \subseteq 1 .. 10
  BY AxesMean
<1>2. j \in S /\ \A k \in S : k <= j
  <2> HIDE DEF S
  <2> QED
    BY <1>1, DeepestOf
<1>3. j \in 1 .. 10 /\ More(j)
  BY <1>1, <1>2
<1>4. \A i \in 1 .. 10 : Depth(Axes[i]) = i
  <2>1. SUFFICES ASSUME NEW i \in 1 .. 10
                 PROVE  Depth(Axes[i]) = i
    OBVIOUS
  <2>2. Depth(Axes[i]) \in 1 .. 10 /\ Axes[Depth(Axes[i])] = Axes[i]
    BY AxesMean
  <2> HIDE DEF Depth
  <2> QED
    BY <2>2, AxesApart
<1>5. Successor = [a \in AxisSet |-> CASE Depth(a) < j -> pos[a]
                                       [] Depth(a) = j -> pos[a] + 1
                                       [] OTHER -> Restart(a)]
  BY DEF Successor
<1>6. \A i \in j + 1 .. 10 : pos[Axes[i]] = Len(matrix[Axes[i]])
  <2>1. SUFFICES ASSUME NEW i \in j + 1 .. 10
                 PROVE  pos[Axes[i]] = Len(matrix[Axes[i]])
    OBVIOUS
  <2>2. i \in 1 .. 10 /\ ~ (i <= j)
    BY <1>3
  <2>3. ~ More(i)
    BY <1>2, <2>2, AxesMean
  <2>4. Len(matrix[Axes[i]]) \in Nat /\ pos[Axes[i]] \in 1 .. Len(matrix[Axes[i]])
    BY <2>2, PositionsAreNatural, ListLengths DEF InMatrix
  <2> QED
    BY <2>3, <2>4 DEF More
<1> HIDE DEF Depth, j, S
<1>7. /\ \A i \in 1 .. j - 1 : Successor[Axes[i]] = pos[Axes[i]]
      /\ Successor[Axes[j]] = pos[Axes[j]] + 1
      /\ \A i \in j + 1 .. 10 : Successor[Axes[i]] = 1
  <2>1. ASSUME NEW i \in 1 .. 10
        PROVE  Successor[Axes[i]] = IF i < j THEN pos[Axes[i]]
                                    ELSE IF i = j THEN pos[Axes[i]] + 1 ELSE 1
    <3>1. Axes[i] \in AxisSet /\ Depth(Axes[i]) = i
      BY <1>4, AxesMean
    <3> QED
      BY <1>3, <1>5, <3>1 DEF Restart
  <2> QED
    BY <1>3, <2>1
<1>8. Successor = [a \in AxisSet |-> Successor[a]]
  BY <1>5
<1> QED
  BY <1>3, <1>6, <1>7, <1>8 DEF More

LEMMA SuccessorIsPosition ==
  ASSUME InMatrix, \E k \in DOMAIN Axes : More(k)
  PROVE  Successor \in Positions(matrix)
<1>1. PICK j \in 1 .. 10 :
           /\ pos[Axes[j]] < Len(matrix[Axes[j]])
           /\ Successor = [a \in AxisSet |-> Successor[a]]
           /\ \A i \in 1 .. j - 1 : Successor[Axes[i]] = pos[Axes[i]]
           /\ Successor[Axes[j]] = pos[Axes[j]] + 1
           /\ \A i \in j + 1 .. 10 : Successor[Axes[i]] = 1
  BY SuccessorMeans
<1>2. ASSUME NEW i \in 1 .. 10
      PROVE  Successor[Axes[i]] \in DOMAIN matrix[Axes[i]]
  <2>1. DOMAIN matrix[Axes[i]] = 1 .. Len(matrix[Axes[i]])
    BY ListLengths DEF InMatrix
  <2>2. Len(matrix[Axes[i]]) \in Nat /\ Len(matrix[Axes[i]]) >= 1
    BY ListLengths DEF InMatrix
  <2>3. pos[Axes[i]] \in 1 .. Len(matrix[Axes[i]])
    BY PositionsAreNatural DEF InMatrix
  <2>4. CASE i < j
    <3>1. Successor[Axes[i]] = pos[Axes[i]]
      <4>1. i \in 1 .. j - 1
        BY <2>4
      <4> QED
        BY <1>1, <4>1
    <3> QED
      BY <2>1, <2>3, <3>1
  <2>5. CASE i = j
    <3>1. Successor[Axes[i]] = pos[Axes[i]] + 1 /\ pos[Axes[i]] < Len(matrix[Axes[i]])
      BY <1>1, <2>5
    <3>2. pos[Axes[i]] + 1 \in 1 .. Len(matrix[Axes[i]])
      BY <2>2, <2>3, <3>1
    <3> QED
      BY <2>1, <3>1, <3>2
  <2>6. CASE i > j
    <3>1. Successor[Axes[i]] = 1
      <4>1. i \in j + 1 .. 10
        BY <2>6
      <4> QED
        BY <1>1, <4>1
    <3> QED
      BY <2>1, <2>2, <3>1
  <2> QED
    BY <2>4, <2>5, <2>6
<1>3. \A a \in AxisSet : Successor[a] \in DOMAIN matrix[a]
  BY <1>2, AxesMean
<1> QED
  BY <1>1, <1>3, PositionsMean

\* No position lies between one and its successor.
LEMMA SuccessorIsNext ==
  ASSUME InMatrix, \E k \in DOMAIN Axes : More(k), NEW p \in Positions(matrix)
  PROVE  Before(p, Successor) <=> Before(p, pos) \/ p = pos
<1>1. PICK j \in 1 .. 10 :
           /\ \A i \in j + 1 .. 10 : pos[Axes[i]] = Len(matrix[Axes[i]])
           /\ \A i \in 1 .. j - 1 : Successor[Axes[i]] = pos[Axes[i]]
           /\ Successor[Axes[j]] = pos[Axes[j]] + 1
           /\ \A i \in j + 1 .. 10 : Successor[Axes[i]] = 1
  BY SuccessorMeans
<1> DEFINE x == ByDepth(p)  y == ByDepth(pos)  s == ByDepth(Successor)
<1>2. Successor \in Positions(matrix)
  BY SuccessorIsPosition
<1>3. x \in Places /\ y \in Places /\ s \in Places
  BY <1>2, PositionsAreNatural DEF InMatrix
<1>4. \A i \in 1 .. 10 : /\ x[i] = p[Axes[i]] /\ y[i] = pos[Axes[i]] /\ s[i] = Successor[Axes[i]]
                         /\ p[Axes[i]] \in 1 .. Len(matrix[Axes[i]])
                         /\ Len(matrix[Axes[i]]) \in Nat
  BY PositionsAreNatural, ListLengths DEF InMatrix, ByDepth
<1>5. ASSUME NEW i \in 1 .. j - 1
      PROVE  s[i] = y[i]
  <2>1. i \in 1 .. 10
    OBVIOUS
  <2>2. s[i] = Successor[Axes[i]] /\ y[i] = pos[Axes[i]]
    BY <1>4, <2>1
  <2> QED
    BY <1>1, <2>2
<1>6. s[j] = y[j] + 1
  BY <1>1, <1>4
<1>7. ASSUME NEW i \in j + 1 .. 10
      PROVE  s[i] = 1 /\ x[i] >= 1 /\ x[i] <= y[i]
  <2>1. i \in 1 .. 10
    OBVIOUS
  <2>2. s[i] = 1 /\ y[i] = Len(matrix[Axes[i]]) /\ x[i] \in 1 .. Len(matrix[Axes[i]])
    BY <1>1, <1>4, <2>1
  <2>3. Len(matrix[Axes[i]]) \in Nat
    BY <1>4, <2>1
  <2> QED
    BY <2>2, <2>3
<1> HIDE DEF x, y, s
<1>8. Earlier(x, s) <=> Earlier(x, y) \/ x = y
  BY <1>3, <1>5, <1>6, <1>7, NothingBetween
<1>9. x = y <=> p = pos
  BY SamePosition DEF InMatrix, x, y
<1> QED
  BY <1>8, <1>9 DEF Before, x, y, s

\* Where no loop has values left, everything else lies before.
LEMMA LastIsLast ==
  ASSUME InMatrix, ~ \E k \in DOMAIN Axes : More(k), NEW p \in Positions(matrix)
  PROVE  Before(p, pos) \/ p = pos
<1> DEFINE x == ByDepth(p)  y == ByDepth(pos)
<1>1. x \in Places /\ y \in Places
  BY PositionsAreNatural DEF InMatrix
<1>2. ASSUME NEW i \in 1 .. 10
      PROVE  x[i] <= y[i]
  <2>1. x[i] \in 1 .. Len(matrix[Axes[i]]) /\ y[i] \in 1 .. Len(matrix[Axes[i]])
    BY PositionsAreNatural DEF InMatrix
  <2>2. ~ (y[i] < Len(matrix[Axes[i]])) /\ Len(matrix[Axes[i]]) \in Nat
    BY PositionsAreNatural, ListLengths, AxesMean DEF InMatrix, More
  <2> HIDE DEF x, y
  <2> QED
    BY <2>1, <2>2
<1> HIDE DEF x, y
<1>3. x = y \/ Earlier(x, y)
  BY <1>1, <1>2, EarlierThanLast
<1> QED
  BY <1>3, SamePosition DEF InMatrix, Before, x, y

-----------------------------------------------------------------------------
(* What has been launched, and what is in the files.                       *)

\* The positions the loops are done with.
Passed ==
  IF stage = "running" THEN {p \in Positions(matrix) : Before(p, pos)}
                       ELSE Positions(matrix)

Distinct(m) == \A a \in AxisSet : IsInjective(m[a])

Coverage ==
  /\ launched \in Seq(ToSet(launched))
  /\ stage \in {"running", "plotting", "plotted"} =>
       /\ ToSet(launched) = {CombinationAt(matrix, p) : p \in Passed}
       /\ Distinct(matrix) => IsInjective(launched)

Files ==
  \A f \in DOMAIN dir :
    /\ dir[f].whole => dir[f].meta # NoMeta
    /\ dir[f].meta # NoMeta => dir[f].meta.payload_bytes \in Nat

IInv == TypeOK /\ InMatrix /\ Coverage /\ Files /\ CompleteRunsPlotted

LEMMA AppendedSet ==
  ASSUME NEW s, s \in Seq(ToSet(s)), NEW x
  PROVE  /\ ToSet(Append(s, x)) = ToSet(s) \cup {x}
         /\ Append(s, x) \in Seq(ToSet(Append(s, x)))
<1>1. /\ Len(s) \in Nat /\ DOMAIN s = 1 .. Len(s)
      /\ Append(s, x) \in Seq(ToSet(s) \cup {x})
      /\ DOMAIN Append(s, x) = 1 .. Len(s) + 1
      /\ \A i \in 1 .. Len(s) : Append(s, x)[i] = s[i]
      /\ Append(s, x)[Len(s) + 1] = x
  OBVIOUS
<1>2. 1 .. Len(s) + 1 = 1 .. Len(s) \cup {Len(s) + 1}
  BY <1>1
<1>3. ToSet(Append(s, x)) = ToSet(s) \cup {x}
  BY <1>1, <1>2 DEF ToSet
<1> QED
  BY <1>1, <1>3

LEMMA AppendedInjective ==
  ASSUME NEW s, s \in Seq(ToSet(s)), IsInjective(s), NEW x, x \notin ToSet(s)
  PROVE  IsInjective(Append(s, x))
<1>1. /\ Len(s) \in Nat /\ DOMAIN s = 1 .. Len(s)
      /\ DOMAIN Append(s, x) = 1 .. Len(s) + 1
      /\ \A i \in 1 .. Len(s) : Append(s, x)[i] = s[i]
      /\ Append(s, x)[Len(s) + 1] = x
  OBVIOUS
<1>2. \A i \in 1 .. Len(s) : s[i] # x
  BY <1>1 DEF ToSet
<1>3. ASSUME NEW i \in 1 .. Len(s) + 1, NEW j \in 1 .. Len(s) + 1,
             Append(s, x)[i] = Append(s, x)[j]
      PROVE  i = j
  <2>1. CASE i \in 1 .. Len(s) /\ j \in 1 .. Len(s)
    BY <1>1, <1>3, <2>1 DEF IsInjective
  <2>2. CASE i = Len(s) + 1 \/ j = Len(s) + 1
    BY <1>1, <1>2, <1>3, <2>2
  <2> QED
    BY <1>1, <2>1, <2>2
<1> QED
  BY <1>1, <1>3 DEF IsInjective

LEMMA CombinationsApart ==
  ASSUME NEW m, Distinct(m), NEW p \in Positions(m), NEW q \in Positions(m),
         CombinationAt(m, p) = CombinationAt(m, q)
  PROVE  p = q
<1>1. ASSUME NEW a \in AxisSet
      PROVE  p[a] = q[a]
  <2>1. CombinationAt(m, p)[a] = m[a][p[a]] /\ CombinationAt(m, q)[a] = m[a][q[a]]
    BY DEF CombinationAt
  <2>2. m[a][p[a]] = m[a][q[a]]
    BY <2>1
  <2>3. p[a] \in DOMAIN m[a] /\ q[a] \in DOMAIN m[a]
    BY PositionsMean
  <2> QED
    BY <2>2, <2>3 DEF Distinct, IsInjective
<1>2. p = [a \in AxisSet |-> p[a]] /\ q = [a \in AxisSet |-> q[a]]
  BY PositionsMean
<1> QED
  BY <1>1, <1>2

LEMMA MatricesAreListed ==
  ASSUME NEW m \in Matrices
  PROVE  Listed(m)
BY MatrixAssumption DEF MatrixAssumption, Listed

LEMMA Units == /\ KB \in Nat /\ MB \in Nat /\ GB \in Nat
               /\ 0 < KB /\ KB < MB /\ MB < GB
BY Z3 DEF KB, MB, GB

LEMMA SameQuotient ==
  ASSUME NEW n \in Nat, NEW o \in Nat, NEW U \in Nat, 0 < U, n \div U = o \div U
  PROVE  n - o < U /\ o - n < U
OBVIOUS

LEMMA QuotientMeans ==
  ASSUME NEW n \in Nat, NEW U \in Nat, 0 < U
  PROVE  /\ n \div U \in Nat
         /\ (n \div U) * U <= n /\ n < ((n \div U) + 1) * U
OBVIOUS

LEMMA TimesMonotone ==
  ASSUME NEW a \in Nat, NEW b \in Nat, NEW U \in Nat, a <= b + b
  PROVE  a * U <= b * U + b * U
OBVIOUS

LEMMA LabelMeans ==
  ASSUME NEW n \in Nat
  PROVE  /\ n < KB => human_bytes(n)[1] = n /\ human_bytes(n)[2] = "B"
         /\ n >= KB /\ n < MB => human_bytes(n)[1] = n \div KB /\ human_bytes(n)[2] = "KB"
         /\ n >= MB /\ n < GB => human_bytes(n)[1] = n \div MB /\ human_bytes(n)[2] = "MB"
         /\ n >= GB /\ n \div GB < KB =>
              human_bytes(n)[1] = n \div GB /\ human_bytes(n)[2] = "GB"
         /\ n >= GB /\ n \div GB >= KB =>
              human_bytes(n)[1] = (n \div GB) \div KB /\ human_bytes(n)[2] = "TB"
<1>1. n < KB => human_bytes(n) = <<n, "B">>
  BY Units DEF human_bytes
<1>2. n >= KB /\ n < MB => human_bytes(n) = <<n \div KB, "KB">>
  BY Units DEF human_bytes
<1>3. n >= MB /\ n < GB => human_bytes(n) = <<n \div MB, "MB">>
  BY Units DEF human_bytes
<1>4. n >= GB /\ n \div GB < KB => human_bytes(n) = <<n \div GB, "GB">>
  BY Units DEF human_bytes
<1>5. n >= GB /\ n \div GB >= KB => human_bytes(n) = <<(n \div GB) \div KB, "TB">>
  <2>1. n \div GB \in Nat
    BY Units
  <2> QED
    BY <2>1, Units DEF human_bytes
<1> QED
  BY <1>1, <1>2, <1>3, <1>4, <1>5

\* Equal labels have the same unit, and the same number of them.
LEMMA SameLabel ==
  ASSUME NEW n \in Nat, NEW o \in Nat, human_bytes(n) = human_bytes(o)
  PROVE  SamePayload(n, o)
<1> DEFINE x == human_bytes(n)[1]  y == human_bytes(o)[1]
           u == human_bytes(n)[2]  v == human_bytes(o)[2]
<1>1. /\ n < KB => x = n /\ u = "B"
      /\ n >= KB /\ n < MB => x = n \div KB /\ u = "KB"
      /\ n >= MB /\ n < GB => x = n \div MB /\ u = "MB"
      /\ n >= GB /\ n \div GB < KB => x = n \div GB /\ u = "GB"
      /\ n >= GB /\ n \div GB >= KB => x = (n \div GB) \div KB /\ u = "TB"
  BY LabelMeans
<1>2. /\ o < KB => y = o /\ v = "B"
      /\ o >= KB /\ o < MB => y = o \div KB /\ v = "KB"
      /\ o >= MB /\ o < GB => y = o \div MB /\ v = "MB"
      /\ o >= GB /\ o \div GB < KB => y = o \div GB /\ v = "GB"
      /\ o >= GB /\ o \div GB >= KB => y = (o \div GB) \div KB /\ v = "TB"
  BY LabelMeans
<1>3. x = y /\ u = v
  OBVIOUS
<1>4. n \div GB \in Nat /\ o \div GB \in Nat
  BY Units
<1> HIDE DEF x, y, u, v
<1>5. CASE n < KB
  <2>1. o < KB
    <3>1. u = "B"
      BY <1>1, <1>5
    <3>2. v = "B"
      BY <1>3, <3>1
    <3>3. /\ o >= KB /\ o < MB => v = "KB"
          /\ o >= MB /\ o < GB => v = "MB"
          /\ o >= GB => v \in {"GB", "TB"}
      <4>1. o \div GB < KB \/ o \div GB >= KB
        BY <1>4, Units
      <4> QED
        BY <1>2, <4>1
    <3>4. ~ (o >= KB /\ o < MB)
      BY <3>2, <3>3
    <3>5. ~ (o >= MB /\ o < GB)
      BY <3>2, <3>3
    <3>6. ~ (o >= GB)
      BY <3>2, <3>3
    <3> QED
      BY <3>4, <3>5, <3>6, Units
  <2> QED
    BY <1>1, <1>2, <1>3, <1>5, <2>1 DEF SamePayload
<1>6. CASE n >= KB /\ n < MB
  <2>1. o >= KB /\ o < MB
    BY <1>1, <1>2, <1>3, <1>6, Units
  <2>2. n \div KB = o \div KB
    BY <1>1, <1>2, <1>3, <1>6, <2>1
  <2>3. n - o < KB /\ o - n < KB
    BY <2>2, Units, SameQuotient
  <2> QED
    BY <1>6, <2>3, Units DEF SamePayload
<1>7. CASE n >= MB /\ n < GB
  <2>1. o >= MB /\ o < GB
    BY <1>1, <1>2, <1>3, <1>7, Units
  <2>2. n \div MB = o \div MB
    BY <1>1, <1>2, <1>3, <1>7, <2>1
  <2>3. n - o < MB /\ o - n < MB
    BY <2>2, Units, SameQuotient
  <2> QED
    BY <1>7, <2>1, <2>3, Units DEF SamePayload
<1>8. CASE n >= GB /\ n \div GB < KB
  <2>1. o >= GB /\ o \div GB < KB
    BY <1>1, <1>2, <1>3, <1>4, <1>8, Units
  <2>2. n \div GB = o \div GB
    BY <1>1, <1>2, <1>3, <1>8, <2>1
  <2>3. n - o < GB /\ o - n < GB
    BY <2>2, Units, SameQuotient
  <2> QED
    BY <1>8, <2>1, <2>3, Units DEF SamePayload
<1>9. CASE n >= GB /\ n \div GB >= KB
  <2>1. o >= GB /\ o \div GB >= KB
    BY <1>1, <1>2, <1>3, <1>4, <1>9, Units
  <2> DEFINE q == n \div GB  r == o \div GB
  <2>2. /\ q \in Nat /\ q >= KB /\ q * GB <= n /\ n < (q + 1) * GB
        /\ r \in Nat /\ r >= KB /\ r * GB <= o /\ o < (r + 1) * GB
    BY <1>4, <1>9, <2>1, QuotientMeans, Units
  <2>3. q \div KB = r \div KB
    BY <1>1, <1>2, <1>3, <1>9, <2>1
  <2> HIDE DEF q, r
  <2>4. q - r < KB /\ r - q < KB
    BY <2>2, <2>3, Units, SameQuotient
  <2>5. q + 1 <= r + r /\ r + 1 <= q + q
    BY <2>2, <2>4, Units
  <2>6. (q + 1) * GB <= r * GB + r * GB /\ (r + 1) * GB <= q * GB + q * GB
    BY <2>2, <2>5, Units, TimesMonotone
  <2>7. q * GB \in Nat /\ r * GB \in Nat /\ (q + 1) * GB \in Nat /\ (r + 1) * GB \in Nat
    BY <2>2, Units
  <2>8. n < 2 * o /\ o < 2 * n
    BY <2>2, <2>6, <2>7
  <2> QED
    BY <1>9, <2>8, Units DEF SamePayload
<1> QED
  BY <1>4, <1>5, <1>6, <1>7, <1>8, <1>9, Units

-----------------------------------------------------------------------------
LEMMA InitIInv == Init => IInv
<1> SUFFICES ASSUME Init PROVE IInv
  OBVIOUS
<1>1. /\ matrix \in Matrices /\ pos = First /\ stage = "running" /\ clock = 0
      /\ launched = << >> /\ dir = << >> /\ plot = NoPlot
      /\ runs = 0 /\ set_back = 0 /\ since = {}
  BY DEF Init
<1>2. Listed(matrix)
  BY <1>1, MatricesAreListed
<1>3. InMatrix
  BY <1>1, <1>2, FirstIsPosition DEF InMatrix
<1>4. TypeOK
  <2>1. \A a \in AxisSet : pos[a] \in DOMAIN matrix[a]
    BY <1>3, PositionsMean DEF InMatrix
  <2>2. clock \in Nat /\ runs \in 0 .. MaxRuns /\ set_back \in 0 .. MaxSetBacks
    BY <1>1, MatrixAssumption DEF MatrixAssumption
  <2>3. \A f \in DOMAIN dir : dir[f].whole => dir[f].meta # NoMeta
    BY <1>1
  <2> QED
    BY <1>1, <2>1, <2>2, <2>3, SMTT(30) DEF TypeOK
<1>5. Coverage
  <2>1. ToSet(launched) = {} /\ launched \in Seq(ToSet(launched)) /\ IsInjective(launched)
    BY <1>1 DEF ToSet, IsInjective
  <2>2. Passed = {}
    BY <1>1, <1>2, NothingBeforeFirst DEF Passed
  <2> QED
    BY <2>1, <2>2 DEF Coverage
<1>6. Files /\ CompleteRunsPlotted
  BY <1>1 DEF Files, CompleteRunsPlotted
<1> QED
  BY <1>3, <1>4, <1>5, <1>6 DEF IInv

\* The steps that leave the files and the plots of this campaign alone.
LEMMA UnplottedStep ==
  ASSUME IInv, plot' = NoPlot
  PROVE  CompleteRunsPlotted'
BY DEF CompleteRunsPlotted

LEMMA RunLaunches ==
  ASSUME IInv, Run
  PROVE  InMatrix' /\ Coverage'
<1>1. /\ stage = "running" /\ launched' = Append(launched, Combination)
      /\ NextCombination /\ matrix' = matrix
  BY DEF Run
<1>2. Listed(matrix) /\ pos \in Positions(matrix)
  BY DEF IInv, InMatrix
<1>3. /\ launched \in Seq(ToSet(launched))
      /\ ToSet(launched) = {CombinationAt(matrix, p) : p \in {q \in Positions(matrix) : Before(q, pos)}}
      /\ Distinct(matrix) => IsInjective(launched)
  BY <1>1 DEF IInv, Coverage, Passed
<1>4. /\ ToSet(launched') = ToSet(launched) \cup {CombinationAt(matrix, pos)}
      /\ launched' \in Seq(ToSet(launched'))
  BY <1>1, <1>3, AppendedSet DEF Combination
<1>5. Distinct(matrix) => IsInjective(launched')
  <2>1. SUFFICES ASSUME Distinct(matrix)
                 PROVE  IsInjective(launched')
    OBVIOUS
  <2>2. CombinationAt(matrix, pos) \notin ToSet(launched)
    <3>1. SUFFICES ASSUME NEW p \in Positions(matrix), Before(p, pos),
                          CombinationAt(matrix, pos) = CombinationAt(matrix, p)
                   PROVE  FALSE
      BY <1>3
    <3>2. p = pos
      BY <1>2, <2>1, <3>1, CombinationsApart
    <3> QED
      BY <1>2, <3>1, <3>2, NothingBeforeItself
  <2> QED
    BY <1>1, <1>3, <2>1, <2>2, AppendedInjective DEF Combination
<1>6. CASE \E k \in DOMAIN Axes : More(k)
  <2>1. pos' = Successor /\ stage' = "running"
    BY <1>1, <1>6 DEF NextCombination
  <2>2. pos' \in Positions(matrix)
    BY <1>6, <2>1, SuccessorIsPosition DEF IInv
  <2>3. \A p \in Positions(matrix) : Before(p, pos') <=> Before(p, pos) \/ p = pos
    BY <1>6, <2>1, SuccessorIsNext DEF IInv
  <2>4. Passed' = {p \in Positions(matrix) : Before(p, pos')}
    BY <1>1, <2>1 DEF Passed
  <2>5. ToSet(launched') = {CombinationAt(matrix, p) : p \in Passed'}
    BY <1>2, <1>3, <1>4, <2>3, <2>4
  <2> QED
    BY <1>1, <1>2, <1>4, <1>5, <2>1, <2>2, <2>5 DEF InMatrix, Coverage
<1>7. CASE ~ \E k \in DOMAIN Axes : More(k)
  <2>1. pos' = pos /\ stage' = "plotting"
    BY <1>1, <1>7 DEF NextCombination
  <2>2. \A p \in Positions(matrix) : Before(p, pos) \/ p = pos
    BY <1>7, LastIsLast DEF IInv
  <2>3. Passed' = Positions(matrix)
    BY <1>1, <2>1 DEF Passed
  <2>4. ToSet(launched') = {CombinationAt(matrix, p) : p \in Passed'}
    BY <1>2, <1>3, <1>4, <2>2, <2>3
  <2> QED
    BY <1>1, <1>2, <1>4, <1>5, <2>1, <2>4 DEF InMatrix, Coverage
<1> QED
  BY <1>6, <1>7

LEMMA RunWrites ==
  ASSUME IInv, Run
  PROVE  Files' /\ since' \subseteq DOMAIN dir'
<1> DEFINE f == build_filename_stem(Combination, clock')
<1>1. CASE UNCHANGED <<dir, since>>
  BY <1>1 DEF IInv, Files, TypeOK
<1>2. ASSUME NEW x \in Contents(Combination), dir' = WithFile(f, x), since' = since \cup {f}
      PROVE  Files' /\ since' \subseteq DOMAIN dir'
  <2> HIDE DEF f
  <2>1. DOMAIN dir' = DOMAIN dir \cup {f} /\ dir'[f] = x
        /\ \A g \in DOMAIN dir : g # f => dir'[g] = dir[g]
    BY <1>2 DEF WithFile
  <2>2. Combination.payload_bytes \in Nat
    <3>1. /\ "payload_bytes" \in AxisSet /\ matrix \in Matrices
          /\ pos["payload_bytes"] \in DOMAIN matrix["payload_bytes"]
      BY AxisNames DEF IInv, TypeOK
    <3>2. matrix["payload_bytes"][pos["payload_bytes"]] \in ToSet(matrix["payload_bytes"])
      BY <3>1 DEF ToSet
    <3>3. matrix["payload_bytes"][pos["payload_bytes"]] \in Nat
      BY <3>1, <3>2, MatrixAssumption DEF MatrixAssumption
    <3> QED
      BY <3>1, <3>3 DEF Combination, CombinationAt
  <2>3. Combination # NoMeta
    BY MatrixAssumption DEF MatrixAssumption, IInv, TypeOK, InMatrix, Combination
  <2>4. /\ x.whole => x.meta # NoMeta
        /\ x.meta # NoMeta => x.meta.payload_bytes \in Nat
    BY <1>2, <2>2, <2>3 DEF Contents
  <2>5. ASSUME NEW g \in DOMAIN dir'
        PROVE  /\ dir'[g].whole => dir'[g].meta # NoMeta
               /\ dir'[g].meta # NoMeta => dir'[g].meta.payload_bytes \in Nat
    <3>1. CASE g = f
      BY <2>1, <2>4, <3>1
    <3>2. CASE g # f
      BY <2>1, <3>2 DEF IInv, Files
    <3> QED
      BY <3>1, <3>2
  <2>6. since' \subseteq DOMAIN dir'
    BY <1>2, <2>1 DEF IInv, TypeOK
  <2> QED
    BY <2>5, <2>6 DEF Files
<1> QED
  BY <1>1, <1>2 DEF Run

\* Every step: where the types follow.
LEMMA TypeFollows ==
  ASSUME InMatrix', Files', matrix' \in Matrices, clock' \in Nat, runs' \in 0 .. MaxRuns,
         set_back' \in 0 .. MaxSetBacks, since' \subseteq DOMAIN dir',
         stage' \in {"running", "plotting", "plotted", "failed"},
         plot' # NoPlot => stage' \in {"plotted", "failed"}
  PROVE  TypeOK'
<1>1. \A a \in AxisSet : pos'[a] \in DOMAIN matrix'[a]
  BY PositionsMean DEF InMatrix
<1>2. \A f \in DOMAIN dir' : dir'[f].whole => dir'[f].meta # NoMeta
  BY DEF Files
<1> QED
  BY <1>1, <1>2 DEF TypeOK

LEMMA PlotDraws ==
  ASSUME IInv, Plot
  PROVE  CompleteRunsPlotted'
<1> DEFINE Rows == {RowOf(f) : f \in Loadable}
<1>1. dir' = dir /\ plot' = [r \in Rows |-> {f \in Loadable : RowOf(f) = r}]
  BY DEF Plot
<1>2. DOMAIN plot' = Rows /\ \A r \in Rows : plot'[r] = {f \in Loadable : RowOf(f) = r}
  BY <1>1
<1>3. \A f \in Loadable : f \in DOMAIN dir /\ dir[f].meta # NoMeta /\ dir[f].meta.payload_bytes \in Nat
  BY DEF Loadable, Readable, IInv, Files
<1>4. {f \in DOMAIN dir : dir[f].whole /\ Entity \in dir[f].entities} \subseteq Drawn'
  <2>1. SUFFICES ASSUME NEW f \in DOMAIN dir, dir[f].whole, Entity \in dir[f].entities
                 PROVE  f \in Drawn'
    OBVIOUS
  <2>2. f \in Loadable
    BY <2>1 DEF Loadable, Readable, IInv, Files
  <2>3. RowOf(f) \in Rows
    BY <2>2
  <2>4. f \in plot'[RowOf(f)] /\ RowOf(f) \in DOMAIN plot'
    BY <1>2, <2>2, <2>3
  <2> QED
    BY <2>4 DEF Drawn
<1>5. \A r, s \in DOMAIN plot' : r # s => plot'[r] \cap plot'[s] = {}
  BY <1>2
<1>6. ASSUME NEW r \in DOMAIN plot', NEW f \in plot'[r], NEW g \in plot'[r]
      PROVE  LET c == dir[f].meta  d == dir[g].meta
             IN  /\ c.executor = d.executor
                 /\ \A a \in Scheme \ {"payload_bytes", "publish_mode"} : c[a] = d[a]
                 /\ "payload_bytes" \in Scheme => SamePayload(c.payload_bytes, d.payload_bytes)
  <2> DEFINE c == dir[f].meta  d == dir[g].meta
  <2>1. f \in Loadable /\ g \in Loadable /\ RowOf(f) = RowOf(g)
    BY <1>2, <1>6
  <2>2. label(f) = label(g) /\ c.executor = d.executor
    BY <2>1 DEF RowOf
  <2>3. c.payload_bytes \in Nat /\ d.payload_bytes \in Nat
    BY <1>3, <2>1
  <2>4. CASE Labelled = {}
    <3>1. f = g
      BY <2>2, <2>4 DEF label
    <3> QED
      BY <3>1 DEF SamePayload
  <2>5. CASE Labelled # {}
    <3>1. \A a \in Labelled :
            (IF a = "payload_bytes" THEN human_bytes(c[a]) ELSE c[a])
              = (IF a = "payload_bytes" THEN human_bytes(d[a]) ELSE d[a])
      <4>1. /\ \A a \in Labelled :
                 label(f)[a] = IF a = "payload_bytes" THEN human_bytes(c[a]) ELSE c[a]
            /\ \A a \in Labelled :
                 label(g)[a] = IF a = "payload_bytes" THEN human_bytes(d[a]) ELSE d[a]
        BY <2>5 DEF label
      <4> QED
        BY <2>2, <4>1
    <3> HIDE DEF c, d
    <3>2. \A a \in Scheme \ {"payload_bytes", "publish_mode"} : c[a] = d[a]
      BY <3>1 DEF Labelled
    <3>3. ASSUME "payload_bytes" \in Scheme
          PROVE  SamePayload(c.payload_bytes, d.payload_bytes)
      <4>1. human_bytes(c["payload_bytes"]) = human_bytes(d["payload_bytes"])
        BY <3>1, <3>3 DEF Labelled
      <4> QED
        BY <2>3, <4>1, SameLabel
    <3> QED
      BY <2>2, <3>2, <3>3 DEF c, d
  <2> QED
    BY <2>4, <2>5
<1> HIDE DEF Rows
<1> QED
  BY <1>1, <1>4, <1>5, <1>6 DEF CompleteRunsPlotted

LEMMA NextIInv == IInv /\ [Next]_vars => IInv'
<1> SUFFICES ASSUME IInv, [Next]_vars
             PROVE  IInv'
  OBVIOUS
<1>1. /\ matrix \in Matrices /\ clock \in Nat /\ runs \in 0 .. MaxRuns /\ MaxRuns \in Nat
      /\ set_back \in 0 .. MaxSetBacks /\ MaxSetBacks \in Nat /\ since \subseteq DOMAIN dir
      /\ stage \in {"running", "plotting", "plotted", "failed"}
      /\ plot # NoPlot => stage \in {"plotted", "failed"}
      /\ Files /\ InMatrix /\ Coverage /\ CompleteRunsPlotted
  BY MatrixAssumption DEF IInv, TypeOK, MatrixAssumption
<1>2. CASE Run
  <2>1. InMatrix' /\ Coverage' /\ Files' /\ since' \subseteq DOMAIN dir'
    BY <1>2, RunLaunches, RunWrites
  <2>2. /\ matrix' = matrix /\ plot' = plot /\ runs' = runs + 1 /\ runs < MaxRuns
        /\ set_back' = set_back /\ stage = "running" /\ stage' \in {"running", "plotting"}
    BY <1>2 DEF Run, NextCombination
  <2>3. clock' \in Nat /\ runs' \in 0 .. MaxRuns
    <3>1. PICK t \in RunTimes : clock' = clock + t
      BY <1>2 DEF Run
    <3>2. t \in Nat
      BY MatrixAssumption DEF MatrixAssumption
    <3> QED
      BY <1>1, <2>2, <3>1, <3>2
  <2>4. plot' = NoPlot
    BY <1>1, <2>2
  <2>5. TypeOK'
    BY <1>1, <2>1, <2>2, <2>3, <2>4, TypeFollows
  <2> QED
    BY <2>1, <2>4, <2>5, UnplottedStep DEF IInv
<1>3. CASE Refused \/ ServiceFails
  <2>1. stage = "running" /\ stage' = "failed"
        /\ UNCHANGED <<matrix, pos, clock, runs, set_back, since, launched, dir, plot>>
    BY <1>3 DEF Refused, ServiceFails
  <2>2. InMatrix' /\ Files' /\ Coverage'
    BY <1>1, <2>1 DEF InMatrix, Files, Coverage
  <2>3. plot' = NoPlot
    BY <1>1, <2>1
  <2>4. TypeOK'
    BY <1>1, <2>1, <2>2, <2>3, TypeFollows
  <2> QED
    BY <2>2, <2>3, <2>4, UnplottedStep DEF IInv
<1>4. CASE Plot \/ NothingToPlot
  <2>1. stage = "plotting" /\ stage' \in {"plotted", "failed"}
        /\ UNCHANGED <<matrix, pos, clock, runs, set_back, since, launched, dir>>
    BY <1>4 DEF Plot, NothingToPlot
  <2>2. InMatrix' /\ Files'
    BY <1>1, <2>1 DEF InMatrix, Files
  <2>3. Coverage'
    <3>1. Passed' = Passed
      BY <2>1 DEF Passed
    <3> QED
      BY <1>1, <2>1, <3>1 DEF Coverage
  <2>4. TypeOK'
    BY <1>1, <2>1, <2>2, TypeFollows
  <2>5. CompleteRunsPlotted'
    <3>1. CASE Plot
      BY <3>1, PlotDraws
    <3>2. CASE NothingToPlot
      <4>1. plot' = << >> /\ Loadable = {} /\ dir' = dir
        BY <3>2 DEF NothingToPlot
      <4>2. {f \in DOMAIN dir : dir[f].whole /\ Entity \in dir[f].entities} = {}
        BY <1>1, <4>1 DEF Loadable, Readable, Files
      <4> QED
        BY <4>1, <4>2 DEF CompleteRunsPlotted
    <3> QED
      BY <1>4, <3>1, <3>2
  <2> QED
    BY <2>2, <2>3, <2>4, <2>5 DEF IInv
<1>5. CASE Again
  <2>1. /\ matrix' \in Matrices /\ pos' = First /\ stage' = "running" /\ launched' = << >>
        /\ plot' = NoPlot /\ UNCHANGED <<clock, runs, set_back, since, dir>>
    BY <1>5 DEF Again
  <2>2. Listed(matrix')
    BY <2>1, MatricesAreListed
  <2>3. InMatrix'
    BY <2>1, <2>2, FirstIsPosition DEF InMatrix
  <2>4. Files'
    BY <1>1, <2>1 DEF Files
  <2>5. Coverage'
    <3>1. /\ ToSet(launched') = {} /\ launched' \in Seq(ToSet(launched'))
          /\ IsInjective(launched')
      BY <2>1 DEF ToSet, IsInjective
    <3>2. Passed' = {}
      BY <2>1, <2>2, NothingBeforeFirst DEF Passed
    <3> QED
      BY <3>1, <3>2 DEF Coverage
  <2>6. TypeOK'
    BY <1>1, <2>1, <2>3, <2>4, TypeFollows
  <2> QED
    BY <2>1, <2>3, <2>4, <2>5, <2>6, UnplottedStep DEF IInv
<1>6. CASE UNCHANGED vars
  <2>1. /\ TypeOK' /\ InMatrix' /\ Files' /\ CompleteRunsPlotted'
    BY <1>1, <1>6 DEF vars, IInv, TypeOK, InMatrix, Files, CompleteRunsPlotted, Drawn
  <2>2. Passed' = Passed
    BY <1>6 DEF vars, Passed
  <2>3. Coverage'
    BY <1>1, <1>6, <2>2 DEF vars, Coverage
  <2> QED
    BY <2>1, <2>3 DEF IInv
<1>7. CASE SetBack
  <2>1. /\ since' = {} /\ set_back' = set_back + 1 /\ set_back < MaxSetBacks
        /\ UNCHANGED <<matrix, pos, stage, runs, launched, dir, plot>>
    BY <1>7 DEF SetBack
  <2>2. clock' \in Nat /\ set_back' \in 0 .. MaxSetBacks
    <3>1. PICK t \in SetBacks : t <= clock /\ clock' = clock - t
      BY <1>7 DEF SetBack
    <3>2. t \in Nat
      BY MatrixAssumption DEF MatrixAssumption
    <3> QED
      BY <1>1, <2>1, <3>1, <3>2
  <2>3. InMatrix' /\ Files' /\ CompleteRunsPlotted'
    BY <1>1, <2>1 DEF InMatrix, Files, CompleteRunsPlotted, Drawn
  <2>4. Coverage'
    <3>1. Passed' = Passed
      BY <2>1 DEF Passed
    <3> QED
      BY <1>1, <2>1, <3>1 DEF Coverage
  <2>5. TypeOK'
    BY <1>1, <2>1, <2>2, <2>3, TypeFollows
  <2> QED
    BY <2>3, <2>4, <2>5 DEF IInv
<1> QED
  BY <1>2, <1>3, <1>4, <1>5, <1>6, <1>7 DEF Next

-----------------------------------------------------------------------------
(* The theorems.                                                           *)

\* The invariant: where the loops are, what they have launched, what the
\* files hold and what is drawn from them.
THEOREM Invariance == Spec => []IInv
<1>1. Init => IInv
  BY InitIInv
<1>2. IInv /\ [Next]_vars => IInv'
  BY NextIInv
<1> QED
  BY <1>1, <1>2, PTL DEF Spec

\* Every loop stays within the list of values of its axis.
THEOREM TypeCorrect == Spec => []TypeOK
<1>1. IInv => TypeOK
  BY DEF IInv
<1> QED
  BY <1>1, Invariance, PTL

LEMMA CoverageCovers == IInv => MatrixCovered
BY DEF IInv, Coverage, Passed, MatrixCovered, Distinct

(***************************************************************************)
(* Nothing is plotted before every combination of the axes has been run,   *)
(* and none runs twice if no axis lists a value twice.                     *)
(***************************************************************************)
THEOREM MatrixRun == Spec => []MatrixCovered
<1> QED
  BY CoverageCovers, Invariance, PTL

(***************************************************************************)
(* Every run that came to its end is drawn, and in one row, of runs that   *)
(* agree on the executor and the scheme.                                   *)
(***************************************************************************)
THEOREM RunsPlotted == Spec => []CompleteRunsPlotted
<1>1. IInv => CompleteRunsPlotted
  BY DEF IInv
<1> QED
  BY <1>1, Invariance, PTL

-----------------------------------------------------------------------------
(* The names of the files.                                                 *)

\* No launch takes less than a second until its file is named.
LongRuns == \A t \in RunTimes : t >= Second

\* Since the clock was last set back it has passed the seconds in the names.
StampsArePast ==
  /\ clock \in Nat
  /\ \A f \in since : f \in DOMAIN dir /\ f[2] \in Nat /\ f[2] <= timestamp_now(clock)

Kept == \A f \in since : f \in DOMAIN dir' /\ dir'[f] = dir[f]

LEMMA SecondsPass ==
  ASSUME NEW a \in Nat, NEW b \in Nat, NEW d \in Nat \ {0}, a + d <= b
  PROVE  a \div d \in Nat /\ b \div d \in Nat /\ a \div d < b \div d
<1> DEFINE q == a \div d  r == b \div d
<1>1. q \in Nat /\ r \in Nat /\ d * q <= a /\ b < d * (r + 1)
  OBVIOUS
<1> HIDE DEF q, r
<1>2. SUFFICES ASSUME r <= q PROVE FALSE
  BY <1>1 DEF q, r
<1>3. d * (q - r) \in Nat
  BY <1>1, <1>2
<1>4. d * (r + 1) = d * r + d /\ d * (q - r) = d * q - d * r /\ d * q \in Nat /\ d * r \in Nat
  BY <1>1
<1> QED
  BY <1>1, <1>3, <1>4

LEMMA InitStamps == Init => StampsArePast
BY DEF Init, StampsArePast

LEMMA RunKeeps ==
  ASSUME LongRuns, StampsArePast, Run
  PROVE  StampsArePast' /\ Kept
<1>1. PICK t \in RunTimes : clock' = clock + t
  BY DEF Run
<1>2. clock \in Nat /\ t \in Nat /\ Second \in Nat \ {0} /\ t >= Second
  BY MatrixAssumption DEF LongRuns, StampsArePast, MatrixAssumption
<1>3. clock' \in Nat /\ clock + Second <= clock'
  BY <1>1, <1>2
<1>4. /\ timestamp_now(clock) \in Nat /\ timestamp_now(clock') \in Nat
      /\ timestamp_now(clock) < timestamp_now(clock')
  BY <1>2, <1>3, SecondsPass DEF timestamp_now
<1>5. PICK f : f = build_filename_stem(Combination, clock')
  OBVIOUS
<1>6. f[2] = timestamp_now(clock')
  BY <1>5 DEF build_filename_stem
<1>7. \A g \in since : /\ g \in DOMAIN dir /\ g # f
                       /\ g[2] \in Nat /\ g[2] <= timestamp_now(clock')
  BY <1>4, <1>6 DEF StampsArePast
<1>8. timestamp_now(clock)' = timestamp_now(clock')
  BY DEF timestamp_now
<1>9. CASE UNCHANGED <<dir, since>>
  BY <1>3, <1>7, <1>8, <1>9 DEF StampsArePast, Kept
<1>10. ASSUME NEW x, dir' = WithFile(f, x), since' = since \cup {f}
       PROVE  StampsArePast' /\ Kept
  <2>1. DOMAIN dir' = DOMAIN dir \cup {f} /\ \A g \in DOMAIN dir : g # f => dir'[g] = dir[g]
    BY <1>10 DEF WithFile
  <2> QED
    BY <1>3, <1>4, <1>6, <1>7, <1>8, <1>10, <2>1 DEF StampsArePast, Kept
<1> QED
  BY <1>5, <1>9, <1>10 DEF Run

LEMMA StepKeeps ==
  ASSUME LongRuns
  PROVE  StampsArePast /\ [Next]_vars => StampsArePast' /\ Kept
<1> SUFFICES ASSUME StampsArePast, [Next]_vars
             PROVE  StampsArePast' /\ Kept
  OBVIOUS
<1>1. CASE Run
  BY <1>1, RunKeeps
<1>2. CASE Refused \/ ServiceFails \/ Plot \/ NothingToPlot \/ Again \/ UNCHANGED vars
  <2>1. UNCHANGED <<clock, since, dir>>
    BY <1>2 DEF Refused, ServiceFails, Plot, NothingToPlot, Again, vars
  <2> QED
    BY <2>1 DEF StampsArePast, Kept, timestamp_now
<1>3. CASE SetBack
  <2>1. since' = {} /\ dir' = dir
    BY <1>3 DEF SetBack
  <2>2. clock' \in Nat
    <3>1. PICK t \in SetBacks : t <= clock /\ clock' = clock - t
      BY <1>3 DEF SetBack
    <3>2. t \in Nat
      BY MatrixAssumption DEF MatrixAssumption
    <3> QED
      BY <3>1, <3>2 DEF StampsArePast
  <2> QED
    BY <2>1, <2>2 DEF StampsArePast, Kept
<1> QED
  BY <1>1, <1>2, <1>3 DEF Next

(***************************************************************************)
(* However many campaigns are run, a file written since the clock was last *)
(* set back is never replaced or changed by a run, if no run is shorter    *)
(* than a second: its name carries a second that is over when the next     *)
(* file is named.                                                          *)
(***************************************************************************)
THEOREM NothingOverwritten ==
  ASSUME LongRuns
  PROVE  Spec => ResultsKept
<1>1. Init => StampsArePast
  BY InitStamps
<1>2. StampsArePast /\ [Next]_vars => StampsArePast'
  BY StepKeeps
<1>3. StampsArePast /\ [Next]_vars => [Kept]_vars
  BY StepKeeps
<1>4. ResultsKept <=> [][Kept]_vars
  BY DEF ResultsKept, Kept
<1> QED
  BY <1>1, <1>2, <1>3, <1>4, PTL DEF Spec
=============================================================================
