------------------------------ MODULE RunMatrix ------------------------------
(***************************************************************************)
(* A campaign: run_all.sh runs every combination of its axes, one after    *)
(* the other, and then the plots are drawn from every CSV in the results   *)
(* directory (plot_executors.py), those of earlier campaigns included.     *)
(*                                                                         *)
(* What a run leaves behind is a file, named by build_filename_stem(): a   *)
(* whole one, or, if the process was killed, nothing, an empty file or a   *)
(* header with some of the rows, because the stream buffer is larger than  *)
(* the header.  Launching does not fail when a process it has started      *)
(* dies; it fails when the launch file refuses its arguments or docker     *)
(* fails, and under "set -e" that ends the script.  The arguments that are *)
(* the same in a whole campaign are in Fixed.                              *)
(*                                                                         *)
(* Files are named after the wall clock, to the second.  It runs in ticks  *)
(* of 1/Second s, may be set back at any time, and knows nothing of runs.  *)
(***************************************************************************)
EXTENDS LaunchArguments, SequencesExt

CONSTANTS Matrices, \* the matrices to run: for each axis its list of values
          Fixed,    \* the arguments that are no axis
          Scheme,   \* the axes named by MATRIX_PLOT_GROUPBY
          Entity,   \* the callbacks to plot
          MaxRuns,  \* bound: runs over all campaigns
          Second,   \* ticks per second
          RunTimes, \* ticks a launch may take until its file is named
          SetBacks, \* ticks the clock may be set back by
          MaxSetBacks, \* bound: times it is set back
          NoMeta,   \* a file without a header
          NoPlot    \* no plot has been drawn in this campaign

\* From the outermost loop to the innermost.
Axes == <<"executor", "num_subscriptions", "num_timers", "num_nodes", "num_threads",
          "callback_group", "callback_work_us", "payload_bytes", "publish_mode", "use_ipc">>

AxisSet == ToSet(Axes)

\* Where the loops over a matrix can be, and the combination they run there.
Positions(m) ==
  [executor : DOMAIN m.executor, num_subscriptions : DOMAIN m.num_subscriptions,
   num_timers : DOMAIN m.num_timers, num_nodes : DOMAIN m.num_nodes,
   num_threads : DOMAIN m.num_threads, callback_group : DOMAIN m.callback_group,
   callback_work_us : DOMAIN m.callback_work_us, payload_bytes : DOMAIN m.payload_bytes,
   publish_mode : DOMAIN m.publish_mode, use_ipc : DOMAIN m.use_ipc]

CombinationAt(m, p) == [a \in AxisSet |-> m[a][p[a]]]

ASSUME MatrixAssumption ==
  /\ \A m \in Matrices :
       /\ \A a \in AxisSet : m[a] # << >> /\ m[a] \in Seq(ToSet(m[a]))
       /\ ToSet(m.payload_bytes) \subseteq Nat
       /\ \A p \in Positions(m) : CombinationAt(m, p) # NoMeta
  /\ Scheme \subseteq AxisSet
  /\ MaxRuns \in Nat
  /\ Second \in Nat \ {0}
  /\ RunTimes \subseteq Nat
  /\ SetBacks \subseteq Nat
  /\ MaxSetBacks \in Nat

VARIABLES matrix,   \* the matrix of this campaign
          pos,      \* which value each loop is at
          stage,    \* of the script: running, plotting, plotted or failed
          clock,    \* the local time of the host, in ticks
          runs,     \* runs launched so far, in all campaigns
          set_back, \* times the clock has been set back
          since,    \* history: files written since it was last set back
          launched, \* history: the combinations this campaign has launched
          dir,      \* the results directory, a function from names to contents
          plot      \* which files are drawn in which row

vars == <<matrix, pos, stage, clock, runs, set_back, since, launched, dir, plot>>

First == [a \in AxisSet |-> 1]

Init ==
  /\ matrix \in Matrices
  /\ pos = First
  /\ stage = "running"
  /\ clock = 0
  /\ runs = 0
  /\ set_back = 0
  /\ since = {}
  /\ launched = << >>
  /\ dir = << >>
  /\ plot = NoPlot

-----------------------------------------------------------------------------
(* Faulty variants, each with the property it must break.                  *)

\* TypeOK: a loop is entered once more after its last value.
FaultyMore(j) == pos[Axes[j]] <= Len(matrix[Axes[j]])

\* MatrixCovered: the inner loops go on where they were.
FaultyRestart(a) == pos[a]

\* ResultsKept: the time in the name has no seconds.
FaultyTimestamp(t) == t \div (60 * Second)

\* CompleteRunsPlotted: a file without a header ends the collection.
FaultyReadable(f) == \A g \in DOMAIN dir : dir[g].meta # NoMeta

-----------------------------------------------------------------------------
(* The nested loops.                                                       *)

Combination == CombinationAt(matrix, pos)

\* Loop j has values left.
More(j) == pos[Axes[j]] < Len(matrix[Axes[j]])

Restart(a) == 1

\* The innermost loop with values left goes on; the loops inside it restart.
Successor ==
  LET j == Max({k \in DOMAIN Axes : More(k)})
      Depth(a) == CHOOSE k \in DOMAIN Axes : Axes[k] = a
  IN  [a \in AxisSet |-> CASE Depth(a) < j -> pos[a]
                           [] Depth(a) = j -> pos[a] + 1
                           [] OTHER -> Restart(a)]

NextCombination ==
  IF \E k \in DOMAIN Axes : More(k)
  THEN pos' = Successor /\ UNCHANGED stage
  ELSE stage' = "plotting" /\ UNCHANGED pos

-----------------------------------------------------------------------------
(* One run.                                                                *)

\* The second at time t.
timestamp_now(t) == t \div Second

\* Mode, generator, timer period and duration are not in the name.
build_filename_stem(c, t) ==
  <<[a \in AxisSet \ {"publish_mode"} |-> c[a]], timestamp_now(t)>>

\* The types of entity a run can have rows of.
Measured(c) ==
  (IF c.num_subscriptions > 0 THEN {"subscription"} ELSE {})
    \cup (IF c.num_timers > 0 THEN {"timer"} ELSE {})

\* What a run can leave in its file.
Contents(c) ==
  [meta : {c}, entities : SUBSET Measured(c), whole : BOOLEAN]
    \cup {[meta |-> NoMeta, entities |-> {}, whole |-> FALSE]}

\* Opening a file replaces one of the same name.
WithFile(f, x) == [g \in DOMAIN dir \cup {f} |-> IF g = f THEN x ELSE dir[g]]

\* The launch comes back, with or without a file.
Run ==
  /\ stage = "running"
  /\ runs < MaxRuns
  /\ Accepted(Combination @@ Fixed)
  /\ \E t \in RunTimes : clock' = clock + t
  /\ LET f == build_filename_stem(Combination, clock')
     IN  \/ /\ \E x \in Contents(Combination) : dir' = WithFile(f, x)
            /\ since' = since \cup {f}
         \/ UNCHANGED <<dir, since>>
  /\ launched' = Append(launched, Combination)
  /\ runs' = runs + 1
  /\ NextCombination
  /\ UNCHANGED <<matrix, set_back, plot>>

\* The launch file raises an error before anything is started.
Refused ==
  /\ stage = "running"
  /\ ~ Accepted(Combination @@ Fixed)
  /\ stage' = "failed"
  /\ UNCHANGED <<matrix, pos, clock, runs, set_back, since, launched, dir, plot>>

\* docker cannot build or start the service.
ServiceFails ==
  /\ stage = "running"
  /\ stage' = "failed"
  /\ UNCHANGED <<matrix, pos, clock, runs, set_back, since, launched, dir, plot>>

-----------------------------------------------------------------------------
(* The plots.                                                              *)

\* _load_csv(): a file with a header and rows of the entity.
Readable(f) == dir[f].meta # NoMeta

Loadable == {f \in DOMAIN dir : Readable(f) /\ Entity \in dir[f].entities}

KB == 1024
MB == 1048576
GB == 1073741824

human_bytes(n) ==
  CASE n < KB -> <<n, "B">>
    [] n \in KB .. MB - 1 -> <<n \div KB, "KB">>
    [] n \in MB .. GB - 1 -> <<n \div MB, "MB">>
    [] n >= GB /\ n \div GB < KB -> <<n \div GB, "GB">>
    [] OTHER -> <<(n \div GB) \div KB, "TB">>

\* There is no label for the publish mode, and without any label each file is
\* a row of its own.
Labelled == Scheme \ {"publish_mode"}

label(f) ==
  IF Labelled = {} THEN <<f>>
  ELSE LET c == dir[f].meta
       IN  [a \in Labelled |-> IF a = "payload_bytes" THEN human_bytes(c[a]) ELSE c[a]]

RowOf(f) == <<label(f), dir[f].meta.executor>>

Plot ==
  /\ stage = "plotting"
  /\ Loadable # {}
  /\ plot' = [r \in {RowOf(f) : f \in Loadable} |-> {f \in Loadable : RowOf(f) = r}]
  /\ stage' = "plotted"
  /\ UNCHANGED <<matrix, pos, clock, runs, set_back, since, launched, dir>>

\* Without a file to draw the plots exit with an error, and so does the script.
NothingToPlot ==
  /\ stage = "plotting"
  /\ Loadable = {}
  /\ plot' = << >>
  /\ stage' = "failed"
  /\ UNCHANGED <<matrix, pos, clock, runs, set_back, since, launched, dir>>

\* The script is started again, on the same directory.
Again ==
  /\ stage \in {"plotted", "failed"}
  /\ runs < MaxRuns
  /\ matrix' \in Matrices
  /\ pos' = First
  /\ stage' = "running"
  /\ launched' = << >>
  /\ plot' = NoPlot
  /\ UNCHANGED <<clock, runs, set_back, since, dir>>

\* The clock of the host is corrected, or the hour at the end of summer time
\* comes round again.
SetBack ==
  /\ set_back < MaxSetBacks
  /\ \E t \in SetBacks : t <= clock /\ clock' = clock - t
  /\ set_back' = set_back + 1
  /\ since' = {}
  /\ UNCHANGED <<matrix, pos, stage, runs, launched, dir, plot>>

Next == Run \/ Refused \/ ServiceFails \/ Plot \/ NothingToPlot \/ Again \/ SetBack

Spec == Init /\ [][Next]_vars

-----------------------------------------------------------------------------
TypeOK ==
  /\ matrix \in Matrices
  /\ \A a \in AxisSet : pos[a] \in DOMAIN matrix[a]
  /\ stage \in {"running", "plotting", "plotted", "failed"}
  /\ clock \in Nat
  /\ runs \in 0 .. MaxRuns
  /\ set_back \in 0 .. MaxSetBacks
  /\ since \subseteq DOMAIN dir
  /\ \A f \in DOMAIN dir : dir[f].whole => dir[f].meta # NoMeta
  /\ plot # NoPlot => stage \in {"plotted", "failed"}

(***************************************************************************)
(* Plots are drawn only when every combination of the axes has been run,   *)
(* and each of them once if no axis lists a value twice: a failing run     *)
(* ends the script before, and no loop skips or repeats values.  ("Runs    *)
(* the full cartesian product [...] and then invokes the plot container")  *)
(***************************************************************************)
MatrixCovered ==
  stage \in {"plotting", "plotted"} =>
    /\ ToSet(launched) = {CombinationAt(matrix, p) : p \in Positions(matrix)}
    /\ (\A a \in AxisSet : IsInjective(matrix[a])) => IsInjective(launched)

(***************************************************************************)
(* As long as the clock is not set back, no run overwrites the results of  *)
(* another one, of this campaign or an earlier one, although the name of a *)
(* file tells runs that differ in the publish mode only, or not at all,    *)
(* apart by nothing but the second.                                        *)
(***************************************************************************)
ResultsKept ==
  [][\A f \in since : f \in DOMAIN dir' /\ dir'[f] = dir[f]]_vars

\* As far apart as payloads with one label may be.
SamePayload(n, o) ==
  \/ n = o
  \/ n >= KB /\ n - o \in 1 - KB .. KB - 1
  \/ n >= MB /\ n < 2 * o /\ o < 2 * n

Drawn == UNION {plot[r] : r \in DOMAIN plot}

(***************************************************************************)
(* Every run that came to its end with callbacks of the plotted kind is    *)
(* drawn, and in one row only, next to whatever killed runs have left in   *)
(* the directory; and a row holds runs of one executor that agree on the   *)
(* axes of the scheme, payloads of a kilobyte and more to the kilobyte and *)
(* those of a megabyte and more to a factor of two.                        *)
(***************************************************************************)
CompleteRunsPlotted ==
  plot # NoPlot =>
    /\ {f \in DOMAIN dir : dir[f].whole /\ Entity \in dir[f].entities} \subseteq Drawn
    /\ \A r, s \in DOMAIN plot : r # s => plot[r] \cap plot[s] = {}
    /\ \A r \in DOMAIN plot : \A f, g \in plot[r] :
         LET c == dir[f].meta  d == dir[g].meta
         IN  /\ c.executor = d.executor
             /\ \A a \in Scheme \ {"payload_bytes", "publish_mode"} : c[a] = d[a]
             /\ "payload_bytes" \in Scheme => SamePayload(c.payload_bytes, d.payload_bytes)
=============================================================================
