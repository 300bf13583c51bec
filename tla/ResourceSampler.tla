--------------------------- MODULE ResourceSampler ---------------------------
(***************************************************************************)
(* The sampling thread of resource_sampler.cpp beside the threads it       *)
(* samples.  run() reads CPU ticks at every sample and, every few samples, *)
(* walks /proc/self/task and adds up the context switches of the threads   *)
(* it finds; stop() clears a flag and joins.  The walk reads one thread    *)
(* after another, and threads switch and exit while it does.               *)
(*                                                                         *)
(* External: the kernel's counters, and the workers, which are the threads *)
(* of the executor under test and end when spin() returns.  Voluntary and  *)
(* involuntary switches are treated alike and are one counter here, memory *)
(* figures are left out.                                                   *)
(***************************************************************************)
EXTENDS Integers, Sequences, FiniteSets

CONSTANTS Workers,      \* the threads of the process, the sampler's own apart
          Main,         \* the one of them that stops the sampler
          WalkEvery,    \* samples from one walk to the next (10 in the code)
          MaxSwitches,  \* bound: context switches of a worker
          MaxTicks,     \* bound: CPU ticks of the process
          MaxSamples    \* bound: samples taken

ASSUME SamplerAssumption ==
  /\ IsFiniteSet(Workers)
  /\ Main \in Workers
  /\ WalkEvery \in Nat \ {0}
  /\ MaxSwitches \in Nat
  /\ MaxTicks \in Nat
  /\ MaxSamples \in Nat

VARIABLES running,    \* running_
          owner,      \* where the thread that owns the sampler is
          pc,         \* where run() is
          todo,       \* threads the current walk has yet to read
          sum,        \* what the current walk has added up
          base, last, \* base_vol and last_vol
          base_u,     \* base_u, CPU ticks
          prev_u,     \* prev_u
          cpu_sum,    \* the ticks that went into cpu_sum
          n,          \* samples
          stats,      \* stats_, filled in when run() ends
          unborn,     \* workers that have not been created
          alive,      \* workers that were and have not exited
          switches,   \* context switches of each worker
          ticks,      \* CPU ticks of the process
          walks,      \* history: what each walk added up, the base first
          at_base,    \* history: the switches when the first walk opened, or none
          unopened,   \* history: some walk could not open the directory
          averaged    \* history: the CPU ticks that some sample averaged

reads == <<base, last, base_u, prev_u, cpu_sum, n, stats, at_base>>

process == <<unborn, alive, switches, ticks>>

history == <<walks, unopened, averaged>>

vars == <<running, owner, pc, todo, sum, reads, process, history>>

\* The switches of the threads S after their from-th up to their upto-th.
Switched(S, from, upto) == UNION {{w} \X (from[w] + 1 .. upto[w]) : w \in S}

NoStats == [written |-> FALSE, samples |-> 0, cpu |-> 0, switches |-> 0]

Init ==
  /\ running = FALSE
  /\ owner = "constructed"
  /\ pc = "none"
  /\ todo = {} /\ sum = 0
  /\ base = 0 /\ last = 0 /\ base_u = 0 /\ prev_u = 0 /\ cpu_sum = 0 /\ n = 0
  /\ stats = NoStats
  /\ unborn \in SUBSET (Workers \ {Main})
  /\ alive = Workers \ unborn
  /\ switches = [w \in Workers |-> 0]
  /\ ticks = 0
  /\ walks = << >>
  /\ at_base = [w \in Workers |-> 0]
  /\ unopened = FALSE
  /\ averaged = {}

-----------------------------------------------------------------------------
(* Faulty variants of definitions below.                                   *)

\* SwitchesWithinRun: the switches from before the sampler are reported too.
FaultyGained(l, b) == l

\* CpuTicksCountedOnce: prev_u keeps its first value.
FaultyCount ==
  /\ pc = "sleep"
  /\ n < MaxSamples
  /\ cpu_sum' = cpu_sum + (ticks - prev_u)
  /\ averaged' = averaged \cup (prev_u + 1 .. ticks)
  /\ n' = n + 1
  /\ pc' = IF (n + 1) % WalkEvery = 0 THEN "open" ELSE "loop"
  /\ UNCHANGED <<running, owner, todo, sum, base, last, base_u, prev_u, stats, at_base,
                 process, walks, unopened>>

\* StatsAreFinal: stop() clears the flag and does not wait.
FaultyJoin ==
  /\ owner = "stopping"
  /\ owner' = "stopped"
  /\ UNCHANGED <<running, pc, todo, sum, reads, process, history>>

\* StopReturns: a failed sample is retried without looking at the flag.
FaultySkip ==
  /\ pc = "sleep"
  /\ pc' = "sleep"
  /\ UNCHANGED <<running, owner, todo, sum, reads, process, history>>

\* SamplerTypeOK: the reported switches can wrap below zero.
FaultyDifference(l, b) == l - b

-----------------------------------------------------------------------------
(* start() and stop(), called by the writer.                               *)

start ==
  /\ owner = "constructed"
  /\ ~ running
  /\ running' = TRUE
  /\ owner' = "started"
  /\ pc' = "first_cpu"
  /\ UNCHANGED <<todo, sum, reads, process, history>>

\* The executor's threads have been joined by the time the writer goes.
stop ==
  /\ owner = "started"
  /\ alive = {Main}
  /\ running
  /\ running' = FALSE
  /\ owner' = "stopping"
  /\ UNCHANGED <<pc, todo, sum, reads, process, history>>

Join ==
  /\ owner = "stopping"
  /\ pc = "done"
  /\ owner' = "stopped"
  /\ UNCHANGED <<running, pc, todo, sum, reads, process, history>>

-----------------------------------------------------------------------------
(* run().                                                                  *)

\* A read of the ticks can fail; the baseline is then zero.
FirstCpu ==
  /\ pc = "first_cpu"
  /\ prev_u' \in {ticks, 0}
  /\ base_u' = prev_u'
  /\ pc' = "open"
  /\ UNCHANGED <<running, owner, todo, sum, base, last, cpu_sum, n, stats, at_base,
                 process, history>>

\* read_ctx_switches(): the sums start from zero, and stay there if the
\* directory cannot be opened.
OpenTasks ==
  /\ pc = "open"
  /\ sum' = 0
  /\ \/ /\ todo' = alive
        /\ at_base' = IF walks = << >> THEN switches ELSE at_base
        /\ UNCHANGED unopened
     \/ todo' = {} /\ unopened' = TRUE /\ UNCHANGED at_base
  /\ pc' = "walk"
  /\ UNCHANGED <<running, owner, base, last, base_u, prev_u, cpu_sum, n, stats,
                 process, walks, averaged>>

\* The status file of a thread, which may have exited since it was listed.
ReadStatus(w) ==
  /\ pc = "walk"
  /\ w \in todo
  /\ todo' = todo \ {w}
  /\ sum' = IF w \in alive THEN sum + switches[w] ELSE sum
  /\ UNCHANGED <<running, owner, pc, reads, process, history>>

EndWalk ==
  /\ pc = "walk"
  /\ todo = {}
  /\ base' = IF walks = << >> THEN sum ELSE base
  /\ last' = sum
  /\ walks' = Append(walks, sum)
  /\ pc' = "loop"
  /\ UNCHANGED <<running, owner, todo, sum, base_u, prev_u, cpu_sum, n, stats, at_base,
                 process, unopened, averaged>>

\* The condition of the loop; then the thread sleeps for a period.
Loop ==
  /\ pc = "loop"
  /\ pc' = IF running THEN "sleep" ELSE "final"
  /\ UNCHANGED <<running, owner, todo, sum, reads, process, history>>

\* The ticks could not be read, or no time has passed: continue.
Skip ==
  /\ pc = "sleep"
  /\ pc' = "loop"
  /\ UNCHANGED <<running, owner, todo, sum, reads, process, history>>

Count ==
  /\ pc = "sleep"
  /\ n < MaxSamples
  /\ cpu_sum' = cpu_sum + (ticks - prev_u)
  /\ averaged' = averaged \cup (prev_u + 1 .. ticks)
  /\ prev_u' = ticks
  /\ n' = n + 1
  /\ pc' = IF (n + 1) % WalkEvery = 0 THEN "open" ELSE "loop"
  /\ UNCHANGED <<running, owner, todo, sum, base, last, base_u, stats, at_base,
                 process, walks, unopened>>

Gained(l, b) == IF l > b THEN l - b ELSE 0

\* The last read of the ticks can fail like the others.
Final ==
  /\ pc = "final"
  /\ \E end_u \in {ticks, prev_u} :
       stats' = [written |-> TRUE, samples |-> n, cpu |-> end_u - base_u,
                 switches |-> Gained(last, base)]
  /\ pc' = "done"
  /\ UNCHANGED <<running, owner, todo, sum, base, last, base_u, prev_u, cpu_sum, n, at_base,
                 process, history>>

run ==
  \/ FirstCpu \/ OpenTasks \/ (\E w \in Workers : ReadStatus(w)) \/ EndWalk
  \/ Loop \/ Skip \/ Count \/ Final

-----------------------------------------------------------------------------
(* The process around the sampler.                                         *)

Switch(w) ==
  /\ w \in alive
  /\ switches[w] < MaxSwitches
  /\ switches' = [switches EXCEPT ![w] = @ + 1]
  /\ UNCHANGED <<running, owner, pc, todo, sum, reads, history, unborn, alive, ticks>>

\* An executor may create its threads when a node is loaded.
Spawn(w) ==
  /\ owner \in {"constructed", "started"}
  /\ w \in unborn
  /\ unborn' = unborn \ {w}
  /\ alive' = alive \cup {w}
  /\ UNCHANGED <<running, owner, pc, todo, sum, reads, history, switches, ticks>>

Exit(w) ==
  /\ w \in alive \ {Main}
  /\ alive' = alive \ {w}
  /\ UNCHANGED <<running, owner, pc, todo, sum, reads, history, unborn, switches, ticks>>

CpuTick ==
  /\ ticks < MaxTicks
  /\ ticks' = ticks + 1
  /\ UNCHANGED <<running, owner, pc, todo, sum, reads, history, unborn, alive, switches>>

Next ==
  \/ start \/ stop \/ Join
  \/ run
  \/ \E w \in Workers : Switch(w) \/ Spawn(w) \/ Exit(w)
  \/ CpuTick

Spec == Init /\ [][Next]_vars

\* Both threads are scheduled by the kernel: neither is passed over for ever.
FairSpec == Spec /\ WF_vars(run) /\ WF_vars(Join)

-----------------------------------------------------------------------------
SamplerTypeOK ==
  /\ running \in BOOLEAN
  /\ owner \in {"constructed", "started", "stopping", "stopped"}
  /\ pc \in {"none", "first_cpu", "open", "walk", "loop", "sleep", "final", "done"}
  /\ todo \subseteq Workers
  /\ sum \in Nat /\ base \in Nat /\ last \in Nat
  /\ base_u \in Nat /\ prev_u \in Nat /\ cpu_sum \in Nat /\ ticks \in Nat
  /\ n \in Nat
  /\ stats \in [written : BOOLEAN, samples : Nat, cpu : Nat, switches : Nat]
  /\ alive \subseteq Workers /\ unborn \subseteq Workers \ alive
  /\ switches \in [Workers -> Nat] /\ at_base \in [Workers -> Nat]
  /\ walks \in Seq(Nat)
  /\ unopened \in BOOLEAN
  /\ averaged \subseteq Nat

(***************************************************************************)
(* Once stop() has returned, run() has ended and the statistics it hands   *)
(* over are its last word: the writer reads them without a lock.           *)
(* (~MetricsWriter(), stop())                                              *)
(***************************************************************************)
StatsAreFinal == owner = "stopped" => stats.written /\ pc = "done"

(***************************************************************************)
(* However many samples fail or come too early, the samples that succeed   *)
(* leave out no tick between the baseline and the last of them, and take   *)
(* none twice.  The total at the end has these, and nothing from before    *)
(* the baseline; the ticks after the last sample are in it unless the last *)
(* read fails.  A baseline that could not be read is zero, and the ticks   *)
(* from before run() then count.  (run())                                  *)
(***************************************************************************)
CpuTicksCountedOnce ==
  /\ averaged = base_u + 1 .. prev_u
  /\ cpu_sum = Cardinality(averaged)
  /\ stats.written => stats.cpu \in cpu_sum .. ticks - base_u

(***************************************************************************)
(* The switches reported all happened after the first walk began, however  *)
(* threads switch, start or exit during a walk and whichever later walks   *)
(* fail; if the first one fails they are at least the process's.           *)
(* (read_ctx_switches(), the difference at the end of run())               *)
(***************************************************************************)
SwitchesWithinRun ==
  stats.written => stats.switches <= Cardinality(Switched(Workers, at_base, switches))

(***************************************************************************)
(* stop() returns: the sampling thread sees the flag and ends, whatever it *)
(* is doing when the flag is cleared.                                      *)
(***************************************************************************)
StopReturns == owner = "stopping" ~> owner = "stopped"

-----------------------------------------------------------------------------
(* What a comment says and the code does not do.                           *)

(***************************************************************************)
(* "these are monotonic counters ...  Sampled during the run because the   *)
(* worker threads are joined before this sampler is stopped - reading at   *)
(* the end would find them already gone": what a walk has found during the *)
(* run is in the report, if every walk could open its directory.           *)
(***************************************************************************)
WalkedSwitchesReported ==
  stats.written /\ ~ unopened =>
    \A k \in 1 .. Len(walks) : stats.switches >= walks[k] - base
=============================================================================
