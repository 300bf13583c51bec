---------------------------- MODULE RunLifecycle ----------------------------
(***************************************************************************)
(* One run of the container process, from main() to its exit:              *)
(* executor_container.cpp, the choice of executor_factory.cpp, the         *)
(* registry of callback_recorder.cpp and the life of the MetricsWriter.    *)
(*                                                                         *)
(* The launch file has the container load its components one by one, the   *)
(* writer last, while the executor spins.  The shutdown signal can come at *)
(* any time, between two loads or before the first.  When spin() returns,  *)
(* main() destroys the component manager and with it the components, in an *)
(* unspecified order; the writer's destructor writes the results.  A run   *)
(* that does not end in time is killed, wherever it is.                    *)
(*                                                                         *)
(* All recorders of a bench node are one here, identified with the node.   *)
(***************************************************************************)
EXTENDS Naturals, FiniteSets

CONSTANTS BenchNodes,  \* the bench nodes the launch file asks for
          Writer,      \* the metrics writer
          Names,       \* executor names, spelled with underscores
          Built,       \* the names this build can construct
          External,    \* the names driven by a container of their own
          MaxSamples   \* bound of the model: samples recorded per node

ASSUME LifecycleAssumption ==
  /\ Writer \notin BenchNodes
  /\ Built \cup External \subseteq Names
  /\ Built \cap External = {}
  /\ MaxSamples \in Nat

Components == BenchNodes \cup {Writer}

\* What --executor-type can be: a name, in one of two spellings.
Keys == [name : Names, dashed : BOOLEAN]

VARIABLES requested, \* the --executor-type of this run
          main,      \* where main() is
          code,      \* the exit code, 0 until main() returns another
          pending,   \* components still to be loaded
          loaded,    \* components that exist
          registry,  \* nodes whose recorders the registry holds
          samples,   \* samples recorded for each node
          signalled, \* SIGINT has arrived
          had_writer, \* history: the writer was constructed
          files,     \* the two CSV files
          report     \* the rows written for each node

vars == <<requested, main, code, pending, loaded, registry, samples, signalled,
          had_writer, files, report>>

Init ==
  /\ requested \in Keys
  /\ main = "parse"
  /\ code = 0
  /\ pending = Components
  /\ loaded = {}
  /\ registry = {}
  /\ samples = [n \in BenchNodes |-> 0]
  /\ signalled = FALSE
  /\ had_writer = FALSE
  /\ files = "none"
  /\ report = [n \in BenchNodes |-> 0]

-----------------------------------------------------------------------------
(* Faulty variants, each with the property it must break.                  *)

\* TypeOK: the writer's base class registers a recorder too.
FaultyRegisters(c) == {c}

\* ResultsComplete: the registry holds weak references.
FaultyRecorders == registry \cap loaded

\* NothingAfterDrain: the components are destroyed by a shutdown hook.
FaultyMayDestroy == main = "destroying" \/ (main = "spinning" /\ signalled)

\* EveryRunEnds: spin() is left only once everything has been loaded.
FaultySpinReturns ==
  /\ main = "spinning"
  /\ signalled
  /\ pending = {}
  /\ main' = "destroying"
  /\ UNCHANGED <<requested, code, pending, loaded, registry, samples, signalled,
                 had_writer, files, report>>

-----------------------------------------------------------------------------
(* main() up to spin().                                                    *)

available_executors == Built \cup External

Normalised(key) == [key EXCEPT !.dashed = FALSE]

\* The key resolves, in either spelling, if the build lists it.
canonical_key(key) == {n \in available_executors : Normalised(key) = [name |-> n, dashed |-> FALSE]}

\* make_executor() constructs what it is compiled with and throws otherwise.
Constructible(key) == canonical_key(key) \cap Built # {}

\* An unknown key and an external container both end main() with 2.
Reject ==
  /\ main = "parse"
  /\ ~ Constructible(requested)
  /\ main' = "exited"
  /\ code' = 2
  /\ UNCHANGED <<requested, pending, loaded, registry, samples, signalled,
                 had_writer, files, report>>

Spin ==
  /\ main = "parse"
  /\ Constructible(requested)
  /\ main' = "spinning"
  /\ UNCHANGED <<requested, code, pending, loaded, registry, samples, signalled,
                 had_writer, files, report>>

-----------------------------------------------------------------------------
(* While the executor spins.                                               *)

\* The recorders a constructor adds to the registry.
Registers(c) == {c} \ {Writer}

\* The launch file loads the writer after the bench nodes.
NextToLoad(c) == c \in pending /\ (c = Writer => pending = {Writer})

Load(c) ==
  /\ main = "spinning"
  /\ NextToLoad(c)
  /\ pending' = pending \ {c}
  /\ loaded' = loaded \cup {c}
  /\ registry' = registry \cup Registers(c)
  /\ had_writer' = (had_writer \/ c = Writer)
  /\ UNCHANGED <<requested, main, code, samples, signalled, files, report>>

\* A constructor throws, before or after it added its recorders.
LoadFails(c) ==
  /\ main = "spinning"
  /\ NextToLoad(c)
  /\ pending' = pending \ {c}
  /\ registry' \in {registry, registry \cup Registers(c)}
  /\ UNCHANGED <<requested, main, code, loaded, samples, signalled,
                 had_writer, files, report>>

\* A callback of a bench node ends, up to the end of spin().
Record(n) ==
  /\ main = "spinning"
  /\ n \in loaded
  /\ samples[n] < MaxSamples
  /\ samples' = [samples EXCEPT ![n] = @ + 1]
  /\ UNCHANGED <<requested, main, code, pending, loaded, registry, signalled,
                 had_writer, files, report>>

\* The launch file's shutdown timer.
Signal ==
  /\ main # "exited"
  /\ ~ signalled
  /\ signalled' = TRUE
  /\ UNCHANGED <<requested, main, code, pending, loaded, registry, samples,
                 had_writer, files, report>>

-----------------------------------------------------------------------------
(* The end of main().                                                      *)

SpinReturns ==
  /\ main = "spinning"
  /\ signalled
  /\ main' = "destroying"
  /\ UNCHANGED <<requested, code, pending, loaded, registry, samples, signalled,
                 had_writer, files, report>>

MayDestroy == main = "destroying"

DestroyBenchNode(n) ==
  /\ MayDestroy
  /\ files # "open"
  /\ n \in loaded
  /\ loaded' = loaded \ {n}
  /\ UNCHANGED <<requested, main, code, pending, registry, samples, signalled,
                 had_writer, files, report>>

\* What MetricsRegistry::recorders() returns.
recorders == registry

\* ~MetricsWriter() with an empty registry only warns.
NothingToWrite ==
  /\ MayDestroy
  /\ Writer \in loaded
  /\ files = "none"
  /\ recorders = {}
  /\ loaded' = loaded \ {Writer}
  /\ UNCHANGED <<requested, main, code, pending, registry, samples, signalled,
                 had_writer, files, report>>

\* Both files are opened and every recorder is read.
OpenFiles ==
  /\ MayDestroy
  /\ Writer \in loaded
  /\ files = "none"
  /\ recorders # {}
  /\ files' = "open"
  /\ report' = [n \in BenchNodes |-> IF n \in recorders THEN samples[n] ELSE 0]
  /\ UNCHANGED <<requested, main, code, pending, loaded, registry, samples, signalled,
                 had_writer>>

\* The files are closed; until then any part of them may be on disk.
CloseFiles ==
  /\ files = "open"
  /\ main # "exited"
  /\ files' = "closed"
  /\ loaded' = loaded \ {Writer}
  /\ UNCHANGED <<requested, main, code, pending, registry, samples, signalled,
                 had_writer, report>>

Exit ==
  /\ main = "destroying"
  /\ loaded = {}
  /\ main' = "exited"
  /\ UNCHANGED <<requested, code, pending, loaded, registry, samples, signalled,
                 had_writer, files, report>>

\* The escalation to SIGKILL, after the shutdown signal.
Kill ==
  /\ signalled
  /\ main # "exited"
  /\ main' = "exited"
  /\ code' = 137
  /\ UNCHANGED <<requested, pending, loaded, registry, samples, signalled,
                 had_writer, files, report>>

-----------------------------------------------------------------------------
MainStep ==
  \/ Reject \/ Spin \/ SpinReturns \/ NothingToWrite \/ OpenFiles \/ CloseFiles \/ Exit
  \/ \E n \in BenchNodes : DestroyBenchNode(n)

Next ==
  \/ MainStep
  \/ \E c \in Components : Load(c) \/ LoadFails(c)
  \/ \E n \in BenchNodes : Record(n)
  \/ Signal
  \/ Kill

Spec == Init /\ [][Next]_vars

\* main() keeps running and the shutdown timer fires.  Nothing is promised
\* of the loads, of the callbacks or of the escalation.
FairSpec == Spec /\ WF_vars(MainStep) /\ WF_vars(Signal)

-----------------------------------------------------------------------------
TypeOK ==
  /\ requested \in Keys
  /\ main \in {"parse", "spinning", "destroying", "exited"}
  /\ code \in {0, 2, 137}
  /\ pending \subseteq Components
  /\ loaded \subseteq Components \ pending
  /\ registry \subseteq BenchNodes
  /\ samples \in [BenchNodes -> 0 .. MaxSamples]
  /\ signalled \in BOOLEAN
  /\ had_writer \in BOOLEAN
  /\ files \in {"none", "open", "closed"}
  /\ report \in [BenchNodes -> 0 .. MaxSamples]

(***************************************************************************)
(* Files that were closed hold every sample that was recorded, also of     *)
(* nodes destroyed before the writer and of loads that came late; and a    *)
(* run that ends by itself with a writer leaves such files if there was    *)
(* anything to write.  ("they survive regardless of which component is     *)
(* destroyed first")                                                       *)
(***************************************************************************)
ResultsComplete ==
  /\ files = "closed" => report = samples
  /\ main = "exited" /\ code = 0 /\ had_writer /\ (\E n \in BenchNodes : samples[n] > 0)
       => files = "closed"

(***************************************************************************)
(* Nothing is recorded any more once the writer has begun to read: the     *)
(* components are destroyed after spin() has returned.                     *)
(***************************************************************************)
NothingAfterDrain == [][files # "none" => samples' = samples]_vars

(***************************************************************************)
(* A run ends by itself after the shutdown timer, whatever has been loaded *)
(* by then and whichever loads never come.                                 *)
(***************************************************************************)
EveryRunEnds == <>(main = "exited")
=============================================================================
