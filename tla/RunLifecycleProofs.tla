------------------------- MODULE RunLifecycleProofs -------------------------
(***************************************************************************)
(* The safety properties of RunLifecycle, for every set of bench nodes and *)
(* executors and any number of samples.                                    *)
(***************************************************************************)
EXTENDS RunLifecycle, TLAPS

\* Samples belong to registered nodes, and the registry outlives the nodes.
Registered ==
  /\ loaded \ {Writer} \subseteq registry
  /\ \A n \in BenchNodes : samples[n] > 0 => n \in registry

\* While the files are open or closed nothing moves, and they hold it all.
FilesCopied ==
  files # "none" => main \in {"destroying", "exited"} /\ report = samples

\* The writer exists from its load to the end of its destructor, which has
\* closed the files unless the registry was empty.
WriterDone ==
  /\ files = "open" => Writer \in loaded
  /\ Writer \in loaded => had_writer
  /\ had_writer /\ Writer \notin loaded =>
       /\ main \in {"destroying", "exited"}
       /\ files = "closed" \/ registry = {}

\* main() returns with 0 only when everything has been destroyed.
AllDestroyed == main = "exited" /\ code = 0 => loaded = {}

IInv == TypeOK /\ Registered /\ FilesCopied /\ WriterDone /\ AllDestroyed

-----------------------------------------------------------------------------
(* The inductive invariant holds initially and is kept by every step.      *)

LEMMA InitIInv == Init => IInv
<1> USE LifecycleAssumption DEF LifecycleAssumption
<1> SUFFICES ASSUME Init PROVE IInv
    OBVIOUS
<1>1. TypeOK
  <2>1. samples \in [BenchNodes -> 0 .. MaxSamples] /\ report \in [BenchNodes -> 0 .. MaxSamples]
      BY DEF Init
  <2> QED BY <2>1 DEF Init, TypeOK
<1>2. Registered /\ FilesCopied /\ WriterDone /\ AllDestroyed
    BY DEF Init, Registered, FilesCopied, WriterDone, AllDestroyed
<1> QED BY <1>1, <1>2 DEF IInv

LEMMA NextIInv == IInv /\ [Next]_vars => IInv'
<1> USE LifecycleAssumption DEF LifecycleAssumption
<1> SUFFICES ASSUME IInv, [Next]_vars PROVE IInv'
    OBVIOUS
<1> USE DEF IInv, TypeOK, Registered, FilesCopied, WriterDone, AllDestroyed
<1>1. CASE Reject
    BY <1>1 DEF Reject
<1>2. CASE Spin
    BY <1>2 DEF Spin
<1>3. CASE SpinReturns
    BY <1>3 DEF SpinReturns
<1>4. CASE NothingToWrite
    BY <1>4 DEF NothingToWrite, MayDestroy, recorders
<1>5. CASE OpenFiles
  <2>1. report' = samples
      BY <1>5 DEF OpenFiles, recorders
  <2> QED BY <1>5, <2>1 DEF OpenFiles, MayDestroy, recorders
<1>6. CASE CloseFiles
    BY <1>6 DEF CloseFiles
<1>7. CASE Exit
    BY <1>7 DEF Exit
<1>8. ASSUME NEW n \in BenchNodes, DestroyBenchNode(n) PROVE IInv'
    BY <1>8 DEF DestroyBenchNode, MayDestroy
<1>9. ASSUME NEW c \in Components, Load(c) PROVE IInv'
    BY <1>9, ZenonT(40) DEF Load, NextToLoad, Registers, Components
<1>10. ASSUME NEW c \in Components, LoadFails(c) PROVE IInv'
    BY <1>10 DEF LoadFails, NextToLoad, Registers, Components
<1>11. ASSUME NEW n \in BenchNodes, Record(n) PROVE IInv'
    BY <1>11 DEF Record, Components
<1>12. CASE Signal
    BY <1>12 DEF Signal
<1>13. CASE Kill
    BY <1>13 DEF Kill
<1>14. CASE UNCHANGED vars
    BY <1>14 DEF vars
<1> QED
    BY <1>1, <1>2, <1>3, <1>4, <1>5, <1>6, <1>7, <1>8, <1>9, <1>10, <1>11, <1>12, <1>13, <1>14
    DEF Next, MainStep

-----------------------------------------------------------------------------
(* The theorems.                                                           *)

(***************************************************************************)
(* The inductive invariant holds in every reachable state.                 *)
(***************************************************************************)
THEOREM Invariance == Spec => []IInv
BY InitIInv, NextIInv, PTL DEF Spec

(***************************************************************************)
(* main(), its components, the registry and the files stay well typed, and *)
(* no component is both pending and loaded.                                *)
(***************************************************************************)
THEOREM TypeCorrect == Spec => []TypeOK
<1>1. IInv => TypeOK
    BY DEF IInv
<1> QED BY <1>1, Invariance, PTL

(***************************************************************************)
(* Whatever was loaded when, destroyed in which order or failed to load,   *)
(* closed files hold every sample, and a run with a writer and with        *)
(* samples that ends by itself has closed them.                            *)
(***************************************************************************)
THEOREM CompleteResults == Spec => []ResultsComplete
<1>1. IInv => ResultsComplete
    BY DEF IInv, FilesCopied, WriterDone, AllDestroyed, Registered, ResultsComplete
<1> QED BY <1>1, Invariance, PTL

(***************************************************************************)
(* No step records a sample once the writer has begun to read.             *)
(***************************************************************************)
THEOREM DrainIsLast == Spec => NothingAfterDrain
<1>1. IInv /\ [Next]_vars => [files # "none" => samples' = samples]_vars
  <2> SUFFICES ASSUME IInv, [Next]_vars, files # "none" PROVE samples' = samples
      OBVIOUS
  <2>1. main # "spinning"
      BY DEF IInv, FilesCopied
  <2> QED BY <2>1 DEF Next, MainStep, Reject, Spin, SpinReturns, NothingToWrite, OpenFiles,
                      CloseFiles, Exit, DestroyBenchNode, Load, LoadFails, Record, Signal,
                      Kill, vars
<1> QED BY <1>1, Invariance, PTL DEF Spec, NothingAfterDrain
=============================================================================
