----------------------------- MODULE SampleLog -----------------------------
(***************************************************************************)
(* What the recording side promises, stated without threads or buffers.    *)
(* A recorder keeps the first Size samples it is handed, in the order they *)
(* were handed over, and counts every later one as lost.  A sample is      *)
(* handed over at most once.  The report is made once, after which nothing *)
(* is recorded, and it holds exactly what was kept and what was lost.      *)
(***************************************************************************)
EXTENDS Naturals, Sequences

CONSTANTS Recorders,  \* the per-entity recorders of the run
          Calls,      \* the samples, one per callback execution
          Size,       \* samples a recorder keeps
          NoReport    \* value of report before the writer has made it

VARIABLES log,     \* what each recorder kept, in order
          lost,    \* how many samples each recorder turned away
          served,  \* samples handed over so far
          report   \* what the writer read, or NoReport

vars == <<log, lost, served, report>>

Init ==
  /\ log = [r \in Recorders |-> << >>]
  /\ lost = [r \in Recorders |-> 0]
  /\ served = {}
  /\ report = NoReport

HandOver(c) ==
  /\ report = NoReport
  /\ c \notin served
  /\ served' = served \cup {c}

Keep(r, c) ==
  /\ HandOver(c)
  /\ Len(log[r]) < Size
  /\ log' = [log EXCEPT ![r] = Append(@, c)]
  /\ UNCHANGED <<lost, report>>

Lose(r, c) ==
  /\ HandOver(c)
  /\ Len(log[r]) = Size
  /\ lost' = [lost EXCEPT ![r] = @ + 1]
  /\ UNCHANGED <<log, report>>

MakeReport ==
  /\ report = NoReport
  /\ report' = [r \in Recorders |-> [rows |-> log[r], lost |-> lost[r]]]
  /\ UNCHANGED <<log, lost, served>>

Next ==
  \/ \E r \in Recorders, c \in Calls : Keep(r, c) \/ Lose(r, c)
  \/ MakeReport

Spec == Init /\ [][Next]_vars
=============================================================================
