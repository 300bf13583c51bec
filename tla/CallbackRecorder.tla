-------------------------- MODULE CallbackRecorder --------------------------
(***************************************************************************)
(* The sample buffers of executor_comparison (callback_recorder.cpp) and   *)
(* the drain of them by the metrics writer (metrics_writer.cpp).           *)
(*                                                                         *)
(* Executor threads finish a callback by calling record() on the recorder  *)
(* of the entity they served.  record() is not one step: it claims an      *)
(* index with fetch_add, returns if the buffer is full, stores what it was *)
(* passed, obtains the dense id of its thread, and stores that.  Any       *)
(* number of threads can be anywhere inside it at once.                    *)
(*                                                                         *)
(* The four values passed to record() are one datum here, the callback     *)
(* execution ("call") they describe; entity_index and entity_type are      *)
(* constants of the recorder and are stored in the same step as the        *)
(* thread's slot.                                                          *)
(***************************************************************************)
EXTENDS Integers, Sequences, FiniteSets

CONSTANTS Threads,   \* threads of the executor under test
          Recorders, \* the registered recorders, one per subscription or timer
          Calls,     \* callback executions; each ends in one record() call
          Capacity,  \* the capacity argument of the constructor
          NoCall,    \* a slot or a thread that holds no call
          NoSlot,    \* a thread that has never recorded
          NoRun,     \* a call that has not happened
          NoJob,     \* a thread outside record()
          NoReport   \* the writer has not drained the registry yet

BufferSize == IF Capacity < 1 THEN 1 ELSE Capacity

Slots == 0 .. BufferSize - 1

\* A stored sample.
Row == [call : Calls \cup {NoCall}, thread_slot : Nat]

\* Where a thread is inside record(): it holds an index of a recorder.
Job == [step : {"args", "slot"}, rec : Recorders, idx : Slots, call : Calls]

\* Who ran a callback, and for which recorder.
Run == [thread : Threads, rec : Recorders]

ASSUME RecorderAssumption ==
  /\ Capacity \in Int
  /\ NoCall \notin Calls
  /\ NoSlot \notin Nat
  /\ NoRun \notin Run
  /\ NoJob \notin Job
  /\ NoReport \notin [Recorders -> [rows : Seq(Row), lost : Nat]]

VARIABLES write_index, \* write_index_ of each recorder
          buffer,      \* buffer_ of each recorder
          next_slot,   \* the static counter of thread_slot()
          slot_of,     \* the thread_local slot of each thread
          job,         \* where a thread is inside record()
          ran,         \* history: who ran each call, and for which recorder
          spinning,    \* the executor still dispatches callbacks
          report       \* what the writer read from the recorders

vars == <<write_index, buffer, next_slot, slot_of, job, ran, spinning, report>>

\* A value-initialised Sample: thread_slot is 0 before anyone stores it.
BlankSample == [call |-> NoCall, thread_slot |-> 0]

CallsOf(r) == {c \in Calls : ran[c] # NoRun /\ ran[c].rec = r}

recorded(r) == IF write_index[r] < BufferSize THEN write_index[r] ELSE BufferSize

overflowed(r) ==
  IF write_index[r] > BufferSize THEN write_index[r] - BufferSize ELSE 0

Init ==
  /\ write_index = [r \in Recorders |-> 0]
  /\ buffer = [r \in Recorders |-> [i \in Slots |-> BlankSample]]
  /\ next_slot = 0
  /\ slot_of = [t \in Threads |-> NoSlot]
  /\ job = [t \in Threads |-> NoJob]
  /\ ran = [c \in Calls |-> NoRun]
  /\ spinning = TRUE
  /\ report = NoReport

-----------------------------------------------------------------------------
(* Faulty variants of definitions below: the form a plausible slip in the  *)
(* code would take, and the property it must break.                        *)

\* TypeOK: the bound check lets one index past the end through.
FaultyInBounds(i) == i <= BufferSize

\* StoredRowsStable: the buffer is a ring that overwrites its oldest sample.
FaultyRing(r) == write_index[r] % BufferSize

\* EveryCallAccounted: a full buffer is noticed by a load before fetch_add,
\* so nothing counts the sample that is turned away.
FaultyOverflow(t, r, c) ==
  /\ spinning
  /\ job[t] = NoJob
  /\ ran[c] = NoRun
  /\ write_index[r] >= BufferSize
  /\ ran' = [ran EXCEPT ![c] = [thread |-> t, rec |-> r]]
  /\ UNCHANGED <<write_index, buffer, next_slot, slot_of, job, spinning, report>>

\* RowsTellThreadsApart: the id is read with a load instead of a fetch_add.
FaultyAssign(t) ==
  /\ job[t] # NoJob
  /\ job[t].step = "slot"
  /\ slot_of[t] = NoSlot
  /\ slot_of' = [slot_of EXCEPT ![t] = next_slot]
  /\ UNCHANGED <<write_index, buffer, next_slot, job, ran, spinning, report>>

\* WaitFree: a sample is only completed after every sample before it, as a
\* buffer with an in-order commit index would do.
FaultyInOrder(t) ==
  /\ job[t] # NoJob
  /\ job[t].step = "slot"
  /\ slot_of[t] # NoSlot
  /\ \A u \in Threads \ {t} :
       ~ (job[u] # NoJob /\ job[u].rec = job[t].rec /\ job[u].idx < job[t].idx)
  /\ buffer' = [buffer EXCEPT ![job[t].rec][job[t].idx].thread_slot = slot_of[t]]
  /\ job' = [job EXCEPT ![t] = NoJob]
  /\ UNCHANGED <<write_index, next_slot, slot_of, ran, spinning, report>>

\* ImplementsLog: the writer drains from a shutdown hook, while callbacks
\* that had started are still inside record().
FaultyDrain ==
  /\ ~ spinning
  /\ report = NoReport
  /\ report' = [r \in Recorders |->
       [rows |-> [k \in 1 .. recorded(r) |-> buffer[r][k - 1]],
        lost |-> overflowed(r)]]
  /\ UNCHANGED <<write_index, buffer, next_slot, slot_of, job, ran, spinning>>

-----------------------------------------------------------------------------
(* record(), one action per shared access.                                 *)

\* The index fetch_add returns.
ClaimIndex(r) == write_index[r]

InBounds(i) == i < BufferSize

\* A callback execution ends: it has not recorded before, and it runs on a
\* thread that is not inside another record() call.
CallbackEnds(t, r, c) ==
  /\ spinning
  /\ job[t] = NoJob
  /\ ran[c] = NoRun
  /\ ran' = [ran EXCEPT ![c] = [thread |-> t, rec |-> r]]
  /\ write_index' = [write_index EXCEPT ![r] = @ + 1]

Claim(t, r, c) ==
  /\ CallbackEnds(t, r, c)
  /\ InBounds(ClaimIndex(r))
  /\ job' = [job EXCEPT ![t] =
               [step |-> "args", rec |-> r, idx |-> ClaimIndex(r), call |-> c]]
  /\ UNCHANGED <<buffer, next_slot, slot_of, spinning, report>>

\* The early return: the buffer is full, overflowed() counts the sample.
Overflow(t, r, c) ==
  /\ CallbackEnds(t, r, c)
  /\ ~ InBounds(ClaimIndex(r))
  /\ UNCHANGED <<buffer, next_slot, slot_of, job, spinning, report>>

StoreArgs(t) ==
  /\ job[t] # NoJob
  /\ job[t].step = "args"
  /\ buffer' = [buffer EXCEPT ![job[t].rec][job[t].idx].call = job[t].call]
  /\ job' = [job EXCEPT ![t].step = "slot"]
  /\ UNCHANGED <<write_index, next_slot, slot_of, ran, spinning, report>>

\* First call of thread_slot() on this thread.
AssignThreadSlot(t) ==
  /\ job[t] # NoJob
  /\ job[t].step = "slot"
  /\ slot_of[t] = NoSlot
  /\ slot_of' = [slot_of EXCEPT ![t] = next_slot]
  /\ next_slot' = next_slot + 1
  /\ UNCHANGED <<write_index, buffer, job, ran, spinning, report>>

StoreSlot(t) ==
  /\ job[t] # NoJob
  /\ job[t].step = "slot"
  /\ slot_of[t] # NoSlot
  /\ buffer' = [buffer EXCEPT ![job[t].rec][job[t].idx].thread_slot = slot_of[t]]
  /\ job' = [job EXCEPT ![t] = NoJob]
  /\ UNCHANGED <<write_index, next_slot, slot_of, ran, spinning, report>>

-----------------------------------------------------------------------------
(* The end of the run.                                                     *)

\* spin() is cancelled: no further callback is started.  Callbacks that are
\* running carry on, spin() returns when their threads have been joined.
Cancel ==
  /\ spinning
  /\ spinning' = FALSE
  /\ UNCHANGED <<write_index, buffer, next_slot, slot_of, job, ran, report>>

SpinReturned == ~ spinning /\ \A t \in Threads : job[t] = NoJob

\* ~MetricsWriter(): read every recorder of the registry, once.
Drain ==
  /\ SpinReturned
  /\ report = NoReport
  /\ report' = [r \in Recorders |->
       [rows |-> [k \in 1 .. recorded(r) |-> buffer[r][k - 1]],
        lost |-> overflowed(r)]]
  /\ UNCHANGED <<write_index, buffer, next_slot, slot_of, job, ran, spinning>>

RecordStep(t) == StoreArgs(t) \/ AssignThreadSlot(t) \/ StoreSlot(t)

Next ==
  \/ \E t \in Threads, r \in Recorders, c \in Calls : Claim(t, r, c) \/ Overflow(t, r, c)
  \/ \E t \in Threads : RecordStep(t)
  \/ Cancel
  \/ Drain

Spec == Init /\ [][Next]_vars

\* Only one thread is promised to keep running; the others may stall for
\* ever, inside record() or out of it.
SteadyThread == CHOOSE t \in Threads : TRUE

OneThreadSpec == Spec /\ WF_vars(RecordStep(SteadyThread))

-----------------------------------------------------------------------------
TypeOK ==
  /\ write_index \in [Recorders -> Nat]
  /\ buffer \in [Recorders -> [Slots -> Row]]
  /\ next_slot \in Nat
  /\ slot_of \in [Threads -> Nat \cup {NoSlot}]
  /\ job \in [Threads -> Job \cup {NoJob}]
  /\ ran \in [Calls -> Run \cup {NoRun}]
  /\ spinning \in BOOLEAN
  /\ report \in [Recorders -> [rows : Seq(Row), lost : Nat]] \cup {NoReport}

\* Rows of recorder r in the report.
RowCount(r) == Len(report[r].rows)

(***************************************************************************)
(* The report accounts for every callback execution: the rows of an entity *)
(* describe different executions, all of that entity, and together with    *)
(* the overflow count they add up to the executions there were; nothing is *)
(* lost unless the buffer was full.  (record(), recorded(), overflowed():  *)
(* "Samples that arrived after the buffer filled up and were thrown away") *)
(***************************************************************************)
EveryCallAccounted ==
  report # NoReport =>
    \A r \in Recorders :
      LET rows == report[r].rows IN
      /\ \A k \in 1 .. RowCount(r) : rows[k].call \in CallsOf(r)
      /\ \A k, l \in 1 .. RowCount(r) : rows[k].call = rows[l].call => k = l
      /\ RowCount(r) + report[r].lost = Cardinality(CallsOf(r))
      /\ report[r].lost > 0 => RowCount(r) = BufferSize

(***************************************************************************)
(* Two rows of the report, of whatever entities, show the same thread slot *)
(* exactly when the same thread ran both callbacks.  (thread_slot(): "Lets *)
(* the CSV show how many executor threads actually served a given entity") *)
(***************************************************************************)
RowsTellThreadsApart ==
  report # NoReport =>
    \A r, s \in Recorders :
      \A k \in 1 .. RowCount(r), l \in 1 .. RowCount(s) :
        LET x == report[r].rows[k]
            y == report[s].rows[l]
        IN  x.thread_slot = y.thread_slot <=> ran[x.call].thread = ran[y.call].thread

(***************************************************************************)
(* A stored sample is never overwritten, by whichever thread: storage is   *)
(* preallocated and each index is handed out once (record()).              *)
(***************************************************************************)
StoredRowsStable ==
  [][\A r \in Recorders, i \in Slots :
       buffer[r][i].call # NoCall => buffer'[r][i].call = buffer[r][i].call]_vars

(***************************************************************************)
(* "Wait-free per-entity sample buffer": a thread that keeps running gets  *)
(* out of record() even if every other thread stalls half way through it.  *)
(***************************************************************************)
WaitFree == job[SteadyThread] # NoJob ~> job[SteadyThread] = NoJob

-----------------------------------------------------------------------------
(* The recorder implements SampleLog.  A sample joins the abstract log when *)
(* its index is claimed, before it is stored: until then the thread holds   *)
(* it.                                                                      *)

Filling(t, r, i) ==
  /\ job[t] # NoJob
  /\ job[t].step = "args"
  /\ job[t].rec = r
  /\ job[t].idx = i

CallAt(r, i) ==
  IF buffer[r][i].call # NoCall
  THEN buffer[r][i].call
  ELSE job[CHOOSE t \in Threads : Filling(t, r, i)].call

AbstractLog == [r \in Recorders |-> [k \in 1 .. recorded(r) |-> CallAt(r, k - 1)]]

AbstractReport ==
  IF report = NoReport
  THEN NoReport
  ELSE [r \in Recorders |->
         [rows |-> [k \in 1 .. Len(report[r].rows) |-> report[r].rows[k].call],
          lost |-> report[r].lost]]

Log == INSTANCE SampleLog WITH
         Size <- BufferSize,
         log <- AbstractLog,
         lost <- [r \in Recorders |-> overflowed(r)],
         served <- {c \in Calls : ran[c] # NoRun},
         report <- AbstractReport

\* Whatever the interleaving inside record(), the report is one that handing
\* over whole samples one at a time could have produced.
ImplementsLog == Log!Spec
=============================================================================
