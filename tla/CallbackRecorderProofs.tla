----------------------- MODULE CallbackRecorderProofs -----------------------
(***************************************************************************)
(* Proofs about CallbackRecorder, for any number of threads, recorders and *)
(* callbacks and any capacity.                                             *)
(***************************************************************************)
EXTENDS CallbackRecorder, FiniteSetTheorems, SequenceTheorems, TLAPS

-----------------------------------------------------------------------------
(* The inductive invariant, in named parts.                                *)

Busy(t) == job[t] # NoJob

\* Thread t holds index i of recorder r.
Holds(t, r, i) == Busy(t) /\ job[t].rec = r /\ job[t].idx = i

\* What a thread holds it has claimed, for the callback it ran, and the
\* sample is blank until the thread has stored its arguments.
JobsClaimed ==
  \A t \in Threads : Busy(t) =>
    /\ job[t].idx < write_index[job[t].rec]
    /\ ran[job[t].call] = [thread |-> t, rec |-> job[t].rec]
    /\ job[t].step = "args" => buffer[job[t].rec][job[t].idx].call = NoCall
    /\ job[t].step = "slot" => buffer[job[t].rec][job[t].idx].call = job[t].call

\* No index is held twice.
JobsApart ==
  \A t, u \in Threads : t # u /\ Busy(t) /\ Busy(u) =>
    job[t].rec # job[u].rec \/ job[t].idx # job[u].idx

\* A sample is of a callback of its recorder.  It carries the slot of the
\* thread that ran it, unless a thread still holds it.
SamplesOwned ==
  \A r \in Recorders : \A i \in Slots : buffer[r][i].call # NoCall =>
    /\ i < write_index[r]
    /\ ran[buffer[r][i].call] # NoRun
    /\ ran[buffer[r][i].call].rec = r
    /\ \/ \E t \in Threads : Holds(t, r, i)
       \/ /\ slot_of[ran[buffer[r][i].call].thread] # NoSlot
          /\ buffer[r][i].thread_slot = slot_of[ran[buffer[r][i].call].thread]

\* A claimed index that is still blank is held by a thread.
ClaimsHeld ==
  \A r \in Recorders : \A i \in Slots :
    i < write_index[r] /\ buffer[r][i].call = NoCall => \E t \in Threads : Holds(t, r, i)

\* No callback is recorded in two places.
CallsOnce ==
  /\ \A r, s \in Recorders : \A i, j \in Slots :
       buffer[r][i].call # NoCall /\ buffer[r][i].call = buffer[s][j].call => r = s /\ i = j
  /\ \A t \in Threads : Busy(t) /\ job[t].step = "args" =>
       \A r \in Recorders : \A i \in Slots : buffer[r][i].call # job[t].call

\* The index of a recorder counts its callbacks.
IndexCounts ==
  \A r \in Recorders :
    IsFiniteSet(CallsOf(r)) /\ Cardinality(CallsOf(r)) = write_index[r]

\* Thread slots are handed out in order and once.
SlotsApart ==
  /\ \A t \in Threads : slot_of[t] # NoSlot => slot_of[t] < next_slot
  /\ \A t, u \in Threads : slot_of[t] # NoSlot /\ slot_of[t] = slot_of[u] => t = u

\* The report is made when nobody records any more, and is a copy.
ReportCopied ==
  report # NoReport =>
    /\ SpinReturned
    /\ report = [r \in Recorders |->
         [rows |-> [k \in 1 .. recorded(r) |-> buffer[r][k - 1]], lost |-> overflowed(r)]]

IInv ==
  /\ TypeOK
  /\ JobsClaimed /\ JobsApart /\ SamplesOwned /\ ClaimsHeld
  /\ CallsOnce /\ IndexCounts /\ SlotsApart /\ ReportCopied
-----------------------------------------------------------------------------
(* Type correctness.                                                       *)

(***************************************************************************)
(* The buffer has at least one slot, whatever capacity the constructor is  *)
(* given.                                                                  *)
(***************************************************************************)
LEMMA BufferSizePositive == BufferSize \in Nat \ {0}
  BY RecorderAssumption DEF BufferSize

(***************************************************************************)
(* What a thread inside record() holds is an index of a buffer.            *)
(***************************************************************************)
LEMMA BusyJob ==
  ASSUME TypeOK, NEW t \in Threads, job[t] # NoJob
  PROVE  /\ job[t] \in Job
         /\ job[t].rec \in Recorders
         /\ job[t].idx \in Slots
         /\ job[t].call \in Calls
         /\ job[t].step \in {"args", "slot"}
  BY DEF TypeOK, Job

(***************************************************************************)
(* What the writer reads are rows and a count.                             *)
(***************************************************************************)
LEMMA DrainedType ==
  ASSUME TypeOK
  PROVE  [r \in Recorders |->
            [rows |-> [k \in 1 .. recorded(r) |-> buffer[r][k - 1]], lost |-> overflowed(r)]]
           \in [Recorders -> [rows : Seq(Row), lost : Nat]]
<1>1. SUFFICES ASSUME NEW r \in Recorders
      PROVE  /\ [k \in 1 .. recorded(r) |-> buffer[r][k - 1]] \in Seq(Row)
             /\ overflowed(r) \in Nat
  OBVIOUS
<1>2. write_index[r] \in Nat
  BY DEF TypeOK
<1>3. overflowed(r) \in Nat
  BY <1>2, BufferSizePositive DEF overflowed
<1>4. recorded(r) \in Nat /\ recorded(r) <= BufferSize
  BY <1>2, BufferSizePositive DEF recorded
<1>5. ASSUME NEW k \in 1 .. recorded(r)
      PROVE  buffer[r][k - 1] \in Row
  <2>1. k - 1 \in Slots
    BY <1>4, BufferSizePositive DEF Slots
  <2> QED BY <2>1 DEF TypeOK
<1> QED BY <1>3, <1>4, <1>5

(***************************************************************************)
(* Initially the state is well typed.                                      *)
(***************************************************************************)
LEMMA InitType == Init => TypeOK
  BY DEF Init, TypeOK, BlankSample, Row

(***************************************************************************)
(* Every step of record(), the end of the run and the drain keep the state *)
(* well typed.                                                             *)
(***************************************************************************)
LEMMA NextType == TypeOK /\ [Next]_vars => TypeOK'
<1> SUFFICES ASSUME TypeOK, [Next]_vars PROVE TypeOK'
  OBVIOUS
<1>1. ASSUME NEW t \in Threads, NEW r \in Recorders, NEW c \in Calls, Claim(t, r, c)
      PROVE  TypeOK'
  <2>1. ClaimIndex(r) \in Slots
    BY <1>1, BufferSizePositive DEF Claim, InBounds, ClaimIndex, Slots, TypeOK
  <2>2. [step |-> "args", rec |-> r, idx |-> ClaimIndex(r), call |-> c] \in Job
    BY <2>1 DEF Job
  <2>3. job' \in [Threads -> Job \cup {NoJob}]
    BY <1>1, <2>2 DEF Claim, TypeOK
  <2>4. write_index' \in [Recorders -> Nat] /\ ran' \in [Calls -> Run \cup {NoRun}]
    BY <1>1 DEF Claim, CallbackEnds, TypeOK, Run
  <2> QED BY <1>1, <2>3, <2>4 DEF Claim, CallbackEnds, TypeOK
<1>2. ASSUME NEW t \in Threads, NEW r \in Recorders, NEW c \in Calls, Overflow(t, r, c)
      PROVE  TypeOK'
  <2>1. write_index' \in [Recorders -> Nat] /\ ran' \in [Calls -> Run \cup {NoRun}]
    BY <1>2 DEF Overflow, CallbackEnds, TypeOK, Run
  <2> QED BY <1>2, <2>1 DEF Overflow, CallbackEnds, TypeOK
<1>3. ASSUME NEW t \in Threads, StoreArgs(t) PROVE TypeOK'
  <2>1. job[t] # NoJob /\ job[t].rec \in Recorders /\ job[t].idx \in Slots /\ job[t].call \in Calls
        /\ job[t] \in Job
    BY <1>3, BusyJob DEF StoreArgs
  <2>2. job' \in [Threads -> Job \cup {NoJob}]
    BY <1>3, <2>1 DEF StoreArgs, TypeOK, Job
  <2>3. buffer' \in [Recorders -> [Slots -> Row]]
    <3> DEFINE r == job[t].rec
               i == job[t].idx
               x == [buffer[r][i] EXCEPT !.call = job[t].call]
    <3>1. buffer[r] \in [Slots -> Row] /\ buffer[r][i] \in Row
      BY <2>1 DEF TypeOK
    <3>2. x \in Row
      BY <2>1, <3>1 DEF Row
    <3>3. buffer' = [buffer EXCEPT ![r] = [buffer[r] EXCEPT ![i] = x]]
      BY <1>3 DEF StoreArgs
    <3>4. [buffer[r] EXCEPT ![i] = x] \in [Slots -> Row]
      BY <2>1, <3>1, <3>2
    <3> QED BY <2>1, <3>3, <3>4 DEF TypeOK
  <2> QED BY <1>3, <2>2, <2>3 DEF StoreArgs, TypeOK
<1>4. ASSUME NEW t \in Threads, AssignThreadSlot(t) PROVE TypeOK'
  BY <1>4 DEF AssignThreadSlot, TypeOK
<1>5. ASSUME NEW t \in Threads, StoreSlot(t) PROVE TypeOK'
  <2>1. job[t].rec \in Recorders /\ job[t].idx \in Slots
    BY <1>5, BusyJob DEF StoreSlot
  <2>2. slot_of[t] \in Nat
    BY <1>5 DEF StoreSlot, TypeOK
  <2>3. buffer' \in [Recorders -> [Slots -> Row]]
    <3> DEFINE r == job[t].rec
               i == job[t].idx
               x == [buffer[r][i] EXCEPT !.thread_slot = slot_of[t]]
    <3>1. buffer[r] \in [Slots -> Row] /\ buffer[r][i] \in Row
      BY <2>1 DEF TypeOK
    <3>2. x \in Row
      BY <2>2, <3>1 DEF Row
    <3>3. buffer' = [buffer EXCEPT ![r] = [buffer[r] EXCEPT ![i] = x]]
      BY <1>5 DEF StoreSlot
    <3>4. [buffer[r] EXCEPT ![i] = x] \in [Slots -> Row]
      BY <2>1, <3>1, <3>2
    <3> QED BY <2>1, <3>3, <3>4 DEF TypeOK
  <2>4. job' \in [Threads -> Job \cup {NoJob}]
    BY <1>5 DEF StoreSlot, TypeOK
  <2> QED BY <1>5, <2>3, <2>4 DEF StoreSlot, TypeOK
<1>6. CASE Cancel
  BY <1>6 DEF Cancel, TypeOK
<1>7. CASE Drain
  BY <1>7, DrainedType DEF Drain, TypeOK
<1>8. CASE UNCHANGED vars
  BY <1>8 DEF vars, TypeOK
<1> QED BY <1>1, <1>2, <1>3, <1>4, <1>5, <1>6, <1>7, <1>8 DEF Next, RecordStep

(***************************************************************************)
(* The state is well typed in every behaviour; in particular no thread     *)
(* ever holds an index past the end of a buffer.                           *)
(***************************************************************************)
THEOREM TypeCorrect == Spec => []TypeOK
  BY InitType, NextType, PTL DEF Spec

-----------------------------------------------------------------------------
(* What the steps of record() do, point by point.                          *)

\* The effect of Claim(t, r, c) at every point of the state.
Claimed(t, r, c) ==
  /\ ~ Busy(t) /\ ran[c] = NoRun /\ spinning = TRUE /\ write_index[r] \in Slots
  /\ \A s \in Recorders :
       write_index'[s] = IF s = r THEN write_index[r] + 1 ELSE write_index[s]
  /\ \A d \in Calls : ran'[d] = IF d = c THEN [thread |-> t, rec |-> r] ELSE ran[d]
  /\ \A u \in Threads : u # t => job'[u] = job[u]
  /\ job'[t] = [step |-> "args", rec |-> r, idx |-> write_index[r], call |-> c]
  /\ job'[t] # NoJob
  /\ buffer' = buffer /\ next_slot' = next_slot /\ slot_of' = slot_of
  /\ spinning' = spinning /\ report' = report

(***************************************************************************)
(* A claim gives the thread the next index of the recorder, for a callback *)
(* that has not been recorded before.                                      *)
(***************************************************************************)
LEMMA ClaimEffect ==
  ASSUME IInv, NEW t \in Threads, NEW r \in Recorders, NEW c \in Calls, Claim(t, r, c)
  PROVE  Claimed(t, r, c)
<1>1. write_index[r] \in Slots
  BY BufferSizePositive DEF IInv, TypeOK, Claim, InBounds, ClaimIndex, Slots
<1>2. [step |-> "args", rec |-> r, idx |-> write_index[r], call |-> c] \in Job
  BY <1>1 DEF Job
<1> QED BY <1>1, <1>2, RecorderAssumption
        DEF IInv, TypeOK, Claim, CallbackEnds, ClaimIndex, Busy, Claimed

(***************************************************************************)
(* A callback that finds the buffer full moves the index and nothing else. *)
(***************************************************************************)
LEMMA OverflowEffect ==
  ASSUME IInv, NEW t \in Threads, NEW r \in Recorders, NEW c \in Calls, Overflow(t, r, c)
  PROVE  /\ ran[c] = NoRun
         /\ write_index[r] >= BufferSize
         /\ \A s \in Recorders :
              write_index'[s] = IF s = r THEN write_index[r] + 1 ELSE write_index[s]
         /\ \A d \in Calls :
              ran'[d] = IF d = c THEN [thread |-> t, rec |-> r] ELSE ran[d]
         /\ job' = job /\ buffer' = buffer /\ next_slot' = next_slot /\ slot_of' = slot_of
         /\ spinning' = spinning /\ report' = report /\ spinning
BY BufferSizePositive
DEF IInv, TypeOK, Overflow, CallbackEnds, InBounds, ClaimIndex

(***************************************************************************)
(* Storing the arguments fills the blank sample the thread holds.          *)
(***************************************************************************)
LEMMA StoreArgsEffect ==
  ASSUME IInv, NEW t \in Threads, StoreArgs(t)
  PROVE  /\ Busy(t) /\ job[t].step = "args"
         /\ job[t].rec \in Recorders /\ job[t].idx \in Slots /\ job[t].call \in Calls
         /\ \A s \in Recorders, i \in Slots :
              /\ buffer'[s][i].thread_slot = buffer[s][i].thread_slot
              /\ buffer'[s][i].call = IF s = job[t].rec /\ i = job[t].idx
                                      THEN job[t].call ELSE buffer[s][i].call
         /\ \A u \in Threads : u # t => job'[u] = job[u]
         /\ job'[t] # NoJob /\ job'[t].step = "slot" /\ job'[t].rec = job[t].rec
         /\ job'[t].idx = job[t].idx /\ job'[t].call = job[t].call
         /\ write_index' = write_index /\ ran' = ran /\ next_slot' = next_slot
         /\ slot_of' = slot_of /\ spinning' = spinning /\ report' = report
<1>1. /\ job[t] # NoJob /\ job[t] \in Job /\ job[t].step = "args"
      /\ job[t].rec \in Recorders /\ job[t].idx \in Slots /\ job[t].call \in Calls
  BY BusyJob DEF StoreArgs, IInv
<1>2. job' = [job EXCEPT ![t] = [job[t] EXCEPT !.step = "slot"]]
  BY DEF StoreArgs
<1>3. /\ \A u \in Threads : u # t => job'[u] = job[u]
      /\ job'[t] = [job[t] EXCEPT !.step = "slot"]
  BY <1>2 DEF IInv, TypeOK
<1>4. [job[t] EXCEPT !.step = "slot"] \in Job
  BY <1>1 DEF Job
<1>5. /\ job'[t] # NoJob /\ job'[t].step = "slot" /\ job'[t].rec = job[t].rec
      /\ job'[t].idx = job[t].idx /\ job'[t].call = job[t].call
  BY <1>1, <1>3, <1>4, RecorderAssumption DEF Job
<1>6. ASSUME NEW s \in Recorders, NEW i \in Slots
      PROVE  /\ buffer'[s][i].thread_slot = buffer[s][i].thread_slot
             /\ buffer'[s][i].call = IF s = job[t].rec /\ i = job[t].idx
                                     THEN job[t].call ELSE buffer[s][i].call
  <2> DEFINE x == [buffer[job[t].rec][job[t].idx] EXCEPT !.call = job[t].call]
  <2>1. buffer' = [buffer EXCEPT ![job[t].rec] = [buffer[job[t].rec] EXCEPT ![job[t].idx] = x]]
    BY DEF StoreArgs
  <2>2. buffer[s] \in [Slots -> Row] /\ buffer[s][i] \in Row
    BY DEF IInv, TypeOK
  <2>3. buffer'[s][i] = IF s = job[t].rec /\ i = job[t].idx THEN x ELSE buffer[s][i]
    BY <1>1, <2>1, <2>2 DEF IInv, TypeOK
  <2>4. s = job[t].rec /\ i = job[t].idx =>
          x.call = job[t].call /\ x.thread_slot = buffer[s][i].thread_slot
    BY <2>2 DEF Row
  <2> QED BY <2>3, <2>4
<1> QED BY <1>1, <1>3, <1>5, <1>6 DEF StoreArgs, Busy

(***************************************************************************)
(* Storing the slot completes the sample and lets go of it.                *)
(***************************************************************************)
LEMMA StoreSlotEffect ==
  ASSUME IInv, NEW t \in Threads, StoreSlot(t)
  PROVE  /\ Busy(t) /\ job[t].step = "slot" /\ slot_of[t] # NoSlot
         /\ job[t].rec \in Recorders /\ job[t].idx \in Slots /\ job[t].call \in Calls
         /\ \A s \in Recorders, i \in Slots :
              /\ buffer'[s][i].call = buffer[s][i].call
              /\ buffer'[s][i].thread_slot = IF s = job[t].rec /\ i = job[t].idx
                                             THEN slot_of[t] ELSE buffer[s][i].thread_slot
         /\ \A u \in Threads : job'[u] = IF u = t THEN NoJob ELSE job[u]
         /\ write_index' = write_index /\ ran' = ran /\ next_slot' = next_slot
         /\ slot_of' = slot_of /\ spinning' = spinning /\ report' = report
<1>1. /\ job[t] # NoJob /\ job[t].step = "slot"
      /\ job[t].rec \in Recorders /\ job[t].idx \in Slots /\ job[t].call \in Calls
  BY BusyJob DEF StoreSlot, IInv
<1>2. \A u \in Threads : job'[u] = IF u = t THEN NoJob ELSE job[u]
  BY DEF StoreSlot, IInv, TypeOK
<1>3. ASSUME NEW s \in Recorders, NEW i \in Slots
      PROVE  /\ buffer'[s][i].call = buffer[s][i].call
             /\ buffer'[s][i].thread_slot = IF s = job[t].rec /\ i = job[t].idx
                                            THEN slot_of[t] ELSE buffer[s][i].thread_slot
  <2> DEFINE x == [buffer[job[t].rec][job[t].idx] EXCEPT !.thread_slot = slot_of[t]]
  <2>1. buffer' = [buffer EXCEPT ![job[t].rec] = [buffer[job[t].rec] EXCEPT ![job[t].idx] = x]]
    BY DEF StoreSlot
  <2>2. buffer[s] \in [Slots -> Row] /\ buffer[s][i] \in Row
    BY DEF IInv, TypeOK
  <2>3. buffer'[s][i] = IF s = job[t].rec /\ i = job[t].idx THEN x ELSE buffer[s][i]
    BY <1>1, <2>1, <2>2 DEF IInv, TypeOK
  <2>4. s = job[t].rec /\ i = job[t].idx =>
          x.thread_slot = slot_of[t] /\ x.call = buffer[s][i].call
    BY <2>2 DEF Row
  <2> QED BY <2>3, <2>4
<1> QED BY <1>1, <1>2, <1>3 DEF StoreSlot, Busy

-----------------------------------------------------------------------------
(* The invariant is inductive.                                             *)

(***************************************************************************)
(* A callback that ends adds itself to the callbacks of its recorder and   *)
(* one to the recorder's index.                                            *)
(***************************************************************************)
LEMMA CountStep ==
  ASSUME IInv, NEW t \in Threads, NEW r \in Recorders, NEW c \in Calls,
         ran[c] = NoRun,
         \A s \in Recorders :
           write_index'[s] = IF s = r THEN write_index[r] + 1 ELSE write_index[s],
         \A d \in Calls :
           ran'[d] = IF d = c THEN [thread |-> t, rec |-> r] ELSE ran[d]
  PROVE  IndexCounts'
<1>1. [thread |-> t, rec |-> r] # NoRun
  BY RecorderAssumption DEF Run
<1>2. SUFFICES ASSUME NEW s \in Recorders
      PROVE  IsFiniteSet(CallsOf(s)') /\ Cardinality(CallsOf(s)') = write_index'[s]
  BY DEF IndexCounts
<1>3. IsFiniteSet(CallsOf(s)) /\ Cardinality(CallsOf(s)) = write_index[s]
  BY DEF IInv, IndexCounts
<1>4. CASE s = r
  <2>1. CallsOf(s)' = CallsOf(s) \cup {c}
    BY <1>1, <1>4 DEF CallsOf
  <2>2. c \notin CallsOf(s)
    BY DEF CallsOf
  <2> QED BY <1>3, <1>4, <2>1, <2>2, FS_AddElement
<1>5. CASE s # r
  <2>1. CallsOf(s)' = CallsOf(s)
    BY <1>1, <1>5 DEF CallsOf
  <2> QED BY <1>3, <1>5, <2>1
<1> QED BY <1>4, <1>5

(***************************************************************************)
(* A stored callback and a callback that is being recorded have both run.  *)
(***************************************************************************)
LEMMA RecordedHaveRun ==
  ASSUME IInv
  PROVE  /\ \A r \in Recorders, i \in Slots :
              buffer[r][i].call # NoCall =>
                buffer[r][i].call \in Calls /\ ran[buffer[r][i].call] \in Run
         /\ \A t \in Threads : Busy(t) => job[t].call \in Calls /\ ran[job[t].call] \in Run
         /\ NoRun \notin Run
<1>1. ASSUME NEW r \in Recorders, NEW i \in Slots, buffer[r][i].call # NoCall
      PROVE  buffer[r][i].call \in Calls /\ ran[buffer[r][i].call] \in Run
  <2>1. buffer[r][i] \in Row
    BY DEF IInv, TypeOK
  <2>2. buffer[r][i].call \in Calls
    BY <1>1, <2>1 DEF Row
  <2> QED BY <1>1, <2>2 DEF IInv, TypeOK, SamplesOwned
<1>2. ASSUME NEW t \in Threads, Busy(t)
      PROVE  job[t].call \in Calls /\ ran[job[t].call] \in Run
  <2>1. TypeOK /\ JobsClaimed
    BY DEF IInv
  <2>2. job[t].call \in Calls /\ job[t].rec \in Recorders
    BY <1>2, <2>1, BusyJob DEF Busy
  <2>3. ran[job[t].call] = [thread |-> t, rec |-> job[t].rec]
    BY <1>2, <2>1 DEF JobsClaimed
  <2> QED BY <2>2, <2>3 DEF Run
<1> QED BY <1>1, <1>2, RecorderAssumption

(***************************************************************************)
(* The invariant holds initially: nothing is claimed, held or reported.    *)
(***************************************************************************)
LEMMA InitInv == Init => IInv
<1> SUFFICES ASSUME Init PROVE IInv
  OBVIOUS
<1>1. TypeOK
  BY InitType
<1>2. \A r \in Recorders : CallsOf(r) = {}
  BY DEF Init, CallsOf
<1>3. IndexCounts
  BY <1>2, FS_EmptySet DEF Init, IndexCounts
<1>4. \A r \in Recorders, i \in Slots : buffer[r][i].call = NoCall
  BY DEF Init, BlankSample
<1>5. \A t \in Threads : ~ Busy(t) /\ slot_of[t] = NoSlot
  BY DEF Init, Busy
<1>6. JobsClaimed /\ JobsApart /\ SlotsApart
  BY <1>5 DEF JobsClaimed, JobsApart, SlotsApart
<1>7. SamplesOwned /\ CallsOnce
  BY <1>4, <1>5 DEF SamplesOwned, CallsOnce
<1>8. ClaimsHeld
  BY DEF Init, ClaimsHeld, Slots
<1>9. ReportCopied
  BY DEF Init, ReportCopied
<1> QED BY <1>1, <1>3, <1>6, <1>7, <1>8, <1>9 DEF IInv

(***************************************************************************)
(* A claim preserves the invariant.                                        *)
(***************************************************************************)
LEMMA ClaimKeepsInv ==
  ASSUME IInv, TypeOK', NEW t \in Threads, NEW r \in Recorders, NEW c \in Calls, Claim(t, r, c)
  PROVE  IInv'
<1>inv. /\ TypeOK /\ JobsClaimed /\ JobsApart /\ SamplesOwned /\ ClaimsHeld
        /\ CallsOnce /\ SlotsApart /\ ReportCopied
  BY DEF IInv
<1>eff. Claimed(t, r, c)
  BY ClaimEffect
<1>pre. ~ Busy(t) /\ ran[c] = NoRun /\ spinning = TRUE /\ write_index[r] \in Slots
  BY <1>eff DEF Claimed
<1>idx. \A s \in Recorders :
          write_index'[s] = IF s = r THEN write_index[r] + 1 ELSE write_index[s]
  BY <1>eff DEF Claimed
<1>ran. \A d \in Calls : ran'[d] = IF d = c THEN [thread |-> t, rec |-> r] ELSE ran[d]
  BY <1>eff DEF Claimed
<1>job. /\ \A u \in Threads : u # t => job'[u] = job[u]
        /\ job'[t] = [step |-> "args", rec |-> r, idx |-> write_index[r], call |-> c]
        /\ job'[t] # NoJob
  BY <1>eff DEF Claimed
<1>same. /\ buffer' = buffer /\ next_slot' = next_slot /\ slot_of' = slot_of
         /\ spinning' = spinning /\ report' = report
  BY <1>eff DEF Claimed
<1>run. /\ \A s \in Recorders, i \in Slots :
             buffer[s][i].call # NoCall =>
               buffer[s][i].call \in Calls /\ ran[buffer[s][i].call] \in Run
        /\ \A u \in Threads : Busy(u) => job[u].call \in Calls /\ ran[job[u].call] \in Run
        /\ NoRun \notin Run
  BY RecordedHaveRun
<1>grow. \A s \in Recorders : write_index[s] \in Nat /\ write_index[s] <= write_index'[s]
  BY <1>inv, <1>idx DEF TypeOK
<1>old. \A u \in Threads : u # t /\ Busy(u)' =>
          /\ Busy(u) /\ job'[u] = job[u]
          /\ job[u].rec \in Recorders /\ job[u].idx \in Slots
          /\ job[u].idx < write_index[job[u].rec]
  BY <1>inv, <1>job, BusyJob DEF Busy, JobsClaimed
<1>held. \A u \in Threads, s \in Recorders, i \in Slots : Holds(u, s, i) => Holds(u, s, i)'
  BY <1>pre, <1>job DEF Holds, Busy
<1>1. JobsClaimed'
  <2> SUFFICES ASSUME NEW u \in Threads, Busy(u)'
        PROVE  /\ job'[u].idx < write_index'[job'[u].rec]
               /\ ran'[job'[u].call] = [thread |-> u, rec |-> job'[u].rec]
               /\ job'[u].step = "args" => buffer'[job'[u].rec][job'[u].idx].call = NoCall
               /\ job'[u].step = "slot" =>
                     buffer'[job'[u].rec][job'[u].idx].call = job'[u].call
    BY DEF JobsClaimed
  <2>1. CASE u = t
    <3>1. buffer[r][write_index[r]].call = NoCall
      BY <1>inv, <1>pre, <1>grow DEF SamplesOwned
    <3>2. ran'[c] = [thread |-> t, rec |-> r] /\ write_index[r] < write_index'[r]
      BY <1>ran, <1>idx, <1>grow
    <3> QED BY <1>job, <1>same, <2>1, <3>1, <3>2
  <2>2. CASE u # t
    <3>1. job[u].call \in Calls /\ job[u].call # c
      BY <1>old, <1>run, <1>pre, <2>2
    <3>2. ran'[job[u].call] = ran[job[u].call]
      BY <1>ran, <3>1
    <3>3. job[u].idx < write_index'[job[u].rec]
      BY <1>inv, <1>old, <1>grow, <1>idx, <2>2 DEF Slots
    <3> QED BY <1>inv, <1>old, <1>same, <2>2, <3>2, <3>3 DEF JobsClaimed
  <2> QED BY <2>1, <2>2
<1>2. JobsApart'
  <2> SUFFICES ASSUME NEW u \in Threads, NEW v \in Threads, u # v, Busy(u)', Busy(v)'
        PROVE  job'[u].rec # job'[v].rec \/ job'[u].idx # job'[v].idx
    BY DEF JobsApart
  <2>1. CASE u = t
    BY <1>old, <1>job, <1>grow, <2>1
  <2>2. CASE v = t
    BY <1>old, <1>job, <1>grow, <2>2
  <2>3. CASE u # t /\ v # t
    BY <1>inv, <1>old, <2>3 DEF JobsApart
  <2> QED BY <2>1, <2>2, <2>3
<1>3. SamplesOwned'
  <2> SUFFICES ASSUME NEW s \in Recorders, NEW i \in Slots, buffer'[s][i].call # NoCall
        PROVE  /\ i < write_index'[s]
               /\ ran'[buffer'[s][i].call] # NoRun
               /\ ran'[buffer'[s][i].call].rec = s
               /\ \/ \E u \in Threads : Holds(u, s, i)'
                  \/ /\ slot_of'[ran'[buffer'[s][i].call].thread] # NoSlot
                     /\ buffer'[s][i].thread_slot = slot_of'[ran'[buffer'[s][i].call].thread]
    BY DEF SamplesOwned
  <2>1. buffer[s][i].call # NoCall
    BY <1>same
  <2>2. ran'[buffer[s][i].call] = ran[buffer[s][i].call]
    BY <1>run, <1>pre, <1>ran, <2>1
  <2>3. i < write_index'[s]
    BY <1>inv, <1>grow, <1>idx, <2>1 DEF SamplesOwned, Slots
  <2> QED BY <1>inv, <1>same, <1>held, <2>1, <2>2, <2>3 DEF SamplesOwned
<1>4. ClaimsHeld'
  <2> SUFFICES ASSUME NEW s \in Recorders, NEW i \in Slots,
                      i < write_index'[s], buffer'[s][i].call = NoCall
        PROVE  \E u \in Threads : Holds(u, s, i)'
    BY DEF ClaimsHeld
  <2>1. CASE i < write_index[s]
    BY <1>inv, <1>same, <1>held, <2>1 DEF ClaimsHeld
  <2>2. CASE ~ (i < write_index[s])
    <3>1. s = r /\ i = write_index[r]
      BY <1>grow, <1>idx, <2>2, BufferSizePositive DEF Slots
    <3>2. Holds(t, s, i)'
      BY <1>job, <3>1 DEF Holds, Busy
    <3> QED BY <3>2
  <2> QED BY <2>1, <2>2
<1>5. CallsOnce'
  <2>1. ASSUME NEW u \in Threads, Busy(u)', job'[u].step = "args",
               NEW s \in Recorders, NEW i \in Slots
        PROVE  buffer'[s][i].call # job'[u].call
    <3>1. CASE u = t
      BY <1>job, <1>same, <1>run, <1>pre, <3>1, RecorderAssumption
    <3>2. CASE u # t
      BY <1>inv, <1>old, <1>same, <2>1, <3>2 DEF CallsOnce
    <3> QED BY <3>1, <3>2
  <2> QED BY <1>inv, <1>same, <2>1 DEF CallsOnce
<1>6. IndexCounts'
  BY <1>pre, <1>idx, <1>ran, CountStep
<1>7. SlotsApart'
  BY <1>inv, <1>same DEF SlotsApart
<1>8. ReportCopied'
  BY <1>inv, <1>pre, <1>same DEF ReportCopied, SpinReturned
<1> QED BY <1>1, <1>2, <1>3, <1>4, <1>5, <1>6, <1>7, <1>8 DEF IInv

(***************************************************************************)
(* A callback turned away preserves the invariant.                         *)
(***************************************************************************)
LEMMA OverflowKeepsInv ==
  ASSUME IInv, TypeOK', NEW t \in Threads, NEW r \in Recorders, NEW c \in Calls,
         Overflow(t, r, c)
  PROVE  IInv'
<1>inv. /\ TypeOK /\ JobsClaimed /\ JobsApart /\ SamplesOwned /\ ClaimsHeld
        /\ CallsOnce /\ SlotsApart /\ ReportCopied
  BY DEF IInv
<1>pre. ran[c] = NoRun /\ spinning /\ write_index[r] >= BufferSize
  BY OverflowEffect
<1>idx. \A s \in Recorders :
          write_index'[s] = IF s = r THEN write_index[r] + 1 ELSE write_index[s]
  BY OverflowEffect
<1>ran. \A d \in Calls : ran'[d] = IF d = c THEN [thread |-> t, rec |-> r] ELSE ran[d]
  BY OverflowEffect
<1>same. /\ job' = job /\ buffer' = buffer /\ next_slot' = next_slot /\ slot_of' = slot_of
         /\ spinning' = spinning /\ report' = report
  BY OverflowEffect
<1>run. /\ \A s \in Recorders, i \in Slots :
             buffer[s][i].call # NoCall =>
               buffer[s][i].call \in Calls /\ ran[buffer[s][i].call] \in Run
        /\ \A u \in Threads : Busy(u) => job[u].call \in Calls /\ ran[job[u].call] \in Run
        /\ NoRun \notin Run
  BY RecordedHaveRun
<1>grow. \A s \in Recorders : write_index[s] \in Nat /\ write_index[s] <= write_index'[s]
  BY <1>inv, <1>idx DEF TypeOK
<1>1. JobsClaimed'
  <2> SUFFICES ASSUME NEW u \in Threads, Busy(u)
        PROVE  /\ job[u].idx < write_index'[job[u].rec]
               /\ ran'[job[u].call] = [thread |-> u, rec |-> job[u].rec]
    BY <1>inv, <1>same DEF JobsClaimed, Busy
  <2>1. job[u].rec \in Recorders /\ job[u].idx \in Slots
    BY <1>inv, BusyJob DEF Busy
  <2>2. job[u].idx < write_index'[job[u].rec]
    <3>1. job[u].idx < write_index[job[u].rec]
      BY <1>inv DEF JobsClaimed
    <3>2. write_index[job[u].rec] \in Nat /\ write_index'[job[u].rec] \in Nat
          /\ write_index[job[u].rec] <= write_index'[job[u].rec]
      BY <1>grow, <1>idx, <2>1
    <3> QED BY <2>1, <3>1, <3>2, BufferSizePositive DEF Slots
  <2>3. ran'[job[u].call] = ran[job[u].call]
    BY <1>run, <1>pre, <1>ran
  <2> QED BY <1>inv, <2>2, <2>3 DEF JobsClaimed
<1>2. JobsApart'
  BY <1>inv, <1>same DEF JobsApart, Busy
<1>3. SamplesOwned'
  <2> SUFFICES ASSUME NEW s \in Recorders, NEW i \in Slots, buffer[s][i].call # NoCall
        PROVE  /\ i < write_index'[s]
               /\ ran'[buffer[s][i].call] = ran[buffer[s][i].call]
    BY <1>inv, <1>same DEF SamplesOwned, Holds, Busy
  <2>1. i < write_index'[s]
    BY <1>inv, <1>grow, <1>idx DEF SamplesOwned, Slots
  <2> QED BY <1>run, <1>pre, <1>ran, <2>1
<1>4. ClaimsHeld'
  <2> SUFFICES ASSUME NEW s \in Recorders, NEW i \in Slots, i < write_index'[s]
        PROVE  i < write_index[s]
    BY <1>inv, <1>same DEF ClaimsHeld, Holds, Busy
  <2> QED BY <1>pre, <1>idx, <1>grow, BufferSizePositive DEF Slots
<1>5. CallsOnce'
  BY <1>inv, <1>same DEF CallsOnce, Busy
<1>6. IndexCounts'
  BY <1>pre, <1>idx, <1>ran, CountStep
<1>7. SlotsApart'
  BY <1>inv, <1>same DEF SlotsApart
<1>8. ReportCopied'
  BY <1>inv, <1>pre, <1>same DEF ReportCopied, SpinReturned
<1> QED BY <1>1, <1>2, <1>3, <1>4, <1>5, <1>6, <1>7, <1>8 DEF IInv

(***************************************************************************)
(* Storing the arguments preserves the invariant.                          *)
(***************************************************************************)
LEMMA StoreArgsKeepsInv ==
  ASSUME IInv, TypeOK', NEW t \in Threads, StoreArgs(t)
  PROVE  IInv'
<1>inv. /\ TypeOK /\ JobsClaimed /\ JobsApart /\ SamplesOwned /\ ClaimsHeld
        /\ CallsOnce /\ SlotsApart /\ ReportCopied /\ IndexCounts
  BY DEF IInv
<1>pre. /\ Busy(t) /\ job[t].step = "args"
        /\ job[t].rec \in Recorders /\ job[t].idx \in Slots /\ job[t].call \in Calls
  BY StoreArgsEffect
<1>buf. \A s \in Recorders, i \in Slots :
          /\ buffer'[s][i].thread_slot = buffer[s][i].thread_slot
          /\ buffer'[s][i].call = IF s = job[t].rec /\ i = job[t].idx
                                  THEN job[t].call ELSE buffer[s][i].call
  BY StoreArgsEffect
<1>job. /\ \A u \in Threads : u # t => job'[u] = job[u]
        /\ job'[t] # NoJob /\ job'[t].step = "slot" /\ job'[t].rec = job[t].rec
        /\ job'[t].idx = job[t].idx /\ job'[t].call = job[t].call
  BY StoreArgsEffect
<1>same. /\ write_index' = write_index /\ ran' = ran /\ next_slot' = next_slot
         /\ slot_of' = slot_of /\ spinning' = spinning /\ report' = report
  BY StoreArgsEffect
<1>all. \A u \in Threads :
          /\ Busy(u)' <=> Busy(u)
          /\ Busy(u) => /\ job'[u].rec = job[u].rec /\ job'[u].idx = job[u].idx
                        /\ job'[u].call = job[u].call
                        /\ job[u].rec \in Recorders /\ job[u].idx \in Slots
  BY <1>inv, <1>pre, <1>job, BusyJob DEF Busy
<1>held. \A u \in Threads, s \in Recorders, i \in Slots : Holds(u, s, i)' <=> Holds(u, s, i)
  BY <1>all DEF Holds
<1>blank. buffer[job[t].rec][job[t].idx].call = NoCall
  BY <1>inv, <1>pre DEF JobsClaimed
<1>ran. ran[job[t].call] = [thread |-> t, rec |-> job[t].rec] /\ NoRun \notin Run
  BY <1>inv, <1>pre, RecorderAssumption DEF JobsClaimed
<1>1. JobsClaimed'
  <2> SUFFICES ASSUME NEW u \in Threads, Busy(u)
        PROVE  /\ job'[u].step = "args" => buffer'[job[u].rec][job[u].idx].call = NoCall
               /\ job'[u].step = "slot" => buffer'[job[u].rec][job[u].idx].call = job[u].call
    BY <1>inv, <1>all, <1>same DEF JobsClaimed
  <2>1. CASE u = t
    BY <1>job, <1>buf, <1>pre, <2>1
  <2>2. CASE u # t
    <3>1. job[u].rec # job[t].rec \/ job[u].idx # job[t].idx
      BY <1>inv, <1>pre, <2>2 DEF JobsApart
    <3>2. buffer'[job[u].rec][job[u].idx].call = buffer[job[u].rec][job[u].idx].call
      BY <1>all, <1>buf, <3>1
    <3> QED BY <1>inv, <1>job, <2>2, <3>2 DEF JobsClaimed
  <2> QED BY <2>1, <2>2
<1>2. JobsApart'
  BY <1>inv, <1>all DEF JobsApart
<1>3. SamplesOwned'
  <2> SUFFICES ASSUME NEW s \in Recorders, NEW i \in Slots, buffer'[s][i].call # NoCall
        PROVE  /\ i < write_index[s]
               /\ ran[buffer'[s][i].call] # NoRun
               /\ ran[buffer'[s][i].call].rec = s
               /\ \/ \E u \in Threads : Holds(u, s, i)
                  \/ /\ slot_of[ran[buffer'[s][i].call].thread] # NoSlot
                     /\ buffer[s][i].thread_slot = slot_of[ran[buffer'[s][i].call].thread]
    BY <1>same, <1>held, <1>buf DEF SamplesOwned
  <2>1. CASE s = job[t].rec /\ i = job[t].idx
    <3>1. buffer'[s][i].call = job[t].call
      BY <1>buf, <2>1
    <3>2. i < write_index[s]
      BY <1>inv, <1>pre, <2>1 DEF JobsClaimed
    <3>3. Holds(t, s, i)
      BY <1>pre, <2>1 DEF Holds
    <3>4. ran[job[t].call] # NoRun /\ ran[job[t].call].rec = s
      BY <1>ran, <1>pre, <2>1 DEF Run
    <3> QED BY <3>1, <3>2, <3>3, <3>4
  <2>2. CASE ~ (s = job[t].rec /\ i = job[t].idx)
    <3>1. buffer'[s][i].call = buffer[s][i].call
      BY <1>buf, <2>2
    <3> QED BY <1>inv, <3>1 DEF SamplesOwned
  <2> QED BY <2>1, <2>2
<1>4. ClaimsHeld'
  <2> SUFFICES ASSUME NEW s \in Recorders, NEW i \in Slots,
                      i < write_index[s], buffer'[s][i].call = NoCall
        PROVE  \E u \in Threads : Holds(u, s, i)
    BY <1>same, <1>held DEF ClaimsHeld
  <2>1. buffer[s][i].call = NoCall
    BY <1>buf, <1>blank
  <2> QED BY <1>inv, <2>1 DEF ClaimsHeld
<1>5. CallsOnce'
  <2>1. \A s \in Recorders, i \in Slots : buffer[s][i].call # job[t].call
    BY <1>inv, <1>pre DEF CallsOnce
  <2>2. ASSUME NEW r \in Recorders, NEW s \in Recorders, NEW i \in Slots, NEW j \in Slots,
               buffer'[r][i].call # NoCall, buffer'[r][i].call = buffer'[s][j].call
        PROVE  r = s /\ i = j
    <3>1. CASE r = job[t].rec /\ i = job[t].idx
      BY <1>buf, <2>1, <2>2, <3>1
    <3>2. CASE s = job[t].rec /\ j = job[t].idx
      BY <1>buf, <2>1, <2>2, <3>2
    <3>3. CASE ~ (r = job[t].rec /\ i = job[t].idx) /\ ~ (s = job[t].rec /\ j = job[t].idx)
      <4>1. buffer[r][i].call # NoCall /\ buffer[r][i].call = buffer[s][j].call
        BY <1>buf, <2>2, <3>3
      <4> QED BY <1>inv, <4>1 DEF CallsOnce
    <3> QED BY <3>1, <3>2, <3>3
  <2>3. ASSUME NEW u \in Threads, Busy(u)', job'[u].step = "args",
               NEW s \in Recorders, NEW i \in Slots
        PROVE  buffer'[s][i].call # job'[u].call
    <3>1. u # t /\ Busy(u) /\ job'[u] = job[u]
      BY <1>job, <1>all, <2>3
    <3>2. buffer[s][i].call # job[u].call
      BY <1>inv, <2>3, <3>1 DEF CallsOnce
    <3>3. job[u].call # job[t].call
      <4>1. ran[job[u].call] = [thread |-> u, rec |-> job[u].rec]
        BY <1>inv, <3>1 DEF JobsClaimed
      <4>2. ran[job[u].call].thread = u /\ ran[job[t].call].thread = t
        BY <1>ran, <4>1
      <4> QED BY <3>1, <4>2
    <3> QED BY <1>buf, <3>1, <3>2, <3>3
  <2> QED BY <2>2, <2>3 DEF CallsOnce
<1>6. IndexCounts'
  BY <1>inv, <1>same DEF IndexCounts, CallsOf
<1>7. SlotsApart'
  BY <1>inv, <1>same DEF SlotsApart
<1>8. ReportCopied'
  BY <1>inv, <1>pre, <1>same DEF ReportCopied, SpinReturned, Busy
<1> QED BY <1>1, <1>2, <1>3, <1>4, <1>5, <1>6, <1>7, <1>8 DEF IInv

(***************************************************************************)
(* The first use of thread_slot() by a thread preserves the invariant.     *)
(***************************************************************************)
LEMMA AssignKeepsInv ==
  ASSUME IInv, TypeOK', NEW t \in Threads, AssignThreadSlot(t)
  PROVE  IInv'
<1>inv. /\ TypeOK /\ JobsClaimed /\ JobsApart /\ SamplesOwned /\ ClaimsHeld
        /\ CallsOnce /\ SlotsApart /\ ReportCopied /\ IndexCounts
  BY DEF IInv
<1>pre. Busy(t) /\ slot_of[t] = NoSlot
  BY DEF AssignThreadSlot, Busy
<1>slot. /\ \A u \in Threads : slot_of'[u] = IF u = t THEN next_slot ELSE slot_of[u]
         /\ next_slot' = next_slot + 1 /\ next_slot \in Nat
  BY <1>inv DEF AssignThreadSlot, TypeOK
<1>same. /\ write_index' = write_index /\ buffer' = buffer /\ job' = job /\ ran' = ran
         /\ spinning' = spinning /\ report' = report
  BY DEF AssignThreadSlot
<1>1. JobsClaimed' /\ JobsApart' /\ ClaimsHeld' /\ CallsOnce'
  BY <1>inv, <1>same DEF JobsClaimed, JobsApart, ClaimsHeld, CallsOnce, Holds, Busy
<1>2. SamplesOwned'
  <2> SUFFICES ASSUME NEW r \in Recorders, NEW i \in Slots, buffer[r][i].call # NoCall,
                      slot_of[ran[buffer[r][i].call].thread] # NoSlot
        PROVE  slot_of'[ran[buffer[r][i].call].thread] = slot_of[ran[buffer[r][i].call].thread]
    BY <1>inv, <1>same DEF SamplesOwned, Holds, Busy
  <2>1. ran[buffer[r][i].call].thread \in Threads
    BY RecordedHaveRun DEF Run
  <2> QED BY <1>pre, <1>slot, <2>1
<1>3. SlotsApart'
  <2>1. ASSUME NEW u \in Threads, slot_of'[u] # NoSlot PROVE slot_of'[u] < next_slot'
    <3>1. CASE u = t
      BY <1>slot, <3>1
    <3>2. CASE u # t
      <4>1. slot_of[u] \in Nat /\ slot_of[u] < next_slot
        BY <1>inv, <1>slot, <2>1, <3>2 DEF SlotsApart, TypeOK
      <4> QED BY <1>slot, <3>2, <4>1
    <3> QED BY <3>1, <3>2
  <2>2. ASSUME NEW u \in Threads, NEW v \in Threads,
               slot_of'[u] # NoSlot, slot_of'[u] = slot_of'[v]
        PROVE  u = v
    <3>1. \A w \in Threads : slot_of[w] # NoSlot => slot_of[w] # next_slot
      BY <1>inv, <1>slot DEF SlotsApart, TypeOK
    <3>2. CASE u = t
      BY <1>slot, <2>2, <3>1, <3>2
    <3>3. CASE v = t
      BY <1>slot, <2>2, <3>1, <3>3
    <3>4. CASE u # t /\ v # t
      BY <1>inv, <1>slot, <2>2, <3>4 DEF SlotsApart
    <3> QED BY <3>2, <3>3, <3>4
  <2> QED BY <2>1, <2>2 DEF SlotsApart
<1>4. IndexCounts'
  BY <1>inv, <1>same DEF IndexCounts, CallsOf
<1>5. ReportCopied'
  BY <1>inv, <1>pre, <1>same DEF ReportCopied, SpinReturned, Busy
<1> QED BY <1>1, <1>2, <1>3, <1>4, <1>5 DEF IInv

(***************************************************************************)
(* Storing the slot, the last step of record(), preserves the invariant.   *)
(***************************************************************************)
LEMMA StoreSlotKeepsInv ==
  ASSUME IInv, TypeOK', NEW t \in Threads, StoreSlot(t)
  PROVE  IInv'
<1>inv. /\ TypeOK /\ JobsClaimed /\ JobsApart /\ SamplesOwned /\ ClaimsHeld
        /\ CallsOnce /\ SlotsApart /\ ReportCopied /\ IndexCounts
  BY DEF IInv
<1>pre. /\ Busy(t) /\ job[t].step = "slot" /\ slot_of[t] # NoSlot
        /\ job[t].rec \in Recorders /\ job[t].idx \in Slots /\ job[t].call \in Calls
  BY StoreSlotEffect
<1>buf. \A s \in Recorders, i \in Slots :
          /\ buffer'[s][i].call = buffer[s][i].call
          /\ buffer'[s][i].thread_slot = IF s = job[t].rec /\ i = job[t].idx
                                         THEN slot_of[t] ELSE buffer[s][i].thread_slot
  BY StoreSlotEffect
<1>job. \A u \in Threads : job'[u] = IF u = t THEN NoJob ELSE job[u]
  BY StoreSlotEffect
<1>same. /\ write_index' = write_index /\ ran' = ran /\ next_slot' = next_slot
         /\ slot_of' = slot_of /\ spinning' = spinning /\ report' = report
  BY StoreSlotEffect
<1>old. \A u \in Threads : Busy(u)' =>
          /\ u # t /\ Busy(u) /\ job'[u] = job[u]
          /\ job[u].rec \in Recorders /\ job[u].idx \in Slots
  BY <1>inv, <1>job, BusyJob DEF Busy
<1>held. \A u \in Threads, s \in Recorders, i \in Slots :
           u # t /\ Holds(u, s, i) => Holds(u, s, i)'
  BY <1>job DEF Holds, Busy
<1>full. /\ buffer[job[t].rec][job[t].idx].call = job[t].call
         /\ ran[job[t].call].thread = t /\ job[t].call # NoCall
  <2>1. /\ buffer[job[t].rec][job[t].idx].call = job[t].call
        /\ ran[job[t].call] = [thread |-> t, rec |-> job[t].rec]
    BY <1>inv, <1>pre DEF JobsClaimed
  <2>2. ran[job[t].call].thread = t
    BY <2>1
  <2>3. job[t].call # NoCall
    BY <1>pre, RecorderAssumption
  <2> QED BY <2>1, <2>2, <2>3
<1>1. JobsClaimed'
  BY <1>inv, <1>old, <1>buf, <1>same, SMTT(30) DEF JobsClaimed
<1>2. JobsApart'
  BY <1>inv, <1>old DEF JobsApart
<1>3. SamplesOwned'
  <2> SUFFICES ASSUME NEW s \in Recorders, NEW i \in Slots, buffer[s][i].call # NoCall
        PROVE  \/ \E u \in Threads : Holds(u, s, i)'
               \/ /\ slot_of[ran[buffer[s][i].call].thread] # NoSlot
                  /\ buffer'[s][i].thread_slot = slot_of[ran[buffer[s][i].call].thread]
    BY <1>inv, <1>same, <1>buf DEF SamplesOwned
  <2>1. CASE s = job[t].rec /\ i = job[t].idx
    <3>1. buffer[s][i].call = job[t].call
      BY <1>full, <2>1
    <3>2. ran[buffer[s][i].call].thread = t
      BY <1>full, <3>1
    <3>3. buffer'[s][i].thread_slot = slot_of[t]
      BY <1>buf, <2>1
    <3> QED BY <1>pre, <3>2, <3>3
  <2>2. CASE ~ (s = job[t].rec /\ i = job[t].idx)
    <3>1. ~ Holds(t, s, i)
      BY <2>2 DEF Holds
    <3>2. buffer'[s][i].thread_slot = buffer[s][i].thread_slot
      BY <1>buf, <2>2
    <3> QED BY <1>inv, <1>held, <3>1, <3>2 DEF SamplesOwned
  <2> QED BY <2>1, <2>2
<1>4. ClaimsHeld'
  <2> SUFFICES ASSUME NEW s \in Recorders, NEW i \in Slots,
                      i < write_index[s], buffer[s][i].call = NoCall
        PROVE  \E u \in Threads : Holds(u, s, i)'
    BY <1>same, <1>buf DEF ClaimsHeld
  <2>1. ~ Holds(t, s, i)
    BY <1>full DEF Holds
  <2> QED BY <1>inv, <1>held, <2>1 DEF ClaimsHeld
<1>5. CallsOnce'
  BY <1>inv, <1>old, <1>buf DEF CallsOnce
<1>6. IndexCounts'
  BY <1>inv, <1>same DEF IndexCounts, CallsOf
<1>7. SlotsApart'
  BY <1>inv, <1>same DEF SlotsApart
<1>8. ReportCopied'
  BY <1>inv, <1>pre, <1>same DEF ReportCopied, SpinReturned, Busy
<1> QED BY <1>1, <1>2, <1>3, <1>4, <1>5, <1>6, <1>7, <1>8 DEF IInv

(***************************************************************************)
(* The end of the run preserves the invariant: the cancellation, the drain *)
(* and stuttering.                                                         *)
(***************************************************************************)
LEMMA EndKeepsInv ==
  ASSUME IInv, TypeOK', Cancel \/ Drain \/ UNCHANGED vars
  PROVE  IInv'
<1>1. /\ write_index' = write_index /\ buffer' = buffer /\ next_slot' = next_slot
      /\ slot_of' = slot_of /\ job' = job /\ ran' = ran
  BY DEF Cancel, Drain, vars
<1>2. /\ JobsClaimed /\ JobsApart /\ SamplesOwned /\ ClaimsHeld
      /\ CallsOnce /\ SlotsApart /\ ReportCopied /\ IndexCounts
  BY DEF IInv
<1>3. /\ JobsClaimed' /\ JobsApart' /\ SamplesOwned' /\ ClaimsHeld'
      /\ CallsOnce' /\ SlotsApart'
  <2>1. JobsClaimed'
    BY <1>1, <1>2 DEF JobsClaimed, Holds, Busy
  <2>2. JobsApart'
    BY <1>1, <1>2 DEF JobsApart, Holds, Busy
  <2>3. SamplesOwned'
    BY <1>1, <1>2 DEF SamplesOwned, Holds, Busy
  <2>4. ClaimsHeld'
    BY <1>1, <1>2 DEF ClaimsHeld, Holds, Busy
  <2>5. CallsOnce' /\ SlotsApart'
    BY <1>1, <1>2 DEF CallsOnce, SlotsApart, Busy
  <2> QED
    BY <2>1, <2>2, <2>3, <2>4, <2>5
<1>4. IndexCounts'
  BY <1>1, <1>2 DEF IndexCounts, CallsOf
<1>5. ReportCopied'
  <2>1. CASE Cancel
    BY <1>2, <2>1 DEF Cancel, ReportCopied, SpinReturned
  <2>2. CASE Drain
    <3>1. SpinReturned'
      BY <2>2 DEF Drain, SpinReturned
    <3>2. \A r \in Recorders : recorded(r)' = recorded(r) /\ overflowed(r)' = overflowed(r)
      BY <1>1 DEF recorded, overflowed
    <3> QED BY <1>1, <2>2, <3>1, <3>2 DEF Drain, ReportCopied
  <2>3. CASE UNCHANGED vars
    BY <1>2, <2>3 DEF vars, ReportCopied, SpinReturned, recorded, overflowed
  <2> QED BY <2>1, <2>2, <2>3
<1> QED BY <1>3, <1>4, <1>5 DEF IInv

(***************************************************************************)
(* Every step preserves the invariant.                                     *)
(***************************************************************************)
LEMMA NextInv == IInv /\ [Next]_vars => IInv'
<1> SUFFICES ASSUME IInv, [Next]_vars PROVE IInv'
  OBVIOUS
<1>1. TypeOK'
  BY NextType DEF IInv
<1>2. ASSUME NEW t \in Threads, NEW r \in Recorders, NEW c \in Calls,
             Claim(t, r, c) \/ Overflow(t, r, c)
      PROVE  IInv'
  BY <1>1, <1>2, ClaimKeepsInv, OverflowKeepsInv
<1>3. ASSUME NEW t \in Threads, RecordStep(t) PROVE IInv'
  BY <1>1, <1>3, StoreArgsKeepsInv, AssignKeepsInv, StoreSlotKeepsInv DEF RecordStep
<1>4. CASE Cancel \/ Drain \/ UNCHANGED vars
  BY <1>1, <1>4, EndKeepsInv
<1> QED BY <1>2, <1>3, <1>4 DEF Next

(***************************************************************************)
(* The invariant holds in every reachable state.                           *)
(***************************************************************************)
THEOREM Invariance == Spec => []IInv
  BY InitInv, NextInv, PTL DEF Spec

-----------------------------------------------------------------------------
(* What the recorder promises.                                             *)

(***************************************************************************)
(* No step changes the call of a sample that has one: record() only stores *)
(* to the index it claimed, and that sample is still blank.                *)
(***************************************************************************)
LEMMA SampleKept ==
  ASSUME IInv, [Next]_vars, NEW r \in Recorders, NEW i \in Slots,
         buffer[r][i].call # NoCall
  PROVE  buffer'[r][i].call = buffer[r][i].call
<1>inv. TypeOK /\ JobsClaimed
  BY DEF IInv
<1>1. ASSUME NEW t \in Threads, StoreArgs(t)
      PROVE  buffer'[r][i].call = buffer[r][i].call
  <2>1. /\ Busy(t) /\ job[t].step = "args"
        /\ buffer'[r][i].call = IF r = job[t].rec /\ i = job[t].idx
                                THEN job[t].call ELSE buffer[r][i].call
    BY <1>1, StoreArgsEffect
  <2>2. buffer[job[t].rec][job[t].idx].call = NoCall
    BY <1>inv, <2>1 DEF JobsClaimed
  <2> QED BY <2>1, <2>2
<1>2. ASSUME NEW t \in Threads, StoreSlot(t)
      PROVE  buffer'[r][i].call = buffer[r][i].call
  BY <1>2, StoreSlotEffect
<1>3. CASE buffer' = buffer
  BY <1>3
<1> QED BY <1>1, <1>2, <1>3
        DEF Next, RecordStep, Claim, Overflow, AssignThreadSlot, Cancel, Drain, vars

(***************************************************************************)
(* A stored sample is never overwritten, however many threads record into  *)
(* the buffer and however small it is.                                     *)
(***************************************************************************)
THEOREM RowsStable == Spec => StoredRowsStable
<1>1. IInv /\ [Next]_vars =>
        [\A r \in Recorders, i \in Slots :
           buffer[r][i].call # NoCall => buffer'[r][i].call = buffer[r][i].call]_vars
  BY SampleKept
<1> QED BY <1>1, Invariance, PTL DEF Spec, StoredRowsStable

(***************************************************************************)
(* When nobody is inside record(), the first recorded(r) samples of the    *)
(* buffer are whole: each carries a callback of r and the slot of the      *)
(* thread that ran it.                                                     *)
(***************************************************************************)
LEMMA QuietRowsWhole ==
  ASSUME IInv, SpinReturned, NEW r \in Recorders, NEW k \in 1 .. recorded(r)
  PROVE  /\ k - 1 \in Slots
         /\ buffer[r][k - 1].call \in CallsOf(r)
         /\ buffer[r][k - 1].call # NoCall
         /\ ran[buffer[r][k - 1].call].thread \in Threads
         /\ slot_of[ran[buffer[r][k - 1].call].thread] # NoSlot
         /\ buffer[r][k - 1].thread_slot = slot_of[ran[buffer[r][k - 1].call].thread]
<1>inv. TypeOK /\ SamplesOwned /\ ClaimsHeld
  BY DEF IInv
<1>1. write_index[r] \in Nat
  BY <1>inv DEF TypeOK
<1>2. k - 1 \in Slots /\ k - 1 < write_index[r]
  BY <1>1, BufferSizePositive DEF recorded, Slots
<1>3. \A t \in Threads, s \in Recorders, i \in Slots : ~ Holds(t, s, i)
  BY DEF SpinReturned, Holds, Busy
<1>4. buffer[r][k - 1].call # NoCall
  BY <1>inv, <1>2, <1>3 DEF ClaimsHeld
<1>5. buffer[r][k - 1].call \in Calls
  <2>1. buffer[r][k - 1] \in Row
    BY <1>inv, <1>2 DEF TypeOK
  <2> QED BY <1>4, <2>1 DEF Row
<1>6. /\ ran[buffer[r][k - 1].call] # NoRun
      /\ ran[buffer[r][k - 1].call].rec = r
      /\ slot_of[ran[buffer[r][k - 1].call].thread] # NoSlot
      /\ buffer[r][k - 1].thread_slot = slot_of[ran[buffer[r][k - 1].call].thread]
  BY <1>inv, <1>2, <1>3, <1>4 DEF SamplesOwned
<1>7. ran[buffer[r][k - 1].call].thread \in Threads
  <2>1. ran[buffer[r][k - 1].call] \in Run
    BY <1>inv, <1>5, <1>6 DEF TypeOK
  <2> QED BY <2>1 DEF Run
<1> QED BY <1>2, <1>4, <1>5, <1>6, <1>7 DEF CallsOf

(***************************************************************************)
(* What the report says of a recorder, in terms of its buffer.             *)
(***************************************************************************)
LEMMA ReportRows ==
  ASSUME IInv, report # NoReport, NEW r \in Recorders
  PROVE  /\ SpinReturned
         /\ RowCount(r) = recorded(r)
         /\ recorded(r) \in Nat
         /\ report[r].lost = overflowed(r)
         /\ \A k \in 1 .. RowCount(r) : report[r].rows[k] = buffer[r][k - 1]
<1>1. /\ SpinReturned
      /\ report[r].rows = [k \in 1 .. recorded(r) |-> buffer[r][k - 1]]
      /\ report[r].lost = overflowed(r)
  <2>1. /\ SpinReturned
        /\ report = [s \in Recorders |->
             [rows |-> [k \in 1 .. recorded(s) |-> buffer[s][k - 1]], lost |-> overflowed(s)]]
    BY DEF IInv, ReportCopied
  <2>2. report[r] =
          [rows |-> [k \in 1 .. recorded(r) |-> buffer[r][k - 1]], lost |-> overflowed(r)]
    BY <2>1, Zenon
  <2> QED BY <2>1, <2>2
<1>2. recorded(r) \in Nat
  BY BufferSizePositive DEF IInv, TypeOK, recorded
<1>3. RowCount(r) = recorded(r)
  BY <1>1, <1>2 DEF RowCount
<1> QED BY <1>1, <1>2, <1>3

(***************************************************************************)
(* Rows and lost samples add up to the callbacks of the recorder.          *)
(***************************************************************************)
LEMMA ReportAddsUp ==
  ASSUME IInv, report # NoReport, NEW r \in Recorders
  PROVE  /\ RowCount(r) + report[r].lost = Cardinality(CallsOf(r))
         /\ report[r].lost > 0 => RowCount(r) = BufferSize
<1>1. write_index[r] \in Nat
  BY DEF IInv, TypeOK
<1>2. Cardinality(CallsOf(r)) = write_index[r]
  BY DEF IInv, IndexCounts
<1>3. RowCount(r) = recorded(r) /\ report[r].lost = overflowed(r)
  BY ReportRows
<1>4. /\ recorded(r) + overflowed(r) = write_index[r]
      /\ overflowed(r) > 0 => recorded(r) = BufferSize
  BY <1>1, BufferSizePositive DEF recorded, overflowed
<1> QED BY <1>2, <1>3, <1>4

(***************************************************************************)
(* The report accounts for every callback execution exactly once, as a row *)
(* or in the overflow count.                                               *)
(***************************************************************************)
THEOREM CallsAccounted == Spec => []EveryCallAccounted
<1>1. IInv => EveryCallAccounted
  <2> SUFFICES ASSUME IInv, report # NoReport, NEW r \in Recorders
        PROVE  /\ \A k \in 1 .. RowCount(r) : report[r].rows[k].call \in CallsOf(r)
               /\ \A k, l \in 1 .. RowCount(r) :
                    report[r].rows[k].call = report[r].rows[l].call => k = l
               /\ RowCount(r) + report[r].lost = Cardinality(CallsOf(r))
               /\ report[r].lost > 0 => RowCount(r) = BufferSize
    BY DEF EveryCallAccounted
  <2>1. /\ SpinReturned /\ RowCount(r) = recorded(r)
        /\ \A k \in 1 .. RowCount(r) : report[r].rows[k] = buffer[r][k - 1]
    BY ReportRows
  <2>2. \A k \in 1 .. RowCount(r) :
          /\ k - 1 \in Slots
          /\ buffer[r][k - 1].call # NoCall
          /\ report[r].rows[k].call \in CallsOf(r)
    BY <2>1, QuietRowsWhole
  <2>3. ASSUME NEW k \in 1 .. RowCount(r), NEW l \in 1 .. RowCount(r),
               report[r].rows[k].call = report[r].rows[l].call
        PROVE  k = l
    <3>1. buffer[r][k - 1].call = buffer[r][l - 1].call
      BY <2>1, <2>3
    <3>2. k - 1 = l - 1
      BY <2>2, <3>1 DEF IInv, CallsOnce
    <3> QED BY <3>2
  <2> QED BY <2>2, <2>3, ReportAddsUp
<1> QED BY <1>1, Invariance, PTL

(***************************************************************************)
(* The thread slots of the rows tell apart exactly the threads that ran    *)
(* the callbacks, across all entities.                                     *)
(***************************************************************************)
THEOREM ThreadsApart == Spec => []RowsTellThreadsApart
<1>1. IInv => RowsTellThreadsApart
  <2> SUFFICES ASSUME IInv, report # NoReport, NEW r \in Recorders, NEW s \in Recorders,
                      NEW k \in 1 .. RowCount(r), NEW l \in 1 .. RowCount(s)
        PROVE  report[r].rows[k].thread_slot = report[s].rows[l].thread_slot
                 <=> ran[report[r].rows[k].call].thread = ran[report[s].rows[l].call].thread
    BY DEF RowsTellThreadsApart
  <2>1. /\ SpinReturned
        /\ RowCount(r) = recorded(r) /\ report[r].rows[k] = buffer[r][k - 1]
        /\ RowCount(s) = recorded(s) /\ report[s].rows[l] = buffer[s][l - 1]
    BY ReportRows
  <2> DEFINE t == ran[report[r].rows[k].call].thread
             u == ran[report[s].rows[l].call].thread
  <2>2. /\ t \in Threads /\ slot_of[t] # NoSlot
        /\ report[r].rows[k].thread_slot = slot_of[t]
    BY <2>1, QuietRowsWhole
  <2>3. /\ u \in Threads /\ slot_of[u] # NoSlot
        /\ report[s].rows[l].thread_slot = slot_of[u]
    BY <2>1, QuietRowsWhole
  <2> HIDE DEF t, u
  <2>4. slot_of[t] = slot_of[u] <=> t = u
    BY <2>2, <2>3 DEF IInv, SlotsApart
  <2>5. report[r].rows[k].thread_slot = report[s].rows[l].thread_slot <=> t = u
    BY <2>2, <2>3, <2>4
  <2> QED BY <2>5 DEF t, u
<1> QED BY <1>1, Invariance, PTL

-----------------------------------------------------------------------------
(* The recorder implements SampleLog.                                      *)

\* CallAt, without its CHOOSE: a stored call is itself, and a sample that is
\* being filled has the call of the thread that fills it.
CallsSpelled ==
  \A r \in Recorders : \A i \in Slots :
    /\ buffer[r][i].call # NoCall => CallAt(r, i) = buffer[r][i].call
    /\ \A t \in Threads : Filling(t, r, i) => CallAt(r, i) = job[t].call

(***************************************************************************)
(* No two threads fill one sample, so that the call of a claimed sample is *)
(* determined before it is stored.                                         *)
(***************************************************************************)
LEMMA CallsDetermined == IInv => CallsSpelled
<1> SUFFICES ASSUME IInv, NEW r \in Recorders, NEW i \in Slots
    PROVE  /\ buffer[r][i].call # NoCall => CallAt(r, i) = buffer[r][i].call
           /\ \A t \in Threads : Filling(t, r, i) => CallAt(r, i) = job[t].call
  BY DEF CallsSpelled
<1>1. buffer[r][i].call # NoCall => CallAt(r, i) = buffer[r][i].call
  BY DEF CallAt
<1>2. ASSUME NEW t \in Threads, Filling(t, r, i)
      PROVE  CallAt(r, i) = job[t].call
  <2>1. buffer[r][i].call = NoCall
    BY <1>2 DEF IInv, JobsClaimed, Busy, Filling
  <2>2. \A u \in Threads : Filling(u, r, i) => u = t
    BY <1>2 DEF IInv, JobsApart, Busy, Filling
  <2>3. (CHOOSE u \in Threads : Filling(u, r, i)) = t
    BY <1>2, <2>2
  <2> QED BY <2>1, <2>3 DEF CallAt
<1> QED BY <1>1, <1>2

(***************************************************************************)
(* A step does not change the call of a claimed sample: storing it is      *)
(* invisible to the log.                                                   *)
(***************************************************************************)
LEMMA CallAtKept ==
  ASSUME IInv, IInv', [Next]_vars, NEW r \in Recorders, NEW i \in Slots, i < write_index[r]
  PROVE  CallAt(r, i)' = CallAt(r, i) /\ CallAt(r, i) \in Calls
<1>now. CallsSpelled
  BY CallsDetermined
<1>next. CallsSpelled'
  <2>1. IInv' => CallsSpelled'
    BY CallsDetermined, PTL
  <2> QED BY <2>1
<1>1. CASE buffer[r][i].call # NoCall
  <2>1. buffer'[r][i].call = buffer[r][i].call
    BY <1>1, SampleKept
  <2>2. buffer[r][i].call \in Calls
    <3>1. buffer[r][i] \in Row
      BY DEF IInv, TypeOK
    <3> QED BY <1>1, <3>1 DEF Row
  <2> QED BY <1>1, <1>now, <1>next, <2>1, <2>2 DEF CallsSpelled
<1>2. CASE buffer[r][i].call = NoCall
  <2>1. PICK t \in Threads : Holds(t, r, i)
    BY <1>2 DEF IInv, ClaimsHeld
  <2>2. /\ job[t] # NoJob /\ job[t].rec = r /\ job[t].idx = i
        /\ job[t].step \in {"args", "slot"} /\ job[t].call \in Calls
    BY <2>1, BusyJob DEF IInv, Holds, Busy
  <2>3. job[t].step = "args"
    BY <1>2, <2>2, RecorderAssumption DEF IInv, JobsClaimed, Busy
  <2>4. CallAt(r, i) = job[t].call
    BY <1>now, <2>2, <2>3 DEF CallsSpelled, Filling
  <2>5. CASE job'[t] = job[t]
    BY <1>next, <2>2, <2>3, <2>4, <2>5 DEF CallsSpelled, Filling
  <2>6. CASE StoreArgs(t)
    <3>1. buffer'[r][i].call = job[t].call
      BY <2>2, <2>6, StoreArgsEffect
    <3>2. buffer'[r][i].call # NoCall
      BY <2>2, <3>1, RecorderAssumption
    <3>3. CallAt(r, i)' = buffer'[r][i].call
      BY <1>next, <3>2 DEF CallsSpelled
    <3> QED BY <2>2, <2>4, <3>1, <3>3
  <2>7. job'[t] = job[t] \/ StoreArgs(t)
    <3>1. ASSUME NEW u \in Threads, NEW s \in Recorders, NEW c \in Calls,
                 Claim(u, s, c) \/ Overflow(u, s, c)
          PROVE  job'[t] = job[t]
      BY <2>2, <3>1, ClaimEffect, OverflowEffect DEF Claimed, Busy
    <3>2. ASSUME NEW u \in Threads, StoreArgs(u)
          PROVE  job'[t] = job[t] \/ StoreArgs(t)
      BY <3>2, StoreArgsEffect
    <3>3. ASSUME NEW u \in Threads, StoreSlot(u)
          PROVE  job'[t] = job[t]
      BY <2>3, <3>3, StoreSlotEffect
    <3>4. CASE job' = job
      BY <3>4
    <3> QED BY <3>1, <3>2, <3>3, <3>4
            DEF Next, RecordStep, AssignThreadSlot, Cancel, Drain, vars
  <2> QED BY <2>2, <2>4, <2>5, <2>6, <2>7
<1> QED BY <1>1, <1>2

(***************************************************************************)
(* The abstract log of a recorder, point by point.                         *)
(***************************************************************************)
LEMMA LogRows ==
  ASSUME IInv, NEW r \in Recorders, \A i \in Slots : i < write_index[r] => CallAt(r, i) \in Calls
  PROVE  /\ recorded(r) \in Nat
         /\ AbstractLog[r] \in Seq(Calls)
         /\ Len(AbstractLog[r]) = recorded(r)
         /\ \A k \in 1 .. recorded(r) :
              /\ k - 1 \in Slots /\ k - 1 < write_index[r]
              /\ AbstractLog[r][k] = CallAt(r, k - 1)
<1>1. write_index[r] \in Nat
  BY DEF IInv, TypeOK
<1>2. recorded(r) \in Nat
  BY <1>1, BufferSizePositive DEF recorded
<1>3. \A k \in 1 .. recorded(r) : k - 1 \in Slots /\ k - 1 < write_index[r]
  BY <1>1, BufferSizePositive DEF recorded, Slots
<1>4. AbstractLog[r] = [k \in 1 .. recorded(r) |-> CallAt(r, k - 1)]
  BY DEF AbstractLog
<1>5. \A k \in 1 .. recorded(r) : CallAt(r, k - 1) \in Calls
  BY <1>3
<1> HIDE DEF AbstractLog
<1> QED BY <1>2, <1>3, <1>4, <1>5

(***************************************************************************)
(* A step that claims no index leaves the abstract log as it is.           *)
(***************************************************************************)
LEMMA LogKept ==
  ASSUME IInv, IInv', [Next]_vars, write_index' = write_index
  PROVE  /\ AbstractLog' = AbstractLog
         /\ [r \in Recorders |-> overflowed(r)]' = [r \in Recorders |-> overflowed(r)]
<1>1. \A r \in Recorders : recorded(r)' = recorded(r) /\ overflowed(r)' = overflowed(r)
  BY DEF recorded, overflowed
<1>2. ASSUME NEW r \in Recorders, NEW k \in 1 .. recorded(r)
      PROVE  CallAt(r, k - 1)' = CallAt(r, k - 1)
  <2>1. k - 1 \in Slots /\ k - 1 < write_index[r]
    BY BufferSizePositive DEF IInv, TypeOK, recorded, Slots
  <2> QED BY <2>1, CallAtKept
<1>3. \A r \in Recorders :
        [k \in 1 .. recorded(r) |-> CallAt(r, k - 1)]'
          = [k \in 1 .. recorded(r) |-> CallAt(r, k - 1)]
  BY <1>1, <1>2
<1> QED BY <1>1, <1>3 DEF AbstractLog

(***************************************************************************)
(* A claim hands over a whole sample: it is appended to the log.           *)
(***************************************************************************)
LEMMA ClaimAppends ==
  ASSUME IInv, IInv', NEW t \in Threads, NEW r \in Recorders, NEW c \in Calls, Claim(t, r, c)
  PROVE  /\ AbstractLog' = [AbstractLog EXCEPT ![r] = Append(@, c)]
         /\ Len(AbstractLog[r]) < BufferSize
         /\ [s \in Recorders |-> overflowed(s)]' = [s \in Recorders |-> overflowed(s)]
<1>eff. Claimed(t, r, c)
  BY ClaimEffect
<1>next. [Next]_vars
  BY DEF Next
<1>idx. \A s \in Recorders : write_index[s] \in Nat
  BY DEF IInv, TypeOK
<1>spelled. CallsSpelled'
  <2>1. IInv' => CallsSpelled'
    BY CallsDetermined, PTL
  <2> QED BY <2>1
<1>1. \A s \in Recorders : overflowed(s)' = overflowed(s)
  BY <1>eff, <1>idx, BufferSizePositive DEF Claimed, overflowed, Slots
<1>2. \A s \in Recorders :
        recorded(s)' = IF s = r THEN recorded(r) + 1 ELSE recorded(s)
  BY <1>eff, <1>idx, BufferSizePositive DEF Claimed, recorded, Slots
<1>3. recorded(r) = write_index[r] /\ recorded(r) < BufferSize
  BY <1>eff, <1>idx, BufferSizePositive DEF Claimed, recorded, Slots
<1>4. \A s \in Recorders : \A i \in Slots :
        i < write_index[s] => CallAt(s, i)' = CallAt(s, i) /\ CallAt(s, i) \in Calls
  BY <1>next, CallAtKept
<1>5. ASSUME NEW i \in Slots, i = write_index[r]
      PROVE  CallAt(r, i)' = c
  <2>1. Filling(t, r, i)' /\ job'[t].call = c
    BY <1>eff, <1>5 DEF Claimed, Filling
  <2> QED BY <1>spelled, <2>1 DEF CallsSpelled
<1>6. \A s \in Recorders :
        /\ recorded(s) \in Nat
        /\ AbstractLog[s] \in Seq(Calls)
        /\ Len(AbstractLog[s]) = recorded(s)
        /\ \A k \in 1 .. recorded(s) :
             /\ k - 1 \in Slots /\ k - 1 < write_index[s]
             /\ AbstractLog[s][k] = CallAt(s, k - 1)
  BY <1>4, LogRows
<1>7. ASSUME NEW s \in Recorders, s # r
      PROVE  [k \in 1 .. recorded(s) |-> CallAt(s, k - 1)]'
               = [k \in 1 .. recorded(s) |-> CallAt(s, k - 1)]
  BY <1>2, <1>4, <1>6, <1>7
<1>8. [k \in 1 .. recorded(r) |-> CallAt(r, k - 1)]' = Append(AbstractLog[r], c)
  <2> DEFINE new == [k \in 1 .. recorded(r) |-> CallAt(r, k - 1)]'
             old == Append(AbstractLog[r], c)
             n == recorded(r)
  <2>1. /\ old \in Seq(Calls) /\ Len(old) = n + 1
        /\ \A k \in 1 .. n : old[k] = AbstractLog[r][k]
        /\ old[n + 1] = c
    BY <1>6, AppendProperties
  <2>2. new = [k \in 1 .. n + 1 |-> CallAt(r, k - 1)']
    BY <1>2
  <2>3. \A k \in 1 .. n : CallAt(r, k - 1)' = old[k]
    BY <1>4, <1>6, <2>1
  <2>4. ASSUME NEW k \in 1 .. n + 1, k = n + 1
        PROVE  CallAt(r, k - 1)' = old[k]
    <3>1. k - 1 = write_index[r] /\ k - 1 \in Slots
      BY <1>3, <1>6, <2>4, <1>eff DEF Claimed
    <3> QED BY <1>5, <2>1, <2>4, <3>1
  <2>5. ASSUME NEW k \in 1 .. n + 1
        PROVE  CallAt(r, k - 1)' = old[k]
    <3>1. k \in 1 .. n \/ k = n + 1
      BY <1>6
    <3> QED BY <2>3, <2>4, <3>1
  <2>6. n + 1 \in Nat
    BY <1>6
  <2>7. DOMAIN old = 1 .. n + 1 /\ old = [k \in 1 .. n + 1 |-> old[k]]
    BY <2>1, <2>6
  <2> HIDE DEF new, old, n
  <2> QED BY <2>2, <2>5, <2>7 DEF new, old
<1>9. AbstractLog' = [s \in Recorders |->
                        IF s = r THEN Append(AbstractLog[r], c) ELSE AbstractLog[s]]
  BY <1>7, <1>8 DEF AbstractLog
<1>10. AbstractLog = [s \in Recorders |-> AbstractLog[s]]
  BY DEF AbstractLog
<1>11. AbstractLog' = [AbstractLog EXCEPT ![r] = Append(@, c)]
  <2> HIDE DEF AbstractLog
  <2> QED BY <1>9, <1>10
<1> QED BY <1>1, <1>3, <1>6, <1>11

(***************************************************************************)
(* The empty buffers are the empty log.                                    *)
(***************************************************************************)
LEMMA RefineInit == Init => Log!Init
<1> SUFFICES ASSUME Init PROVE Log!Init
  OBVIOUS
<1>1. \A r \in Recorders : recorded(r) = 0 /\ overflowed(r) = 0
  BY BufferSizePositive DEF Init, recorded, overflowed
<1>2. AbstractLog = [r \in Recorders |-> << >>]
  <2>1. ASSUME NEW r \in Recorders
        PROVE  [k \in 1 .. recorded(r) |-> CallAt(r, k - 1)] = << >>
    BY <1>1
  <2> QED BY <2>1 DEF AbstractLog
<1>3. {c \in Calls : ran[c] # NoRun} = {}
  BY DEF Init
<1>4. AbstractReport = NoReport
  BY DEF Init, AbstractReport
<1> QED BY <1>1, <1>2, <1>3, <1>4 DEF Log!Init

(***************************************************************************)
(* While callbacks are dispatched there is no report, and a callback that  *)
(* ends joins the samples handed over.                                     *)
(***************************************************************************)
LEMMA RefineHandOver ==
  ASSUME IInv, NEW t \in Threads, NEW r \in Recorders, NEW c \in Calls,
         CallbackEnds(t, r, c), report' = report
  PROVE  Log!HandOver(c) /\ AbstractReport' = AbstractReport
<1>1. report = NoReport
  BY DEF IInv, ReportCopied, SpinReturned, CallbackEnds
<1>2. AbstractReport = NoReport /\ AbstractReport' = NoReport
  BY <1>1 DEF AbstractReport
<1>3. \A d \in Calls : ran'[d] # NoRun <=> d = c \/ ran[d] # NoRun
  <2>1. [thread |-> t, rec |-> r] \in Run
    BY DEF Run
  <2> QED BY <2>1, RecorderAssumption DEF CallbackEnds, IInv, TypeOK
<1>4. {d \in Calls : ran'[d] # NoRun} = {d \in Calls : ran[d] # NoRun} \cup {c}
  BY <1>3
<1>5. c \notin {d \in Calls : ran[d] # NoRun}
  BY DEF CallbackEnds
<1> QED BY <1>2, <1>4, <1>5 DEF Log!HandOver

(***************************************************************************)
(* A claim is the handing over of a sample that is kept.                   *)
(***************************************************************************)
LEMMA RefineClaim ==
  ASSUME IInv, IInv', NEW t \in Threads, NEW r \in Recorders, NEW c \in Calls, Claim(t, r, c)
  PROVE  Log!Keep(r, c)
<1>1. Log!HandOver(c) /\ AbstractReport' = AbstractReport
  BY RefineHandOver DEF Claim
<1>2. /\ AbstractLog' = [AbstractLog EXCEPT ![r] = Append(@, c)]
      /\ Len(AbstractLog[r]) < BufferSize
      /\ [s \in Recorders |-> overflowed(s)]' = [s \in Recorders |-> overflowed(s)]
  BY ClaimAppends
<1> QED BY <1>1, <1>2 DEF Log!Keep

(***************************************************************************)
(* An overflow is the handing over of a sample that is lost.               *)
(***************************************************************************)
LEMMA RefineOverflow ==
  ASSUME IInv, IInv', NEW t \in Threads, NEW r \in Recorders, NEW c \in Calls, Overflow(t, r, c)
  PROVE  Log!Lose(r, c)
<1>1. Log!HandOver(c) /\ AbstractReport' = AbstractReport
  BY RefineHandOver DEF Overflow
<1>next. [Next]_vars
  BY DEF Next
<1>eff. /\ write_index[r] >= BufferSize
        /\ \A s \in Recorders :
             write_index'[s] = IF s = r THEN write_index[r] + 1 ELSE write_index[s]
  BY OverflowEffect
<1>idx. \A s \in Recorders : write_index[s] \in Nat
  BY DEF IInv, TypeOK
<1>2. \A s \in Recorders : recorded(s)' = recorded(s)
  BY <1>eff, <1>idx, BufferSizePositive DEF recorded
<1>3. \A s \in Recorders :
        overflowed(s)' = IF s = r THEN overflowed(r) + 1 ELSE overflowed(s)
  BY <1>eff, <1>idx, BufferSizePositive DEF overflowed
<1>4. \A s \in Recorders : \A i \in Slots :
        i < write_index[s] => CallAt(s, i)' = CallAt(s, i) /\ CallAt(s, i) \in Calls
  BY <1>next, CallAtKept
<1>5. \A s \in Recorders :
        /\ Len(AbstractLog[s]) = recorded(s)
        /\ \A k \in 1 .. recorded(s) : k - 1 \in Slots /\ k - 1 < write_index[s]
  BY <1>4, LogRows
<1>6. AbstractLog' = AbstractLog
  <2>1. \A s \in Recorders :
          [k \in 1 .. recorded(s) |-> CallAt(s, k - 1)]'
            = [k \in 1 .. recorded(s) |-> CallAt(s, k - 1)]
    BY <1>2, <1>4, <1>5
  <2> QED BY <2>1 DEF AbstractLog
<1>7. Len(AbstractLog[r]) = BufferSize
  BY <1>eff, <1>idx, <1>5, BufferSizePositive DEF recorded
<1>8. [s \in Recorders |-> overflowed(s)]'
        = [[s \in Recorders |-> overflowed(s)] EXCEPT ![r] = @ + 1]
  BY <1>3
<1> QED BY <1>1, <1>6, <1>7, <1>8 DEF Log!Lose

(***************************************************************************)
(* The drain copies the log and the losses.                                *)
(***************************************************************************)
LEMMA RefineDrain ==
  ASSUME IInv, IInv', Drain
  PROVE  Log!MakeReport
<1>next. [Next]_vars
  BY DEF Next
<1>same. /\ write_index' = write_index /\ ran' = ran /\ report = NoReport
         /\ report' = [r \in Recorders |->
              [rows |-> [k \in 1 .. recorded(r) |-> buffer[r][k - 1]], lost |-> overflowed(r)]]
  BY DEF Drain
<1>1. /\ AbstractLog' = AbstractLog
      /\ [r \in Recorders |-> overflowed(r)]' = [r \in Recorders |-> overflowed(r)]
  BY <1>next, <1>same, LogKept
<1>2. AbstractReport = NoReport
  BY <1>same DEF AbstractReport
<1>3. report' # NoReport
  BY <1>same, DrainedType, RecorderAssumption DEF IInv
<1>4. ASSUME NEW r \in Recorders
      PROVE  /\ report'[r].lost = overflowed(r)
             /\ [k \in 1 .. Len(report'[r].rows) |-> report'[r].rows[k].call] = AbstractLog[r]
  <2>1. report'[r] =
          [rows |-> [k \in 1 .. recorded(r) |-> buffer[r][k - 1]], lost |-> overflowed(r)]
    BY <1>same, Zenon
  <2>2. /\ report'[r].lost = overflowed(r)
        /\ report'[r].rows = [k \in 1 .. recorded(r) |-> buffer[r][k - 1]]
    BY <2>1
  <2>3. recorded(r) \in Nat
    BY BufferSizePositive DEF IInv, TypeOK, recorded
  <2>4. Len(report'[r].rows) = recorded(r)
    BY <2>2, <2>3
  <2>5. \A k \in 1 .. recorded(r) : buffer[r][k - 1].call = CallAt(r, k - 1)
    <3>1. SpinReturned
      BY DEF Drain
    <3>2. \A k \in 1 .. recorded(r) : buffer[r][k - 1].call # NoCall
      BY <3>1, QuietRowsWhole
    <3> QED BY <3>2 DEF CallAt
  <2>6. [k \in 1 .. Len(report'[r].rows) |-> report'[r].rows[k].call]
          = [k \in 1 .. recorded(r) |-> CallAt(r, k - 1)]
    BY <2>2, <2>4, <2>5
  <2> QED BY <2>2, <2>6 DEF AbstractLog
<1>5. AbstractReport' = [r \in Recorders |-> [rows |-> AbstractLog[r], lost |-> overflowed(r)]]
  <2>1. AbstractReport' = [r \in Recorders |->
           [rows |-> [k \in 1 .. Len(report'[r].rows) |-> report'[r].rows[k].call],
            lost |-> report'[r].lost]]
    BY <1>3 DEF AbstractReport
  <2> QED BY <1>4, <2>1, Zenon
<1> DEFINE lostNow == [r \in Recorders |-> overflowed(r)]
<1>6. AbstractReport' = [r \in Recorders |-> [rows |-> AbstractLog[r], lost |-> lostNow[r]]]
  BY <1>5
<1> QED BY <1>same, <1>1, <1>2, <1>6 DEF Log!MakeReport

(***************************************************************************)
(* The stores of record() and the cancellation are invisible to the log.   *)
(***************************************************************************)
LEMMA RefineStutter ==
  ASSUME IInv, IInv', [Next]_vars,
         write_index' = write_index, ran' = ran, report' = report
  PROVE  UNCHANGED Log!vars
<1>1. AbstractReport' = AbstractReport
  BY DEF AbstractReport
<1>2. /\ AbstractLog' = AbstractLog
      /\ [r \in Recorders |-> overflowed(r)]' = [r \in Recorders |-> overflowed(r)]
  BY LogKept
<1>3. {c \in Calls : ran[c] # NoRun}' = {c \in Calls : ran[c] # NoRun}
  OBVIOUS
<1> QED BY <1>1, <1>2, <1>3 DEF Log!vars

(***************************************************************************)
(* Every step of the recorder is a step of the log or invisible to it.     *)
(***************************************************************************)
LEMMA RefineNext == IInv /\ IInv' /\ [Next]_vars => [Log!Next]_Log!vars
<1> SUFFICES ASSUME IInv, IInv', [Next]_vars PROVE [Log!Next]_Log!vars
  OBVIOUS
<1>1. ASSUME NEW t \in Threads, NEW r \in Recorders, NEW c \in Calls,
             Claim(t, r, c) \/ Overflow(t, r, c)
      PROVE  Log!Next
  <2>1. Log!Keep(r, c) \/ Log!Lose(r, c)
    BY <1>1, RefineClaim, RefineOverflow
  <2> QED BY <2>1 DEF Log!Next
<1>2. ASSUME NEW t \in Threads, RecordStep(t) PROVE UNCHANGED Log!vars
  <2>1. write_index' = write_index /\ ran' = ran /\ report' = report
    BY <1>2 DEF RecordStep, StoreArgs, AssignThreadSlot, StoreSlot
  <2> QED BY <2>1, RefineStutter
<1>3. CASE Cancel \/ UNCHANGED vars
  <2>1. write_index' = write_index /\ ran' = ran /\ report' = report
    BY <1>3 DEF Cancel, vars
  <2> QED BY <2>1, RefineStutter
<1>4. CASE Drain
  <2>1. Log!MakeReport
    BY <1>4, RefineDrain
  <2> QED BY <2>1 DEF Log!Next
<1> QED BY <1>1, <1>2, <1>3, <1>4 DEF Next

(***************************************************************************)
(* Whatever the threads do inside record(), the report could have come     *)
(* from handing over whole samples one at a time: each kept in order until *)
(* the buffer is full, each later one counted as lost.                     *)
(***************************************************************************)
THEOREM Implementation == Spec => ImplementsLog
  BY RefineInit, RefineNext, Invariance, PTL DEF Spec, ImplementsLog, Log!Spec
=============================================================================
