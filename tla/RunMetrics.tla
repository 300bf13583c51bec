----------------------------- MODULE RunMetrics -----------------------------
(***************************************************************************)
(* The figures write_results() derives from the recorders of a run         *)
(* (run_metadata.cpp), as operators on what the recorders hold: a function *)
(* from subscriptions 0 .. n-1 to records [rows, lost], the samples in the *)
(* order of the buffer and the overflow count.  Times are integers; means, *)
(* deviations and the layout of the two files are left out.                *)
(***************************************************************************)
EXTENDS SequencesExt

WithRows(recs) == {r \in DOMAIN recs : recs[r].rows # << >>}

\* The publish window: from the first row of each buffer and the last.
window_lo(recs) == Min({Head(recs[r].rows).t_reference : r \in WithRows(recs)})

window_hi(recs) == Max({Last(recs[r].rows).t_reference : r \in WithRows(recs)})

\* Faulty variant, for ThroughputMeasured of RunClock: the nominal duration
\* is the window.
FaultyWindow(recs, duration) == duration

\* Without two distinct stamps the nominal duration stands in for it.
WindowObserved(recs) == WithRows(recs) # {} /\ window_hi(recs) > window_lo(recs)

window(recs, duration) ==
  IF WindowObserved(recs) THEN window_hi(recs) - window_lo(recs) ELSE duration

\* The callbacks a rate of num/den should have delivered in the window,
\* times den: n ticks span n - 1 periods.
expected_for(num, den, win) == num * win + den

Seqs(rows) == {rows[k].seq : k \in 1 .. Len(rows)}

\* Faulty variant, for DroppedIsQueueLoss: the range is one short.
FaultyGap(lo, hi) == hi - lo

RangeSize(lo, hi) == hi - lo + 1

dropped_by(rows) == RangeSize(Min(Seqs(rows)), Max(Seqs(rows))) - Len(rows)

dropped(recs) == SumFunction([r \in WithRows(recs) |-> dropped_by(recs[r].rows)])

\* The recorders in the order in which the registry lists them.
recorders(recs) == [k \in 1 .. Cardinality(DOMAIN recs) |-> recs[k - 1]]

Total(v) == FoldLeft(+, 0, v)

overflowed(recs) == Total([k \in DOMAIN recorders(recs) |-> recorders(recs)[k].lost])

total_received(recs) ==
  Total([k \in DOMAIN recorders(recs) |-> Len(recorders(recs)[k].rows)])

Latencies(rows) == [k \in DOMAIN rows |-> rows[k].t_start - rows[k].t_reference]

AllLatencies(recs) ==
  FlattenSeq([k \in DOMAIN recorders(recs) |-> Latencies(recorders(recs)[k].rows)])

latency_sum(recs) == Total(AllLatencies(recs))

\* The sorted vector at p per cent, the position rounded half up.
percentile(sorted, p) == sorted[(2 * p * (Len(sorted) - 1) + 100) \div 200 + 1]

\* Faulty variant, for SummaryAgreesWithRows: the vector is used unsorted.
FaultyAscending(v) == v

Ascending(v) ==
  LET order == CHOOSE p \in Bijection(DOMAIN v, DOMAIN v) :
                 \A i, j \in DOMAIN v : i < j => v[p[i]] <= v[p[j]]
  IN  [i \in DOMAIN v |-> v[order[i]]]

\* A row of the summary; dump() writes none for an empty vector.
dump(v) ==
  LET sorted == Ascending(v)
  IN  [count |-> Len(v), min |-> Head(sorted), max |-> Last(sorted),
       p50 |-> percentile(sorted, 50), p90 |-> percentile(sorted, 90),
       p95 |-> percentile(sorted, 95), p99 |-> percentile(sorted, 99)]

summary(recs) == [r \in WithRows(recs) |-> dump(Latencies(recs[r].rows))]
=============================================================================
