# Verification of executor_comparison

`executor_comparison` measures ROS 2 executors. A load generator publishes
stamped, numbered messages; bench nodes in a component container receive them
and run timers; every callback stores one sample; when the run is over a writer
turns the samples into two CSV files; a script repeats that over a matrix of
configurations and draws what it finds. The numbers are only worth something if
the instrument neither loses samples silently nor invents them while many
executor threads use it at once, and if what is drawn is what was run. These
TLA+ modules state what the instrument promises, check it on small instances
with TLC, and prove most of its safety for every size with TLAPS.

Paths below are relative to the repository; `EC` is `src/executor_comparison`.

## 1. Inventory

| Component | Source | State | Operations | Talks to |
|---|---|---|---|---|
| callback recorder | `EC/src/callback_recorder.cpp` | `write_index_`, `buffer_`, the counter of `thread_slot()`, one thread-local id per thread; the registry's vector | `record()`, `recorded()`, `overflowed()`, `thread_slot()`, `MetricsRegistry::add/recorders/clear` | called by bench nodes on executor threads, read by the writer |
| bench node | `EC/src/bench_node.cpp` | callback groups, `timer_prev_fire_ns_`, `timer_seq_` | constructor, `on_probe()`, `on_timer()` | dispatched by the executor, calls `record()` |
| load generator | `EC/src/load_generator.cpp` | `seq_`, `round_robin_cursor_`, timers | `start()`, `tick()`, `publish_one()` | publishes to the bench nodes |
| run metrics | `EC/src/run_metadata.cpp`, `load_profile.cpp` | none | `write_results()`, `topic_rate_hz()`, percentiles, summary rows | called by the writer |
| run clock | launch file, `load_generator.cpp`, `run_metadata.cpp` | shutdown, warm-up and publish timers | what starts when, and what is measured | across three processes |
| resource sampler | `EC/src/resource_sampler.cpp` | `running_`, a thread, `stats_` | `start()`, `stop()`, `run()` | owned by the writer, reads /proc |
| metrics writer | `EC/src/metrics_writer.cpp` | metadata, the sampler | constructor, destructor | registry, sampler, metrics |
| executor container | `EC/src/executor_container.cpp` | the component manager | `main()` | loads the components, spins the executor |
| executor factory | `EC/src/executor_factory.cpp` | the list of executors | `canonical_key()`, `make_executor()` | called by the container |
| launch file | `EC/launch/executor_bench.launch.py` | cursors over topics and timers | `_build()` | starts generator and container, signals the end |
| run matrix | `run_all.sh`, `run_single.sh` | the loops, the results directory | nested loops over the axes | runs the launch file, then the plots |
| plots | `scripts/plot_executors.py` | none | collect CSVs, group, draw | reads the results |

What is hard about it, and which properties answer it (PROJECT.json lists each
hazard at its line):

* *Concurrency.* `record()` is lock-free and runs on any number of threads;
  `thread_slot()` has a process-wide counter; `on_timer()` keeps unsynchronised
  state that only the callback group protects; the sampler walks over threads
  that switch and exit under it.
* *Limits.* Buffers of fixed size and KEEP_LAST queues lose samples by design;
  the promise is that each loss is counted, and in the right column.
* *Ordering.* The publish window and the drop count are read off the ends of
  the buffers, which is right only if rows are stored in order of publication.
* *Clocks.* The shutdown timer, the warm-up and the publish timers start at
  different moments in different processes, while the container still loads; a
  publication may block and a late timer skips calls. Result files are named
  after a wall clock that can be set back.
* *The end of a run.* A signal at any moment, joins, destruction in an
  unspecified order, a process that is killed and leaves half a file.
* *Campaigns.* Ten nested loops under `set -e`, file names that leave out some
  of the axes, rows of a plot that leave out others.

Correctness of each component, in a sentence: the recorder is a log of whole
samples (`ImplementsLog`); a bench node's rows are those of its callback group
(`GroupMembersNeverOverlap`, `TimerRowsChain`, `ProbeRowsInOrder`); the
generator serves all topics alike (`TopicsStayLevel`, `EveryTopicPublished`);
the path from publication to report is still that log and accounts for each
message (`ImplementsLog`, `EveryMessageAccounted`, `DroppedIsQueueLoss`,
`WindowCoversRows`), and the summary says what the rows say
(`SummaryAgreesWithRows`); on the clock of a run nobody publishes to nobody
from within the container, nobody for too long, and the throughput measures the
executor (`HeardFromTheStart`, `PublishingFits`, `ThroughputMeasured`); the
samples of the sampler leave out no CPU time between the first and the last and
count none twice (`CpuTicksCountedOnce`), its switches are those of the run
(`SwitchesWithinRun`), and it stops (`StatsAreFinal`, `StopReturns`); the launch file gives
every topic one subscriber and every entity room (`SubscribersMatchTopics`,
`EntitiesNamedApart`, `BuffersHoldTheRun`); the container leaves complete
results whenever it ends by itself (`ResultsComplete`, `NothingAfterDrain`,
`EveryRunEnds`); a campaign runs its whole matrix before it draws, overwrites
nothing unless the clock is set back, and draws every complete run (`MatrixCovered`, `ResultsKept`,
`CompleteRunsPlotted`).

## 2. Modules

| Module | Models | How state and actions correspond |
|---|---|---|
| `SampleLog` | abstract specification of the recording side | per recorder a sequence of samples and a count of lost ones; `Keep`, `Lose`, `MakeReport` |
| `CallbackRecorder` | `record()` and the drain | `Claim`/`Overflow` are the `fetch_add` and the bounds test, `StoreArgs` the stores of the arguments, `AssignThreadSlot` the first use of the thread-local, `StoreSlot` the last store; `Cancel`, `Drain` the end of the run |
| `BenchNode` | bench nodes on an executor | `Stamp`, `ReadPrev`, `WritePrev`, `ProbeWork`/`TimerWork`, `ReadSeq`, `WriteSeq`, `Record` are the statements of `on_probe()` and `on_timer()` that touch shared state; `CanBeTaken`, `KeepLast`, `NextCall` stand for rclcpp and the middleware |
| `LoadGenerator` | the publisher | `Start` is the warm-up timer, `RoundRobinTick`, `BurstIteration`, `TopicTimer` the ticks of each publish mode |
| `LoadProfile` | `topic_rate_hz()` | the rate of a topic as a fraction |
| `RunMetrics` | `write_results()` as operators | window, expected, drops, overflows, totals, percentiles and summary rows, over what the recorders hold |
| `ProbePath` | generator, queues, callbacks, recorders and report composed | `Publish` is a generator step that also fills a queue; `StartProbe`, `FinishProbe` a callback; `WriteResults` applies `RunMetrics` |
| `RunClock` | the timers of a run | `StartGenerator`, `Start`, `Fire` and `SpinEnds` are the launch of the generator, its warm-up timer, the call of a publish timer and the end of spin(); `PublishOne` one publish() of the tick under way, with time passing between two of them; `Stored` where the row can end up in its buffer; `LoadBenchNode` the container; `NextCall` the timer of rcl, which skips calls that are past; `Advance` the passing of time |
| `ResourceSampler` | the sampling thread | one action per read of /proc; `start`, `stop`, `Join` the owner; `Spawn`, `Switch`, `Exit`, `CpuTick` the process around it |
| `LaunchArguments` | what `_build()` accepts | `Accepted` |
| `LaunchPlan` | `_build()` | `Refuse` or `Size`, one `AddBenchNode` per iteration of the loop, `PlaceGenerator`, `PickContainer`; `SubscribedBy`, `PublishedTopics` say what the constructors make of the parameters |
| `RunLifecycle` | the container process from `main()` to exit | `Reject`/`Spin`, `Load`/`LoadFails`, `SpinReturns`, destruction in any order, `OpenFiles`, `CloseFiles`, `Kill` |
| `RunMatrix` | `run_all.sh` and the plots | `Run` is the body of the innermost loop with the step of the loops, `Refused` and `ServiceFails` end the script, `Plot` and `NothingToPlot` are `plot_executors.py`, `Again` the next campaign; `SetBack` is the host's clock |
| `CallbackRecorderProofs`, `BenchNodeProofs`, `ProbePathProofs` (which has those about the generator and the metrics too), `RunClockProofs`, `ResourceSamplerProofs`, `LaunchPlanProofs`, `RunLifecycleProofs`, `RunMatrixProofs` | theorems about these modules | section 5 |

Composition. `ProbePath` extends `LoadGenerator`, whose variables it keeps, and
`RunMetrics`;
`RunClock` extends `RunMetrics` and `LoadProfile`; `LaunchPlan` extends
`LoadProfile` and `LaunchArguments`, `RunMatrix` extends `LaunchArguments`. So
the generator that publishes, the buffers that are sized for it and the figures
that divide by it use one definition of a rate, as the code does.
`CallbackRecorder` implements `SampleLog` under a refinement mapping; because it
does, the modules above it (`BenchNode`, `ProbePath`) take `record()` as one
step, and `ProbePath` implements `SampleLog` in turn: from the publisher to the
report the path promises no more and no less than a single recorder does.

`Faulty...` definitions are mutated forms of definitions of the same module;
each names the property that must catch it. They are not part of any
specification.

Abstractions. The arguments of `record()` are one datum, the callback execution
they describe. A message is its number and its stamp; payloads are left out.
Clocks are small integers in `BenchNode` and `RunClock`, where durations matter,
and only an order in `ProbePath`. Voluntary and involuntary context switches are
treated alike by the code and are one counter. In `RunLifecycle` the recorders
of a node are one. In `LaunchPlan` seconds and rates are integers, and fractions
are compared by multiplying out; the rounding of floating point is not modelled.
In `RunClock` each bench node has one topic, periods are whole ticks, every
load succeeds (failing loads are in `RunLifecycle`), and an executor that
starves a topic is a message that does not become a row. A row keeps the stamp of
its message; of the buffer only its length and its two ends are kept, which is
what the writer reads. Outside a reentrant group a new row is the last; in one
it may come to stand anywhere. In `RunMatrix` the wall clock runs in ticks, a
file is named after its second, and the clock advances by what a run takes; what
a file holds is whether it has its header, which types of rows it has and
whether it is whole.
Memory is sequentially consistent: `record()` uses relaxed atomics, and what
makes its stores visible to the writer is the join of the executor's threads
before `spin()` returns, which is the guard of `Drain`.

## 3. Runs

Passing runs:

| Run | Question | Bounds and why they suffice |
|---|---|---|
| `recorder` | may the buffers be taken for a log of whole samples, and does a thread get out of `record()` alone | 3 threads, 2 recorders of 2 samples, 3 callbacks: two threads can race for one recorder while a third uses the other, a recorder overflows, first uses of `thread_slot()` collide |
| `dispatch_groups` | what the rows of an entity look like under each callback group | a subscription and a timer on one node, 2 threads, clock to 4, 2 messages: two entities of one group compete, two ticks of a timer can overlap if they may |
| `generator` | does each publish mode serve all topics alike | 3 topics, 5 messages each: the cursor wraps, bursts interleave with nothing |
| `probe_path` | are losses counted, each in its column, does the window cover the rows, does the summary say what the rows say, is it all still a log | 2 topics, queue depth 1, 2 samples per buffer, 2 threads, 6 messages: queue and buffer are full at once, one topic starves while the other is served |
| `timeline` | who hears the messages, for how long is published, what does the throughput measure | 2 topics at 2 Hz, or at 2 and 4 Hz, each publish mode, both places of the generator, an ordered and a reentrant group, in ticks of 1/8 s: a warm-up of 3 ticks, a duration of 8, one of overshoot and one of jitter. Periods are 2 to 4 ticks, so that a topic has none or up to 4 rows, and a timer that is late, or a tick that blocks, may be held up for longer than its period, which skips calls; the generator may start too late to publish at all, and in its own process before the first bench node. Rows of a reentrant group come to stand in any order |
| `sampler` | what the statistics may contain, and does `stop()` return | 2 workers and the main thread, a walk every 2 samples, 4 samples: a baseline walk and two others, threads starting, switching and exiting in the middle |
| `launch_plan` | what the launch file makes of its arguments | 1,439 sets of arguments: up to 5 nodes, 6 subscriptions, 6 timers in every combination (even, uneven, none, invalid), all modes with nominal rate above and below the spread, short and long runs |
| `lifecycle` | what the result files hold, however the run ends | 2 nodes of up to 2 samples: a node is destroyed before and one after the writer, one load fails or never comes |
| `campaign` | is the matrix run whole before it is drawn, is anything overwritten, what reaches which row of the plot | 4 runs over any number of campaigns, 4 matrices: two loops side by side, two loops with others between them, a combination that is refused in the middle, one that has only timers; each run is whole, empty, cut short or leaves nothing. A second has 2 ticks, a run takes exactly one second (the shortest `LongRuns` allows), and the clock is set back once, by half a second or one and a half: names repeat, and a file is overwritten, but none since the clock was set back |

In every one of them `CHECK_DEADLOCK` is off because a run really ends: callbacks
are used up, the results are written, the process exits, the last campaign is
over.

`finding_reentrant_timer`, `finding_dropped` and `finding_switches` show a
disagreement between the code and what a comment or the README says of it
(section 4).

Symmetry over threads is used in the safety runs of `BenchNode` and `ProbePath`,
whose threads are interchangeable; not in `recorder` or `sampler`, where one
thread is told apart or a liveness property is checked.

### Fairness

* `OneThreadSpec` (recorder): weak fairness of one thread's own steps inside
  `record()`, and of nothing else. That is what "wait-free" has to be shown
  under: the other threads may stop half way for ever.
* `FairGeneratorSpec` of `LoadGenerator`: the generator's node is spun for as long as
  its process lives, so a timer that stays due fires.
* `FairSpec` of `ResourceSampler`: the kernel schedules the sampling thread and
  the thread that joins it. The starts, switches, exits and CPU time of the
  workers are not fair.
* `FairSpec` of `RunLifecycle`: the main thread keeps running and the shutdown
  timer of the launch file fires. Loads, callbacks and the kill are not fair, so
  a run must end even if a load never comes.
* `RunClock` has no fairness and no urgency: timers and publications may wait
  for ever. `late` remembers the timers that were ever late by more than
  `Jitter`, and the sharper bounds are about the others.

## 4. Findings

1. *Timers in a reentrant group* (`finding_reentrant_timer`). Two ticks of one
   timer may read the same previous stamp or store theirs in the wrong order;
   the latency is then not "actual interval minus nominal period".
2. *Drops with a full buffer* (`finding_dropped`). In a reentrant group a sample
   turned away by the buffer can lie between two kept ones; it is counted as
   overflowed and as dropped, although its callback ran.
3. *Context switches* (`finding_switches`). A walk after the workers have been
   joined replaces the figures of the walks that saw them.

Cases 1 and 2 need `callback_group:=reentrant`; under the other groups the
corresponding properties hold, are checked and, for `TimerRowsChain`, proved.

Also noticed while modelling, without a run of its own:

* `mutually_exclusive` makes one group per *node*, so with several nodes two
  callbacks run in parallel although README.md:246 says "nothing runs in
  parallel".
* In a reentrant group the first and last row of a buffer are not the earliest
  and latest publication, so the window of run_metadata.cpp:187-188 need not be
  the one "the generator was actually publishing over", and the throughput can
  exceed 100% by whole messages. `WindowCoversRows` and the upper bounds of
  `ThroughputMeasured` therefore exclude that group.
* A file name has the local time to the second. When the clock is set back, by a
  correction or at the end of summer time, a run can overwrite the results of an
  older one; the files are opened without looking (run_metadata.cpp:300).
* If the first read of the CPU ticks fails, the total of the run includes what
  the process used before it (resource_sampler.cpp:125-127 ignores the result).
* `duration_s`, "seconds of publishing before shutdown"
  (executor_bench.launch.py:38), counts from the launch: what the generator
  takes to come up is missing. `PublishingFits` is the half that holds.
* resource_sampler.hpp:37-38, "The container starts it right before spin()": the
  constructor of the writer starts it, while the container is spinning.
* `_human_bytes` of the plots divides without a remainder, so payloads of 1024
  and 1536 bytes share a row of a plot that is grouped by payload, and there is
  no label for `publish_mode`, although run_all.sh:49-50 says to widen the
  grouping "when sweeping extra axes". `CompleteRunsPlotted` excepts both.

## 5. Proofs

| Module | Theorem | States |
|---|---|---|
| `CallbackRecorderProofs` | `TypeCorrect` | `Spec => []TypeOK`; no thread holds an index past a buffer |
| | `Invariance` | `Spec => []IInv`, the inductive invariant |
| | `RowsStable` | `Spec => StoredRowsStable` |
| | `CallsAccounted` | `Spec => []EveryCallAccounted` |
| | `ThreadsApart` | `Spec => []RowsTellThreadsApart` |
| | `Implementation` | `Spec => ImplementsLog`, the refinement of `SampleLog` |
| `BenchNodeProofs` | `TypeCorrect`, `Invariance` | `Spec => []TypeOK`, `Spec => []IInv` |
| | `GroupsExclude` | `Spec => []GroupMembersNeverOverlap` |
| | `TimersChain` | `Spec => []TimerRowsChain` |
| | `ProbesInOrder` | `Spec => []ProbeRowsInOrder` |
| `ProbePathProofs` | `GeneratorTypeCorrect` | `GeneratorSpec => []GeneratorTypeOK` |
| | `TopicsLevel` | `GeneratorSpec => []TopicsStayLevel` |
| | `GeneratorUndisturbed` | `Spec => GeneratorSpec`: the path is a behaviour of the generator |
| | `PathTypeCorrect`, `Invariance` | `Spec => []PathTypeOK`, `Spec => []IInv` |
| | `MessagesAccounted` | `Spec => []EveryMessageAccounted`: place by place for each topic, and for the totals of the report |
| | `WindowCovers` | `Spec => []WindowCoversRows` |
| | `DroppedCountsLosses` | `Spec => []DroppedIsQueueLoss` |
| | `SummaryTells` | `Spec => []SummaryAgreesWithRows` |
| | `Implementation` | `Spec => ImplementsLog`, the refinement of `SampleLog` |
| `LaunchPlanProofs` | `Invariance` | `Spec => []IInv` |
| | `TopicsShared` | `Spec => []SubscribersMatchTopics` |
| | `TimersNamedApart` | `Spec => []EntitiesNamedApart` |
| | `TypeCorrect` | `Spec => []TypeOK`, assuming `RatesCount` |
| | `BuffersSuffice` | `Spec => []BuffersHoldTheRun`, assuming `RatesCount` and `ShortOvershoot` |
| `RunClockProofs` | `TypeCorrect`, `Invariance` | `Spec => []TypeOK`, `Spec => []IInv` |
| | `NobodyUnheard` | `Spec => []HeardFromTheStart` |
| | `PublishingFitted` | `Spec => []PublishingFits` |
| | `MeasuredAgainstPublishing` | `Spec => []ThroughputMeasured`, no assumption about delays |
| `ResourceSamplerProofs` | `SamplerTypeCorrect`, `Invariance` | `Spec => []SamplerTypeOK`, `Spec => []IInv` |
| | `StatsFinal` | `Spec => []StatsAreFinal` |
| | `CpuTicksOnce` | `Spec => []CpuTicksCountedOnce`: the ticks averaged are an interval, none taken twice |
| | `WalksBounded` | `Spec => []Walks`, the invariant of the walks over the threads |
| | `SwitchesOfTheRun` | `Spec => []SwitchesWithinRun` |
| `RunLifecycleProofs` | `TypeCorrect`, `Invariance` | `Spec => []TypeOK`, `Spec => []IInv` |
| | `CompleteResults` | `Spec => []ResultsComplete` |
| | `DrainIsLast` | `Spec => NothingAfterDrain` |
| `RunMatrixProofs` | `TypeCorrect`, `Invariance` | `Spec => []TypeOK`, `Spec => []IInv` |
| | `MatrixRun` | `Spec => []MatrixCovered` |
| | `RunsPlotted` | `Spec => []CompleteRunsPlotted` |
| | `NothingOverwritten` | `Spec => ResultsKept`, assuming `LongRuns`; about files written since the clock was last set back |

Each holds for every value of the constants under the `ASSUME` of its module.
Most of these say that numbers are numbers (with a capacity, a depth or a
period of at least one where the constructor raises it) and that the "nothing"
values (`NoCall`, `Idle`, ...) differ from the values they stand beside:
`RecorderAssumption`, `BenchNodeAssumption` with `IdleAssumption`,
`GeneratorAssumption`, `ProbePathAssumption`, `LifecycleAssumption`. The others
say more:

* `LaunchAssumption`: arguments have their types. Two theorems about the launch
  file ask for more, as hypotheses of their own, because the code does not look:
  `RatesCount`, that the nominal rate is not negative (with a negative one the
  product of rate and duration is negative, and so is the capacity), and
  `ShortOvershoot`, that `spin()` ends within a fifth of the duration after the
  shutdown timer, which is what the 20 % on top of the product are for.
* `SamplerAssumption`: a process has finitely many threads over its life.
* `ClockAssumption`: time is counted finely enough that every period is a whole
  number of ticks, and `Jitter`, the bound by which the sharper half of
  `ThroughputMeasured` calls a timer on time, is shorter than any period.
  Rational rates have such a tick. How late a timer runs is not bounded.
* `MatrixAssumption`: every axis lists a value, and payloads are sizes. A bash
  array without elements would make the loop over it, and with it the whole
  matrix, empty. `NothingOverwritten` asks for `LongRuns` as a hypothesis of its
  own: no launch is shorter than a second, as starting a container through
  docker and waiting for a warm-up take longer; nothing in the code enforces it.

No theorem rests on a bound being small; the bounds of the runs (`MaxSeq`,
`MaxRuns`, ...) are constants of any value.

### The arguments

*Recorder.* None of the properties is inductive, because they speak of the
report or of stored rows and not of the threads that are still on their way.
`IInv` says what is true meanwhile: every claimed index below the capacity is
either filled or held by exactly one thread (`ClaimsHeld`, `JobsApart`), the
sample a thread holds is blank until it stores its arguments and then its own
(`JobsClaimed`), a filled sample belongs to a callback of that recorder and
carries the slot of its thread unless that thread still holds it
(`SamplesOwned`), no callback is in two places (`CallsOnce`), the index counts
the callbacks (`IndexCounts`), slots are handed out once (`SlotsApart`), and the
report is a copy made when nobody holds anything (`ReportCopied`). Each step
has an effect lemma that states it point by point, and a lemma that it keeps
`IInv`. The properties then follow state by state, since a report implies that
all claimed samples are whole.

For the refinement a sample joins the abstract log when its index is *claimed*:
a claim that is still blank is represented by the call of the thread that holds
it. `CallsDetermined` shows that this is well defined (one holder),
`CallAtKept` that storing it is invisible, `ClaimAppends` that a claim is an
`Append`, and `RefineDrain` that the drain copies the log. The mapping is
sound only because the drain waits for the threads, which the fault
`FaultyDrain` demonstrates.

*Bench node.* The properties are about finished rows, and what makes them true
is what the threads inside a callback have already read. `Exclusive` says that
two threads in callbacks are in different groups; `RowsBehind` that every row of
a group had ended when the callback that is now running in it began; from these
`Spans` yields that spans never overlap. `TimerStates` says, for each step of
`on_timer()`, what the local copy of the previous stamp and of the number is
worth while the thread holds it (it agrees with the shared one, since no other
thread can be in that timer), so that the row appended last continues the chain.
`ProbeStates` orders queue, running callback and rows of a subscription.

*Generator.* `TopicsStayLevel` is inductive once the mode of the timers is known
(`TimersByMode`): a topic is one ahead exactly if the cursor, or the index of
the burst, is past it.

The path disturbs nothing the generator keeps (`GeneratorUndisturbed`), so both
theorems hold of the path as well.

*Path.* `TopicInv` keeps the messages of a topic apart by place: the queue holds
the latest ones without a gap (`QueueIsTail`), everything that has left it is
older (`OthersAreOlder`), and nothing is in two places (`PlacesApart`). `Counted`
adds the places up. At the report nothing is in a callback, so that for each
topic rows and overflow are what was published but what the queue discarded or
holds; the report adds them up over the list of recorders, and as the sum of two
vectors is the sum of their totals (`TotalAdds`), its two totals are the same
difference (`RecordersHoldTheRest`). With that comes `EveryMessageAccounted`. `WindowCovers` adds `OrderInv`: outside a reentrant
group the rows of a topic, the callback in flight and the queue are in order of
publication, so that the ends of a buffer are its earliest and latest stamps.
For the refinement a message is handed over when it is neither waiting nor
discarded, and `FinishProbe` is the `Keep` or `Lose` of the log; all other steps
but the report are invisible.

*Drops.* The report counts the numbers missing between the least and the
greatest kept; the property counts what the queue discarded between them. They
agree because outside a reentrant group nothing else can lie there. `Placed`
says that as long as a recorder has lost no sample, whatever has left the queue
was dropped by it, is in a row or is in a callback, and that one which has lost
any is full, so that no row comes after the first loss. `NoOtherGap` says that
the rows ascend, that the message in a callback comes after them, and that what
is missing before a row was dropped by the queue. `GapInv` is their conjunction
with what the report is made of (`Summed`).
`DroppedIsBetween` then compares two sets of numbers.

*Summary.* This holds in every group, because it only depends on the rows: what
has to be shown is that `RunMetrics` computes what it is meant to. `OrderExists`
gives the sorted vector: sending each element to its rank (how many are smaller,
or equal and not behind it) is a bijection. `Ordered` says what stands at a
position of the sorted vector, and how many elements are on either side;
`PercentileShares` that the position `percentile()` rounds to leaves each side
its share, to within half an element, for every length. Totals and the vector of
all latencies are folds, which are defined by functions recursive over the
naturals; `AllFromZero`, which is induction over the set of those naturals at
which a statement holds, gives what they compute (`TotalIsLastSum`,
`TotalBetween`, `TotalAdds`, `FlattenKeeps`). It is stated with a set, not with an operator,
and so within the provers' reach.

*Launch file.* `IInv` has the closed form of the cursors: after `k` of `b` nodes
they stand at `k * (total \div b) + min(k, total % b)` (`Before`). `BeforeNext`
shows that the share of the next node is the difference of two such values,
`BeforeMonotone` that they ascend, `SharesApart` and `SharesCover` that the
shares are a partition: for an index, the least `k` beyond it is the node that
has it. With no entities at all every share is empty (`NoShares`).

*Buffers.* `SizeInv` keeps the capacity that `Size` computed. No topic has a rate
above `PeakRate`, for any number of topics (`RateBelowPeak`, with the spread of
`multi_rate` below its upper end, `SpreadBelow`), a rounded-up quotient is enough
(`CeilIsEnough`), and a fifth more than the product of rate and duration covers
an overshoot of a fifth (`CapacityForTopics`, `CapacityForTimers`).

*Clock.* Publishing has a moment `s`, between the warm-up and now, from which
every topic keeps the beat of its rate: `Beat` says that its next message is due
no earlier than as many spacings after `s` as it has been published, and no later
than one spacing from now. A timer that is held up skips calls and keeps its
phase, which moves the next message back and never forward, so that `Beat` needs
no bound on delays. It holds in each mode for its own reason: `Ahead` counts the
topics that the single timer of round robin serves before, so that it comes back
to a topic after exactly its spacing. `PublishingFits` follows, as so many
spacings have to fit between the warm-up and the end.

The rows of a topic whose callbacks complete in order are, but for the first,
not much closer than the beats. The first can be published a whole tick late (its
publication blocks, and the next calls are on time), and so can the last in the
other direction: `Loose` and `Close` are these two spacings, and the two messages
of `ThroughputMeasured`. A timer that was on time has `Sharp` instead, with
`Jitter` in their place (`Punctual`). The window is at least as long as the rows
of any one topic, whichever topic that is. From below, it is at most as long as
publishing took, whatever the order of the rows (`Within`), and a topic that lost
nothing has a row for each beat of that (`Complete`), which holds in a reentrant
group too.

*Sampler.* `Readings` orders the baseline, the last reading and the counter of
the kernel; `Stages` says that nothing is averaged before the baseline and that
the statistics are written last. Each sample averages the ticks behind the
reading before, which is that of the last sample that did not fail: so their
union is the whole interval from the baseline, and its size, the sum, has each
tick once (`TicksBetween`). What the theorem leaves open is what the code does:
a baseline that could not be read is zero, and the ticks behind the last sample
are in the total only if the last read succeeds.
The walks over the threads are not atomic, and a thread may start,
switch or exit between two reads. `Walks` states what holds half way: the first
walk has found at least the switches from before it, of the threads that are
left; a later one has found no more than the baseline and what has happened
since, the threads it has yet to read apart. A thread that has not started has
nothing to be found. Counting is by sets of switches (`Switched`), so that sums
over threads become cardinalities of disjoint unions (`CountedAdd`).

*Lifecycle.* The registry has every node that was loaded (`Registered`), open or
closed files hold what was recorded (`FilesCopied`), and a writer that is gone
has closed them (`WriterDone`).

*Campaign.* The files written since the clock was last set back carry seconds
that are over (`StampsArePast`); a run that takes a second at least ends in a
later one, so the next name is none of theirs, whatever the axes leave out of it.
The theorem says nothing of older files, which the code does overwrite.
The ten loops go through
the positions in lexicographic order (`Before`): the successor is later
(`SuccessorMeans`), nothing lies between a position and its successor
(`SuccessorIsNext`), nothing before the first (`NothingBeforeFirst`), and where
there is no successor nothing is later (`LastIsLast`). Hence what was launched
are exactly the combinations before the position of the loops (`Coverage`), and
at the end all. A complete run is drawn in one row since the label of a payload
tells sizes apart unless `_human_bytes` maps them to the same quotient and unit
(`SameLabel`).

Only model-checked: liveness (`WaitFree`, `EveryTopicPublished`, `StopReturns`,
`EveryRunEnds`), which is beyond this prover, as is `ENABLED`. Every other
property of the passing runs is a theorem.

## 6. Not modelled

* The bodies of rclcpp, rcl, the middleware and the kernel; where the code
  relies on them they are external definitions written from that use.
* Formatting and layout of the CSV files, metadata about the host, parsing of
  /proc, memory figures, means and deviations.
* Defaults and parsing of the launch arguments and of the environment of
  `run_all.sh`; the labels of the plots other than the axes they tell apart,
  `--filter`, and the drawing.
* Docker files and the patch, which build the environment; a service that does
  not start is `ServiceFails`.
* A disk that cannot be written: the code does not look, and promises nothing.
* A status file that cannot be opened although its thread lives
  (resource_sampler.cpp:80), which drops that thread from one walk.
* A CSV that cannot be opened for its header, which plot_executors.py:206 reads
  outside the `try`, so that the plots end with an error.
* Two campaigns at the same time on one results directory, whose runs may end in
  the same second.
* A timer period of zero, which nothing refuses and which fills any buffer.

## 7. Plan

1. Done: recorder and its refinement; bench node, generator, path, metrics and
   summary; run clock; sampler; launch plan; run lifecycle; campaign and plots;
   the proofs of section 5.
2. Next proofs: that each step of the generator is possible when its timer is
   due, as far as that can be said without `ENABLED`; `dropped` in a reentrant
   group as a bound (never less than what the queues lost between the first and
   last row); that `BenchNode` keeps `record()` as the log has it.
3. Next models: bench nodes of several topics and failing loads in `RunClock`.

## Running

    tlc -workers 2 -config recorder.cfg MCCallbackRecorder
    tlapm CallbackRecorderProofs.tla

Each `.cfg` belongs to the `MC` module of its component, as listed under "runs"
in PROJECT.json.
