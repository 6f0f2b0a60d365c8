# A model of WBTuner's dplib

WBTuner tunes a C program by sampling. The program calls `dpSampling`, which
forks sampling processes; each draws values (`dpRSI`, `dpRSF`, ...), may be
discarded (`dpCheck`), may synchronise with the others (`dpSync`) and delivers
its result (`dpAggregate`) to the tuning process that forked it. That process
aggregates the results and goes on, possibly in several copies (`dpuSplit`).
All of it is in `src/dplib`: a library in C whose processes share memory,
process-shared mutexes, files, signals and exit statuses. The modules here
model what those processes do to each other.

## 1. Inventory

| Part | State | Operations | Modules |
|---|---|---|---|
| Process scheduler, `Sched.c` | `schPoolSize`, the heap `schPQ`/`schPQNum`, `schWakePID`, `schMtx`, `schMtx2` (shared by every process) | `schSched` with `S_SPAWN_SAMPLING`, `S_SPAWN_TUNING`, `S_EXIT`; `schPushPQ`, `schPopPQ` | `Sched`, `SchedPrio`, `SlotPool`, `SchedRefinement`, `PriorityQueue`, `SchedHeap` |
| Barrier, `dpSync` in `DpLib.c` | `sySyncChildNum`, `sySyncChildDoneNum`, `syActiveChildNum`, four mutexes `sypMtx`, the `.sync`, `.fork`, `.forked` files | `dpSync`, `dpuSplitSync` | `DpSync`, `Barrier`, `DpSyncRefinement` |
| Sampling region, `dpSampling`, `SamplingStg.c` | `resultTab` (`todoNum`, `subTodoNum`, results), `failedNum` | the strategies `S_RAND`, `S_USER_CB`, `S_MCMC_MAX/MIN`; `dpCheck`; the sampling side of `dpAggregate` | `SamplingRegion` |
| Cross-validation, `S_CV` | K processes per sample with a slot of shared memory (`cvRemChildNum`, `cvValidError`, `cvRSVarTab`, under `cvMtx`), one result file per sample | `sstgStg4`, `sioCVInit`, the first branch of `dpAggregate` | `CrossVal` |
| Random variables, pinned parameters | `rLoS/rHiS` (static range), `rLoD/rHiD` (dynamic range) | `dpRSI`, `dpRSF`, `dpRSD`, `dpuSetParm...` | `RandVars`, in `CrossVal` |
| Aggregation in shared memory, `AggregateStg.c` 226-652 | `aggShmNum`, `aggShmReady`, `aggInfo.shmResult`, the static variables of each strategy | `astgAggShmConfig`, `astgAggShm`, `A_..._MEM` | who writes which slot when: `SamplingRegion`; what is computed of several variables: `Aggregate` |
| Aggregation from files | result and parameter files, read into `result[i].pData` | `A_AVG`, `A_MJ_VOTE`, `A_MAX`, `A_MIN` | `Aggregate` |
| Result files and the table | `.result`, `.parm` files by pid; `pData`, `pParm` of each result | `dpuReadResultBin`, `dpuReadResultParms`, turning a result down | `CrossVal`, `Aggregate`, `SamplingRegion` |
| Exposed variables | a table by name | `dpExp`, `dpLoad` | not modelled: a lookup in one process |
| Life cycle | `execStatus` | `dpInit`, `dpFini`, `dpExit`, `dpuSplit` | the part the scheduler and `wait()` see, in `Sched` and `SamplingRegion` |

How they interact. Every fork of a sampling or tuning process goes through
`schSched`, except in `S_USER_CB` and `S_MCMC_MIN`, and every exit except the
root's goes through `dpExit`, hence `schSched(S_EXIT)`. A tuning process blocks
in `wait()` until its whole batch is gone. The batch's size is what `dpSync`
compares its count with. Exit statuses carry the outcome of a sample, and the
number of a slot of shared memory.

What is hard here, with the properties it calls for (all hazards, by line, are in
`PROJECT.json`):

- *Wake-ups.* A waiter sleeps in `pause()`; a signal sent before it gets there is
  lost, so the exiting process repeats it until the waiter has written its pid to
  `schWakePID`, all the while holding `schMtx`. Nothing may be popped early,
  nobody forgotten, no slot left over while somebody waits, and the loop must end.
- *Slots lent while waiting.* A waiter returns its slot, then takes two. The
  accounting must survive retries, and who waits for whom can be a cycle.
- *The barrier's counters* are read under one lock, written under another and
  reset under none.
- *Batches.* Results, failed checks and rejections arrive in any order, flags and
  slots of shared memory are used again by the next batch.
- *Samples of several processes.* The processes of a sample of `S_CV` must draw the
  same values, add up one error, and find out which of them is the last, while one
  of them may fail its check and the ranges they draw from are narrowed.
- *State that outlives its use.* Static variables of a function, cached files and
  dynamic ranges stay from one result, variable or region to the next.

## 2. Modules and how they correspond to the code

A definition named `Wrong...` stands before the definition it is a buggy form
of. Nothing uses it: it documents a mistake that the properties notice.

### The scheduler

`Sched` has one process per pid. `pc` says where it is: `run` (user code), `fork`
(between `schSched` and `fork()`), `pausing` (its node is pushed and `schMtx`
unlocked, `pause()` not reached), `paused`, `woken` (out of `pause()`, `schWakePID`
not written), `rewait` (about to lock `schMtx` again), `wait` (in `wait()`),
`reset` and `sig` (the exiting process that holds `schMtx`), `gone`. A critical
section of `schMtx` without a nested lock is one action; the signalling loop keeps
`mtx` over its steps, one per section of `schMtx2`. One turn of that loop which
finds its target out of `pause()` changes nothing and is a stuttering step; so
`Signal` is the turn that matters. `wake` is `schWakePID`, `head` the node
`pPQHead` points to.

The queue in `Sched` is a set of nodes, of which any that no other outranks may be
the head. `SchedHeap` justifies that: it is the array with its two sift loops, one
action per turn, and implements `PriorityQueue` (`PQ`). The order itself is in
`SchedPrio`, which all three extend.

`SlotPool` is what the scheduler promises, without a queue or a signal: processes
are admitted within the limit of their class, suspended when it is reached, and
come back with both slots at once. `SchedRefinement` states that `Sched` implements
it: `active` is who runs, waits for children or is about to fork; `suspended` is
who is between refusal and admission; `admitted` is who is about to fork what.

### The barrier

`DpSync` is one batch: its processes are forked when a slot is free, call `dpSync`
up to `MaxRounds` times, and leave through `dpAggregate` or a failed `dpCheck`. A
step is one access to shared state; a mutex is owned by the processes whose `pc`
lies between its lock and its unlock. The datum a process synchronises is the
number of its call, so that data of two rounds can be told apart. The master's
callback asks any set of processes to split.

`Barrier` is what a program may rely on, without counters, mutexes or files: its
members wait until all that have not left wait, one callback is called, they go
on. `DpSyncRefinement` maps a process to its `place`. The point is where a slave
stops waiting: as soon as the master has called the callback, although it is held
at mutex 3 until the master has reset the counters (`Waiting`).

### The sampling region

`SamplingRegion` is a tuning process that goes through `MaxRegions` regions. It
forks batches and reaps exit statuses; its sampling processes fail their check,
write a file, or take a slot of shared memory, fill it and exit with
`ExitBase + slot` (modulo `ExitMod`). The content of a slot is the pid that wrote
it and the aggregate is a bag of pids, so that `AggregateExact` can say which
results were taken in, and how often. The three strategies differ in what they
may reject and in how they count failed checks. An aggregation names either only
variables with files or only variables in shared memory (`mem`).

### Cross-validation and random variables

`CrossVal` is one call of `dpSampling` with `S_CV`. `StartBatch`, `ForkChild`,
`BatchForked`, the `Reap...` actions and `BatchDone` are the loop of `sstgStg4`.
A process draws its variables (`ReadLo`, then `Draw`: the two reads of a range are
two steps, because the callback of another result sets the ends one after the
other), may fail its check, validates (`Validate`, the section of `cvMtx` in
`dpAggregate`), and, when it was the last, writes the files outside of the mutex
(`Deliver`). When the program has an `acceptProbFunc`, its callback
(`Pin`, then `Accept` or `Reject`) may set ranges and read older results while
other processes run. The error of a process is the set of lines it validates on, so
that the error of a sample says which lines were counted, how often, and by what the
sum was divided. `RandVars` has the two ranges of a variable and the functions that
set them, as operators.

The dynamic ranges lie in shared memory, and no mutex guards them. A `dpuSetParm`
call stores the `tID` of a variable and then its value, one variable after the
other, while `dpRSI` in another process tests a `tID` and then reads the value. So
a call is several steps: `Pin` starts it (`store` is the call in progress, with the
end it sets and the variables it has still to set), `StoreTID` and `StoreValue` change
the tables (`Stored`), and only when it is over does the callback go on. The
variables of a call are stored in any order, which covers the `memcpy` of a whole
result. Who reads an end whose `tID` is stored and whose value is not gets the value
of before, which is 0 when there was none (`TornLo`, `TornHi`). Nothing else can be
read in between, because a `tID` never goes back to 0, so the test and the read of
one end are one step. The values a callback sets are those of a result, or any of
`Chosen`, also outside of the static range.

`asked`, `half`, `touched` and `torn` are history: what the program has asked for,
against which `PinsHold` compares what is drawn, and the variables of which a
half-stored end was read.

### What the aggregations compute

`Aggregate` leaves the processes to `SamplingRegion`: a sampling process is one
step there, and the data are numbers. It has one result per process and several
target variables, each with its strategy. `TakeIn` is what a strategy
makes of one more result, `TakeAll` of one after the other: of the results in their
files (`Search`) or of the slots whose flag is up (`Collect`, in the function's static
variables). `AggShm` goes through the variables after a batch (`OfVariable`), then
frees the slots; `FinishMem` and `FinishFile` write the target at
the end. Averages are exact pairs of numerator and denominator. Where the code
reads through NULL or past a file, the model stops in `crashed`, and nothing is
claimed of what follows.

The modules are checked one by one. What ties them together: `DpSync` assumes of the
region that `syActiveChildNum` is set to the batch's size before the first fork,
as `SamplingRegion` does in `BatchDone` and `DpSampling`; `Aggregate` assumes what
`SlotsExact` states, that a slot whose flag is up holds the result the flag names;
`SamplingRegion` and `CrossVal` assume of `Sched` that a fork is admitted at some
time.

## 3. What the runs check

Bounds. `Sched` is checked with six processes on a pool of three, of which a tuning
process may use two (`MAX_POOL_SIZE >> 4`). That is the smallest pool where the two
thresholds differ and neither is trivial; six pids let two processes wait while
others exit, a woken waiter lose its slot, and two exits follow each other while the
first one's waiter has not re-checked. Seven processes on a pool of four hold as
well (354807 states, too long for a routine run). The heap of six has three
levels, hence siftings of two turns in both directions. The barrier has four
processes and two rounds: a third round could only follow a state the second has
already reached, as no process is more than one round ahead (`NobodyOvertakes`). The
region has four samples, batches of two or four on two slots, `MaxFail` 1 and two
regions, so that there are a second, smaller batch, a dropped sample, and flags and
counters left over from an earlier batch or region to trip over; a batch of four has
a process just past the last slot and one beyond. `MaxForks` is the eight forks four
samples with two failed checks each can take, so it never stops a region with
`S_RAND`; it cuts long sequences of rejections off. `ExitMod` lets the fourth slot's
status be distinct; the status that wraps around to 0, which would pass for a result
in a file, takes a batch of 225 (the theorems about the region assume `NoWrap`).

`CrossVal` has four regions, given as folds, samples, samples per batch, lines and
variables: (3, 1, 1, 4, 2), where four lines make folds of two and the last is
empty; (2, 2, 2, 3, 1), two samples at a time with a callback; (1, 3, 2, 1, 1), a
second, smaller batch; (1, 2, 1, 2, 2), two variables whose ranges a callback
sets. Six pids are enough for every region (`CallAssumption`); a callback sets ranges
once (`MaxPins`; `dpuSetParm` and `dpuSetParm2Result` set both ends in that), and
the number of tries is not bounded. The first variable starts with one value,
1, and a callback can widen its range to 2; the second has the values 2 and 3
(`StaticLo`, `StaticHi`, `Chosen`). No variable may have the value 0, so that
a draw from a half-stored end is seen in `RangesKept`. A callback
runs together with the draws of another sample in the region of one fold and three
samples, once a result was turned down. That the processes of *one* sample are forked
before and after a narrowing needs larger regions (more than 8 million states) and
rests on the theorem `EverySampleAgrees`. `Aggregate` has a variable for each of the
eight strategies, four samples in batches of three and two regions, so that a static
variable that is not cleared, a second batch and a slot turned down occur; its data
have a tie, a majority, and scores that are equal. In `MCAggregate` a result has the
same number in all variables (`SameData`), to keep the run small. So a variable
that is read from the place of another one in the file does not show there; that it
is read from its own is part of the theorems, whose data are arbitrary. `MCAggregateShared`
gives each variable its own data (`OwnData`).

| Run | Checks |
|---|---|
| `MCSched` | `PoolConservation` (slots neither lost nor invented), `PoolBound`, `QueueExact` (no waiter forgotten, no other process queued), `WakeOrder`, `WakeSound` (the handshake), `SlotsClaimed` (no lost wake-up), `StuckNeedsMany` (a deadlock takes `MAX_POOL_SIZE >> 4` waiting processes), `ImplementsSlotPool` |
| `MCSchedLive` | `WaiterServed`, `ExiterLeaves`, and the accounting again, with forks that bypass the scheduler |
| `MCSchedHeap` | `HeapOrder`, `RootIsHead`, `ImplementsPQ` |
| `MCDpSync` | `CountersExact`, `CallbackComplete` (the data of all, of one round, fit the buffers), `SplitOnce`, `ImplementsBarrier`, also when a failed check takes processes out of the batch |
| `MCDpSyncLive` | `SplitHappens`, `BatchEnds` |
| `MCDpSyncCheckHangs` | finding: the barrier hangs after a failed check |
| `MCSamplingRegion` | `SamplesAccounted`, `SlotsExact`, `AggregateExact`, `SmallBatchesCollected`, `RegionEnds` |
| `MCSamplingRegionFatal` | finding: with more processes than slots the program stops or corrupts `aggShmNum` |
| `MCCrossVal` | `SampleAgrees` (the processes of a sample use the same values), `ErrorExact` (every line counted once, divided once), `SamplesCounted`, `CachesFresh`, `PinsHold` (a variable set to a value has it), `RangesKept` (ranges and draws stay between the values the program may name, unless an end was read half stored) |
| `MCCrossValPins` | finding: after `dpuSetParm2Result` with `parmNum` 0 the variables still vary (`AllPinsHold`) |
| `MCAggregate` | `AverageExact`, `MajorityFound`, `BestFound`, for the strategies with files and with shared memory |
| `MCAggregateShared` | finding: two variables with `A_AVG_MEM` share their static state |

Some more things the models show of the code, found with other values of the
constants and not kept as runs:

- Forks that bypass the scheduler (`UnschedFork = TRUE`) violate `PoolBound`: their
  children return a slot they never took, and the pool grows beyond
  `MAX_POOL_SIZE`. `PoolConservation` counts them.
- With fewer slots than processes (`Slots = 2` in `MCDpSyncLive`) `BatchEnds` fails:
  those who wait in `dpSync` keep the slots the others need to be forked.
- `RangesKept` without its exception (for all of `Var`, not `Var \ torn`) is violated: a
  process draws from 0 because it read an end whose `tID` was stored and whose value
  was not. Both ends are read like that. The code
  has no mutex that would prevent it, and no statement of the repository promises
  otherwise, so it is no finding, but a hazard.
- `syActiveChildNum` is written under mutex 1 and read under mutex 2. It does
  no harm: `CountersExact` and the refinement are all the barrier relies on, and
  they hold.

Deadlock checking is off: every system here ends when its processes have exited,
and in `Sched` the processes may all wait for each other, which `StuckNeedsMany` is
about.

Fairness. In `Sched` and `SamplingRegion` every process is weakly fair: the kernel
runs it, and the user's code between two calls of the library ends. Mutexes
need no more there, because an owner of `schMtx` is the only one that can step.
In `DpSync` the steps of a process are strongly fair: a process in checkpoint
1 locks and unlocks mutex 2 for ever, so that another one's lock is enabled again
and again but not for ever. It gets the mutex at some time, as a futex gives it
in practice, though POSIX does not promise it. `MCDpSyncCheckHangs` fails under that
fairness, too, so not for lack of it.

`WaiterServed` has an escape, `Stuck /\ Overcommitted`: the code can deadlock, and
`StuckNeedsMany` bounds when. `CrossVal` and `Aggregate` claim no liveness: a
program can turn down every result.

## 4. What is proved

Every theorem holds for all values of the constants that satisfy the assumptions of
its module, and what it names besides.

`SchedProofs`, `SchedClaimProofs`:

- `TypeCorrect`.
- `PoolConserved`: from `Counting` (how the cardinalities change when a process
  moves) each action changes `schPoolSize` by what it changes the sets by.
- `PoolBounded`, assuming no strategy forks without the scheduler. Inductive with
  `PoolConservation`: a grant needs `pool > 0` and takes one, a re-check needs
  `pool > 1` and takes two.
- `WakeUpsInOrder` (`QueueExact`), `OneWakeUpAtATime` (`WakeOrder`) and
  `WakeUpAnswered` (`WakeSound`), assuming `MAX_PARENT_NUM` is at least the number
  of processes (else a push is dropped). They are inductive only together: a signal
  finds the head because the queue is exact, and the pop takes the right node
  because the answer in `schWakePID` is not an old one.
- `SlotsAlwaysClaimed`, under the same assumption. A slot becomes free by an exit,
  which starts a wake-up or finds the head of the queue not entitled, or by a
  waiter that lends it, and the bound of `SlotsClaimed` rises by as much; that a
  queue that is not empty has a head is `HeadExists`.
- `DeadlockTakesMany`: when nobody can step, all that hold slots wait in `wait()`;
  `PoolConservation` and `SlotsClaimed` then leave no room for fewer waiters.
- `PriorityRespected` (`PriorityKept`, which no run checks as it follows from
  `WakeOrder`): while `schMtx` is held the queue only loses its head, and
  `WakeOrder` has it that this node was not outranked.
- `SchedIsASlotPool`, assuming no strategy forks without the scheduler: each action
  is one of `SlotPool` or a stutter, by `PoolBounded`'s invariant.

`SchedHeapProofs`, for a heap of any size:

- `TypeCorrect`.
- `HeapOrdered`. The order is not inductive: the invariant exempts the node that is
  sifting and says that its children do not outrank its parent (`Bridged`).
- `RootOutrankedByNone`, from the order by the least place that outranks the root;
  the least element comes from the well-foundedness of `<` on the naturals.
- `HeapIsAQueue`: the heap implements `PriorityQueue`. A swap permutes the array,
  in which no node is twice (`Distinct`), and a pop takes the root.

`BarrierProofs`: `NobodyOvertakes`, from `EvenInv`, which relates the numbers of calls
of two members to their places.

`DpSyncProofs`, for any number of processes and rounds:

- `CountersCorrect` and `SplitAtMostOnce`. `CountersExact` alone is not inductive: the
  master resets the counters without a lock, and that this is right depends on who
  can be where. `BarrierInv` adds `GatheredAll` (once somebody has seen that all have
  come, nobody is elsewhere until the callback), `NoSlaveYet`, `ServedAll` (between
  the callback and the unlock all others are slaves), `LocalsBehind` (a count that
  was read is no larger than the counter), and `FilesExact`. That a count equal to
  `syActiveChildNum` means that all are there is a comparison of cardinalities
  (`AllThere`, `AllSlaves`).
- `TypeCorrect`, from it.
- `SyncIsABarrier`: `DpSync` implements `Barrier`. The callback maps to `Open`, which
  `GatheredAll` enables.
- `CallbackHasAll`: the data a master reads are those of all the others
  (`FilesExact`, `ServedAll`) and of its own round, which comes from the barrier: in
  `Barrier` two members that wait have called equally often.

`SamplingRegionProofs`, assuming `NoWrap` (the largest batch's exit statuses fit):

- `TypeCorrect`, `EverySampleAccounted`, `SlotsNeverShared`, `EveryResultTakenIn`,
  `SmallBatchesNeverStop`. One inductive invariant: `Numbers` counts (a process not
  reaped has a sample to do for it, `shmNum` and the processes that still run do not
  exceed `forks`, pids are handed out in order), `Who` says what an exit status
  stands for, that the slots held are distinct and their flags down, that a flag up
  names the result the slot holds, and that the results are those of reaped
  processes, and `Aggregated` that a result is either in the aggregate or flagged.
  `ReapNumbers` treats the five branches over the exit status alike.

`CrossValProofs`, for any number of folds, samples, lines and variables and any
callbacks; of the constants it needs that there are more pids than processes of a
batch and results in the table (`CallAssumption`):

- `EverySampleAgrees`. What a process has drawn is what its slot holds (`Agree`).
  That a slot is not cleared under a process needs that the slots in use are begun
  (`s * K < forks`, in `Statuses`), and that a batch starts when all are reaped
  (`Phases`). `PidLeft` counts that there is a free pid for the next fork.
- `EverySampleCounted`. No property of it is inductive. `Samples` compares `todo`
  with the slots that may still deliver (`Open`): those of the batch that are not
  begun, those with processes left to validate, and those whose result is on its
  way; `syActiveChildNum` is compared with those that have not delivered (`Counted`).
- `EveryCacheFresh`, from `Tabled`: what is in the table beyond the candidate is empty,
  an entry names a process that is reaped, whose files no other process writes.
- `EveryPinHolds`, from `Pinned`: a variable is set (`Sure`) when both ends have the
  value, and then no process of the batch has or will draw another one (`Honoured`).
- `EveryErrorExact`. `Errors` says of which folds the error of a slot is the sum:
  there is a set of folds, as many as `*cvRemChildNum` has gone down by, among them
  those of the processes that have validated and of no other that is alive. The set
  cannot be named by the processes, which leave it when they are collected. When the
  counter is 0 the set is all folds, which divide the lines (`LinesDivided`: each line
  is in exactly one, also when the last folds are short or empty), and so every other
  process of the sample ended with status 3. That the sum is divided once needs that
  the process in `last` is the only one that may (`Errors`, third part).
- `EveryRangeKept`. The ends of a range may come from different results, be the
  wrong way round, be set by the program, and be set while others draw; what is drawn
  between them stays between the values named for this variable because both ends do
  (`Ranges`), and what lies between two of them has no gaps (`Convex`). `Ranges` says it
  of every place a value of the variable can be: the tables, the call in progress, the
  slots, the files, and the lower end a process has read. It says nothing of a variable
  in `torn`, since the code lets 0 in there.
- `EveryValueTyped` (`TypeOK`), from the types of the invariant and from `StoreTyped`:
  a call in progress is one of the callback, and is over when the callback returns.
- That a call is several steps makes `Pinned` harder: `Asked` says that what the program has
  asked for is in the tables *or* still to be stored by the call in progress, and
  `AskedStored` that each store moves one variable from there to here.

`AggregateProofs`, for any number of target variables, results, batches and regions, and
any data within `TargetAssumption` of the module: at least one target variable is
aggregated in shared memory, data and scores are natural numbers, and every number that
occurs has a score. The first is a simplification: `Deliver` takes a slot for
every result, which the code does only when there is such a variable; without one
a region is left with its files, which are read once at the end. Two hypotheses more, which every instance of
`MCAggregate` satisfies and which the code does not enforce: `Separate`, that no two targets use the same `A_..._MEM` strategy
(`MCAggregateShared` shows what happens otherwise), and, for what is read from files,
`FilesFirst`, that these variables come before those in shared memory, because
`dpuReadResultById` adds up the sizes of the ones that were never written.

- `EveryCountBounded` (`TypeOK`), `EveryAverageExact`, `EveryMajorityFound`,
  `EveryBestFound`. The argument has three parts.
- *One result more.* `Right` says what a strategy has made of a set `Q` of results:
  the mean of them, by their count (`Mean`); a number and a margin, such that no other
  number can have more than half of the votes, and this one only by the margin
  (`Majority`); one of them that no other beats, with its index (`Extreme`). `TakesIn`:
  if a state is right for `Q`, `TakeIn` makes it right for `Q` and one more result.
  `Q` is a set because slots are filled, and results accepted, in different orders.
- *A loop.* What `FoldLeft` computes cannot be proved by induction over the data, but
  its defining equation can be unfolded: `Iterates` shows that there is a function that
  satisfies it, by the least number for which there would be none, and `FoldSteps` then
  gives the sequence of states the loop goes through. `TakeAllRight`, `FileHolds`,
  `EachCollectsOnce` and `SumTotals` are this for the loops over the results, over the
  variables of a file, over the strategies after a batch, and for the sum the property
  compares with. A sum is characterised by its partial sums (`IsTotal`).
- *The invariant.* `Inv` says of every target not written yet that its static
  variables are right for the accepted results no slot holds any more (`PendingRight`):
  accepting a result leaves that set alone, collecting the batch makes it all of them.
  It needs that a flag names the result whose data the slot holds, and no two the
  same one (`SlotsMatch`), that the files hold the data (`FilesMatch`), that the static
  variables of all others are cleared (`OthersCleared`), else a region would start with
  what an earlier one left, and `WrittenRight`, from which the theorems follow. TLC
  has checked `Inv` on three instances of three to five variables.

Only model-checked: the liveness properties (`WaiterServed`, `ExiterLeaves`,
`SplitHappens`, `BatchEnds`, `RegionEnds`), which are out of reach of the prover. Every
other property of a passing run is a theorem. The arithmetic of `Aggregate` is exact, so
its theorems say nothing of rounding.

## 5. What is assumed, and not modelled

- Signals other than the scheduler's do not reach a waiter; `fork()`, file and
  memory operations succeed; a process ends through `dpExit` only. The code has no
  handling for any of these (an assertion or `exit` at best), so there is no recovery
  to model; each is a hazard in `PROJECT.json` with its line.
- A pid is used once within a region, except in `CrossVal`, where it is used again
  when no file has its name.
- `dpRSI` stores the `tID` of a static end before its value, too (`DpLib.c` 907-910), so
  `dpuRandSetParmWithProb` could read 0 for it. What that function draws is one of
  `Chosen`, whatever the range: `RangesKept` counts it as named by the program.
- Stores to shared memory are seen in the order of the code.
- The arithmetic of doubles: `Aggregate` is exact where the code rounds.
- Acceptance probabilities and scores of `S_MCMC_...`: any result but the first may
  be turned down.
- A split inside a region with `S_CV`, and `dpSync` in one, whose counter counts
  samples there (`SamplesCounted`).
- `dpExp` and `dpLoad`; `dpuDumpParms` and the other functions that show or remove a
  file; set-up of directories and mappings; the layout of files except the order
  of the variables in a result; diagnostics; the example programs.

## 6. What is left

1. Faults in `Sched`: a foreign SIGCONT, a `fork()` that fails after its slot was
   taken, a process that dies. What the code does then can be modelled, but there is
   no statement of the repository that it violates.
2. That the models fit together: `SlotsExact` of `SamplingRegion` is what `Aggregate`
   takes for granted of its slots, and what a region does with the results is `Accept`
   and `Reject` there. A refinement of an abstract region by both would state it.
3. Sharper theorems where a hypothesis can be dropped: the `A_..._MEM` strategies need no
   `FilesFirst` (`WrittenRight` has it so, the properties name all strategies at once).
