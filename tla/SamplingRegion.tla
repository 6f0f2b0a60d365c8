--------------------------- MODULE SamplingRegion ---------------------------
(***************************************************************************)
(* A tuning process in its sampling-aggregate regions: dpSampling, the     *)
(* batches of sampling processes a strategy forks and collects             *)
(* (SamplingStg.c), the results they leave in files or in slots of shared  *)
(* memory (dpAggregate, AggregateStg.c) and the table of results.          *)
(*                                                                         *)
(* A process reports through its exit status: 0 for a result in a file, 1  *)
(* for a failed dpCheck, 2 for a tuning process, ExitBase + slot for a     *)
(* result in shared memory.  The content of a result is the pid that wrote *)
(* it; what an aggregation computes is the bag of the results it takes in. *)
(* Files and shared memory can always be created.  A pid is not used again *)
(* before the region is over.                                              *)
(***************************************************************************)
EXTENDS Integers, FiniteSets, Sequences

CONSTANTS
    MaxForks,     \* bound: the pids of a region are 1..MaxForks
    MaxRegions,   \* bound: the regions the process goes through
    SampleNum,    \* snum, the samples a region asks for
    SubTodos,     \* the values of subsnum, the processes of a batch
    MaxFail,      \* MAX_FAIL_NUM
    MaxShm,       \* MAX_SAMPLING_SUB_TODO, the slots of a variable
    ExitBase,     \* SHM_EXIT_STATUS_BASE
    ExitMod,      \* 256, what fits in an exit status
    Strategies    \* those of "RAND", "USER_CB", "MCMC" that occur

ASSUME SizeAssumption ==
    /\ {MaxForks, MaxRegions, MaxFail} \subseteq Nat
    /\ {SampleNum, MaxShm} \cup SubTodos \subseteq Nat \ {0}
ASSUME StatusAssumption ==
    ExitBase \in Nat /\ ExitBase > 2 /\ ExitMod \in Nat /\ ExitMod > ExitBase + MaxShm
ASSUME StrategyAssumption == Strategies \subseteq {"RAND", "USER_CB", "MCMC"}

VARIABLES
    ppc,       \* where the tuning process is
    region,    \* the regions it has entered
    stg,       \* the strategy of this region
    mem,       \* does dpAggregate name a variable with an A_..._MEM strategy?
    sub,       \* resultTab.subTodoNum
    todo,      \* resultTab.todoNum
    forks,     \* i of the fork loop
    failed,    \* failedNum
    results,   \* resultTab.result[0 .. resultTailIdx - 1]: pid and shmIdx
    cpc,       \* where each sampling process is
    slot,      \* its shmIdx
    status,    \* its exit status
    tuning,    \* has the process a tuning child (dpuSplit) not reaped yet?
    files,     \* the .result files, by pid
    shmNum,    \* aggShmNum
    shm,       \* the content of the slots of a variable
    ready,     \* aggShmReady: the result a slot holds, or None
    aggregate, \* the bag of results the A_..._MEM strategy has taken in
    dropped    \* history: the samples given up for failed checks

vars == <<ppc, region, stg, mem, sub, todo, forks, failed, results, cpc, slot, status,
          tuning, files, shmNum, shm, ready, aggregate, dropped>>

children == <<cpc, slot, status, shmNum, shm, files>>
setup == <<region, stg, mem, sub>>

Pid == 1..MaxForks
None == -1
Slot == 0..(MaxShm - 1)
NoSlots == [s \in Slot |-> None]
EmptyBag == [p \in Pid |-> 0]

In(states) == {c \in Pid : cpc[c] \in states}

WrongBatch == sub

\* What a turn of the loop forks.
Batch == IF todo < sub THEN todo ELSE sub

-----------------------------------------------------------------------------
Init ==
    /\ ppc = "outside"
    /\ region = 0
    /\ stg \in Strategies /\ mem \in BOOLEAN /\ sub \in SubTodos
    /\ todo = 0 /\ forks = 0 /\ failed = 0 /\ dropped = 0
    /\ results = <<>>
    /\ cpc = [c \in Pid |-> "unborn"]
    /\ slot = [c \in Pid |-> None]
    /\ status = [c \in Pid |-> None]
    /\ tuning = FALSE
    /\ files = {}
    /\ shmNum = 0
    /\ shm = NoSlots /\ ready = NoSlots
    /\ aggregate = EmptyBag

\* dpSampling: dpSVInit clears the tables, the strategy starts.
DpSampling ==
    /\ ppc = "outside"
    /\ region < MaxRegions
    /\ region' = region + 1
    /\ stg' \in Strategies /\ mem' \in BOOLEAN /\ sub' \in SubTodos
    /\ todo' = SampleNum
    /\ failed' = 0 /\ forks' = 0 /\ dropped' = 0
    /\ results' = <<>>
    /\ shmNum' = 0
    /\ shm' = NoSlots /\ ready' = NoSlots
    /\ ppc' = "fork"
    /\ UNCHANGED <<cpc, slot, status, tuning, files, aggregate>>

WrongForkChild ==
    /\ ppc = "fork"
    /\ forks < todo
    /\ \E c \in Pid :
          /\ c = Cardinality(Pid \ In({"unborn"})) + 1
          /\ cpc' = [cpc EXCEPT ![c] = "run"]
    /\ forks' = forks + 1
    /\ UNCHANGED <<ppc, setup, todo, failed, results, slot, status, tuning,
                   files, shmNum, shm, ready, aggregate, dropped>>

\* The next process of the batch.  Bound: MaxForks.
ForkChild ==
    /\ ppc = "fork"
    /\ forks < Batch
    /\ \E c \in Pid :
          /\ c = Cardinality(Pid \ In({"unborn"})) + 1
          /\ cpc' = [cpc EXCEPT ![c] = "run"]
    /\ forks' = forks + 1
    /\ UNCHANGED <<ppc, setup, todo, failed, results, slot, status, tuning,
                   files, shmNum, shm, ready, aggregate, dropped>>

BatchForked ==
    /\ ppc = "fork"
    /\ forks = Batch
    /\ ppc' = "wait"
    /\ UNCHANGED <<setup, todo, forks, failed, results, children, tuning,
                   ready, aggregate, dropped>>

Parent == <<ppc, setup, todo, forks, failed, results, tuning, ready, aggregate, dropped>>

Exits(c, s) ==
    /\ cpc' = [cpc EXCEPT ![c] = "exited"]
    /\ status' = [status EXCEPT ![c] = s % ExitMod]

\* A sampling process fails its dpCheck ...
CheckFail(c) ==
    /\ cpc[c] = "run"
    /\ Exits(c, 1)
    /\ UNCHANGED <<Parent, slot, files, shmNum, shm>>

\* ... or writes its result to a file ...
WriteFile(c) ==
    /\ cpc[c] = "run"
    /\ ~ mem
    /\ files' = files \cup {c}
    /\ Exits(c, 0)
    /\ UNCHANGED <<Parent, slot, shmNum, shm>>

WrongTakeSlot(c) ==
    /\ cpc[c] = "run"
    /\ mem
    /\ slot' = [slot EXCEPT ![c] = shmNum]
    /\ shmNum' \in {shmNum, shmNum + 1}       \* an update is lost
    /\ cpc' = [cpc EXCEPT ![c] = "slot"]
    /\ UNCHANGED <<Parent, status, files, shm>>

\* ... or takes a slot under aggShmMtx ...
TakeSlot(c) ==
    /\ cpc[c] = "run"
    /\ mem
    /\ slot' = [slot EXCEPT ![c] = shmNum]
    /\ shmNum' = shmNum + 1
    /\ cpc' = [cpc EXCEPT ![c] = "slot"]
    /\ UNCHANGED <<Parent, status, files, shm>>

\* ... and copies its result there (past the slots: to memory of its own).
WriteSlot(c) ==
    /\ cpc[c] = "slot"
    /\ shm' = [s \in Slot |-> IF s = slot[c] THEN c ELSE shm[s]]
    /\ Exits(c, ExitBase + slot[c])
    /\ UNCHANGED <<Parent, slot, files, shmNum>>

\* The tuning child forked by an earlier dpuSplit ends.
TuningExit ==
    /\ tuning
    /\ ppc = "wait"
    /\ tuning' = FALSE
    /\ UNCHANGED <<ppc, setup, todo, forks, failed, results, children, ready,
                   aggregate, dropped>>

-----------------------------------------------------------------------------
\* wait() returns process c.
Reap(c) ==
    /\ ppc = "wait"
    /\ cpc[c] = "exited"
    /\ cpc' = [cpc EXCEPT ![c] = "gone"]
    /\ slot' = [slot EXCEPT ![c] = None]
    /\ status' = [status EXCEPT ![c] = None]
    /\ UNCHANGED <<setup, forks, tuning, files, shmNum, shm, aggregate>>

Result(c, s) == [pid |-> c, shmIdx |-> s]

Accept(c, s) ==
    /\ results' = Append(results, Result(c, s))
    /\ todo' = todo - 1
    /\ UNCHANGED <<ppc, failed, dropped>>

Reject == UNCHANGED <<ppc, todo, failed, results, dropped>>

\* S_MCMC_...: the first result is accepted, a later one as the scores have it.
MayReject == stg = "MCMC" => Len(results) > 0

\* Exit status 0.  S_RAND takes every result; the user's callback or the
\* acceptance of S_MCMC_... may turn it down.
ReapFile(c) ==
    /\ Reap(c)
    /\ status[c] = 0
    /\ Accept(c, None) \/ (stg # "RAND" /\ MayReject /\ Reject)
    /\ UNCHANGED ready

\* Exit status 1.  After MaxFail + 1 of them S_RAND and S_USER_CB ask for one
\* sample less; S_MCMC_... never does.
ReapFailed(c) ==
    /\ Reap(c)
    /\ status[c] = 1
    /\ IF stg = "MCMC" THEN UNCHANGED <<todo, failed, dropped>>
       ELSE IF failed + 1 > MaxFail
       THEN failed' = 0 /\ todo' = todo - 1 /\ dropped' = dropped + 1
       ELSE failed' = failed + 1 /\ UNCHANGED <<todo, dropped>>
    /\ UNCHANGED <<ppc, results, ready>>

WrongReapShm(c) ==
    /\ Reap(c)
    /\ status[c] - ExitBase \in Slot
    /\ LET s == status[c] - ExitBase
       IN  /\ ready' = [ready EXCEPT ![s] = Len(results)]
           /\ Accept(c, s) \/ (stg = "MCMC" /\ MayReject /\ Reject)

\* A result in shared memory.  A rejected one is marked as not ready.
ReapShm(c) ==
    /\ Reap(c)
    /\ status[c] - ExitBase \in Slot
    /\ LET s == status[c] - ExitBase
       IN  \/ Accept(c, s) /\ ready' = [ready EXCEPT ![s] = Len(results)]
           \/ stg = "MCMC" /\ MayReject /\ Reject /\ ready' = [ready EXCEPT ![s] = None]

\* The range of the case label is one too long: the flag of slot MaxShm is
\* written over aggShmNum, and astgAggShm clears a negative number of flags.
ReapShmPastEnd(c) ==
    /\ Reap(c)
    /\ status[c] = ExitBase + MaxShm
    /\ ppc' = "crashed"
    /\ UNCHANGED <<todo, failed, results, dropped, ready>>

\* Any other status stops the program.  (A status of 2 is taken for a tuning
\* process.)
ReapOther(c) ==
    /\ Reap(c)
    /\ status[c] \notin {0, 1} \cup ExitBase..(ExitBase + MaxShm)
    /\ ppc' = IF status[c] = 2 THEN ppc ELSE "fatal"
    /\ UNCHANGED <<todo, failed, results, dropped, ready>>

\* The slots that are aggregated, and what they add to the aggregate.
ReadySlots == {s \in Slot : s < shmNum /\ ready[s] # None}
TakenIn == [p \in Pid |-> aggregate[p] + Cardinality({s \in ReadySlots : shm[s] = p})]

WrongBatchDone ==
    /\ ppc = "wait"
    /\ In({"run", "slot", "exited"}) = {}
    /\ ~ tuning
    /\ aggregate' = TakenIn
    /\ ready' = [s \in Slot |-> IF s < shmNum THEN None ELSE ready[s]]
    /\ forks' = 0                              \* aggShmNum is not reset
    /\ shm' = IF todo = 0 THEN NoSlots ELSE shm
    /\ ppc' = IF todo = 0 THEN "sampled" ELSE "fork"
    /\ UNCHANGED <<setup, todo, failed, results, cpc, slot, status, tuning, files,
                   shmNum, dropped>>

\* wait() fails with ECHILD: astgAggShm takes in the ready slots and clears the
\* flags; astgAggShmConfig(1, ...) frees the slots when nothing is left to do.
BatchDone ==
    /\ ppc = "wait"
    /\ In({"run", "slot", "exited"}) = {}
    /\ ~ tuning
    /\ aggregate' = TakenIn
    /\ ready' = [s \in Slot |-> IF s < shmNum THEN None ELSE ready[s]]
    /\ shmNum' = 0
    /\ forks' = 0
    /\ shm' = IF todo = 0 THEN NoSlots ELSE shm
    /\ ppc' = IF todo = 0 THEN "sampled" ELSE "fork"
    /\ UNCHANGED <<setup, todo, failed, results, cpc, slot, status, tuning, files, dropped>>

\* dpAggregate in the tuning process: the aggregate is used and reset, and
\* dpSVFini removes the files, so that the pids can be used again.  A callback may split off a tuning process.
DpAggregate ==
    /\ ppc = "sampled"
    /\ aggregate' = EmptyBag
    /\ files' = {}
    /\ cpc' = [c \in Pid |-> "unborn"]
    /\ tuning' \in BOOLEAN
    /\ ppc' = "outside"
    /\ UNCHANGED <<setup, todo, forks, failed, results, slot, status, shmNum, shm,
                   ready, dropped>>

SamplingStep(c) == CheckFail(c) \/ WriteFile(c) \/ TakeSlot(c) \/ WriteSlot(c)

ReapStep(c) ==
    ReapFile(c) \/ ReapFailed(c) \/ ReapShm(c) \/ ReapShmPastEnd(c) \/ ReapOther(c)

TuningStep ==
    \/ DpSampling \/ ForkChild \/ BatchForked \/ BatchDone \/ DpAggregate
    \/ \E c \in Pid : ReapStep(c)

Next == TuningStep \/ TuningExit \/ \E c \in Pid : SamplingStep(c)

Spec == Init /\ [][Next]_vars

\* Every process runs, and the user's code in it ends.
FairSpec ==
    /\ Spec
    /\ WF_vars(TuningStep) /\ WF_vars(TuningExit)
    /\ \A c \in Pid : WF_vars(SamplingStep(c))

-----------------------------------------------------------------------------
\* Type invariant.
TypeOK ==
    /\ ppc \in {"outside", "fork", "wait", "sampled", "crashed", "fatal"}
    /\ region \in 0..MaxRegions /\ stg \in Strategies /\ mem \in BOOLEAN
    /\ sub \in SubTodos /\ forks <= sub
    /\ {todo, dropped} \subseteq 0..SampleNum
    /\ forks \in Nat /\ failed \in 0..MaxFail
    /\ results \in Seq([pid : Pid, shmIdx : Slot \cup {None}])
    /\ cpc \in [Pid -> {"unborn", "run", "slot", "exited", "gone"}]
    /\ slot \in [Pid -> Nat \cup {None}] /\ status \in [Pid -> Nat \cup {None}]
    /\ tuning \in BOOLEAN /\ files \subseteq Pid /\ shmNum \in Nat
    /\ shm \in [Slot -> Pid \cup {None}] /\ ready \in [Slot -> Nat \cup {None}]
    /\ aggregate \in [Pid -> Nat]

Unreaped == In({"run", "slot", "exited"})
Sampling == ppc \in {"fork", "wait", "sampled"}

\* Every sample asked for is a result, still to do, or given up after MAX_FAIL_NUM
\* failed checks, in whatever order the processes of a batch end: each of them
\* counts at most once, so todoNum never drops below zero, where the do-while
\* loop would not stop, and the table never runs past its end.  The results are
\* those of different processes, and what the aggregation will read of a result
\* in a file has been written (SamplingStg.c:163-247).
SamplesAccounted ==
    Sampling =>
        /\ Len(results) + todo + dropped = SampleNum
        /\ Cardinality(Unreaped) <= todo
        /\ \A i, j \in DOMAIN results : results[i].pid = results[j].pid => i = j
        /\ \A i \in DOMAIN results : results[i].shmIdx = None => results[i].pid \in files

\* No two processes of a batch share a slot of shared memory, and a slot whose
\* flag is up holds the data of the very result the flag names, until it has
\* been taken in (AggregateStg.h:19-33, DpLib.c:541-545, SamplingStg.c:213-222).
SlotsExact ==
    /\ \A c, d \in In({"slot", "exited"}) :
          (mem /\ slot[c] # None /\ slot[c] = slot[d]) => c = d
    /\ Sampling => \A s \in Slot : ready[s] # None =>
          /\ s < shmNum
          /\ ready[s] < Len(results)
          /\ results[ready[s] + 1] = Result(shm[s], s)

\* Between two batches, and when sampling is over, the incremental aggregation
\* has taken in every accepted result once, and none that was rejected
\* (AggregateStg.c:626-652).
AggregateExact ==
    mem /\ (ppc = "sampled" \/ (ppc = "fork" /\ forks = 0)) =>
        \A p \in Pid :
            aggregate[p] = Cardinality({i \in DOMAIN results : results[i].pid = p})

\* A region with the random strategy ends, though failed checks are sampled
\* again (SamplingStg.c:199-207), if there is a slot for every process of a
\* batch.
RegionEnds ==
    (ppc = "fork" /\ stg = "RAND" /\ sub <= MaxShm) ~> (ppc = "sampled")

\* However many concurrent sampling processes Arg2 of dpSampling allows, "any
\* number" as README.txt:31 has it, their results are collected.
NeverFatal == ppc \notin {"fatal", "crashed"}

\* A program whose batches are no larger than the slots is never stopped by an
\* exit status it does not expect, whatever the other processes did to the slots
\* before (SamplingStg.c:208-229).
SmallBatchesCollected == sub <= MaxShm => NeverFatal
=============================================================================
