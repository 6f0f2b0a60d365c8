----------------------------- MODULE Aggregate -----------------------------
(***************************************************************************)
(* What becomes of the results of a region: the built-in strategies of     *)
(* dpAggregate, for several target variables at once.  A_AVG, A_MJ_VOTE,   *)
(* A_MAX and A_MIN read the result files when the region is over.  The     *)
(* A_..._MEM strategies take the results in after every batch, from slots  *)
(* of shared memory, into static variables of the strategy's function.     *)
(*                                                                         *)
(* SamplingRegion has the processes, the statuses and the slots; here a    *)
(* sampling process is one step, and the data are real.  A variable is one *)
(* number (the elements of an array are aggregated alike), a double: the   *)
(* arithmetic is exact, a number is a pair num / den.  Where the code      *)
(* reads through NULL, or a result that is not there, it stops.            *)
(***************************************************************************)
EXTENDS Integers, FiniteSets, SequencesExt

CONSTANTS
    Targets,      \* the strategies of the target variables, in their order
    Data,         \* what a process may compute: a number for each of them
    ScoreOf,      \* the score function of the program, by number
    SampleNum,    \* snum
    Sub,          \* subTodoNum
    MaxRegions    \* bound: the regions the tuning process goes through

MemStrategies == {"A_AVG_MEM", "A_MJ_VOTE_MEM", "A_MAX_MEM", "A_MIN_MEM"}
FileStrategies == {"A_AVG", "A_MJ_VOTE", "A_MAX", "A_MIN"}
Target == DOMAIN Targets
InMem(v) == Targets[v] \in MemStrategies

ASSUME TargetAssumption ==
    /\ Targets \in Seq(MemStrategies \cup FileStrategies)
    /\ \E v \in Target : InMem(v)
    /\ \A d \in Data : DOMAIN d = Target /\ \A v \in Target : d[v] \in DOMAIN ScoreOf
    /\ DOMAIN ScoreOf \subseteq Nat /\ \A x \in DOMAIN ScoreOf : ScoreOf[x] \in Nat
ASSUME SizeAssumption == {SampleNum, Sub, MaxRegions} \subseteq Nat \ {0}

VARIABLES
    ppc,       \* where the tuning process is
    region,    \* the regions it has entered
    todo,      \* resultTab.todoNum
    running,   \* the processes of the batch that have not ended
    shm,       \* the content of the slots, shmResult[0 .. aggShmNum - 1]
    ready,     \* aggShmReady: the result a slot holds, or None
    waiting,   \* the slots whose process has not been collected
    known,     \* has a process entered the strategies in aggInfo?
    static,    \* the static variables of the A_..._MEM strategies
    results,   \* resultTab: the content of the result's file
    next,      \* the variable dpAggregate is at
    target,    \* what was written to the variables
    best,      \* the result whose parameters were shown with it
    taken      \* history: the data of the accepted results

batch == <<todo, running, shm, ready, waiting, known, results, taken>>
outcome == <<next, target, best>>
vars == <<ppc, region, batch, static, outcome>>

None == -1
Number(x) == [num |-> x, den |-> 1]
Nothing == [num |-> 0, den |-> 0]

-----------------------------------------------------------------------------
\* The static variables of a strategy: n is denom or *pCnt, value pAvgResult,
\* pMjVal, pMax or pMin.
Unallocated == [null |-> TRUE, n |-> 0, value |-> Number(0), score |-> 0, idx |-> None]

WrongAvgInc(avg, denom, x) == [num |-> avg.num + x * avg.den, den |-> avg.den * denom]

\* dpuAvgInc: avg + (x - avg) / denom.  dpuAvgAll: avg + x / denom.
AvgInc(avg, denom, x) ==
    [num |-> avg.num * denom + (x * avg.den - avg.num), den |-> avg.den * denom]
AvgAll(avg, denom, x) ==
    [num |-> avg.num * denom + x * avg.den, den |-> avg.den * denom]

WrongMjVote(s, x) ==
    IF s.n = 0 \/ s.value = Number(x) THEN [s EXCEPT !.n = @ + 1, !.value = Number(x)]
    ELSE s

\* dpuMjVote.
MjVote(s, x) ==
    IF s.n = 0 \/ s.value = Number(x) THEN [s EXCEPT !.n = @ + 1, !.value = Number(x)]
    ELSE [s EXCEPT !.n = @ - 1]

Best(s, x, idx, isBetter) ==
    IF s.idx = None \/ isBetter
    THEN [s EXCEPT !.value = Number(x), !.score = ScoreOf[x], !.idx = idx] ELSE s

\* What a strategy makes of one more result; A_AVG knows how many there are.
TakeIn(stg, s, x, idx) ==
    CASE stg = "A_AVG" -> [s EXCEPT !.value = AvgAll(@, s.n, x)]
      [] stg = "A_AVG_MEM" -> [s EXCEPT !.n = @ + 1, !.value = AvgInc(@, s.n + 1, x)]
      [] stg \in {"A_MJ_VOTE", "A_MJ_VOTE_MEM"} -> MjVote(s, x)
      [] stg \in {"A_MAX", "A_MAX_MEM"} -> Best(s, x, idx, ScoreOf[x] > s.score)
      [] stg \in {"A_MIN", "A_MIN_MEM"} -> Best(s, x, idx, ScoreOf[x] < s.score)

\* ... and of one result after the other, without those that have no index.
TakeNext(stg, s, e) == IF e.idx = None THEN s ELSE TakeIn(stg, s, e.x, e.idx)
TakeAll(stg, s, entries) == FoldLeft(LAMBDA t, e : TakeNext(stg, t, e), s, entries)

-----------------------------------------------------------------------------
Init ==
    /\ ppc = "outside" /\ region = 0
    /\ todo = 0 /\ running = 0
    /\ shm = <<>> /\ ready = <<>> /\ waiting = {} /\ known = FALSE
    /\ static = [stg \in MemStrategies |-> Unallocated]
    /\ results = <<>> /\ taken = <<>>
    /\ next = 1
    /\ target = [v \in Target |-> Nothing] /\ best = [v \in Target |-> None]

Batch == IF todo < Sub THEN todo ELSE Sub

\* dpSampling clears the shared table and the table of results, and starts.
DpSampling ==
    /\ ppc = "outside" /\ region < MaxRegions
    /\ ppc' = "sampling" /\ region' = region + 1
    /\ todo' = SampleNum /\ running' = IF SampleNum < Sub THEN SampleNum ELSE Sub
    /\ shm' = <<>> /\ ready' = <<>> /\ waiting' = {} /\ known' = FALSE
    /\ results' = <<>> /\ taken' = <<>>
    /\ next' = 1
    /\ target' = [v \in Target |-> Nothing] /\ best' = [v \in Target |-> None]
    /\ UNCHANGED static

\* dpAggregate in a sampling process: it takes a slot and copies its data, and
\* the score for A_MAX_MEM and A_MIN_MEM.
Deliver ==
    /\ ppc = "sampling" /\ running > 0
    /\ running' = running - 1
    /\ \E d \in Data : shm' = Append(shm, d)
    /\ ready' = Append(ready, None)
    /\ waiting' = waiting \cup {Len(shm) + 1}
    /\ known' = TRUE
    /\ UNCHANGED <<ppc, region, todo, static, results, taken, outcome>>

\* dpCheck fails; now and then the sample is given up.
Fail ==
    /\ ppc = "sampling" /\ running > 0
    /\ running' = running - 1
    /\ todo' \in {todo, todo - 1}
    /\ UNCHANGED <<ppc, region, shm, ready, waiting, known, static, results, taken, outcome>>

\* The file of a result has the variables that are not in shared memory.
WriteVar(file, v, d) == IF InMem(v) THEN file ELSE Append(file, [v |-> v, x |-> d[v]])
File(d) == FoldLeft(LAMBDA file, v : WriteVar(file, v, d), <<>>, [v \in Target |-> v])

WrongAccept(s) ==
    /\ ppc = "sampling" /\ s \in waiting
    /\ waiting' = waiting \ {s}
    /\ ready' = [ready EXCEPT ![s] = s - 1]
    /\ results' = Append(results, File(shm[s]))
    /\ taken' = Append(taken, shm[s])
    /\ todo' = todo - 1
    /\ UNCHANGED <<ppc, region, running, shm, known, static, outcome>>

\* The tuning process collects the process of a slot, and accepts its result ...
Accept(s) ==
    /\ ppc = "sampling" /\ s \in waiting
    /\ waiting' = waiting \ {s}
    /\ ready' = [ready EXCEPT ![s] = Len(results)]
    /\ results' = Append(results, File(shm[s]))
    /\ taken' = Append(taken, shm[s])
    /\ todo' = todo - 1
    /\ UNCHANGED <<ppc, region, running, shm, known, static, outcome>>

\* ... or turns it down: the slot is not ready.
Reject(s) ==
    /\ ppc = "sampling" /\ s \in waiting
    /\ waiting' = waiting \ {s}
    /\ UNCHANGED <<ppc, region, todo, running, shm, ready, known, static, results, taken, outcome>>

\* One strategy, at the end of a batch, for variable v: what is not allocated
\* is allocated, every slot that is ready is taken in.  denom is not touched
\* by the allocation.
Collect(s, v) ==
    TakeAll(Targets[v], [s EXCEPT !.null = FALSE],
            [i \in DOMAIN shm |-> [x |-> shm[i][v], idx |-> ready[i]]])
OfVariable(st, v) == IF InMem(v) THEN [st EXCEPT ![Targets[v]] = Collect(@, v)] ELSE st
OfVariables == FoldLeft(OfVariable, static, [v \in Target |-> v])

WrongAggShm ==
    /\ ppc = "sampling" /\ running = 0 /\ waiting = {}
    /\ static' = IF known THEN OfVariables ELSE static
    /\ IF todo = 0 THEN ppc' = "aggregate" /\ running' = 0
       ELSE running' = Batch /\ UNCHANGED ppc
    /\ UNCHANGED <<region, todo, shm, ready, waiting, known, results, taken, outcome>>

\* astgAggShm, when the batch has ended: every variable in turn, then the
\* slots are free again; another batch while samples are missing.
AggShm ==
    /\ ppc = "sampling" /\ running = 0 /\ waiting = {}
    /\ static' = IF known THEN OfVariables ELSE static
    /\ shm' = <<>> /\ ready' = <<>>
    /\ IF todo = 0 THEN ppc' = "aggregate" /\ running' = 0
       ELSE running' = Batch /\ UNCHANGED ppc
    /\ UNCHANGED <<region, todo, waiting, known, results, taken, outcome>>

-----------------------------------------------------------------------------
\* dpAggregate in the tuning process goes through the variables in turn.
Write(value, idx) ==
    /\ target' = [target EXCEPT ![next] = value]
    /\ best' = [best EXCEPT ![next] = idx]
    /\ next' = next + 1
    /\ ppc' = IF value = Nothing THEN "crashed" ELSE IF next = Len(Targets) THEN "outside" ELSE ppc

\* A_..._MEM: the static variables are written to the target and cleared.
FinishMem ==
    LET stg == Targets[next]
        s == static[stg]
    IN
    /\ ppc = "aggregate" /\ InMem(next)
    /\ IF s.null \/ (stg \in {"A_MAX_MEM", "A_MIN_MEM"} /\ s.idx = None)
       THEN Write(Nothing, None) /\ UNCHANGED static
       ELSE Write(s.value, s.idx) /\ static' = [static EXCEPT ![stg] = Unallocated]
    /\ UNCHANGED <<region, batch>>

\* dpuReadResultById: the file of a result is read as if every variable before
\* this one were in it.
InFile(r, v) == IF v \in DOMAIN results[r] THEN results[r][v].x ELSE None

\* dpuAvg, and what the other strategies search for: over the results, in
\* their order.
Search(v) ==
    TakeAll(Targets[v], [Unallocated EXCEPT !.n = IF Targets[v] = "A_AVG" THEN Len(results) ELSE 0],
            [r \in DOMAIN results |-> [x |-> InFile(r, v), idx |-> r - 1]])

\* A_AVG, A_MJ_VOTE, A_MAX, A_MIN.
FinishFile ==
    LET stg == Targets[next]
        s == Search(next)
    IN
    /\ ppc = "aggregate" /\ ~ InMem(next)
    /\ IF \E r \in DOMAIN results : InFile(r, next) = None THEN Write(Nothing, None)
       ELSE IF stg \in {"A_MAX", "A_MIN"} /\ s.idx = None THEN Write(Nothing, None)
       ELSE Write(s.value, s.idx)
    /\ UNCHANGED <<region, batch, static>>

Next ==
    \/ DpSampling \/ Deliver \/ Fail \/ AggShm \/ FinishMem \/ FinishFile
    \/ \E s \in waiting : Accept(s) \/ Reject(s)

Spec == Init /\ [][Next]_vars

-----------------------------------------------------------------------------
\* Every variable has values of its type; a slot is ready for a result there is.
TypeOK ==
    /\ ppc \in {"outside", "sampling", "aggregate", "crashed"}
    /\ region \in 0..MaxRegions /\ todo \in 0..SampleNum /\ running \in 0..Sub
    /\ Len(shm) = Len(ready) /\ waiting \subseteq DOMAIN shm
    /\ \A i \in DOMAIN shm : shm[i] \in Data /\ ready[i] \in (-1)..(Len(results) - 1)
    /\ \A stg \in MemStrategies : static[stg].n \in 0..SampleNum
    /\ Len(results) = Len(taken) /\ Len(results) + todo <= SampleNum
    /\ next \in 1..(Len(Targets) + 1)

\* The variables dpAggregate is done with, in a region that has results.
Settled(stgs) == {v \in Target : v < next /\ Targets[v] \in stgs /\ taken # <<>>}

Sum(v) == FoldLeft(LAMBDA sum, d : sum + d[v], 0, taken)

\* A variable with A_AVG or A_AVG_MEM becomes the mean of the accepted results
\* of this region, whatever the batches were and whatever was turned down.
AverageExact ==
    \A v \in Settled({"A_AVG", "A_AVG_MEM"}) :
        target[v] # Nothing /\ target[v].num * Len(taken) = Sum(v) * target[v].den

\* A number that more than half of the accepted results have is what a variable
\* with A_MJ_VOTE or A_MJ_VOTE_MEM becomes.
MajorityFound ==
    \A v \in Settled({"A_MJ_VOTE", "A_MJ_VOTE_MEM"}) :
        /\ target[v] # Nothing
        /\ \A x \in DOMAIN ScoreOf :
              2 * Cardinality({i \in DOMAIN taken : taken[i][v] = x}) > Len(taken)
                  => target[v] = Number(x)

\* A variable with A_MAX(_MEM) or A_MIN(_MEM) becomes the data of an accepted
\* result that no other one beats, and the parameters shown are those of it.
BestFound ==
    LET Beats(v, x, y) ==
            IF Targets[v] \in {"A_MAX", "A_MAX_MEM"} THEN ScoreOf[x] > ScoreOf[y]
            ELSE ScoreOf[x] < ScoreOf[y]
    IN \A v \in Settled({"A_MAX", "A_MIN", "A_MAX_MEM", "A_MIN_MEM"}) :
        /\ target[v] # Nothing /\ best[v] + 1 \in DOMAIN taken
        /\ target[v] = Number(taken[best[v] + 1][v])
        /\ \A i \in DOMAIN taken : ~ Beats(v, taken[i][v], taken[best[v] + 1][v])
=============================================================================
