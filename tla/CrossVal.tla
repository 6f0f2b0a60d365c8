------------------------------ MODULE CrossVal ------------------------------
(***************************************************************************)
(* A sampling region with K-fold cross-validation (S_CV, sstgStg4).  A     *)
(* sample is K processes that train on K splits of the data.  They share a *)
(* slot of memory: the first to draw a random variable draws it for all,   *)
(* each adds the error of its validation, the last one writes the result   *)
(* of the sample and leaves with status 0.  The tuning process takes the   *)
(* result or turns it down, in a callback that may narrow the ranges of    *)
(* the random variables for the processes to come, while others still run. *)
(*                                                                         *)
(* The error of a process is the set of lines it validated on; the error   *)
(* of a sample counts them, together with what the sum was divided by.     *)
(* The scheduler's slots are left to module Sched: no process of a sample  *)
(* waits for another one.  Fork, files and mappings do not fail.  The      *)
(* files of a result that was turned down are forgotten, and a pid is used *)
(* again once no file has its name: there is no bound on the tries.        *)
(***************************************************************************)
EXTENDS RandVars, FiniteSets

CONSTANTS
    Calls,        \* the regions that occur, see CallAssumption
    PidNum,       \* the pids are 1..PidNum
    Chosen,       \* the values a callback may set the ends of a variable to,
                  \* its own and those that dpuRandSetParmWithProb draws for it
    MaxPins       \* bound: the dpuSetParm calls of one callback

\* What dpSampling is called with: the folds, snum, the samples of a batch
\* (subTodoNum) and the lines of the training data; what the program does:
\* the random variables it draws, and whether there is an acceptProbFunc.
ASSUME CallAssumption ==
    /\ Calls \subseteq [K : Nat \ {0}, snum : Nat \ {0}, sub : Nat \ {0}, lines : Nat,
                       draws : Var, judge : BOOLEAN]
    /\ PidNum \in Nat /\ \A call \in Calls : PidNum >= call.K * call.sub + call.snum
    /\ Chosen \in [Var -> SUBSET Nat] /\ MaxPins \in Nat

VARIABLES
    ppc,       \* where the tuning process is
    call,      \* the region
    todo,      \* resultTab.todoNum
    forks,     \* the processes of this batch so far, K * i + j
    active,    \* syActiveChildNum
    tail,      \* resultTab.resultTailIdx
    result,    \* resultTab.result: pid, and what was read of its files
    pins,      \* rLoD and rHiD
    store,     \* the dpuSetParm call the callback is in
    rem,       \* *cvRemChildNum of each slot
    error,     \* *cvValidError of each slot
    tab,       \* cvRSVarTab of each slot
    cpc,       \* where each sampling process is
    slot,      \* the slot it shares
    fold,      \* the split it has
    lo,        \* the lower end it has read for its next variable
    drawn,     \* the values of its variables so far
    status,    \* its exit status
    parm,      \* the .parm files, by pid
    bin,       \* the .result files, by pid
    pinned,    \* bound: the dpuSetParm calls of this callback
    half,      \* history: a range that has its lower end only
    asked,     \* history: the value both ends of a variable were set to
    touched,   \* history: the variables set since this batch was forked
    torn       \* history: the variables drawn from an end that was half stored

tuner == <<ppc, todo, forks, active, tail, result, store>>
shared == <<rem, error, tab>>
procs == <<cpc, slot, fold, lo, drawn, status>>
files == <<parm, bin>>
history == <<pinned, half, asked, touched, torn>>
vars == <<tuner, call, pins, shared, procs, files, history>>

None == -1
Pid == 1..PidNum
K == call.K
Slot == 0..(call.sub - 1)
Line == 0..(call.lines - 1)

NoError == [count |-> [l \in Line |-> 0], over |-> 1]
NoTab == [v \in 1..call.draws |-> Unset]
Free == [x |-> Unset, whole |-> FALSE]
NoPin == [named |-> {}, vals |-> NoTab]
NoBin == [count |-> <<>>, over |-> 0]
NoResult == [pid |-> None, parm |-> <<>>, bin |-> NoBin]

Batch == IF todo < call.sub THEN todo ELSE call.sub
In(states) == {c \in Pid : cpc[c] \in states}
Running == In({"lo", "hi", "aggregate", "last"})

FreePid == CHOOSE c \in Pid : /\ cpc[c] = "none" /\ bin[c] = NoBin
                              /\ \A d \in 1..(c - 1) : cpc[d] # "none" \/ bin[d] # NoBin

-----------------------------------------------------------------------------
WrongFoldSize == call.lines \div K

\* sioCVInit: the size of a fold, rounded up, and the lines it validates.
FoldSize == IF call.lines % K = 0 THEN call.lines \div K ELSE call.lines \div K + 1
Validates(f) == {l \in Line : FoldSize * f <= l /\ l < FoldSize * (f + 1)}

Init ==
    /\ call \in Calls
    /\ ppc = "batch" /\ todo = call.snum /\ forks = 0 /\ active = 0 /\ tail = 0
    /\ result = [r \in 0..call.snum |-> NoResult]
    /\ pins = NoPins
    /\ rem = [s \in Slot |-> 0]
    /\ error = [s \in Slot |-> NoError]
    /\ tab = [s \in Slot |-> NoTab]
    /\ cpc = [c \in Pid |-> "none"]
    /\ slot = [c \in Pid |-> None] /\ fold = [c \in Pid |-> None]
    /\ lo = [c \in Pid |-> Unset] /\ drawn = [c \in Pid |-> <<>>]
    /\ status = [c \in Pid |-> None]
    /\ parm = [c \in Pid |-> <<>>] /\ bin = [c \in Pid |-> NoBin]
    /\ pinned = 0 /\ half = NoPin
    /\ asked = [v \in Var |-> Free]
    /\ touched = {} /\ store = NoStore /\ torn = {}

\* A turn of the loop starts.  syActiveChildNum counts samples, not processes.
StartBatch ==
    /\ ppc = "batch"
    /\ ppc' = "fork" /\ forks' = 0 /\ active' = Batch /\ touched' = {}
    /\ UNCHANGED <<todo, tail, result, store, call, pins, shared, procs, files,
                   pinned, half, asked, torn>>

WrongForkChild ==
    /\ ppc = "fork" /\ forks < K * Batch
    /\ LET c == FreePid
           s == forks \div K
       IN /\ cpc' = [cpc EXCEPT ![c] = "lo"]
          /\ slot' = [slot EXCEPT ![c] = s]
          /\ fold' = [fold EXCEPT ![c] = forks % K]
          /\ IF forks % K = 0
             THEN /\ error' = [error EXCEPT ![s] = NoError]
                  /\ tab' = [tab EXCEPT ![s] = NoTab]
             ELSE UNCHANGED <<error, tab>>
    /\ forks' = forks + 1
    /\ UNCHANGED <<ppc, todo, active, tail, result, store, call, pins, rem, lo, drawn, status,
                   files, history>>

\* The next process; before the first of a sample, its slot is cleared.
ForkChild ==
    /\ ppc = "fork" /\ forks < K * Batch
    /\ LET c == FreePid
           s == forks \div K
       IN /\ cpc' = [cpc EXCEPT ![c] = "lo"]
          /\ slot' = [slot EXCEPT ![c] = s]
          /\ fold' = [fold EXCEPT ![c] = forks % K]
          /\ IF forks % K = 0
             THEN /\ rem' = [rem EXCEPT ![s] = K]
                  /\ error' = [error EXCEPT ![s] = NoError]
                  /\ tab' = [tab EXCEPT ![s] = NoTab]
             ELSE UNCHANGED shared
    /\ forks' = forks + 1
    /\ UNCHANGED <<ppc, todo, active, tail, result, store, call, pins, lo, drawn, status,
                   files, history>>

BatchForked ==
    /\ ppc = "fork" /\ forks = K * Batch
    /\ ppc' = "wait"
    /\ UNCHANGED <<todo, forks, active, tail, result, store, call, pins, shared, procs, files, history>>

-----------------------------------------------------------------------------
\* dpRSI (dpRSF, dpRSD) reads the lower end ...
ReadLo(c) ==
    LET v == Len(drawn[c]) + 1 IN
    /\ cpc[c] = "lo"
    /\ lo' = [lo EXCEPT ![c] = Lo(pins, store, v)]
    /\ torn' = IF TornLo(pins, store, v) THEN torn \cup {v} ELSE torn
    /\ cpc' = [cpc EXCEPT ![c] = "hi"]
    /\ UNCHANGED <<tuner, call, pins, shared, slot, fold, drawn, status, files,
                   pinned, half, asked, touched>>

WrongDraw(c) ==
    LET v == Len(drawn[c]) + 1 IN
    /\ cpc[c] = "hi"
    /\ \E x \in Between(lo[c], Hi(pins, store, v)) :
          /\ drawn' = [drawn EXCEPT ![c] = Append(@, x)]
          /\ IF tab[slot[c]][v] = Unset THEN tab' = [tab EXCEPT ![slot[c]][v] = x]
             ELSE UNCHANGED tab
    /\ torn' = IF TornHi(pins, store, v) THEN torn \cup {v} ELSE torn
    /\ cpc' = [cpc EXCEPT ![c] = IF v = call.draws THEN "aggregate" ELSE "lo"]
    /\ UNCHANGED <<tuner, call, pins, rem, error, slot, fold, lo, status, files,
                   pinned, half, asked, touched>>

\* ... and the upper end, draws, and under cvMtx leaves its value to the other
\* processes of the sample or takes the value of the one that came first.
Draw(c) ==
    LET v == Len(drawn[c]) + 1
        first == tab[slot[c]][v]
    IN
    /\ cpc[c] = "hi"
    /\ \E x \in IF first = Unset THEN Between(lo[c], Hi(pins, store, v)) ELSE {first} :
          /\ tab' = [tab EXCEPT ![slot[c]][v] = x]
          /\ drawn' = [drawn EXCEPT ![c] = Append(@, x)]
    /\ torn' = IF TornHi(pins, store, v) THEN torn \cup {v} ELSE torn
    /\ cpc' = [cpc EXCEPT ![c] = IF v = call.draws THEN "aggregate" ELSE "lo"]
    /\ UNCHANGED <<tuner, call, pins, rem, error, slot, fold, lo, status, files,
                   pinned, half, asked, touched>>

Exits(c, s) ==
    /\ cpc' = [cpc EXCEPT ![c] = "exited"]
    /\ status' = [status EXCEPT ![c] = s]

\* dpCheck fails; the slot is left as it is.
CheckFail(c) ==
    /\ cpc[c] \in {"lo", "aggregate"}
    /\ Exits(c, 1)
    /\ UNCHANGED <<tuner, call, pins, shared, slot, fold, lo, drawn, files, history>>

WrongValidate(c) ==
    LET s == slot[c] IN
    /\ cpc[c] = "aggregate"
    /\ rem' = [rem EXCEPT ![s] = @ - 1]
    /\ error' = [error EXCEPT ![s].count =
                     [l \in Line |-> @[l] + (IF l \in Validates(fold[c]) THEN 1 ELSE 0)]]
    /\ IF rem[s] <= 2 THEN cpc' = [cpc EXCEPT ![c] = "last"] /\ UNCHANGED status
       ELSE Exits(c, 3)
    /\ UNCHANGED <<tuner, call, pins, tab, slot, fold, lo, drawn, files, history>>

\* dpAggregate calls the validation, adds the error under cvMtx and finds out
\* whether it is the last process of the sample; the others leave.
Validate(c) ==
    LET s == slot[c] IN
    /\ cpc[c] = "aggregate"
    /\ rem' = [rem EXCEPT ![s] = @ - 1]
    /\ error' = [error EXCEPT ![s].count =
                     [l \in Line |-> @[l] + (IF l \in Validates(fold[c]) THEN 1 ELSE 0)]]
    /\ IF rem[s] = 1 THEN cpc' = [cpc EXCEPT ![c] = "last"] /\ UNCHANGED status
       ELSE Exits(c, 3)
    /\ UNCHANGED <<tuner, call, pins, tab, slot, fold, lo, drawn, files, history>>

\* The last one divides the sum, without the mutex, and writes the files.
Deliver(c) ==
    LET s == slot[c] IN
    /\ cpc[c] = "last"
    /\ error' = [error EXCEPT ![s].over = @ * K]
    /\ parm' = [parm EXCEPT ![c] = tab[s]]
    /\ bin' = [bin EXCEPT ![c] = error'[s]]
    /\ active' = active - 1
    /\ Exits(c, 0)
    /\ UNCHANGED <<ppc, todo, forks, tail, result, store, call, pins, rem, tab,
                   slot, fold, lo, drawn, history>>

-----------------------------------------------------------------------------
\* wait() returns process c.
Reap(c) ==
    /\ ppc = "wait" /\ cpc[c] = "exited"
    /\ cpc' = [cpc EXCEPT ![c] = "none"]
    /\ slot' = [slot EXCEPT ![c] = None] /\ fold' = [fold EXCEPT ![c] = None]
    /\ lo' = [lo EXCEPT ![c] = Unset] /\ drawn' = [drawn EXCEPT ![c] = <<>>]
    /\ status' = [status EXCEPT ![c] = None]
    /\ UNCHANGED <<forks, active, store, call, pins, shared, files, history>>

\* A failed check, or one of the first K - 1 processes of a sample.
ReapOther(c) ==
    /\ Reap(c)
    /\ status[c] \in {1, 3}
    /\ UNCHANGED <<ppc, todo, tail, result>>

\* dpuReadResultBin and dpuReadResultParms read a file once.
ReadBin(r) == IF r.bin = NoBin THEN [r EXCEPT !.bin = bin[r.pid]] ELSE r
ReadParm(r) == IF r.parm = <<>> THEN [r EXCEPT !.parm = parm[r.pid]] ELSE r

\* The last process of a sample.  Without acceptProbFunc, and when it is the
\* first result, the result is taken; otherwise the callback is asked.
ReapResult(c) ==
    /\ Reap(c)
    /\ status[c] = 0
    /\ result' = [result EXCEPT ![tail] = ReadBin([@ EXCEPT !.pid = c])]
    /\ IF call.judge /\ tail > 0 THEN ppc' = "callback" /\ UNCHANGED <<todo, tail>>
       ELSE todo' = todo - 1 /\ tail' = tail + 1 /\ UNCHANGED ppc

Decided ==
    /\ ppc = "callback" /\ store = NoStore
    /\ ppc' = "wait" /\ half' = NoPin /\ pinned' = 0
    /\ UNCHANGED <<store, asked, touched, torn>>

Accept ==
    /\ Decided
    /\ todo' = todo - 1 /\ tail' = tail + 1
    /\ UNCHANGED <<forks, active, result, call, pins, shared, procs, files>>

WrongReject ==
    /\ Decided
    /\ result' = [result EXCEPT ![tail].bin = NoBin, ![tail].pid = None]
    /\ parm' = [parm EXCEPT ![result[tail].pid] = <<>>]
    /\ bin' = [bin EXCEPT ![result[tail].pid] = NoBin]
    /\ UNCHANGED <<todo, forks, active, tail, call, pins, shared, procs>>

\* What was read of a result turned down is dropped: its index is used again
\* (and its pid overwritten before the entry is read).
Reject ==
    /\ Decided
    /\ result' = [result EXCEPT ![tail] = NoResult]
    /\ parm' = [parm EXCEPT ![result[tail].pid] = <<>>]
    /\ bin' = [bin EXCEPT ![result[tail].pid] = NoBin]
    /\ UNCHANGED <<todo, forks, active, tail, call, pins, shared, procs>>

\* ECHILD.
BatchDone ==
    /\ ppc = "wait"
    /\ Running \cup In({"exited"}) = {}
    /\ ppc' = IF todo = 0 THEN "done" ELSE "batch"
    /\ UNCHANGED <<todo, forks, active, tail, result, store, call, pins, shared, procs, files, history>>

-----------------------------------------------------------------------------
\* A callback sets one end of some ranges: a call of its own, or the second
\* half of a call that sets both.  This is the start of it, what is asked for;
\* StoreTID and StoreValue change the tables.  Bound: MaxPins calls.
Affected(named) == IF named = {} THEN 1..call.draws ELSE named

SetEnd(named, second) ==
    /\ ppc = "callback" /\ store = NoStore
    /\ second \/ pinned < MaxPins
    /\ pinned' = IF second THEN pinned ELSE pinned + 1
    /\ touched' = touched \cup Affected(named)
    /\ UNCHANGED <<ppc, todo, forks, active, tail, call, pins, shared, procs, files, torn>>

LowerEnd(named, vals) ==
    /\ SetEnd(named, FALSE)
    /\ half' = [named |-> named, vals |-> vals]
    /\ asked' = [v \in Var |-> IF v \in Affected(named) THEN Free ELSE asked[v]]
UpperEnd(named, vals) ==
    LET both == half = [named |-> named, vals |-> vals] IN
    /\ SetEnd(named, both)
    /\ half' = NoPin
    /\ asked' = [v \in Var |->
                     IF v \notin Affected(named) THEN asked[v]
                     ELSE IF both THEN [x |-> vals[v], whole |-> named = {}] ELSE Free]

\* dpuSetParmLo2Result, dpuSetParmHi2Result, one after the other in
\* dpuSetParm2Result.
PinLo2Result(r, named) ==
    LET vals == parm[result[r].pid] IN
    /\ LowerEnd(named, vals)
    /\ result' = [result EXCEPT ![r] = ReadParm(@)]
    /\ store' = Lo2Result(named, result'[r].parm)
PinHi2Result(r, named) ==
    LET vals == parm[result[r].pid] IN
    /\ UpperEnd(named, vals)
    /\ result' = [result EXCEPT ![r] = ReadParm(@)]
    /\ store' = Hi2Result(named, result'[r].parm)

\* dpuSetParmLo, dpuSetParmHi, one after the other in dpuSetParm.
Only(v, x) == [NoTab EXCEPT ![v] = x]

PinLo(v, x) ==
    /\ LowerEnd({v}, Only(v, x))
    /\ store' = SetLo({v}, Only(v, x))
    /\ UNCHANGED result
PinHi(v, x) ==
    /\ UpperEnd({v}, Only(v, x))
    /\ store' = SetHi({v}, Only(v, x))
    /\ UNCHANGED result

Pin ==
    \/ \E r \in 0..tail, named \in SUBSET (1..call.draws) : PinLo2Result(r, named) \/ PinHi2Result(r, named)
    \/ \E v \in 1..call.draws : \E x \in Chosen[v] : PinLo(v, x) \/ PinHi(v, x)

\* The call stores the tID of its next variable ...
StoreTID(v) ==
    /\ v \in store.left /\ store.at = Unset
    /\ store' = [store EXCEPT !.at = v]
    /\ UNCHANGED <<ppc, todo, forks, active, tail, result, call, pins, shared, procs, files, history>>

\* ... and its value; the last one ends the call.
StoreValue ==
    /\ store.at # Unset
    /\ pins' = Stored(pins, store)
    /\ store' = IF store.left = {store.at} THEN NoStore
                ELSE [store EXCEPT !.left = @ \ {store.at}, !.at = Unset]
    /\ UNCHANGED <<ppc, todo, forks, active, tail, result, call, shared, procs, files, history>>

Storing == StoreValue \/ \E v \in Var : StoreTID(v)

Next ==
    \/ StartBatch \/ ForkChild \/ BatchForked \/ BatchDone
    \/ \E c \in Pid :
          \/ ReadLo(c) \/ Draw(c) \/ CheckFail(c) \/ Validate(c) \/ Deliver(c)
          \/ ReapOther(c) \/ ReapResult(c)
    \/ Accept \/ Reject \/ Pin \/ Storing

Spec == Init /\ [][Next]_vars

-----------------------------------------------------------------------------
\* Every variable has values of its type.
TypeOK ==
    /\ ppc \in {"batch", "fork", "wait", "callback", "done"}
    /\ call \in Calls
    /\ todo \in 0..call.snum /\ forks \in 0..(K * call.sub) /\ active \in 0..call.sub
    /\ tail \in 0..call.snum /\ \A r \in 0..call.snum : result[r].pid \in Pid \cup {None}
    /\ \A v \in Var : {pins.lo[v], pins.hi[v]} \subseteq Nat \cup {Unset}
    /\ store.at \in store.left \cup {Unset} /\ \A v \in store.left : store.vals[v] \in Nat \cup {Unset}
    /\ store # NoStore => ppc = "callback"
    /\ rem \in [Slot -> 0..K] /\ tab \in [Slot -> [1..call.draws -> Nat \cup {Unset}]]
    /\ \A s \in Slot : error[s].over \in {1, K}
    /\ cpc \in [Pid -> {"none", "lo", "hi", "aggregate", "last", "exited"}]
    /\ slot \in [Pid -> Slot \cup {None}] /\ fold \in [Pid -> (-1)..(K - 1)]
    /\ status \in [Pid -> {None, 0, 1, 3}]
    /\ pinned \in 0..MaxPins

Delivered == {c \in Pid : cpc[c] = "last" \/ status[c] = 0}

\* The K processes of a sample compute with the same values of the random
\* variables, whoever drew first and whatever the callback set in between, and
\* those are the values its result is filed under.
SampleAgrees ==
    /\ \A c, d \in Pid : slot[c] = slot[d] =>
          \A v \in DOMAIN drawn[c] \cap DOMAIN drawn[d] : drawn[c][v] = drawn[d][v]
    /\ \A c \in Pid : status[c] = 0 => parm[c] = drawn[c]

\* The error of a result counts every line of the training data exactly once,
\* is divided by K once, and comes from a sample none of whose processes
\* failed its check, for data of any length and processes in any order.
ErrorExact ==
    /\ \A c \in Pid : bin[c] # NoBin => bin[c] = [count |-> [l \in Line |-> 1], over |-> K]
    /\ \A c \in Delivered, d \in Pid : slot[c] = slot[d] /\ c # d => status[d] = 3

\* A sample delivers at most one result; what is delivered and not collected
\* yet never exceeds what is still asked for, so the table never overflows; no
\* result is in the table twice; and syActiveChildNum is the number of samples
\* of the batch that have not delivered.
SamplesCounted ==
    /\ tail + todo = call.snum
    /\ ppc \in {"fork", "wait"} => Cardinality(Delivered) <= todo
    /\ \A r, q \in 0..(tail - 1) : r # q => result[r].pid # result[q].pid
    /\ \A s \in Slot : Cardinality({c \in Delivered : slot[c] = s}) <= 1
    /\ ppc # "fork" => active = Cardinality({s \in 0..(forks \div K - 1) :
                                              rem[s] > 0 \/ \E c \in In({"last"}) : slot[c] = s})

\* What the result table holds of a result is what the process it names wrote,
\* also when an index is used again for the next candidate.
CachesFresh ==
    \A r \in 0..call.snum :
        /\ result[r].bin # NoBin => result[r].bin = bin[result[r].pid]
        /\ result[r].parm # <<>> => result[r].pid # None /\ result[r].parm = parm[result[r].pid]

\* The values that the program may name for a variable, and what lies between.
Bounds(v) == {StaticLo[v], StaticHi[v]} \cup Chosen[v]
InBounds(v, x) == \E a, b \in Bounds(v) : a <= x /\ x <= b

\* The dynamic range of a variable and the values that are drawn and left to
\* others stay between the values that the program may name for it, with ends
\* from different results, set at any time and even crosswise - as long as no
\* process read an end of it whose tID was stored and whose value was not.
RangesKept ==
    \A v \in Var \ torn :
        /\ \A x \in {pins.lo[v], pins.hi[v]} : x # Unset => InBounds(v, x)
        /\ \A c \in Pid : v \in DOMAIN drawn[c] => InBounds(v, drawn[c][v])

Fixed == {v \in Var \ touched : asked[v].x # Unset}

\* Once a callback has set both ends of a variable to a value, the processes
\* forked later draw that value, as long as no callback sets another one.
\* This leaves out dpuSetParm2Result with parmNum = 0.
PinsHold ==
    \A c \in Pid : \A v \in DOMAIN drawn[c] \cap Fixed :
        ~ asked[v].whole => drawn[c][v] = asked[v].x

\* The same with parmNum = 0, "the whole parm", included.
AllPinsHold == \A c \in Pid : \A v \in DOMAIN drawn[c] \cap Fixed : drawn[c][v] = asked[v].x
=============================================================================
