--------------------------- MODULE CrossValProofs ---------------------------
(***************************************************************************)
(* The samples of a region with cross-validation, for any number of folds, *)
(* samples, lines and variables: the processes of a sample compute with    *)
(* the same values, samples and results are counted right, the caches are  *)
(* fresh, and a variable that is set to a value has it.                    *)
(***************************************************************************)
EXTENDS CrossVal, FiniteSetTheorems, TLAPS

Value == Nat \cup {Unset}
Table == [1..call.draws -> Value]

-----------------------------------------------------------------------------
\* A dpuSetParm call is one of the callback, and sets variables there are.
StoreTyped ==
    /\ store \in [end : {"none", "lo", "hi"}, left : SUBSET Var, vals : {<<>>} \cup Table,
                  at : Var \cup {Unset}]
    /\ store.at \in store.left \cup {Unset}
    /\ store.left \subseteq DOMAIN store.vals
    /\ store # NoStore => ppc = "callback" /\ store.left # {}
    /\ store.end = "none" => store = NoStore

\* The inductive invariant: first the types of what the other parts speak of ...
Typed ==
    /\ call \in Calls /\ ppc \in {"batch", "fork", "wait", "callback", "done"}
    /\ todo \in Nat /\ forks \in Nat /\ active \in Int /\ tail \in Nat
    /\ pins \in [lo : [Var -> Value], hi : [Var -> Value]]
    /\ StoreTyped
    /\ rem \in [Slot -> Int] /\ tab \in [Slot -> Table]
    /\ DOMAIN error = Slot
    /\ \A s \in Slot : DOMAIN error[s] = {"count", "over"} /\ error[s].over \in Nat \ {0}
    /\ cpc \in [Pid -> {"none", "lo", "hi", "aggregate", "last", "exited"}]
    /\ slot \in [Pid -> Slot \cup {None}]
    /\ lo \in [Pid -> Value] /\ drawn \in [Pid -> Seq(Nat)]
    /\ status \in [Pid -> {None, 0, 1, 3}]
    /\ DOMAIN parm = Pid /\ DOMAIN bin = Pid

\* ... then what a process is doing, in the slots this batch has begun, ...
Begun(s) == s * K < forks

Status(c) ==
    /\ cpc[c] = "none" => slot[c] = None /\ drawn[c] = <<>>
    /\ cpc[c] # "none" => slot[c] \in Slot /\ Begun(slot[c])
    /\ cpc[c] = "hi" => lo[c] \in Nat
    /\ cpc[c] \in {"lo", "hi"} => Len(drawn[c]) < call.draws
    /\ cpc[c] \in {"aggregate", "last"} => Len(drawn[c]) = call.draws
    /\ cpc[c] # "exited" => status[c] = None
    /\ status[c] = 0 => parm[c] = drawn[c] /\ parm[c] \in Table /\ bin[c] # NoBin
    /\ cpc[c] # "none" /\ status[c] # 0 => bin[c] = NoBin

Statuses == \A c \in Pid : Status(c)

\* Its values are those of its slot, ...
Agree ==
    \A c \in Pid :
        /\ Len(drawn[c]) <= call.draws
        /\ \A v \in 1..Len(drawn[c]) : drawn[c][v] = tab[slot[c]][v]

\* ... a batch begins when all are reaped and is forked in whole samples, ...
Phases ==
    /\ ppc \in {"batch", "done"} => \A c \in Pid : cpc[c] = "none"
    /\ ppc = "fork" => /\ Cardinality({c \in Pid : cpc[c] # "none"}) <= forks
                       /\ forks <= K * Batch
    /\ ppc # "fork" => forks % K = 0
    /\ forks <= K * call.sub

\* ... what the table holds and who is in it, ...
Taken == 0..(tail - 1) \cup IF ppc = "callback" THEN {tail} ELSE {}

Tabled ==
    /\ tail + todo = call.snum
    /\ ppc = "callback" => todo > 0
    /\ DOMAIN result = 0..call.snum
    /\ \A r \in 0..call.snum :
          /\ DOMAIN result[r] = {"pid", "parm", "bin"}
          /\ r \notin Taken => result[r].parm = <<>> /\ result[r].bin = NoBin
    /\ \A r \in Taken :
          /\ result[r].pid \in Pid
          /\ cpc[result[r].pid] = "none"
          /\ parm[result[r].pid] \in Table
          /\ bin[result[r].pid] # NoBin
          /\ result[r].parm \in {<<>>, parm[result[r].pid]}
          /\ result[r].bin \in {NoBin, bin[result[r].pid]}
    /\ \A r, q \in Taken : result[r].pid = result[q].pid => r = q
    /\ \A c \in Pid : cpc[c] = "none" /\ bin[c] # NoBin => \E r \in Taken : result[r].pid = c

\* ... the samples of this batch that may still deliver a result or be counted
\* by syActiveChildNum, ...
Coming(s) == ppc = "fork" /\ s < Batch /\ ~ Begun(s)
Unfinished(s) == Coming(s) \/ (Begun(s) /\ rem[s] > 0)
Open == {s \in Slot : Unfinished(s) \/ \E c \in Delivered : slot[c] = s}
Counted == {s \in Slot : Unfinished(s) \/ \E c \in In({"last"}) : slot[c] = s}

Samples ==
    /\ \A c \in Delivered : rem[slot[c]] <= 0
    /\ \A c, d \in Delivered : slot[c] = slot[d] => c = d
    /\ ppc \in {"fork", "wait"} => Cardinality(Open) <= todo
    /\ ppc = "callback" => Cardinality(Open) < todo
    /\ active = Cardinality(Counted)

\* ... and the ranges the program has asked for.
Sure(v) == asked[v].x # Unset /\ ~ asked[v].whole

\* What the processes of this batch have and get for a variable.
Honoured(v) ==
    /\ \A c \in Pid : /\ v \in DOMAIN drawn[c] => drawn[c][v] = asked[v].x
                      /\ cpc[c] = "hi" /\ v = Len(drawn[c]) + 1 => lo[c] = asked[v].x
    /\ v <= call.draws => \A s \in Slot : Begun(s) => tab[s][v] \in {Unset, asked[v].x}

\* What the program has asked for is there, or is being stored.
Asked ==
    /\ asked \in [Var -> [x : Value, whole : BOOLEAN]] /\ half.named \subseteq Var
    /\ \A v \in half.named : v \in store.left \/ pins.lo[v] = half.vals[v]
    /\ \A v \in half.named \cap store.left : store.end = "lo" /\ store.vals[v] = half.vals[v]
    /\ \A v \in Var : Sure(v) => pins.lo[v] = asked[v].x
    /\ \A v \in Var : Sure(v) => v \in store.left \/ pins.hi[v] = asked[v].x
    /\ \A v \in store.left : Sure(v) => store.end = "hi" /\ store.vals[v] = asked[v].x
    /\ store.left \subseteq touched

Pinned == Asked /\ \A v \in Var \ touched : Sure(v) => Honoured(v)

\* The processes of a slot have different folds.
Folds ==
    /\ fold \in [Pid -> (-1)..(K - 1)]
    /\ \A c \in Pid : cpc[c] # "none" => fold[c] \in 0..(K - 1) /\ (slot[c] * K) + fold[c] < forks
    /\ \A c, d \in Pid : cpc[c] # "none" /\ slot[c] = slot[d] /\ fold[c] = fold[d] => c = d

\* The error of a slot is the sum over some folds V: those of the processes that
\* have added theirs, the collected ones among them, and no others.
Validated(c) == cpc[c] = "last" \/ status[c] \in {0, 3}

Adds(s, V) ==
    /\ Cardinality(V) + rem[s] = K
    /\ error[s].count = [l \in Line |-> IF \E f \in V : l \in Validates(f) THEN 1 ELSE 0]
    /\ \A f \in V : (s * K) + f < forks
    /\ \A c \in Pid : slot[c] = s => (fold[c] \in V <=> Validated(c))

Exact == [count |-> [l \in Line |-> 1], over |-> K]

Errors ==
    /\ rem \in [Slot -> 0..K] /\ \A s \in Slot : error[s].over \in {1, K}
    /\ \A s \in Slot : Begun(s) => \E V \in SUBSET (0..(K - 1)) : Adds(s, V)
    /\ \A s \in Slot : Begun(s) /\ (rem[s] > 0 \/ \E c \in In({"last"}) : slot[c] = s)
                           => error[s].over = 1
    /\ \A c \in Pid : bin[c] # NoBin => bin[c] = Exact

\* The values of a variable stay within its bounds, wherever they are, if no
\* end of it was read while it was half stored.
Within(v, x) == x = Unset \/ InBounds(v, x)

InRange(v) ==
    /\ Within(v, pins.lo[v]) /\ Within(v, pins.hi[v])
    /\ v \in store.left => Within(v, store.vals[v])
    /\ v <= call.draws => \A s \in Slot : Within(v, tab[s][v])
    /\ \A c \in Pid : v \in DOMAIN parm[c] => Within(v, parm[c][v])
    /\ \A c \in Pid : cpc[c] = "hi" /\ v = Len(drawn[c]) + 1 => InBounds(v, lo[c])

Ranges == \A v \in Var \ torn : InRange(v)

Bounded ==
    /\ pinned \in 0..MaxPins
    /\ \A r \in 0..call.snum : result[r].pid \in Pid \cup {None}

IInv == /\ Typed /\ Statuses /\ Agree /\ Phases /\ Tabled /\ Samples /\ Pinned
        /\ Folds /\ Errors /\ Ranges /\ Bounded

-----------------------------------------------------------------------------
\* The numbers a region is called with.
LEMMA CallFacts ==
    ASSUME call \in Calls
    PROVE  /\ K \in Nat /\ K > 0 /\ call.snum \in Nat /\ call.snum > 0
           /\ call.sub \in Nat /\ call.sub > 0 /\ call.lines \in Nat
           /\ VarNum \in Nat /\ call.draws \in Nat /\ call.draws > 0 /\ call.draws <= VarNum
           /\ PidNum \in Nat /\ PidNum >= K * call.sub + call.snum /\ K * call.sub \in Nat
BY CallAssumption, RangeAssumption DEF K, Var

LEMMA Quotient ==
    \A k \in Nat : k > 0 => \A n \in Nat :
        /\ n \div k \in Nat /\ n % k \in Nat /\ n % k < k
        /\ n = ((n \div k) * k) + (n % k)
OBVIOUS

LEMMA Monotone == \A k, s, t \in Nat : s < t => s * k + k <= t * k
OBVIOUS

\* The slots that are begun before and after a fork.
LEMMA NextFork ==
    ASSUME NEW k \in Nat, k > 0, NEW n \in Nat, NEW b \in Nat, n < k * b
    PROVE  /\ n \div k \in Nat /\ n \div k < b
           /\ \A t \in Nat : t * k < n + 1 <=> t * k < n \/ t = n \div k
           /\ n % k = 0 <=> ~ ((n \div k) * k < n)
           /\ n + 1 <= k * b
<1> DEFINE q == n \div k
           r == n % k
<1>1. q \in Nat /\ r \in Nat /\ r < k /\ n = q * k + r
    BY Quotient
<1>2. \A t \in Nat : t * k \in Nat
    OBVIOUS
<1>3. k * b = b * k
    OBVIOUS
<1> HIDE DEF q, r
<1>4. q < b
    <2> SUFFICES ASSUME ~ (q < b) PROVE FALSE
        OBVIOUS
    <2>1. b * k <= q * k
        <3>1. b < q \/ b = q
            BY <1>1
        <3> QED BY <3>1, <1>1, <1>2, Monotone
    <2> QED BY <2>1, <1>1, <1>2, <1>3
<1>5. ASSUME NEW t \in Nat PROVE t * k < n + 1 <=> t * k < n \/ t = q
    <2>1. t < q => t * k + k <= q * k
        BY <1>1, Monotone
    <2>2. q < t => q * k + k <= t * k
        BY <1>1, Monotone
    <2>3. t < q \/ q < t \/ t = q
        BY <1>1
    <2>4. t * k \in Nat /\ q * k \in Nat
        BY <1>1, <1>2
    <2> QED BY <2>1, <2>2, <2>3, <2>4, <1>1
<1>6. r = 0 <=> ~ (q * k < n)
    BY <1>1, <1>2
<1>7. n + 1 <= k * b
    BY <1>2, <1>3
<1> QED BY <1>1, <1>4, <1>5, <1>6, <1>7 DEF q, r

LEMMA Least ==
    ASSUME NEW T, T \subseteq Nat, T # {}
    PROVE  \E x \in T : \A y \in T : x <= y
<1>1. PICK x \in T : \A y \in T : ~ (<<y, x>> \in OpToRel(<, Nat))
    BY NatLessThanWellFounded, WFMin
<1>2. \A y \in T : ~ (y < x)
    BY <1>1 DEF OpToRel
<1> QED BY <1>2

LEMMA PidsFinite ==
    ASSUME call \in Calls
    PROVE  /\ Pid \subseteq Nat /\ IsFiniteSet(Pid) /\ Cardinality(Pid) = PidNum
           /\ Slot \subseteq Nat /\ IsFiniteSet(Slot)
<1>1. 0 \in Int /\ 1 \in Int /\ PidNum \in Int /\ call.sub - 1 \in Int /\ PidNum \in Nat
    BY CallFacts
<1>2. IsFiniteSet(1..PidNum) /\ Cardinality(1..PidNum) = (IF 1 > PidNum THEN 0 ELSE PidNum - 1 + 1)
    BY <1>1, FS_Interval
<1>3. Cardinality(1..PidNum) = PidNum
    BY <1>1, <1>2
<1>4. IsFiniteSet(0..(call.sub - 1))
    BY <1>1, FS_Interval
<1> QED BY <1>1, <1>2, <1>3, <1>4 DEF Pid, Slot

LEMMA Counting ==
    ASSUME NEW S, IsFiniteSet(S), NEW c
    PROVE  /\ Cardinality(S) \in Nat
           /\ c \in S => Cardinality(S) > 0
           /\ c \in S => Cardinality(S \ {c}) = Cardinality(S) - 1
           /\ c \notin S => Cardinality(S \cup {c}) = Cardinality(S) + 1
           /\ c \in S => S \cup {c} = S
           /\ c \notin S => S \ {c} = S
<1>1. Cardinality(S) \in Nat /\ (Cardinality(S) = 0 <=> S = {})
    BY FS_CardinalityType, FS_EmptySet
<1> QED BY <1>1, FS_AddElement, FS_RemoveElement

-----------------------------------------------------------------------------
\* There is a pid for the next process: those that are not free are the
\* processes of the batch and the results in the table.
LEMMA PidLeft ==
    ASSUME Typed, Phases, Tabled, ppc = "fork", forks < K * Batch
    PROVE  /\ FreePid \in Pid /\ cpc[FreePid] = "none" /\ bin[FreePid] = NoBin
<1> DEFINE Live == {c \in Pid : cpc[c] # "none"}
           Kept == {c \in Pid : cpc[c] = "none" /\ bin[c] # NoBin}
           Left == {c \in Pid : cpc[c] = "none" /\ bin[c] = NoBin}
<1>1. call \in Calls /\ todo \in Nat /\ forks \in Nat /\ tail \in Nat /\ Taken = 0..(tail - 1)
    BY DEF Typed, Taken
<1>2. IsFiniteSet(Pid) /\ Cardinality(Pid) = PidNum /\ Pid \subseteq Nat
    BY <1>1, PidsFinite
<1>3. IsFiniteSet(Live) /\ IsFiniteSet(Kept)
    BY <1>2, FS_Subset
<1>4. Cardinality(Kept) <= tail
    <2> DEFINE f == [c \in Kept |-> CHOOSE r \in Taken : result[r].pid = c]
    <2>1. \A c \in Kept : f[c] \in Taken /\ result[f[c]].pid = c
        BY DEF Tabled
    <2>2. f \in Injection(Kept, Taken)
        <3>1. f \in [Kept -> Taken]
            BY <2>1
        <3>2. \A a, b \in Kept : f[a] = f[b] => a = b
            BY <2>1
        <3> HIDE DEF f
        <3> QED BY <3>1, <3>2 DEF Injection, IsInjective
    <2>3. IsFiniteSet(Taken) /\ Cardinality(Taken) = tail
        <3>1. 0 \in Int /\ tail - 1 \in Int
            BY <1>1
        <3>2. IsFiniteSet(0..(tail - 1)) /\ Cardinality(0..(tail - 1)) = IF 0 > tail - 1 THEN 0 ELSE tail - 1 - 0 + 1
            BY <3>1, FS_Interval
        <3> QED BY <1>1, <3>2
    <2> HIDE DEF f
    <2> QED BY <2>2, <2>3, FS_Injection
<1>5. Left # {}
    <2> SUFFICES ASSUME Left = {} PROVE FALSE
        OBVIOUS
    <2>1. Pid = Live \cup Kept /\ Live \cap Kept = {}
        OBVIOUS
    <2>2. Cardinality(Pid) = Cardinality(Live) + Cardinality(Kept)
        <3>1. Cardinality({}) = 0 /\ Cardinality(Live) \in Nat /\ Cardinality(Kept) \in Nat
            BY <1>3, FS_EmptySet, FS_CardinalityType
        <3>2. Cardinality(Live \cup Kept) = Cardinality(Live) + Cardinality(Kept) - Cardinality(Live \cap Kept)
            BY <1>3, FS_Union
        <3>3. Cardinality(Live \cap Kept) = 0 /\ Cardinality(Live \cup Kept) = Cardinality(Pid)
            BY <2>1, <3>1
        <3> HIDE DEF Live, Kept
        <3> QED BY <3>1, <3>2, <3>3
    <2>3. Cardinality(Live) <= forks
        BY DEF Phases
    <2>4. forks < K * call.sub
        <3>1. Batch <= call.sub /\ Batch \in Nat /\ K \in Nat /\ call.sub \in Nat
            BY <1>1, CallFacts DEF Batch
        <3>2. K * Batch <= K * call.sub
            <4>1. Batch * K <= call.sub * K
                <5>1. Batch < call.sub \/ Batch = call.sub
                    BY <3>1
                <5> QED BY <3>1, <5>1, Monotone
            <4> QED BY <3>1, <4>1
        <3> QED BY <1>1, <3>1, <3>2
    <2>5. tail <= call.snum
        BY <1>1, CallFacts DEF Tabled
    <2>6. PidNum >= K * call.sub + call.snum /\ K * call.sub \in Nat /\ call.snum \in Nat /\ PidNum \in Nat
        BY <1>1, CallFacts
    <2>7. Cardinality(Live) \in Nat /\ Cardinality(Kept) \in Nat
        BY <1>3, FS_CardinalityType
    <2> HIDE DEF Live, Kept
    <2> QED BY <1>1, <1>2, <1>4, <2>2, <2>3, <2>4, <2>5, <2>6, <2>7
<1>6. PICK c \in Left : \A d \in Left : c <= d
    <2>1. Left \subseteq Nat
        BY <1>2
    <2> HIDE DEF Left
    <2> QED BY <1>5, <2>1, Least
<1>7. c \in Pid /\ cpc[c] = "none" /\ bin[c] = NoBin
    OBVIOUS
<1>8. ASSUME NEW d \in 1..(c - 1) PROVE cpc[d] # "none" \/ bin[d] # NoBin
    <2>1. c \in Nat /\ PidNum \in Nat /\ c <= PidNum
        BY <1>1, <1>7, CallFacts DEF Pid
    <2>2. d \in Pid /\ d < c /\ d \in Nat
        BY <2>1 DEF Pid
    <2> QED BY <1>6, <2>1, <2>2
<1> QED BY <1>7, <1>8 DEF FreePid

-----------------------------------------------------------------------------
LEMMA OpenFinite == Typed => IsFiniteSet(Open) /\ IsFiniteSet(Counted)
<1> SUFFICES ASSUME Typed PROVE IsFiniteSet(Open) /\ IsFiniteSet(Counted)
    OBVIOUS
<1>1. IsFiniteSet(Slot)
    BY PidsFinite DEF Typed
<1>2. Open \subseteq Slot /\ Counted \subseteq Slot
    BY DEF Open, Counted
<1> QED BY <1>1, <1>2, FS_Subset

\* Who delivers a result is asked for one.
LEMMA AskedFor ==
    ASSUME Typed, Statuses, Samples, NEW c \in Delivered
    PROVE  /\ c \in Pid /\ slot[c] \in Open
           /\ ppc \in {"fork", "wait"} => todo > 0
<1>1. c \in Pid /\ cpc[c] # "none"
    BY DEF Delivered, Statuses, Status, None
<1>2. slot[c] \in Open
    BY <1>1 DEF Statuses, Status, Open
<1>3. Cardinality(Open) \in Nat /\ Cardinality(Open) > 0
    BY <1>2, OpenFinite, Counting
<1>4. ppc \in {"fork", "wait"} => Cardinality(Open) <= todo
    BY DEF Samples
<1>5. todo \in Nat
    BY DEF Typed
<1> QED BY <1>1, <1>2, <1>3, <1>4, <1>5

\* The region stays the same.
LEMMA RegionKept ==
    ASSUME [Next]_vars
    PROVE  /\ call' = call /\ K' = K /\ Slot' = Slot /\ Line' = Line
           /\ Table' = Table /\ NoTab' = NoTab /\ NoBin' = NoBin
<1>1. call' = call
    <2>1. CASE StartBatch \/ ForkChild \/ BatchForked \/ BatchDone \/ Accept \/ Reject
        BY <2>1 DEF StartBatch, ForkChild, BatchForked, BatchDone, Accept, Reject
    <2>2. ASSUME NEW c \in Pid, ReadLo(c) \/ Draw(c) \/ CheckFail(c) \/ Validate(c) \/ Deliver(c)
          PROVE  call' = call
        BY <2>2 DEF ReadLo, Draw, CheckFail, Validate, Deliver
    <2>3. ASSUME NEW c \in Pid, ReapOther(c) \/ ReapResult(c) PROVE call' = call
        BY <2>3 DEF ReapOther, ReapResult, Reap
    <2>4. CASE Pin
        BY <2>4 DEF Pin, PinLo2Result, PinHi2Result, PinLo, PinHi, LowerEnd, UpperEnd, SetEnd
    <2>s. CASE Storing
        BY <2>s DEF Storing, StoreTID, StoreValue
    <2>5. CASE UNCHANGED vars
        BY <2>5 DEF vars
    <2>6. CASE Next
        <3>1. \/ StartBatch \/ ForkChild \/ BatchForked \/ BatchDone \/ Accept \/ Reject \/ Pin \/ Storing
              \/ \E c \in Pid : ReadLo(c) \/ Draw(c) \/ CheckFail(c) \/ Validate(c) \/ Deliver(c)
              \/ \E c \in Pid : ReapOther(c) \/ ReapResult(c)
            BY <2>6 DEF Next
        <3> QED BY <2>1, <2>2, <2>3, <2>4, <2>s, <3>1
    <2> QED BY <2>5, <2>6
<1> QED BY <1>1 DEF K, Slot, Line, Table, NoTab, NoBin

\* What a callback does, whichever end of whichever ranges it sets.
LEMMA PinFrame ==
    ASSUME Typed, Pin \/ Storing
    PROVE  /\ ppc = "callback" /\ UNCHANGED <<ppc, todo, forks, active, tail, call>>
           /\ UNCHANGED shared /\ UNCHANGED procs /\ UNCHANGED files
<1>1. CASE Pin
    BY <1>1 DEF Pin, PinLo2Result, PinHi2Result, PinLo, PinHi, LowerEnd, UpperEnd, SetEnd
<1>2. CASE Storing
    <2>1. store # NoStore
        <3>1. NoStore.left = {} /\ NoStore.at = Unset
            BY DEF NoStore, Call
        <3> QED BY <1>2, <3>1 DEF Storing, StoreTID, StoreValue
    <2> QED BY <1>2, <2>1 DEF Storing, StoreTID, StoreValue, Typed, StoreTyped
<1> QED BY <1>1, <1>2

LEMMA DecidedFrame ==
    ASSUME Accept \/ Reject
    PROVE  /\ ppc = "callback" /\ ppc' = "wait" /\ UNCHANGED <<forks, active, call, pins, store, asked, touched, torn>>
           /\ UNCHANGED shared /\ UNCHANGED procs
BY DEF Accept, Reject, Decided

-----------------------------------------------------------------------------
\* The tables that a callback reads of a result are there.
LEMMA ResultRead ==
    ASSUME Typed, Tabled, ppc = "callback", NEW r \in 0..tail
    PROVE  /\ r \in Taken /\ result[r].pid \in Pid
           /\ parm[result[r].pid] \in Table
           /\ ReadParm(result[r]).parm = parm[result[r].pid]
<1>1. r \in Taken
    BY DEF Taken, Typed
<1>2. /\ result[r].pid \in Pid /\ parm[result[r].pid] \in Table
      /\ result[r].parm \in {<<>>, parm[result[r].pid]}
    BY <1>1 DEF Tabled
<1>3. r \in 0..call.snum
    BY CallFacts DEF Typed, Tabled
<1>4. DOMAIN result[r] = {"pid", "parm", "bin"}
    BY <1>3 DEF Tabled
<1>5. [result[r] EXCEPT !.parm = parm[result[r].pid]].parm = parm[result[r].pid]
    BY <1>4
<1> QED BY <1>1, <1>2, <1>5 DEF ReadParm

\* What a callback asks for: an end of some ranges, to the values of a result
\* or to others the program has named.
Asks(named, vals) ==
    \/ store' = Lo2Result(named, vals) /\ LowerEnd(named, vals)
    \/ store' = Hi2Result(named, vals) /\ UpperEnd(named, vals)
    \/ named # {} /\ store' = SetLo(named, vals) /\ LowerEnd(named, vals)
    \/ named # {} /\ store' = SetHi(named, vals) /\ UpperEnd(named, vals)

LEMMA BoundsNamed ==
    ASSUME NEW v \in Var, NEW x \in Bounds(v)
    PROVE  x \in Nat /\ InBounds(v, x)
<1>1. x \in Nat
    BY RangeAssumption, CallAssumption DEF Bounds
<1>2. x <= x
    BY <1>1
<1> QED BY <1>1, <1>2 DEF InBounds

LEMMA PinTables ==
    ASSUME Typed, Tabled, Pin
    PROVE  /\ ppc = "callback" /\ store = NoStore /\ pins' = pins /\ torn' = torn
           /\ \E named \in SUBSET (1..call.draws), vals \in Table :
                 /\ Asks(named, vals)
                 /\ \/ \E c \in Pid : vals = parm[c]
                    \/ \A v \in 1..call.draws : vals[v] # Unset => InBounds(v, vals[v])
<1>0. ppc = "callback" /\ store = NoStore /\ pins' = pins /\ torn' = torn
    BY DEF Pin, PinLo2Result, PinHi2Result, PinLo, PinHi, LowerEnd, UpperEnd, SetEnd
<1>1. ASSUME NEW r \in 0..tail, NEW named \in SUBSET (1..call.draws),
             PinLo2Result(r, named) \/ PinHi2Result(r, named)
      PROVE  Asks(named, parm[result[r].pid])
    <2>2. r \in 0..call.snum /\ DOMAIN result = 0..call.snum
        BY CallFacts DEF Typed, Tabled
    <2>3. result' = [result EXCEPT ![r] = ReadParm(@)]
        BY <1>1 DEF PinLo2Result, PinHi2Result
    <2>4. result'[r].parm = parm[result[r].pid]
        BY <1>0, <2>2, <2>3, ResultRead
    <2> QED BY <1>1, <2>4 DEF PinLo2Result, PinHi2Result, Asks
<1>2. ASSUME NEW v \in 1..call.draws, NEW x \in Chosen[v]
      PROVE  Only(v, x) \in Table /\ \A w \in 1..call.draws : Only(v, x)[w] # Unset => InBounds(w, Only(v, x)[w])
    <2>1. v \in Var
        BY CallFacts DEF Typed, Var
    <2>2. x \in Nat /\ InBounds(v, x)
        BY <2>1, BoundsNamed DEF Bounds
    <2>3. Only(v, x) = [w \in 1..call.draws |-> IF w = v THEN x ELSE Unset]
        BY DEF Only, NoTab
    <2> QED BY <2>2, <2>3 DEF Table, Value
<1>3. ASSUME NEW v \in 1..call.draws, NEW x \in Chosen[v], PinLo(v, x) \/ PinHi(v, x)
      PROVE  Asks({v}, Only(v, x))
    BY <1>3 DEF PinLo, PinHi, Asks
<1>4. CASE \E r \in 0..tail, named \in SUBSET (1..call.draws) :
              PinLo2Result(r, named) \/ PinHi2Result(r, named)
    <2>1. PICK r \in 0..tail, named \in SUBSET (1..call.draws) :
              PinLo2Result(r, named) \/ PinHi2Result(r, named)
        BY <1>4
    <2>3. parm[result[r].pid] \in Table /\ result[r].pid \in Pid
        BY <1>0, ResultRead
    <2>4. Asks(named, parm[result[r].pid])
        BY <1>1, <2>1
    <2> QED BY <1>0, <2>3, <2>4
<1>5. CASE \E v \in 1..call.draws : \E x \in Chosen[v] : PinLo(v, x) \/ PinHi(v, x)
    <2>1. PICK v \in 1..call.draws : \E x \in Chosen[v] : PinLo(v, x) \/ PinHi(v, x)
        BY <1>5
    <2>2. PICK x \in Chosen[v] : PinLo(v, x) \/ PinHi(v, x)
        BY <2>1
    <2>3. {v} \in SUBSET (1..call.draws) /\ Asks({v}, Only(v, x))
        BY <1>3, <2>2
    <2> QED BY <1>0, <1>2, <2>3
<1> QED BY <1>4, <1>5 DEF Pin

\* The call that starts sets the variables it is asked to, and no others.
LEMMA Started ==
    ASSUME Typed, NEW named \in SUBSET (1..call.draws), NEW vals \in Table, Asks(named, vals)
    PROVE  /\ store' = Call(store'.end, Affected(named), vals)
           /\ store'.end \in {"lo", "hi"} /\ Affected(named) # {}
           /\ Affected(named) \in SUBSET (1..call.draws) /\ DOMAIN vals = 1..call.draws
           /\ Affected(named) \in SUBSET Var
           /\ \/ LowerEnd(named, vals) /\ store'.end = "lo"
              \/ UpperEnd(named, vals) /\ (named # {} => store'.end = "hi")
<1>1. DOMAIN vals = 1..call.draws /\ 1 \in 1..call.draws /\ 1..call.draws \subseteq Var
    BY CallFacts DEF Table, Typed, Var
<1>2. \A end, left : Call(end, left, vals).end = end
    BY DEF Call
<1>3. Affected(named) = (IF named = {} THEN DOMAIN vals ELSE named)
    BY <1>1 DEF Affected
<1>4. \/ LowerEnd(named, vals) /\ store' = Call("lo", Affected(named), vals)
      \/ UpperEnd(named, vals) /\ store' = Call("hi", Affected(named), vals)
      \/ UpperEnd(named, vals) /\ named = {} /\ store' = Call("lo", Affected(named), vals)
    BY <1>3 DEF Asks, Lo2Result, Hi2Result, SetLo, SetHi
<1> QED BY <1>1, <1>2, <1>3, <1>4

\* What is stored: the tID of a variable, or one value in one of the tables.
StoresOne(v) ==
    /\ v \in store.left /\ store'.left = store.left \ {v}
    /\ store'.left # {} => store'.end = store.end /\ store'.vals = store.vals
    /\ \/ /\ store.end = "lo" /\ pins'.hi = pins.hi
          /\ pins'.lo = [pins.lo EXCEPT ![v] = store.vals[v]]
       \/ /\ store.end = "hi" /\ pins'.lo = pins.lo
          /\ pins'.hi = [pins.hi EXCEPT ![v] = store.vals[v]]

LEMMA StoringFacts ==
    ASSUME Typed, Storing
    PROVE  /\ UNCHANGED <<result, pinned, half, asked, touched, torn, call>>
           /\ pins' \in [lo : [Var -> Value], hi : [Var -> Value]] /\ StoreTyped'
           /\ \/ /\ pins' = pins /\ store'.left = store.left
                 /\ store'.end = store.end /\ store'.vals = store.vals
              \/ \E v \in Var : StoresOne(v)
<1>1. UNCHANGED <<result, pinned, half, asked, touched, torn, call, ppc>>
    BY DEF Storing, StoreTID, StoreValue, history
<1>2. StoreTyped /\ pins \in [lo : [Var -> Value], hi : [Var -> Value]]
    BY DEF Typed
<1>3. /\ store \in [end : {"none", "lo", "hi"}, left : SUBSET Var, vals : {<<>>} \cup Table,
                    at : Var \cup {Unset}]
      /\ store.left \subseteq DOMAIN store.vals /\ ppc = "callback"
      /\ store.left # {} => store.end \in {"lo", "hi"}
    <2>1. NoStore.left = {}
        BY DEF NoStore, Call
    <2> QED BY <1>2, <2>1, PinFrame DEF StoreTyped
<1>4. Table' = Table /\ Unset \notin Var
    BY <1>1 DEF Table, Var, Unset
<1>5. CASE \E v \in Var : StoreTID(v)
    <2>1. PICK v \in Var : StoreTID(v)
        BY <1>5
    <2>2. /\ v \in store.left /\ store' = [store EXCEPT !.at = v] /\ pins' = pins
        BY <2>1 DEF StoreTID
    <2>3. /\ store'.left = store.left /\ store'.end = store.end /\ store'.vals = store.vals /\ store'.at = v
        BY <1>3, <2>2
    <2>4. store' \in [end : {"none", "lo", "hi"}, left : SUBSET Var, vals : {<<>>} \cup Table,
                     at : Var \cup {Unset}]
        BY <1>3, <2>2
    <2>5. StoreTyped'
        BY <1>1, <1>3, <1>4, <2>2, <2>3, <2>4 DEF StoreTyped
    <2> QED BY <1>1, <1>2, <2>2, <2>3, <2>5
<1>6. CASE StoreValue
    <2> DEFINE v == store.at
    <2>1. v # Unset /\ pins' = Stored(pins, store)
        BY <1>6 DEF StoreValue
    <2>2. v \in store.left /\ v \in Var
        BY <1>2, <1>3, <2>1 DEF StoreTyped
    <2>3. v \in DOMAIN store.vals /\ store.vals[v] \in Value
        <3>1. v \in DOMAIN store.vals
            BY <1>3, <2>2
        <3>2. store.vals \in Table
            <4>1. DOMAIN <<>> = {}
                OBVIOUS
            <4> QED BY <1>3, <3>1, <4>1
        <3> HIDE DEF v
        <3> QED BY <3>1, <3>2 DEF Table
    <2>4. /\ store.end = "lo" => pins'.lo = [pins.lo EXCEPT ![v] = store.vals[v]] /\ pins'.hi = pins.hi
          /\ store.end = "hi" => pins'.hi = [pins.hi EXCEPT ![v] = store.vals[v]] /\ pins'.lo = pins.lo
        BY <1>2, <2>1 DEF Stored, Filled
    <2>5. pins' \in [lo : [Var -> Value], hi : [Var -> Value]]
        <3>1. Filled(pins.lo, store) \in [Var -> Value] /\ Filled(pins.hi, store) \in [Var -> Value]
            BY <1>2, <2>2, <2>3 DEF Filled
        <3> QED BY <1>2, <2>1, <3>1 DEF Stored
    <2>6. /\ store'.left = store.left \ {v} /\ StoreTyped'
          /\ store'.left # {} => store'.end = store.end /\ store'.vals = store.vals
        <3>1. CASE store.left = {v}
            <4>1. store' = NoStore
                BY <1>6, <3>1 DEF StoreValue
            <4>2. NoStore = [end |-> "none", left |-> {}, vals |-> <<>>, at |-> Unset]
                BY DEF NoStore, Call
            <4>3. NoStore' = NoStore
                BY DEF NoStore, Call
            <4> HIDE DEF v
            <4> QED BY <1>1, <1>3, <1>4, <3>1, <4>1, <4>2, <4>3 DEF StoreTyped
        <3>2. CASE store.left # {v}
            <4>1. store' = [store EXCEPT !.left = @ \ {store.at}, !.at = Unset]
                BY <1>6, <3>2 DEF StoreValue
            <4>2. /\ store'.left = store.left \ {v} /\ store'.at = Unset
                  /\ store'.end = store.end /\ store'.vals = store.vals
                BY <1>3, <4>1
            <4>3. store' \in [end : {"none", "lo", "hi"}, left : SUBSET Var, vals : {<<>>} \cup Table,
                             at : Var \cup {Unset}]
                BY <1>3, <4>1
            <4>4. store'.left # {} /\ store'.end \in {"lo", "hi"}
                BY <1>3, <2>2, <3>2, <4>2
            <4> HIDE DEF v
            <4> QED BY <1>1, <1>3, <1>4, <4>2, <4>3, <4>4 DEF StoreTyped
        <3> QED BY <3>1, <3>2
    <2>7. StoresOne(v)
        <3>1. store.end \in {"lo", "hi"}
            BY <1>3, <2>2
        <3> HIDE DEF v
        <3> QED BY <2>2, <2>4, <2>6, <3>1 DEF StoresOne
    <2> QED BY <1>1, <2>2, <2>5, <2>6, <2>7
<1> QED BY <1>5, <1>6 DEF Storing

-----------------------------------------------------------------------------
\* What a fork finds.
LEMMA ForkFacts ==
    ASSUME Typed, Phases, Tabled, ForkChild
    PROVE  /\ FreePid \in Pid /\ cpc[FreePid] = "none" /\ bin[FreePid] = NoBin
           /\ forks \div K \in Slot /\ forks \div K < Batch /\ forks + 1 <= K * Batch
           /\ \A t \in Slot : t * K < forks + 1 <=> Begun(t) \/ t = forks \div K
           /\ forks % K = 0 <=> ~ Begun(forks \div K)
<1>1. ppc = "fork" /\ forks < K * Batch
    BY DEF ForkChild
<1>2. K \in Nat /\ K > 0 /\ forks \in Nat /\ Batch \in Nat /\ Batch <= call.sub /\ call.sub \in Nat
    BY CallFacts DEF Typed, Batch
<1>3. /\ forks \div K \in Nat /\ forks \div K < Batch
      /\ \A t \in Nat : t * K < forks + 1 <=> t * K < forks \/ t = forks \div K
      /\ forks % K = 0 <=> ~ ((forks \div K) * K < forks)
      /\ forks + 1 <= K * Batch
    <2> HIDE DEF K, Batch
    <2> QED BY <1>1, <1>2, NextFork
<1>4. Slot \subseteq Nat
    BY PidsFinite DEF Typed
<1>5. forks \div K \in Slot
    BY <1>2, <1>3 DEF Slot
<1> QED BY <1>1, <1>3, <1>4, <1>5, PidLeft DEF Begun

LEMMA ValueRange ==
    ASSUME Typed, NEW v \in Var, NEW x \in Nat, NEW y \in Between(x, Hi(pins, store, v))
    PROVE  y \in Nat /\ Lo(pins, store, v) \in Nat
<1>1. Hi(pins, store, v) \in Nat /\ Lo(pins, store, v) \in Nat
    BY RangeAssumption DEF Typed, Value, Hi, Lo, TornLo, TornHi
<1> QED BY <1>1 DEF Between

LEMMA VariableOf ==
    ASSUME Typed, Statuses, NEW c \in Pid, cpc[c] \in {"lo", "hi"}
    PROVE  Len(drawn[c]) + 1 \in 1..call.draws /\ Len(drawn[c]) + 1 \in Var
<1>1. Len(drawn[c]) \in Nat /\ Len(drawn[c]) < call.draws
    BY DEF Typed, Statuses, Status
<1> QED BY <1>1, CallFacts DEF Typed, Var

\* What Draw draws.
LEMMA DrawFacts ==
    ASSUME Typed, Statuses, NEW c \in Pid, Draw(c)
    PROVE  LET v == Len(drawn[c]) + 1 IN
           /\ v \in 1..call.draws /\ v \in Var /\ slot[c] \in Slot /\ Begun(slot[c])
           /\ \E x \in Nat :
                 /\ tab[slot[c]][v] \in {Unset, x}
                 /\ tab[slot[c]][v] = Unset => x \in Between(lo[c], Hi(pins, store, v))
                 /\ tab' = [tab EXCEPT ![slot[c]][v] = x]
                 /\ drawn' = [drawn EXCEPT ![c] = Append(@, x)]
<1> DEFINE v == Len(drawn[c]) + 1
<1>1. cpc[c] = "hi" /\ lo[c] \in Nat /\ slot[c] \in Slot /\ Begun(slot[c])
    BY DEF Draw, Statuses, Status
<1>2. v \in 1..call.draws /\ v \in Var
    BY <1>1, VariableOf
<1>3. tab[slot[c]][v] \in Value
    <2>1. tab[slot[c]] \in Table
        BY <1>1 DEF Typed
    <2> HIDE DEF v
    <2> QED BY <1>2, <2>1 DEF Table
<1>4. \A x \in Between(lo[c], Hi(pins, store, v)) : x \in Nat
    BY <1>1, <1>2, ValueRange
<1> QED BY <1>1, <1>2, <1>3, <1>4 DEF Draw, Value

\* The call in progress: only a callback starts and ends one.
LEMMA StoreIdle == Typed /\ ppc # "callback" => store = NoStore /\ store.left = {}
BY DEF Typed, StoreTyped, NoStore, Call

LEMMA StoreKept ==
    ASSUME StoreTyped, UNCHANGED <<call, store>>, ppc = "callback" => ppc' = "callback" \/ store = NoStore
    PROVE  StoreTyped'
BY DEF StoreTyped, Table, NoStore, Call

LEMMA StoreTypedStep ==
    ASSUME Typed, Tabled, [Next]_vars
    PROVE  StoreTyped'
<1> USE RegionKept
<1>t. StoreTyped
    BY DEF Typed
<1>1. CASE StartBatch \/ ForkChild \/ BatchForked \/ BatchDone \/ UNCHANGED vars
    <2>1. UNCHANGED store /\ (ppc = "callback" => ppc' = "callback")
        BY <1>1 DEF StartBatch, ForkChild, BatchForked, BatchDone, vars, tuner
    <2> QED BY <1>t, <2>1, StoreKept
<1>2. ASSUME NEW c \in Pid, ReadLo(c) \/ Draw(c) \/ CheckFail(c) \/ Validate(c) \/ Deliver(c)
      PROVE  StoreTyped'
    <2>1. UNCHANGED <<store, ppc>>
        BY <1>2 DEF ReadLo, Draw, CheckFail, Validate, Deliver, tuner
    <2> QED BY <1>t, <2>1, StoreKept
<1>3. ASSUME NEW c \in Pid, ReapOther(c) \/ ReapResult(c) PROVE StoreTyped'
    <2>1. UNCHANGED store /\ ppc = "wait"
        BY <1>3 DEF ReapOther, ReapResult, Reap
    <2> QED BY <1>t, <2>1, StoreKept
<1>4. CASE Accept \/ Reject
    <2>1. UNCHANGED store /\ store = NoStore
        BY <1>4 DEF Accept, Reject, Decided
    <2> QED BY <1>t, <2>1, StoreKept
<1>5. CASE Pin
    <2>1. PICK named \in SUBSET (1..call.draws), vals \in Table : Asks(named, vals)
        BY <1>5, PinTables
    <2>2. /\ store' = Call(store'.end, Affected(named), vals) /\ store'.end \in {"lo", "hi"}
          /\ Affected(named) \in SUBSET Var /\ Affected(named) # {}
          /\ Affected(named) \in SUBSET (1..call.draws) /\ DOMAIN vals = 1..call.draws
        BY <2>1, Started
    <2>3. ppc' = "callback"
        BY <1>5, PinFrame
    <2>4. store' = [end |-> store'.end, left |-> Affected(named), vals |-> vals, at |-> Unset]
        BY <2>2 DEF Call
    <2>5. store'.left = Affected(named) /\ store'.vals = vals /\ store'.at = Unset
        BY <2>4
    <2>6. Table' = Table
        BY DEF Table
    <2>7. store' \in [end : {"none", "lo", "hi"}, left : SUBSET Var, vals : {<<>>} \cup Table',
                     at : Var \cup {Unset}]
        BY <2>2, <2>4, <2>6
    <2> QED BY <2>2, <2>3, <2>5, <2>7 DEF StoreTyped
<1>6. CASE Storing
    BY <1>6, StoringFacts
<1> QED BY <1>1, <1>2, <1>3, <1>4, <1>5, <1>6 DEF Next

LEMMA TypedStep ==
    ASSUME Typed, Statuses, Phases, Tabled, Samples, [Next]_vars
    PROVE  Typed'
<1> USE RegionKept
<1>s. StoreTyped'
    BY StoreTypedStep
<1> USE <1>s
<1>1. CASE StartBatch
    <2>1. Batch \in Nat
        BY CallFacts DEF Typed, Batch
    <2> QED BY <1>1, <2>1 DEF StartBatch, Typed, shared, procs, files
<1>2. CASE ForkChild
    <2>1. K \in Nat /\ NoTab \in Table /\ forks + 1 \in Nat
        BY CallFacts DEF Typed, NoTab, Table, Value
    <2>2. DOMAIN NoError = {"count", "over"} /\ NoError.over \in Nat \ {0}
        BY DEF NoError
    <2>3. FreePid \in Pid /\ forks \div K \in Slot
        BY <1>2, ForkFacts
    <2>4. /\ rem' \in [Slot -> Int] /\ tab' \in [Slot -> Table] /\ DOMAIN error' = Slot
          /\ \A s \in Slot : DOMAIN error'[s] = {"count", "over"} /\ error'[s].over \in Nat \ {0}
        <3> DEFINE s == forks \div K
        <3>1. CASE /\ rem' = [rem EXCEPT ![s] = K]
                   /\ error' = [error EXCEPT ![s] = NoError]
                   /\ tab' = [tab EXCEPT ![s] = NoTab]
            <4>1. s \in Slot
                BY <2>3
            <4> HIDE DEF s
            <4>2. rem' \in [Slot -> Int] /\ tab' \in [Slot -> Table]
                BY <2>1, <3>1, <4>1 DEF Typed
            <4> QED BY <2>2, <3>1, <4>1, <4>2 DEF Typed
        <3>2. CASE UNCHANGED shared
            BY <3>2 DEF Typed, shared
        <3> QED BY <1>2, <3>1, <3>2 DEF ForkChild
    <2>6. /\ cpc' \in [Pid -> {"none", "lo", "hi", "aggregate", "last", "exited"}]
          /\ slot' \in [Pid -> Slot \cup {None}]
        BY <1>2, <2>3 DEF ForkChild, Typed
    <2> QED BY <1>2, <2>1, <2>4, <2>6 DEF ForkChild, Typed, files
<1>3. CASE BatchForked \/ BatchDone
    BY <1>3 DEF BatchForked, BatchDone, Typed, shared, procs, files
<1>4. ASSUME NEW c \in Pid, ReadLo(c) PROVE Typed'
    <2>1. Len(drawn[c]) + 1 \in Var
        BY <1>4, VariableOf DEF ReadLo
    <2>2. Lo(pins, store, Len(drawn[c]) + 1) \in Value
        BY <2>1, RangeAssumption DEF Lo, TornLo, Typed, Value
    <2> QED BY <1>4, <2>2 DEF ReadLo, Typed, tuner, shared, files
<1>5. ASSUME NEW c \in Pid, Draw(c) PROVE Typed'
    <2> DEFINE v == Len(drawn[c]) + 1
    <2>1. v \in 1..call.draws /\ slot[c] \in Slot
        BY <1>5, DrawFacts
    <2>2. PICK x \in Nat : /\ tab' = [tab EXCEPT ![slot[c]][v] = x]
                           /\ drawn' = [drawn EXCEPT ![c] = Append(@, x)]
        BY <1>5, DrawFacts
    <2>3. drawn' \in [Pid -> Seq(Nat)]
        BY <2>2 DEF Typed
    <2>4. tab' \in [Slot -> Table]
        <3> HIDE DEF v
        <3> QED BY <2>1, <2>2 DEF Typed, Table, Value
    <2>5. cpc' \in [Pid -> {"none", "lo", "hi", "aggregate", "last", "exited"}]
        BY <1>5 DEF Draw, Typed
    <2> QED BY <1>5, <2>3, <2>4, <2>5 DEF Draw, Typed, tuner, files
<1>6. ASSUME NEW c \in Pid, CheckFail(c) PROVE Typed'
    BY <1>6 DEF CheckFail, Exits, Typed, tuner, shared, files
<1>7. ASSUME NEW c \in Pid, Validate(c) PROVE Typed'
    <2>1. slot[c] \in Slot
        BY <1>7 DEF Validate, Statuses, Status
    <2>2. /\ DOMAIN error' = Slot
          /\ \A s \in Slot : DOMAIN error'[s] = {"count", "over"} /\ error'[s].over \in Nat \ {0}
        BY <1>7, <2>1 DEF Validate, Typed
    <2>3. rem' \in [Slot -> Int]
        BY <1>7, <2>1 DEF Validate, Typed
    <2>4. /\ cpc' \in [Pid -> {"none", "lo", "hi", "aggregate", "last", "exited"}]
          /\ status' \in [Pid -> {None, 0, 1, 3}]
        BY <1>7 DEF Validate, Exits, Typed
    <2> QED BY <1>7, <2>2, <2>3, <2>4 DEF Validate, Typed, tuner, files
<1>8. ASSUME NEW c \in Pid, Deliver(c) PROVE Typed'
    <2>1. slot[c] \in Slot /\ K \in Nat \ {0}
        <3>1. slot[c] \in Slot
            BY <1>8 DEF Deliver, Statuses, Status
        <3>2. K \in Nat \ {0}
            BY CallFacts DEF Typed
        <3> QED BY <3>1, <3>2
    <2>2. error[slot[c]].over * K \in Nat \ {0}
        <3>1. error[slot[c]].over \in Nat \ {0}
            BY <2>1 DEF Typed
        <3>2. \A m, n \in Nat \ {0} : m * n \in Nat \ {0}
            OBVIOUS
        <3> QED BY <2>1, <3>1, <3>2
    <2>3. /\ DOMAIN error' = Slot
          /\ \A s \in Slot : DOMAIN error'[s] = {"count", "over"} /\ error'[s].over \in Nat \ {0}
        BY <1>8, <2>1, <2>2 DEF Deliver, Typed
    <2> QED BY <1>8, <2>3 DEF Deliver, Exits, Typed
<1>9. ASSUME NEW c \in Pid, ReapOther(c) \/ ReapResult(c) PROVE Typed'
    <2>1. Reap(c) /\ ppc = "wait"
        BY <1>9 DEF ReapOther, ReapResult, Reap
    <2>2. ReapResult(c) => todo > 0
        BY <2>1, AskedFor DEF ReapResult, Delivered
    <2>3. todo' \in Nat /\ tail' \in Nat /\ ppc' \in {"wait", "callback"}
        BY <1>9, <2>1, <2>2 DEF ReapOther, ReapResult, Typed
    <2> QED BY <2>1, <2>3 DEF Reap, Typed, shared, files, Value
<1>10. CASE Accept \/ Reject
    <2>1. ppc = "callback" /\ todo > 0
        BY <1>10, DecidedFrame DEF Tabled
    <2>2. todo' \in Nat /\ tail' \in Nat
        BY <1>10, <2>1 DEF Accept, Reject, Typed
    <2>3. DOMAIN parm' = Pid /\ DOMAIN bin' = Pid
        BY <1>10 DEF Accept, Reject, Typed, files
    <2> QED BY <1>10, <2>2, <2>3, DecidedFrame DEF Typed, shared, procs
<1>11. CASE Pin
    BY <1>11, PinTables, PinFrame DEF Typed, shared, procs, files
<1>13. CASE Storing
    <2>1. pins' \in [lo : [Var -> Value], hi : [Var -> Value]]
        BY <1>13, StoringFacts
    <2> QED BY <1>13, <2>1, PinFrame DEF Typed, shared, procs, files
<1>12. CASE UNCHANGED vars
    BY <1>12 DEF Typed, vars, tuner, shared, procs, files
<1> QED BY <1>1, <1>2, <1>3, <1>4, <1>5, <1>6, <1>7, <1>8, <1>9, <1>10, <1>11, <1>12, <1>13 DEF Next

-----------------------------------------------------------------------------
\* A process with all its variables has the values of its slot.
LEMMA DrawnAll ==
    ASSUME Typed, Statuses, Agree, NEW c \in Pid, cpc[c] \in {"aggregate", "last"}
    PROVE  drawn[c] = tab[slot[c]] /\ drawn[c] \in Table
<1>1. tab[slot[c]] \in Table /\ drawn[c] \in Seq(Nat) /\ Len(drawn[c]) = call.draws
    BY DEF Typed, Statuses, Status
<1>2. DOMAIN drawn[c] = 1..call.draws /\ DOMAIN tab[slot[c]] = 1..call.draws
    BY <1>1 DEF Table
<1>3. \A v \in 1..call.draws : drawn[c][v] = tab[slot[c]][v]
    BY <1>1 DEF Agree
<1>4. drawn[c] = [v \in 1..call.draws |-> drawn[c][v]]
    BY <1>1, <1>2
<1>5. tab[slot[c]] = [v \in 1..call.draws |-> tab[slot[c]][v]]
    BY <1>1, <1>2 DEF Table
<1> QED BY <1>1, <1>3, <1>4, <1>5

\* Begun slots stay begun while somebody is in them.
LEMMA BegunKept ==
    ASSUME Typed, Phases, Tabled, [Next]_vars, ~ StartBatch, NEW s \in Slot, Begun(s)
    PROVE  Begun(s)'
<1>1. s * K < forks /\ s * K \in Nat /\ forks \in Nat
    <2>1. s \in Nat /\ K \in Nat /\ forks \in Nat
        BY CallFacts, PidsFinite DEF Typed
    <2> HIDE DEF K
    <2> QED BY <2>1 DEF Begun
<1>2. forks' \in {forks, forks + 1}
    <2>1. CASE ForkChild \/ BatchForked \/ BatchDone
        BY <2>1 DEF ForkChild, BatchForked, BatchDone
    <2>2. ASSUME NEW c \in Pid, ReadLo(c) \/ Draw(c) \/ CheckFail(c) \/ Validate(c) \/ Deliver(c)
          PROVE  forks' = forks
        BY <2>2 DEF ReadLo, Draw, CheckFail, Validate, Deliver, tuner
    <2>3. ASSUME NEW c \in Pid, ReapOther(c) \/ ReapResult(c) PROVE forks' = forks
        BY <2>3 DEF ReapOther, ReapResult, Reap
    <2>4. CASE Accept \/ Reject \/ Pin \/ Storing
        BY <2>4, DecidedFrame, PinFrame
    <2>5. CASE UNCHANGED vars
        BY <2>5 DEF vars, tuner
    <2> QED BY <2>1, <2>2, <2>3, <2>4, <2>5 DEF Next
<1> QED BY <1>1, <1>2, RegionKept DEF Begun

LEMMA StatusesStep ==
    ASSUME Typed, Statuses, Agree, Phases, Tabled, Samples, [Next]_vars
    PROVE  Statuses'
<1> USE RegionKept
<1>1. CASE StartBatch
    <2>1. \A c \in Pid : cpc[c] = "none"
        BY <1>1 DEF StartBatch, Phases
    <2> QED BY <1>1, <2>1 DEF StartBatch, Statuses, Status, procs, files, None
<1> SUFFICES ASSUME ~ StartBatch PROVE Statuses'
    BY <1>1
<1>b. \A s \in Slot : Begun(s) => Begun(s)'
    BY BegunKept
<1> USE <1>b
<1>2. CASE ForkChild
    <2>1. PICK c \in Pid, s \in Slot :
              /\ c = FreePid /\ s = forks \div K /\ cpc[c] = "none" /\ drawn[c] = <<>>
              /\ status[c] = None /\ bin[c] = NoBin
        BY <1>2, ForkFacts DEF Statuses, Status
    <2>2. Begun(s)'
        <3>1. s * K < forks + 1
            BY <1>2, <2>1, ForkFacts
        <3> QED BY <1>2, <3>1 DEF ForkChild, Begun
    <2>3. /\ cpc' = [cpc EXCEPT ![c] = "lo"] /\ slot' = [slot EXCEPT ![c] = s]
          /\ UNCHANGED <<lo, drawn, status, parm, bin>>
        BY <1>2, <2>1 DEF ForkChild, files
    <2>4. Len(<<>>) < call.draws
        BY CallFacts DEF Typed
    <2>5. ASSUME NEW d \in Pid, d # c PROVE cpc'[d] = cpc[d] /\ slot'[d] = slot[d]
        BY <2>3, <2>5 DEF Typed
    <2>6. cpc'[c] = "lo" /\ slot'[c] = s
        BY <2>1, <2>3 DEF Typed
    <2>7. /\ status'[c] = None /\ drawn'[c] = <<>> /\ bin'[c] = NoBin
          /\ slot'[c] \in Slot' /\ Begun(slot[c])'
        <3>1. Begun(slot[c])' <=> Begun(s)'
            BY <2>6 DEF Begun
        <3> QED BY <2>1, <2>2, <2>3, <2>6, <3>1
    <2> SUFFICES ASSUME NEW d \in Pid PROVE Status(d)'
        BY DEF Statuses
    <2>8. CASE d = c
        BY <2>4, <2>6, <2>7, <2>8 DEF Status, None
    <2>9. CASE d # c
        <3>1. Status(d)
            BY DEF Statuses
        <3>2. slot[d] \in Slot /\ Begun(slot[d]) => Begun(slot[d])'
            BY <2>5, <2>9 DEF Begun
        <3> QED BY <2>3, <2>5, <2>9, <3>1, <3>2 DEF Status
    <2> QED BY <2>8, <2>9
<1>3. CASE BatchForked \/ BatchDone \/ Pin \/ Storing \/ Accept \/ UNCHANGED vars
    <2>1. UNCHANGED procs /\ UNCHANGED files
        BY <1>3, PinFrame DEF BatchForked, BatchDone, Accept, vars
    <2> QED BY <2>1 DEF Statuses, Status, procs, files
<1>4. ASSUME NEW c \in Pid, ReadLo(c) PROVE Statuses'
    <2>1. Len(drawn[c]) + 1 \in Var
        BY <1>4, VariableOf DEF ReadLo
    <2>2. Lo(pins, store, Len(drawn[c]) + 1) \in Nat
        BY <2>1, RangeAssumption DEF Lo, TornLo, Typed, Value
    <2>3. ASSUME NEW d \in Pid, d # c PROVE cpc'[d] = cpc[d] /\ lo'[d] = lo[d]
        BY <1>4, <2>3 DEF ReadLo, Typed
    <2>4. cpc'[c] = "hi" /\ lo'[c] \in Nat /\ cpc[c] = "lo"
        BY <1>4, <2>2 DEF ReadLo, Typed
    <2>5. UNCHANGED <<slot, drawn, status, parm, bin>>
        BY <1>4 DEF ReadLo, files
    <2> QED BY <2>3, <2>4, <2>5 DEF Statuses, Status, None
<1>5. ASSUME NEW c \in Pid, Draw(c) PROVE Statuses'
    <2> DEFINE v == Len(drawn[c]) + 1
    <2>1. v \in 1..call.draws /\ slot[c] \in Slot /\ cpc[c] = "hi" /\ Len(drawn[c]) \in Nat
        <3>1. v \in 1..call.draws /\ slot[c] \in Slot
            BY <1>5, DrawFacts
        <3> QED BY <1>5, <3>1 DEF Draw, Typed
    <2>2. PICK x \in Nat : drawn' = [drawn EXCEPT ![c] = Append(@, x)]
        BY <1>5, DrawFacts
    <2>3. Len(drawn'[c]) = v
        BY <2>2 DEF Typed
    <2>4. cpc'[c] = IF v = call.draws THEN "aggregate" ELSE "lo"
        BY <1>5 DEF Draw, Typed
    <2>5. ASSUME NEW d \in Pid, d # c PROVE cpc'[d] = cpc[d] /\ drawn'[d] = drawn[d]
        BY <1>5, <2>2, <2>5 DEF Draw, Typed
    <2>6. UNCHANGED <<slot, lo, status, parm, bin>>
        BY <1>5 DEF Draw, files
    <2>7. v < call.draws \/ v = call.draws
        BY <2>1, CallFacts DEF Typed
    <2> HIDE DEF v
    <2> QED BY <2>1, <2>3, <2>4, <2>5, <2>6, <2>7 DEF Statuses, Status, None
<1>6. ASSUME NEW c \in Pid, CheckFail(c) PROVE Statuses'
    <2>1. cpc'[c] = "exited" /\ status'[c] = 1 /\ cpc[c] \in {"lo", "aggregate"}
        BY <1>6 DEF CheckFail, Exits, Typed
    <2>2. ASSUME NEW d \in Pid, d # c PROVE cpc'[d] = cpc[d] /\ status'[d] = status[d]
        BY <1>6, <2>2 DEF CheckFail, Exits, Typed
    <2>3. UNCHANGED <<slot, lo, drawn, parm, bin>>
        BY <1>6 DEF CheckFail, files
    <2> QED BY <2>1, <2>2, <2>3 DEF Statuses, Status, None
<1>7. ASSUME NEW c \in Pid, Validate(c) PROVE Statuses'
    <2>1. /\ cpc[c] = "aggregate"
          /\ \/ cpc'[c] = "last" /\ status'[c] = status[c]
             \/ cpc'[c] = "exited" /\ status'[c] = 3
        BY <1>7 DEF Validate, Exits, Typed
    <2>2. ASSUME NEW d \in Pid, d # c PROVE cpc'[d] = cpc[d] /\ status'[d] = status[d]
        BY <1>7, <2>2 DEF Validate, Exits, Typed
    <2>3. UNCHANGED <<slot, lo, drawn, parm, bin>>
        BY <1>7 DEF Validate, files
    <2> QED BY <2>1, <2>2, <2>3 DEF Statuses, Status, None
<1>8. ASSUME NEW c \in Pid, Deliver(c) PROVE Statuses'
    <2>1. cpc'[c] = "exited" /\ status'[c] = 0 /\ cpc[c] = "last" /\ slot[c] \in Slot
        BY <1>8 DEF Deliver, Exits, Typed, Statuses, Status
    <2>2. parm'[c] = drawn[c] /\ parm'[c] \in Table
        BY <1>8, <2>1, DrawnAll DEF Deliver, Typed
    <2>3. bin'[c] # NoBin
        <3>1. Typed'
            BY TypedStep
        <3>2. bin'[c] = error'[slot[c]]
            BY <1>8 DEF Deliver, Typed
        <3>3. error'[slot[c]].over # 0
            BY <2>1, <3>1 DEF Typed
        <3> QED BY <3>2, <3>3 DEF NoBin
    <2>4. ASSUME NEW d \in Pid, d # c
          PROVE  cpc'[d] = cpc[d] /\ status'[d] = status[d] /\ parm'[d] = parm[d] /\ bin'[d] = bin[d]
        BY <1>8, <2>4 DEF Deliver, Exits, Typed
    <2>5. UNCHANGED <<slot, lo, drawn>>
        BY <1>8 DEF Deliver
    <2> QED BY <2>1, <2>2, <2>3, <2>4, <2>5 DEF Statuses, Status
<1>9. ASSUME NEW c \in Pid, ReapOther(c) \/ ReapResult(c) PROVE Statuses'
    <2>1. /\ cpc'[c] = "none" /\ slot'[c] = None /\ drawn'[c] = <<>> /\ status'[c] = None
          /\ UNCHANGED <<parm, bin>>
        BY <1>9 DEF ReapOther, ReapResult, Reap, Typed, files
    <2>2. ASSUME NEW d \in Pid, d # c
          PROVE  /\ cpc'[d] = cpc[d] /\ slot'[d] = slot[d] /\ lo'[d] = lo[d]
                 /\ drawn'[d] = drawn[d] /\ status'[d] = status[d]
        BY <1>9, <2>2 DEF ReapOther, ReapResult, Reap, Typed
    <2> QED BY <2>1, <2>2 DEF Statuses, Status, None
<1>10. CASE Reject
    <2>1. ppc = "callback" /\ UNCHANGED procs
        BY <1>10, DecidedFrame
    <2>2. cpc[result[tail].pid] = "none"
        BY <2>1 DEF Tabled, Taken
    <2>3. ASSUME NEW c \in Pid, status[c] = 0 PROVE parm'[c] = parm[c] /\ bin'[c] = bin[c]
        <3>1. c # result[tail].pid
            BY <2>2, <2>3 DEF Statuses, Status, None
        <3> QED BY <1>10, <3>1 DEF Reject, Typed
    <2>4. \A c \in Pid : bin[c] = NoBin => bin'[c] = NoBin
        BY <1>10 DEF Reject, Typed
    <2> QED BY <2>1, <2>3, <2>4 DEF Statuses, Status, procs
<1> QED BY <1>2, <1>3, <1>4, <1>5, <1>6, <1>7, <1>8, <1>9, <1>10 DEF Next

-----------------------------------------------------------------------------
LEMMA AgreeStep ==
    ASSUME Typed, Statuses, Agree, Phases, Tabled, [Next]_vars
    PROVE  Agree'
<1> USE RegionKept
<1>0. ASSUME UNCHANGED <<drawn, slot, tab>> PROVE Agree'
    BY <1>0 DEF Agree
<1>1. CASE StartBatch \/ BatchForked \/ BatchDone \/ Accept \/ Reject \/ Pin \/ Storing \/ UNCHANGED vars
    <2>1. UNCHANGED procs /\ UNCHANGED shared
        BY <1>1, PinFrame, DecidedFrame DEF StartBatch, BatchForked, BatchDone, vars
    <2> QED BY <1>0, <2>1 DEF procs, shared
<1>2. CASE ForkChild
    <2>1. PICK c \in Pid, s \in Slot :
              c = FreePid /\ s = forks \div K /\ cpc[c] = "none" /\ drawn[c] = <<>>
        BY <1>2, ForkFacts DEF Statuses, Status
    <2>2. /\ slot' = [slot EXCEPT ![c] = s] /\ drawn' = drawn
          /\ tab' = tab \/ (forks % K = 0 /\ tab' = [tab EXCEPT ![s] = NoTab])
        BY <1>2, <2>1 DEF ForkChild, shared
    <2>3. tab' # tab => ~ Begun(s)
        BY <1>2, <2>1, <2>2, ForkFacts
    <2>4. ASSUME NEW d \in Pid, NEW v \in 1..Len(drawn[d])
          PROVE  slot'[d] = slot[d] /\ tab'[slot[d]] = tab[slot[d]]
        <3>1. Len(<<>>) = 0 /\ drawn[d] # <<>>
            BY <2>4
        <3>2. d # c /\ cpc[d] # "none"
            BY <2>1, <3>1 DEF Statuses, Status
        <3>3. slot[d] \in Slot /\ Begun(slot[d])
            BY <3>2 DEF Statuses, Status
        <3>4. tab'[slot[d]] = tab[slot[d]]
            BY <2>2, <2>3, <3>3 DEF Typed
        <3> QED BY <2>2, <3>2, <3>4 DEF Typed
    <2> QED BY <2>2, <2>4 DEF Agree
<1>3. ASSUME NEW c \in Pid, ReadLo(c) \/ CheckFail(c) \/ Validate(c) \/ Deliver(c) PROVE Agree'
    BY <1>0, <1>3 DEF ReadLo, CheckFail, Validate, Deliver, shared
<1>4. ASSUME NEW c \in Pid, Draw(c) PROVE Agree'
    <2>1. PICK v \in 1..call.draws : v = Len(drawn[c]) + 1
        BY <1>4, DrawFacts
    <2>2. slot[c] \in Slot
        BY <1>4, DrawFacts
    <2>3. PICK x \in Nat : /\ tab[slot[c]][v] \in {Unset, x}
                           /\ tab' = [tab EXCEPT ![slot[c]][v] = x]
                           /\ drawn' = [drawn EXCEPT ![c] = Append(@, x)]
        BY <1>4, <2>1, DrawFacts
    <2>4. slot' = slot
        BY <1>4 DEF Draw
    <2>5. \A s \in Slot : tab[s] \in [1..call.draws -> Value]
        BY DEF Typed, Table
    <2>6. tab'[slot[c]][v] = x
        BY <2>2, <2>3, <2>5 DEF Typed
    <2>7. ASSUME NEW d \in Pid, NEW w \in 1..Len(drawn[d])
          PROVE  tab'[slot[d]][w] = tab[slot[d]][w]
        <3>1. drawn[d] \in Seq(Nat)
            BY DEF Typed
        <3>2. tab[slot[d]][w] = drawn[d][w] /\ drawn[d][w] \in Nat /\ w \in 1..call.draws
            <4>1. Len(drawn[d]) \in Nat /\ Len(drawn[d]) <= call.draws
                BY <3>1 DEF Agree
            <4>2. w \in 1..call.draws /\ w \in 1..Len(drawn[d])
                <5>1. call.draws \in Nat
                    BY CallFacts DEF Typed
                <5> QED BY <2>7, <4>1, <5>1
            <4> QED BY <3>1, <4>2 DEF Agree
        <3>3. slot[d] \in Slot
            <4>1. Len(<<>>) = 0 /\ drawn[d] # <<>>
                BY <2>7
            <4> QED BY <4>1 DEF Statuses, Status
        <3>4. CASE slot[d] = slot[c] /\ w = v
            <4>1. tab[slot[c]][v] = x
                BY <2>3, <3>2, <3>4 DEF Unset
            <4> QED BY <2>6, <3>4, <4>1
        <3>5. CASE ~ (slot[d] = slot[c] /\ w = v)
            BY <2>2, <2>3, <2>5, <3>2, <3>3, <3>5 DEF Typed
        <3> QED BY <3>4, <3>5
    <2>8. ASSUME NEW d \in Pid, d # c PROVE drawn'[d] = drawn[d]
        BY <2>3, <2>8 DEF Typed
    <2>9. Len(drawn'[c]) = v /\ drawn'[c][v] = x /\ \A w \in 1..(v - 1) : drawn'[c][w] = drawn[c][w]
        <3>1. drawn[c] \in Seq(Nat) /\ drawn'[c] = Append(drawn[c], x)
            BY <2>3 DEF Typed
        <3> QED BY <2>1, <3>1
    <2>10. ASSUME NEW w \in 1..Len(drawn'[c]) PROVE drawn'[c][w] = tab'[slot'[c]][w]
        <3>1. CASE w = v
            BY <2>4, <2>6, <2>9, <3>1
        <3>2. CASE w # v
            <4>1. w \in 1..(v - 1) /\ w \in 1..Len(drawn[c])
                BY <2>1, <2>9, <2>10, <3>2 DEF Typed
            <4> QED BY <2>4, <2>7, <2>9, <4>1 DEF Agree
        <3> QED BY <3>1, <3>2
    <2>11. Len(drawn'[c]) <= call.draws
        BY <2>9, CallFacts DEF Typed
    <2>12. ASSUME NEW d \in Pid
           PROVE  /\ Len(drawn'[d]) <= call.draws
                  /\ \A w \in 1..Len(drawn'[d]) : drawn'[d][w] = tab'[slot'[d]][w]
        <3>1. CASE d = c
            BY <2>10, <2>11, <3>1
        <3>2. CASE d # c
            BY <2>4, <2>7, <2>8, <3>2 DEF Agree
        <3> QED BY <3>1, <3>2
    <2> QED BY <2>12 DEF Agree
<1>5. ASSUME NEW c \in Pid, ReapOther(c) \/ ReapResult(c) PROVE Agree'
    <2>1. Len(<<>>) = 0 /\ drawn'[c] = <<>> /\ tab' = tab
        BY <1>5 DEF ReapOther, ReapResult, Reap, Typed, shared
    <2>2. ASSUME NEW d \in Pid, d # c PROVE drawn'[d] = drawn[d] /\ slot'[d] = slot[d]
        BY <1>5, <2>2 DEF ReapOther, ReapResult, Reap, Typed
    <2>3. 0 <= call.draws
        BY CallFacts DEF Typed
    <2> QED BY <2>1, <2>2, <2>3 DEF Agree
<1> QED BY <1>1, <1>2, <1>3, <1>4, <1>5 DEF Next

-----------------------------------------------------------------------------
LEMMA Multiple == \A k, b \in Nat : k > 0 => (k * b) % k = 0
<1> SUFFICES ASSUME NEW k \in Nat, NEW b \in Nat, k > 0 PROVE (k * b) % k = 0
    OBVIOUS
<1> DEFINE n == k * b
           q == n \div k
           r == n % k
<1>1. n \in Nat /\ n = b * k
    OBVIOUS
<1>2. q \in Nat /\ r \in Nat /\ r < k /\ n = q * k + r
    BY <1>1, Quotient
<1>3. b * k \in Nat /\ q * k \in Nat
    BY <1>2
<1> HIDE DEF n, q, r
<1>4. ~ (b < q) /\ ~ (q < b)
    <2>1. b < q => b * k + k <= q * k
        BY <1>2, Monotone
    <2>2. q < b => q * k + k <= b * k
        BY <1>2, Monotone
    <2> QED BY <1>1, <1>2, <1>3, <2>1, <2>2
<1>5. b = q
    BY <1>2, <1>4
<1>6. r = 0
    BY <1>1, <1>2, <1>3, <1>5
<1> QED BY <1>6 DEF n, r

LEMMA PhasesStep ==
    ASSUME Typed, Statuses, Phases, Tabled, [Next]_vars
    PROVE  Phases'
<1> DEFINE Live == {c \in Pid : cpc[c] # "none"}
<1>k. K \in Nat /\ K > 0 /\ forks \in Nat /\ todo \in Nat /\ Batch \in Nat /\ Batch <= call.sub
    BY CallFacts DEF Typed, Batch
<1> USE RegionKept
<1>1. CASE StartBatch
    <2>1. Live' = {} /\ forks' = 0 /\ ppc' = "fork"
        BY <1>1 DEF StartBatch, Phases, procs
    <2>2. Batch' = Batch /\ 0 <= K * Batch /\ 0 <= K * call.sub
        <3>1. K * Batch \in Nat /\ K * call.sub \in Nat
            BY <1>k, CallFacts DEF Typed
        <3> QED BY <1>1, <3>1 DEF StartBatch, Batch
    <2>3. Cardinality(Live') <= 0
        BY <2>1, FS_EmptySet
    <2> QED BY <2>1, <2>2, <2>3 DEF Phases
<1>2. CASE ForkChild
    <2>1. PICK c \in Pid : c = FreePid /\ cpc[c] = "none"
        BY <1>2, ForkFacts
    <2>2. Live' = Live \cup {c} /\ c \notin Live
        BY <1>2, <2>1 DEF ForkChild, Typed
    <2>3. IsFiniteSet(Live)
        BY PidsFinite, FS_Subset DEF Typed
    <2>4. Cardinality(Live') = Cardinality(Live) + 1 /\ Cardinality(Live) \in Nat
        <3> HIDE DEF Live
        <3> QED BY <2>2, <2>3, Counting
    <2>5. Cardinality(Live) <= forks /\ ppc = "fork" /\ ppc' = "fork" /\ forks' = forks + 1 /\ Batch' = Batch
        BY <1>2 DEF Phases, ForkChild, Batch
    <2>6. forks + 1 <= K * Batch /\ forks + 1 <= K * call.sub
        <3>1. forks + 1 <= K * Batch
            BY <1>2, ForkFacts
        <3>2. Batch * K <= call.sub * K
            <4>1. (Batch < call.sub \/ Batch = call.sub) /\ call.sub \in Nat
                BY <1>k, CallFacts DEF Typed
            <4>2. Batch < call.sub => Batch * K + K <= call.sub * K
                BY <1>k, <4>1, Monotone
            <4>3. Batch * K \in Nat
                BY <1>k
            <4> QED BY <1>k, <4>1, <4>2, <4>3
        <3>3. Batch * K = K * Batch /\ call.sub * K = K * call.sub /\ K * Batch \in Nat /\ K * call.sub \in Nat
            BY <1>k, CallFacts DEF Typed
        <3> QED BY <1>k, <3>1, <3>2, <3>3
    <2>7. Cardinality(Live') <= forks'
        <3> HIDE DEF Live
        <3> QED BY <1>k, <2>4, <2>5
    <2> QED BY <2>5, <2>6, <2>7 DEF Phases
<1>3. CASE BatchForked
    <2>1. forks = K * Batch /\ ppc' = "wait" /\ forks' = forks
        BY <1>3 DEF BatchForked
    <2>2. forks % K = 0
        BY <1>k, <2>1, Multiple
    <2> QED BY <2>1, <2>2 DEF Phases
<1>4. CASE BatchDone
    <2>1. \A c \in Pid : cpc[c] = "none"
        BY <1>4 DEF BatchDone, Running, In, Typed
    <2> QED BY <1>4, <2>1 DEF BatchDone, Phases, procs
<1>5. ASSUME NEW c \in Pid, ReadLo(c) \/ Draw(c) \/ CheckFail(c) \/ Validate(c) \/ Deliver(c)
      PROVE  Phases'
    <2>1. UNCHANGED <<ppc, todo, forks>>
        BY <1>5 DEF ReadLo, Draw, CheckFail, Validate, Deliver, tuner
    <2>2. cpc[c] # "none" /\ cpc'[c] # "none"
        BY <1>5 DEF ReadLo, Draw, CheckFail, Validate, Deliver, Exits, Typed
    <2>3. ASSUME NEW d \in Pid, d # c PROVE cpc'[d] = cpc[d]
        BY <1>5, <2>3 DEF ReadLo, Draw, CheckFail, Validate, Deliver, Exits, Typed
    <2>4. Live' = Live
        BY <2>2, <2>3
    <2>5. Batch' = Batch
        BY <2>1 DEF Batch
    <2> QED BY <2>1, <2>2, <2>4, <2>5 DEF Phases
<1>6. ASSUME NEW c \in Pid, ReapOther(c) \/ ReapResult(c) PROVE Phases'
    <2>1. ppc = "wait" /\ ppc' \in {"wait", "callback"} /\ forks' = forks
        BY <1>6 DEF ReapOther, ReapResult, Reap
    <2> QED BY <2>1 DEF Phases
<1>7. CASE Accept \/ Reject \/ Pin \/ Storing
    <2>1. ppc = "callback" /\ ppc' \in {"wait", "callback"} /\ forks' = forks
        BY <1>7, DecidedFrame, PinFrame
    <2> QED BY <2>1 DEF Phases
<1>8. CASE UNCHANGED vars
    BY <1>8 DEF Phases, vars, tuner, procs, Batch
<1> QED BY <1>1, <1>2, <1>3, <1>4, <1>5, <1>6, <1>7, <1>8 DEF Next

-----------------------------------------------------------------------------
\* The pids no process has.
Empty == {c \in Pid : cpc[c] = "none"}

LEMMA TabledFrame ==
    ASSUME Tabled, UNCHANGED <<call, todo, tail, result, parm, bin>>,
           Empty' = Empty, ppc = "callback" <=> ppc' = "callback"
    PROVE  Tabled'
<1>1. Taken' = Taken /\ NoBin' = NoBin /\ Table' = Table
    BY DEF Taken, NoBin, Table
<1>2. \A c \in Pid : cpc'[c] = "none" <=> cpc[c] = "none"
    BY DEF Empty
<1> QED BY <1>1, <1>2 DEF Tabled

LEMMA TabledStep ==
    ASSUME Typed, Statuses, Samples, Phases, Tabled, [Next]_vars
    PROVE  Tabled'
<1> USE RegionKept
<1>s. todo \in Nat /\ tail \in Nat /\ call.snum \in Nat /\ tail + todo = call.snum /\ Taken \subseteq 0..call.snum
    <2>1. todo \in Nat /\ tail \in Nat /\ call.snum \in Nat /\ tail + todo = call.snum
        BY CallFacts DEF Typed, Tabled
    <2>2. ppc = "callback" => todo > 0
        BY DEF Tabled
    <2> QED BY <2>1, <2>2 DEF Taken
<1>1. CASE StartBatch \/ BatchForked \/ BatchDone \/ UNCHANGED vars
    <2>1. /\ UNCHANGED <<call, todo, tail, result, parm, bin, cpc>>
          /\ ppc = "callback" <=> ppc' = "callback"
        BY <1>1 DEF StartBatch, BatchForked, BatchDone, vars, tuner, procs, files
    <2> QED BY <2>1, TabledFrame DEF Empty
<1>2. ASSUME NEW c \in Pid, ReadLo(c) \/ Draw(c) \/ CheckFail(c) \/ Validate(c) PROVE Tabled'
    <2>1. UNCHANGED <<ppc, call, todo, tail, result, parm, bin>>
        BY <1>2 DEF ReadLo, Draw, CheckFail, Validate, tuner, files
    <2>2. cpc[c] # "none" /\ cpc'[c] # "none" /\ \A d \in Pid : d # c => cpc'[d] = cpc[d]
        BY <1>2 DEF ReadLo, Draw, CheckFail, Validate, Exits, Typed
    <2> QED BY <2>1, <2>2, TabledFrame DEF Empty
<1>3. CASE ForkChild
    <2>1. PICK c \in Pid : c = FreePid /\ bin[c] = NoBin
        BY <1>3, ForkFacts
    <2>2. UNCHANGED <<ppc, call, todo, tail, result, parm, bin>> /\ cpc' = [cpc EXCEPT ![c] = "lo"]
        BY <1>3, <2>1 DEF ForkChild, files
    <2>3. \A d \in Pid : d # c => cpc'[d] = cpc[d]
        BY <2>2 DEF Typed
    <2>4. cpc'[c] = "lo"
        BY <2>2 DEF Typed
    <2>5. \A r \in Taken : result[r].pid # c
        BY <2>1 DEF Tabled
    <2>6. Taken' = Taken
        BY <2>2 DEF Taken
    <2> QED BY <2>2, <2>3, <2>4, <2>5, <2>6 DEF Tabled
<1>4. ASSUME NEW c \in Pid, Deliver(c) PROVE Tabled'
    <2>1. /\ UNCHANGED <<ppc, call, todo, tail, result>>
          /\ cpc[c] # "none" /\ cpc'[c] # "none"
          /\ \A d \in Pid : d # c => cpc'[d] = cpc[d] /\ parm'[d] = parm[d] /\ bin'[d] = bin[d]
        BY <1>4 DEF Deliver, Exits, Typed
    <2>2. \A r \in Taken : result[r].pid # c
        BY <2>1 DEF Tabled
    <2>3. Taken' = Taken
        BY <2>1 DEF Taken
    <2> QED BY <2>1, <2>2, <2>3 DEF Tabled
<1>5. ASSUME NEW c \in Pid, ReapOther(c) PROVE Tabled'
    <2>1. /\ UNCHANGED <<ppc, call, todo, tail, result, parm, bin>>
          /\ cpc[c] # "none" /\ status[c] # 0 /\ cpc'[c] = "none"
          /\ \A d \in Pid : d # c => cpc'[d] = cpc[d]
        BY <1>5 DEF ReapOther, Reap, Typed, files
    <2>2. bin[c] = NoBin
        BY <2>1 DEF Statuses, Status
    <2>3. \A r \in Taken : result[r].pid # c
        BY <2>1 DEF Tabled
    <2>4. Taken' = Taken
        BY <2>1 DEF Taken
    <2> QED BY <2>1, <2>2, <2>3, <2>4 DEF Tabled
<1>6. ASSUME NEW c \in Pid, ReapResult(c) PROVE Tabled'
    <2>1. /\ ppc = "wait" /\ status[c] = 0 /\ cpc[c] # "none" /\ UNCHANGED <<call, parm, bin>>
          /\ cpc'[c] = "none" /\ \A d \in Pid : d # c => cpc'[d] = cpc[d]
        BY <1>6 DEF ReapResult, Reap, Typed, files
    <2>2. todo > 0
        BY <2>1, AskedFor DEF Delivered
    <2>3. tail \in 0..call.snum /\ tail \notin Taken /\ Taken = 0..(tail - 1)
        BY <1>s, <2>1, <2>2 DEF Taken
    <2>4. Taken' = Taken \cup {tail}
        <3>1. CASE ppc' = "callback" /\ tail' = tail
            BY <2>3, <3>1 DEF Taken
        <3>2. CASE ppc' = "wait" /\ tail' = tail + 1
            BY <1>s, <2>3, <3>2 DEF Taken
        <3> QED BY <1>6, <2>1, <3>1, <3>2 DEF ReapResult
    <2>5. parm[c] \in Table /\ bin[c] # NoBin
        BY <2>1 DEF Statuses, Status
    <2>6. /\ result[tail].parm = <<>> /\ result[tail].bin = NoBin
          /\ DOMAIN result[tail] = {"pid", "parm", "bin"} /\ DOMAIN result = 0..call.snum
        BY <2>3 DEF Tabled
    <2>7. /\ result'[tail].pid = c /\ result'[tail].parm = <<>> /\ result'[tail].bin = bin[c]
          /\ DOMAIN result'[tail] = {"pid", "parm", "bin"}
        <3> DEFINE e == [result[tail] EXCEPT !.pid = c]
        <3>1. e.pid = c /\ e.parm = <<>> /\ e.bin = NoBin /\ DOMAIN e = {"pid", "parm", "bin"}
            BY <2>6
        <3>2. result'[tail] = ReadBin(e)
            BY <1>6, <2>3, <2>6 DEF ReapResult
        <3> HIDE DEF e
        <3>3. ReadBin(e) = [e EXCEPT !.bin = bin[c]]
            BY <3>1 DEF ReadBin
        <3> QED BY <3>1, <3>2, <3>3
    <2>8. DOMAIN result' = 0..call.snum /\ \A r \in 0..call.snum : r # tail => result'[r] = result[r]
        BY <1>6, <2>6 DEF ReapResult
    <2>9. tail' + todo' = call.snum /\ (ppc' = "callback" => todo' > 0)
        BY <1>6, <1>s, <2>2 DEF ReapResult, Reap
    <2>10. ASSUME NEW r \in 0..call.snum
           PROVE  /\ DOMAIN result'[r] = {"pid", "parm", "bin"}
                  /\ r \notin Taken' => result'[r].parm = <<>> /\ result'[r].bin = NoBin
        BY <2>4, <2>7, <2>8 DEF Tabled
    <2>11. ASSUME NEW r \in Taken'
           PROVE  /\ result'[r].pid \in Pid
                  /\ cpc'[result'[r].pid] = "none"
                  /\ parm[result'[r].pid] \in Table
                  /\ bin[result'[r].pid] # NoBin
                  /\ result'[r].parm \in {<<>>, parm[result'[r].pid]}
                  /\ result'[r].bin \in {NoBin, bin[result'[r].pid]}
        <3>1. CASE r = tail
            BY <2>1, <2>5, <2>7, <3>1
        <3>2. CASE r # tail
            <4>1. r \in Taken /\ result'[r] = result[r]
                BY <1>s, <2>4, <2>8, <2>11, <3>2
            <4> QED BY <2>1, <4>1 DEF Tabled
        <3> QED BY <3>1, <3>2
    <2>12. \A r \in Taken : result'[r] = result[r] /\ result[r].pid # c
        BY <1>s, <2>1, <2>3, <2>8 DEF Tabled
    <2>13. ASSUME NEW r \in Taken', NEW q \in Taken', result'[r].pid = result'[q].pid PROVE r = q
        BY <2>4, <2>7, <2>12, <2>13 DEF Tabled
    <2>14. ASSUME NEW d \in Pid, cpc'[d] = "none", bin[d] # NoBin
           PROVE  \E r \in Taken' : result'[r].pid = d
        BY <2>1, <2>4, <2>7, <2>12, <2>14 DEF Tabled
    <2> QED BY <2>1, <2>8, <2>9, <2>10, <2>11, <2>13, <2>14 DEF Tabled
<1>7. CASE Accept
    <2>1. /\ ppc = "callback" /\ ppc' = "wait" /\ todo' = todo - 1 /\ tail' = tail + 1 /\ todo > 0
          /\ UNCHANGED <<call, result, parm, bin, cpc>>
        BY <1>7 DEF Accept, Decided, Tabled, files, procs
    <2>2. Taken' = Taken
        <3>1. Taken = 0..(tail - 1) \cup {tail} /\ Taken' = 0..((tail + 1) - 1)
            BY <2>1 DEF Taken
        <3> QED BY <1>s, <3>1
    <2>3. tail' + todo' = call.snum
        BY <1>s, <2>1
    <2> QED BY <2>1, <2>2, <2>3 DEF Tabled
<1>8. CASE Reject
    <2>1. /\ ppc = "callback" /\ ppc' = "wait" /\ UNCHANGED <<call, todo, tail, cpc>>
          /\ result' = [result EXCEPT ![tail] = NoResult]
          /\ parm' = [parm EXCEPT ![result[tail].pid] = <<>>]
          /\ bin' = [bin EXCEPT ![result[tail].pid] = NoBin]
        BY <1>8 DEF Reject, Decided, procs
    <2>2. tail \in Taken /\ tail \in 0..call.snum
        BY <1>s, <2>1 DEF Taken
    <2>3. Taken' = Taken \ {tail}
        <3>1. Taken = 0..(tail - 1) \cup {tail} /\ Taken' = 0..(tail - 1)
            BY <2>1 DEF Taken
        <3> QED BY <1>s, <3>1
    <2>4. PICK p \in Pid : p = result[tail].pid
        BY <2>2 DEF Tabled
    <2>5. /\ bin'[p] = NoBin
          /\ \A d \in Pid : d # p => parm'[d] = parm[d] /\ bin'[d] = bin[d]
        BY <2>1, <2>4 DEF Typed
    <2>6. DOMAIN result = 0..call.snum
        BY DEF Tabled
    <2>7. DOMAIN result' = 0..call.snum /\ \A r \in 0..call.snum : r # tail => result'[r] = result[r]
        BY <2>1, <2>6
    <2>8. /\ result'[tail].parm = <<>> /\ result'[tail].bin = NoBin
          /\ DOMAIN result'[tail] = {"pid", "parm", "bin"}
        BY <2>1, <2>2, <2>6 DEF NoResult
    <2>9. ASSUME NEW r \in Taken'
          PROVE  /\ r \in Taken /\ result'[r] = result[r] /\ result[r].pid \in Pid
                 /\ parm'[result[r].pid] = parm[result[r].pid]
                 /\ bin'[result[r].pid] = bin[result[r].pid]
        <3>1. r \in Taken /\ r # tail /\ r \in 0..call.snum
            BY <1>s, <2>3, <2>9
        <3>2. result[r].pid # p /\ result[r].pid \in Pid
            BY <2>2, <2>4, <3>1 DEF Tabled
        <3> QED BY <2>5, <2>7, <3>1, <3>2
    <2>10. ASSUME NEW d \in Pid, cpc'[d] = "none", bin'[d] # NoBin
           PROVE  \E r \in Taken' : result'[r].pid = d
        <3>1. d # p /\ bin[d] # NoBin /\ cpc[d] = "none"
            BY <2>1, <2>5, <2>10
        <3>2. PICK r \in Taken : result[r].pid = d
            BY <3>1 DEF Tabled
        <3>3. r \in Taken'
            BY <2>3, <2>4, <3>1, <3>2
        <3> QED BY <2>9, <3>2, <3>3
    <2>11. ASSUME NEW r \in 0..call.snum
           PROVE  /\ DOMAIN result'[r] = {"pid", "parm", "bin"}
                  /\ r \notin Taken' => result'[r].parm = <<>> /\ result'[r].bin = NoBin
        BY <2>3, <2>7, <2>8 DEF Tabled
    <2>12. ASSUME NEW r \in Taken'
           PROVE  /\ result'[r].pid \in Pid
                  /\ cpc'[result'[r].pid] = "none"
                  /\ parm'[result'[r].pid] \in Table
                  /\ bin'[result'[r].pid] # NoBin
                  /\ result'[r].parm \in {<<>>, parm'[result'[r].pid]}
                  /\ result'[r].bin \in {NoBin, bin'[result'[r].pid]}
        BY <2>1, <2>9, <2>12 DEF Tabled
    <2>13. ASSUME NEW r \in Taken', NEW q \in Taken', result'[r].pid = result'[q].pid PROVE r = q
        BY <2>9, <2>13 DEF Tabled
    <2>14. tail' + todo' = call.snum /\ ppc' # "callback"
        BY <1>s, <2>1
    <2> QED BY <2>1, <2>7, <2>10, <2>11, <2>12, <2>13, <2>14 DEF Tabled
<1>9. CASE Pin
    <2>1. /\ ppc = "callback" /\ UNCHANGED <<ppc, call, todo, tail, parm, bin, cpc>> /\ Taken' = Taken
        BY <1>9, PinFrame DEF files, procs, Taken
    <2>2. \/ result' = result
          \/ \E r \in 0..tail : result' = [result EXCEPT ![r] = ReadParm(@)]
        BY <1>9 DEF Pin, PinLo, PinHi, PinLo2Result, PinHi2Result
    <2>3. CASE result' = result
        BY <2>1, <2>3, TabledFrame DEF Empty
    <2>4. ASSUME NEW r \in 0..tail, result' = [result EXCEPT ![r] = ReadParm(@)] PROVE Tabled'
        <3>1. /\ r \in Taken /\ r \in 0..call.snum /\ result[r].pid \in Pid
              /\ ReadParm(result[r]).parm = parm[result[r].pid]
            BY <1>s, <2>1, ResultRead
        <3>2. DOMAIN result[r] = {"pid", "parm", "bin"} /\ DOMAIN result = 0..call.snum
            BY <3>1 DEF Tabled
        <3>3. /\ DOMAIN result' = 0..call.snum /\ result'[r] = ReadParm(result[r])
              /\ \A q \in 0..call.snum : q # r => result'[q] = result[q]
            BY <2>4, <3>1, <3>2
        <3>4. /\ DOMAIN result'[r] = {"pid", "parm", "bin"} /\ result'[r].pid = result[r].pid
              /\ result'[r].bin = result[r].bin /\ result'[r].parm = parm[result[r].pid]
            BY <3>1, <3>2, <3>3 DEF ReadParm
        <3>5. \A q \in 0..call.snum :
                 /\ DOMAIN result'[q] = DOMAIN result[q] /\ result'[q].pid = result[q].pid
                 /\ result'[q].bin = result[q].bin
                 /\ result'[q].parm = result[q].parm \/ (q = r /\ result'[q].parm = parm[result[q].pid])
            BY <3>2, <3>3, <3>4
        <3>6. \A q \in Taken : q \in 0..call.snum
            BY <1>s
        <3> QED BY <1>s, <2>1, <3>1, <3>3, <3>5, <3>6 DEF Tabled
    <2> QED BY <2>2, <2>3, <2>4
<1>10. CASE Storing
    <2>1. UNCHANGED <<ppc, call, todo, tail, result, parm, bin, cpc>>
        BY <1>10, PinFrame, StoringFacts DEF files, procs
    <2> QED BY <2>1, TabledFrame DEF Empty
<1> QED BY <1>1, <1>2, <1>3, <1>4, <1>5, <1>6, <1>7, <1>8, <1>9, <1>10 DEF Next

-----------------------------------------------------------------------------
\* A step that finishes no sample and delivers and collects no result.
LEMMA SamplesFrame ==
    ASSUME Typed, Samples, Slot' = Slot, active' = active,
           Delivered' = Delivered, In({"last"})' = In({"last"}),
           \A c \in Delivered : slot'[c] = slot[c] /\ rem'[slot[c]] <= 0,
           \A s \in Slot : Unfinished(s)' <=> Unfinished(s),
           ppc' \in {"fork", "wait"} => Cardinality(Open) <= todo',
           ppc' = "callback" => Cardinality(Open) < todo'
    PROVE  Samples'
<1>1. In({"last"}) \subseteq Delivered
    BY DEF In, Delivered
<1>2. Open' = Open /\ Counted' = Counted
    BY <1>1 DEF Open, Counted
<1> QED BY <1>2 DEF Samples

LEMMA UnfinishedKept ==
    ASSUME UNCHANGED <<call, forks, rem>>, ppc = "fork" <=> ppc' = "fork", ppc = "fork" => todo' = todo
    PROVE  \A s \in Slot : Unfinished(s)' <=> Unfinished(s)
BY DEF Unfinished, Coming, Begun, Batch, K

\* A sample that has begun and is down to its last process is finished.
LEMMA Finished ==
    ASSUME NEW s \in Slot, Begun(s), rem[s] \in Int, rem[s] <= 0
    PROVE  ~ Unfinished(s)
BY DEF Unfinished, Coming

\* Who delivers, after a step of one process.
LEMMA Leaving ==
    ASSUME Typed, NEW c \in Pid, cpc' \in [Pid -> {"none", "lo", "hi", "aggregate", "last", "exited"}],
           \A d \in Pid : d # c => cpc'[d] = cpc[d] /\ status'[d] = status[d]
    PROVE  /\ cpc[c] # "last" /\ cpc'[c] # "last" => In({"last"})' = In({"last"})
           /\ cpc[c] # "last" /\ cpc'[c] = "last" => In({"last"})' = In({"last"}) \cup {c}
           /\ cpc[c] = "last" /\ cpc'[c] # "last" => In({"last"})' = In({"last"}) \ {c}
           /\ (c \in Delivered <=> (cpc'[c] = "last" \/ status'[c] = 0)) => Delivered' = Delivered
           /\ cpc'[c] = "last" \/ status'[c] = 0 => Delivered' = Delivered \cup {c}
           /\ cpc'[c] # "last" /\ status'[c] # 0 => Delivered' = Delivered \ {c}
BY DEF In, Delivered

\* A batch starts without any slot.
LEMMA NothingBegun ==
    ASSUME Typed, StartBatch
    PROVE  \A s \in Slot : ~ Begun(s)'
<1> TAKE s \in Slot
<1>1. s \in Nat /\ K \in Nat
    BY PidsFinite, CallFacts DEF Typed
<1>2. s * K \in Nat
    BY <1>1
<1>3. ~ (s * K < 0)
    BY <1>2
<1>4. forks' = 0 /\ K' = K
    BY DEF StartBatch, K
<1> QED BY <1>3, <1>4 DEF Begun

LEMMA SamplesStep ==
    ASSUME Typed, Statuses, Phases, Tabled, Samples, [Next]_vars
    PROVE  Samples'
<1> USE RegionKept
<1>t. Typed'
    BY TypedStep
<1>c. /\ cpc \in [Pid -> {"none", "lo", "hi", "aggregate", "last", "exited"}]
      /\ cpc' \in [Pid -> {"none", "lo", "hi", "aggregate", "last", "exited"}]
    BY <1>t DEF Typed
<1>o. Cardinality(Open) \in Nat /\ todo \in Nat /\ IsFiniteSet(Open) /\ IsFiniteSet(Counted)
    BY OpenFinite, FS_CardinalityType DEF Typed
<1>r. \A c \in Delivered : slot[c] \in Slot /\ Begun(slot[c]) /\ rem[slot[c]] <= 0 /\ rem[slot[c]] \in Int
    <2> TAKE c \in Delivered
    <2>1. c \in Pid /\ slot[c] \in Slot /\ Begun(slot[c])
        BY DEF Delivered, Statuses, Status, None
    <2>2. rem[slot[c]] \in Int
        BY <2>1 DEF Typed
    <2> QED BY <2>1, <2>2 DEF Samples
<1>1. CASE StartBatch
    <2>1. \A c \in Pid : cpc[c] = "none" /\ status[c] = None
        BY <1>1 DEF StartBatch, Phases, Statuses, Status
    <2>2. Delivered' = {} /\ In({"last"})' = {}
        BY <1>1, <2>1 DEF StartBatch, procs, Delivered, In, None
    <2>3. forks' = 0 /\ ppc' = "fork" /\ active' = Batch /\ Batch' = Batch /\ todo' = todo
        BY <1>1 DEF StartBatch, Batch
    <2>4. Batch \in Nat /\ Batch <= call.sub /\ Batch <= todo /\ K \in Nat /\ call.sub \in Nat
        BY CallFacts DEF Batch, Typed
    <2>5. \A s \in Slot : Unfinished(s)' <=> s < Batch
        BY <1>1, <2>3, NothingBegun DEF Unfinished, Coming
    <2>6. Open' = 0..(Batch - 1) /\ Counted' = 0..(Batch - 1)
        <3>1. \A s : s \in Slot /\ s < Batch <=> s \in 0..(Batch - 1)
            BY <2>4 DEF Slot
        <3> QED BY <2>2, <2>5, <3>1 DEF Open, Counted
    <2>7. Cardinality(0..(Batch - 1)) = Batch
        <3>1. 0 \in Int /\ Batch - 1 \in Int
            BY <2>4
        <3>2. Cardinality(0..(Batch - 1)) = IF 0 > Batch - 1 THEN 0 ELSE Batch - 1 - 0 + 1
            BY <3>1, FS_Interval
        <3> QED BY <2>4, <3>2
    <2> QED BY <2>2, <2>3, <2>4, <2>6, <2>7 DEF Samples
<1>2. CASE ForkChild
    <2>1. PICK c \in Pid, s \in Slot :
              /\ c = FreePid /\ s = forks \div K /\ cpc[c] = "none" /\ status[c] = None
              /\ s < Batch /\ (\A t \in Slot : t * K < forks + 1 <=> Begun(t) \/ t = s)
              /\ forks % K = 0 <=> ~ Begun(s)
        BY <1>2, ForkFacts DEF Statuses, Status
    <2>2. /\ UNCHANGED <<ppc, todo, active, status>> /\ ppc = "fork" /\ forks' = forks + 1
          /\ cpc' = [cpc EXCEPT ![c] = "lo"] /\ slot' = [slot EXCEPT ![c] = s]
          /\ IF forks % K = 0 THEN rem' = [rem EXCEPT ![s] = K] ELSE rem' = rem
        BY <1>2, <2>1 DEF ForkChild, shared
    <2>3. cpc'[c] = "lo" /\ (\A d \in Pid : d # c => cpc'[d] = cpc[d] /\ slot'[d] = slot[d]) /\ c \notin Delivered
        BY <2>1, <2>2 DEF Typed, Delivered, None
    <2>4. Delivered' = Delivered /\ In({"last"})' = In({"last"})
        BY <1>c, <2>1, <2>2, <2>3, Leaving DEF None
    <2>5. \A t \in Slot : Begun(t)' <=> Begun(t) \/ t = s
        BY <2>1, <2>2 DEF Begun
    <2>6. Batch' = Batch
        BY <2>2 DEF Batch
    <2>7. K > 0 /\ K \in Nat
        BY CallFacts DEF Typed
    <2>8. ASSUME NEW t \in Slot PROVE Unfinished(t)' <=> Unfinished(t)
        <3>1. CASE t # s
            <4>1. rem'[t] = rem[t]
                BY <2>2, <3>1 DEF Typed
            <4> QED BY <2>2, <2>5, <2>6, <3>1, <4>1 DEF Unfinished, Coming
        <3>2. CASE t = s /\ Begun(s)
            <4>1. rem' = rem
                BY <2>1, <2>2, <3>2
            <4> QED BY <2>5, <3>2, <4>1 DEF Unfinished, Coming
        <3>3. CASE t = s /\ ~ Begun(s)
            <4>1. rem'[s] = K
                BY <2>1, <2>2, <3>3 DEF Typed
            <4>2. Begun(t)' /\ rem'[t] > 0 /\ Coming(t)
                BY <2>1, <2>2, <2>5, <2>7, <3>3, <4>1 DEF Coming
            <4> QED BY <4>2 DEF Unfinished
        <3> QED BY <3>1, <3>2, <3>3
    <2>9. ASSUME NEW d \in Delivered PROVE slot'[d] = slot[d] /\ rem'[slot[d]] <= 0
        <3>1. d \in Pid /\ d # c
            BY <2>3, <2>9 DEF Delivered
        <3>2. rem'[slot[d]] = rem[slot[d]]
            BY <1>r, <2>1, <2>2, <2>9 DEF Typed
        <3> QED BY <1>r, <2>3, <3>1, <3>2
    <2>10. Cardinality(Open) <= todo' /\ ppc' # "callback"
        BY <2>2 DEF Samples
    <2> QED BY <2>2, <2>4, <2>8, <2>9, <2>10, SamplesFrame
<1>3. CASE BatchForked
    <2>1. /\ ppc = "fork" /\ ppc' = "wait" /\ UNCHANGED <<todo, forks, active, rem, cpc, slot, status>>
          /\ forks = K * Batch
        BY <1>3 DEF BatchForked, shared, procs
    <2>2. \A s \in Slot : ~ Coming(s)
        <3> SUFFICES ASSUME NEW s \in Slot, s < Batch PROVE s * K < forks
            BY DEF Coming, Begun
        <3>1. s \in Nat /\ Batch \in Nat /\ K \in Nat /\ K > 0
            BY CallFacts, PidsFinite DEF Typed, Batch
        <3>2. s * K + K <= Batch * K /\ s * K \in Nat /\ Batch * K = K * Batch
            BY <3>1, Monotone
        <3>3. Batch * K \in Nat
            BY <3>1
        <3> QED BY <2>1, <3>1, <3>2, <3>3
    <2>3. \A s \in Slot : Unfinished(s)' <=> Unfinished(s)
        BY <2>1, <2>2 DEF Unfinished, Coming, Begun
    <2>4. Delivered' = Delivered /\ In({"last"})' = In({"last"})
        BY <2>1 DEF Delivered, In
    <2>5. Cardinality(Open) <= todo' /\ ppc' # "callback"
        BY <2>1 DEF Samples
    <2> QED BY <1>r, <2>1, <2>3, <2>4, <2>5, SamplesFrame
<1>4. CASE BatchDone \/ Accept \/ Reject \/ Pin \/ Storing
    <2>1. /\ ppc # "fork" /\ ppc' # "fork"
          /\ UNCHANGED <<forks, active, rem, cpc, slot, status>>
        BY <1>4, DecidedFrame, PinFrame DEF BatchDone, shared, procs
    <2>2. \A s \in Slot : Unfinished(s)' <=> Unfinished(s)
        BY <2>1, UnfinishedKept
    <2>3. Delivered' = Delivered /\ In({"last"})' = In({"last"})
        BY <2>1 DEF Delivered, In
    <2>4. /\ ppc' \in {"fork", "wait"} => Cardinality(Open) <= todo'
          /\ ppc' = "callback" => Cardinality(Open) < todo'
        <3>1. CASE BatchDone
            BY <3>1 DEF BatchDone
        <3>2. CASE Accept
            <4>1. Cardinality(Open) < todo /\ todo' = todo - 1 /\ ppc' = "wait"
                BY <3>2 DEF Accept, Decided, Samples
            <4> QED BY <1>o, <4>1
        <3>3. CASE Reject
            <4>1. Cardinality(Open) < todo /\ todo' = todo /\ ppc' = "wait"
                BY <3>3 DEF Reject, Decided, Samples
            <4> QED BY <1>o, <4>1
        <3>4. CASE Pin \/ Storing
            BY <3>4, PinFrame DEF Samples
        <3> QED BY <1>4, <3>1, <3>2, <3>3, <3>4
    <2> QED BY <1>r, <2>1, <2>2, <2>3, <2>4, SamplesFrame
<1>5. ASSUME NEW c \in Pid, ReadLo(c) \/ Draw(c) \/ CheckFail(c) \/ ReapOther(c) PROVE Samples'
    <2>1. UNCHANGED <<ppc, forks, todo, active, rem>>
        BY <1>5 DEF ReadLo, Draw, CheckFail, ReapOther, Reap, tuner, shared
    <2>2. /\ cpc[c] # "last" /\ cpc'[c] # "last" /\ c \notin Delivered /\ status'[c] # 0
          /\ \A d \in Pid : d # c => cpc'[d] = cpc[d] /\ status'[d] = status[d] /\ slot'[d] = slot[d]
        BY <1>5 DEF ReadLo, Draw, CheckFail, ReapOther, Reap, Exits, Delivered, Typed, Statuses, Status, None
    <2>3. Delivered' = Delivered /\ In({"last"})' = In({"last"})
        BY <1>c, <2>2, Leaving
    <2>4. \A s \in Slot : Unfinished(s)' <=> Unfinished(s)
        BY <2>1, UnfinishedKept
    <2>5. \A d \in Delivered : slot'[d] = slot[d] /\ rem'[slot[d]] <= 0
        BY <1>r, <2>1, <2>2 DEF Delivered
    <2> QED BY <2>1, <2>3, <2>4, <2>5, SamplesFrame DEF Samples
<1>6. ASSUME NEW c \in Pid, Validate(c) PROVE Samples'
    <2>1. PICK s \in Slot : s = slot[c] /\ Begun(s)
        BY <1>6 DEF Validate, Statuses, Status
    <2>2. /\ UNCHANGED <<ppc, forks, todo, active, slot>> /\ rem' = [rem EXCEPT ![s] = @ - 1]
          /\ cpc[c] = "aggregate" /\ status[c] = None /\ c \notin Delivered
          /\ IF rem[s] = 1 THEN cpc'[c] = "last" /\ status'[c] = None
             ELSE cpc'[c] = "exited" /\ status'[c] = 3
          /\ \A d \in Pid : d # c => cpc'[d] = cpc[d] /\ status'[d] = status[d]
        BY <1>6, <2>1 DEF Validate, Exits, Delivered, Typed, Statuses, Status, None, tuner
    <2>3. /\ rem'[s] = rem[s] - 1 /\ rem[s] \in Int
          /\ \A t \in Slot : t # s => rem'[t] = rem[t]
        BY <2>2 DEF Typed
    <2>4. /\ \A t \in Slot : Begun(t)' <=> Begun(t)
          /\ Batch' = Batch
        BY <2>2 DEF Begun, Batch
    <2>5. \A t \in Slot : t # s => (Unfinished(t)' <=> Unfinished(t))
        BY <2>2, <2>3, <2>4 DEF Unfinished, Coming
    <2>6. Unfinished(s) <=> rem[s] > 0
        BY <2>1 DEF Unfinished, Coming
    <2>7. Unfinished(s)' <=> rem[s] - 1 > 0
        BY <2>1, <2>3, <2>4 DEF Unfinished, Coming
    <2>8. CASE rem[s] = 1
        <3>1. Delivered' = Delivered \cup {c} /\ In({"last"})' = In({"last"}) \cup {c}
            BY <1>c, <2>2, <2>8, Leaving
        <3>2. \A d \in Delivered : slot[d] # s
            BY <1>r, <2>8
        <3>3. Unfinished(s) /\ ~ Unfinished(s)'
            BY <2>6, <2>7, <2>8
        <3>4. Open' = Open /\ Counted' = Counted
            BY <2>1, <2>2, <2>5, <3>1, <3>3 DEF Open, Counted
        <3>5. ASSUME NEW d \in Delivered' PROVE rem'[slot'[d]] <= 0
            BY <1>r, <2>1, <2>2, <2>3, <2>8, <3>1, <3>2, <3>5
        <3>6. ASSUME NEW d \in Delivered', NEW e \in Delivered', slot'[d] = slot'[e] PROVE d = e
            BY <2>1, <2>2, <3>1, <3>2, <3>6 DEF Samples
        <3> QED BY <2>2, <3>4, <3>5, <3>6 DEF Samples
    <2>9. CASE rem[s] # 1
        <3>1. Delivered' = Delivered /\ In({"last"})' = In({"last"})
            BY <1>c, <2>2, <2>9, Leaving
        <3>2. Unfinished(s)' <=> Unfinished(s)
            BY <2>3, <2>6, <2>7, <2>9
        <3>3. \A t \in Slot : Unfinished(t)' <=> Unfinished(t)
            BY <2>5, <3>2
        <3>4. \A d \in Delivered : slot'[d] = slot[d] /\ rem'[slot[d]] <= 0
            BY <1>r, <2>2, <2>3
        <3> QED BY <2>2, <3>1, <3>3, <3>4, SamplesFrame DEF Samples
    <2> QED BY <2>8, <2>9
<1>7. ASSUME NEW c \in Pid, Deliver(c) PROVE Samples'
    <2>1. /\ UNCHANGED <<ppc, forks, todo, rem, slot>> /\ active' = active - 1
          /\ cpc[c] = "last" /\ cpc'[c] = "exited" /\ status'[c] = 0 /\ c \in Delivered
          /\ \A d \in Pid : d # c => cpc'[d] = cpc[d] /\ status'[d] = status[d]
        BY <1>7 DEF Deliver, Exits, Delivered, Typed
    <2>2. Delivered' = Delivered /\ In({"last"})' = In({"last"}) \ {c}
        BY <1>c, <2>1, Leaving
    <2>3. \A s \in Slot : Unfinished(s)' <=> Unfinished(s)
        BY <2>1, UnfinishedKept
    <2>4. slot[c] \in Slot /\ ~ Unfinished(slot[c])
        BY <1>r, <2>1, Finished
    <2>5. In({"last"}) \subseteq Delivered /\ c \in In({"last"})
        BY <2>1 DEF In, Delivered
    <2>6. \A d \in In({"last"}) : slot[d] = slot[c] => d = c
        BY <2>1, <2>5 DEF Samples
    <2>7. Counted' = Counted \ {slot[c]} /\ slot[c] \in Counted
        BY <2>1, <2>2, <2>3, <2>4, <2>5, <2>6 DEF Counted
    <2>8. Cardinality(Counted') = Cardinality(Counted) - 1
        BY <1>o, <2>7, Counting
    <2>9. active' = Cardinality(Counted')
        BY <2>1, <2>8 DEF Samples
    <2>10. Open' = Open
        BY <2>1, <2>2, <2>3 DEF Open
    <2> QED BY <2>1, <2>2, <2>9, <2>10 DEF Samples
<1>8. ASSUME NEW c \in Pid, ReapResult(c) PROVE Samples'
    <2>1. /\ UNCHANGED <<forks, active, rem>> /\ ppc = "wait" /\ ppc' \in {"wait", "callback"}
          /\ ppc' = "wait" => todo' = todo - 1
          /\ ppc' = "callback" => todo' = todo
          /\ cpc[c] = "exited" /\ status[c] = 0 /\ c \in Delivered /\ cpc'[c] = "none" /\ status'[c] = None
          /\ \A d \in Pid : d # c => cpc'[d] = cpc[d] /\ status'[d] = status[d] /\ slot'[d] = slot[d]
        BY <1>8 DEF ReapResult, Reap, Delivered, Typed, shared
    <2>2. Delivered' = Delivered \ {c} /\ In({"last"})' = In({"last"})
        BY <1>c, <2>1, Leaving DEF None
    <2>3. \A s \in Slot : Unfinished(s)' <=> Unfinished(s)
        BY <2>1, UnfinishedKept
    <2>4. slot[c] \in Slot /\ ~ Unfinished(slot[c])
        BY <1>r, <2>1, Finished
    <2>5. \A d \in Delivered : slot[d] = slot[c] => d = c
        BY <2>1 DEF Samples
    <2>6. \A d \in Delivered' : d \in Delivered /\ d \in Pid /\ d # c /\ slot'[d] = slot[d]
        BY <2>1, <2>2 DEF Delivered
    <2>7. Open' = Open \ {slot[c]} /\ slot[c] \in Open
        BY <2>1, <2>2, <2>3, <2>4, <2>5, <2>6 DEF Open
    <2>8. Cardinality(Open') = Cardinality(Open) - 1
        BY <1>o, <2>7, Counting
    <2>9. \A d \in In({"last"}) : d \in Pid /\ d # c /\ slot'[d] = slot[d]
        BY <2>1 DEF In
    <2>10. Counted' = Counted
        BY <2>2, <2>3, <2>9 DEF Counted
    <2>11. Cardinality(Open) <= todo
        BY <2>1 DEF Samples
    <2>12. /\ ppc' \in {"fork", "wait"} => Cardinality(Open') <= todo'
           /\ ppc' = "callback" => Cardinality(Open') < todo'
        BY <1>o, <2>1, <2>8, <2>11
    <2>13. /\ \A d \in Delivered' : rem'[slot'[d]] <= 0
           /\ \A d, e \in Delivered' : slot'[d] = slot'[e] => d = e
        BY <1>r, <2>1, <2>6 DEF Samples
    <2> QED BY <2>1, <2>10, <2>12, <2>13 DEF Samples
<1>9. CASE UNCHANGED vars
    <2>1. UNCHANGED <<ppc, forks, todo, active, rem, cpc, slot, status>>
        BY <1>9 DEF vars, tuner, shared, procs
    <2>2. Delivered' = Delivered /\ In({"last"})' = In({"last"})
        BY <2>1 DEF Delivered, In
    <2>3. \A s \in Slot : Unfinished(s)' <=> Unfinished(s)
        BY <2>1, UnfinishedKept
    <2> QED BY <1>r, <2>1, <2>2, <2>3, SamplesFrame DEF Samples
<1> QED BY <1>1, <1>2, <1>3, <1>4, <1>5, <1>6, <1>7, <1>8, <1>9 DEF Next

-----------------------------------------------------------------------------
\* A call is asked for: nothing is stored yet.
LEMMA PinStep ==
    ASSUME Typed, Tabled, Pinned, Pin
    PROVE  Asked' /\ \A v \in Var \ touched' : asked'[v] = asked[v] /\ v \notin touched
<1>1. PICK named \in SUBSET (1..call.draws), vals \in Table : Asks(named, vals)
    BY PinTables
<1> DEFINE A == Affected(named)
<1>2. /\ store'.left = A /\ store'.vals = vals /\ A \in SUBSET Var
      /\ \/ LowerEnd(named, vals) /\ store'.end = "lo"
         \/ UpperEnd(named, vals) /\ (named # {} => store'.end = "hi")
    <2>1. \A end : Call(end, A, vals).left = A /\ Call(end, A, vals).vals = vals
        BY DEF Call
    <2> QED BY <1>1, <2>1, Started
<1>3. \A v \in 1..call.draws : vals[v] \in Value
    BY DEF Table
<1>4. Free \in [x : Value, whole : BOOLEAN] /\ Free.x = Unset
    BY DEF Free, Value
<1>5. /\ asked \in [Var -> [x : Value, whole : BOOLEAN]] /\ pins' = pins
      /\ \A v \in half.named : pins.lo[v] = half.vals[v]
      /\ \A v \in Var : Sure(v) => pins.lo[v] = asked[v].x /\ pins.hi[v] = asked[v].x
    <2>1. store.left = {}
        BY PinTables DEF NoStore, Call
    <2> QED BY <2>1, PinTables DEF Pinned, Asked
<1>6. (named # {} => A = named) /\ A \subseteq 1..call.draws
    BY DEF Affected
<1>7. touched' = touched \cup A
    BY <1>2 DEF LowerEnd, UpperEnd, SetEnd
<1> HIDE DEF A
<1>8. CASE LowerEnd(named, vals) /\ store'.end = "lo"
    <2>1. /\ half' = [named |-> named, vals |-> vals]
          /\ asked' = [v \in Var |-> IF v \in A THEN Free ELSE asked[v]]
        BY <1>8 DEF LowerEnd, A
    <2>2. asked' \in [Var -> [x : Value, whole : BOOLEAN]]
        BY <1>4, <1>5, <2>1
    <2>3. ASSUME NEW v \in Var, Sure(v)'
          PROVE  v \notin A /\ pins'.lo[v] = asked'[v].x /\ pins'.hi[v] = asked'[v].x
        <3>1. v \notin A /\ asked'[v] = asked[v]
            BY <1>4, <2>1, <2>3 DEF Sure
        <3>2. Sure(v)
            BY <2>3, <3>1 DEF Sure
        <3> QED BY <1>5, <3>1, <3>2
    <2>4. half'.named = named /\ half'.vals = vals /\ \A v \in named : v \in A
        BY <1>6, <2>1
    <2>5. Asked'
        BY <1>2, <1>7, <1>8, <2>2, <2>3, <2>4 DEF Asked
    <2> QED BY <1>7, <2>1, <2>5
<1>9. CASE UpperEnd(named, vals) /\ (named # {} => store'.end = "hi")
    <2> DEFINE both == half = [named |-> named, vals |-> vals]
    <2>1. /\ half'.named = {}
          /\ asked' = [v \in Var |-> IF v \notin A THEN asked[v]
                                     ELSE IF both THEN [x |-> vals[v], whole |-> named = {}] ELSE Free]
        BY <1>9 DEF UpperEnd, A, NoPin
    <2>2. asked' \in [Var -> [x : Value, whole : BOOLEAN]]
        BY <1>3, <1>4, <1>5, <1>6, <2>1
    <2>3. ASSUME NEW v \in Var, Sure(v)', v \notin A
          PROVE  pins'.lo[v] = asked'[v].x /\ pins'.hi[v] = asked'[v].x
        <3>1. asked'[v] = asked[v]
            BY <2>1, <2>3
        <3>2. Sure(v)
            BY <2>3, <3>1 DEF Sure
        <3> QED BY <1>5, <3>1, <3>2
    <2>4. ASSUME NEW v \in Var, Sure(v)', v \in A
          PROVE  pins'.lo[v] = asked'[v].x /\ store'.end = "hi" /\ vals[v] = asked'[v].x
        <3>1. both /\ asked'[v] = [x |-> vals[v], whole |-> named = {}]
            BY <1>4, <2>1, <2>4 DEF Sure
        <3>2. named # {}
            <4>1. asked'[v].whole = (named = {})
                BY <3>1
            <4>2. ~ asked'[v].whole
                BY <2>4 DEF Sure
            <4> QED BY <4>1, <4>2, Zenon
        <3>3. v \in half.named /\ half.vals[v] = vals[v]
            BY <1>6, <2>4, <3>1, <3>2
        <3> QED BY <1>5, <1>9, <3>1, <3>2, <3>3
    <2>5. Asked'
        BY <1>2, <1>7, <2>1, <2>2, <2>3, <2>4 DEF Asked
    <2> QED BY <1>7, <2>1, <2>5
<1> QED BY <1>2, <1>8, <1>9

\* A value is stored where it was asked for.
LEMMA AskedStored ==
    ASSUME Typed, Asked, Storing
    PROVE  Asked'
<1>1. UNCHANGED <<half, asked, touched>>
    BY StoringFacts
<1>2. CASE pins' = pins /\ store'.left = store.left /\ store'.end = store.end /\ store'.vals = store.vals
    BY <1>1, <1>2 DEF Asked, Sure
<1>3. ASSUME NEW v \in Var, StoresOne(v) PROVE Asked'
    <2>1. pins \in [lo : [Var -> Value], hi : [Var -> Value]]
        BY DEF Typed
    <2>2. /\ v \in store.left /\ store'.left = store.left \ {v}
          /\ store'.left # {} => store'.end = store.end /\ store'.vals = store.vals
          /\ \A w \in Var \ {v} : pins'.lo[w] = pins.lo[w] /\ pins'.hi[w] = pins.hi[w]
          /\ store.end = "lo" => pins'.lo[v] = store.vals[v] /\ pins'.hi[v] = pins.hi[v]
          /\ store.end = "hi" => pins'.hi[v] = store.vals[v] /\ pins'.lo[v] = pins.lo[v]
        BY <1>3, <2>1 DEF StoresOne
    <2>3. \A w : Sure(w)' <=> Sure(w)
        BY <1>1 DEF Sure
    <2>4. ASSUME NEW w \in half.named, w \notin store'.left PROVE pins'.lo[w] = half.vals[w]
        <3>1. CASE w = v
            BY <2>2, <3>1 DEF Asked
        <3>2. CASE w # v
            <4>1. pins.lo[w] = half.vals[w]
                BY <2>2, <2>4, <3>2 DEF Asked
            <4>2. pins'.lo[w] = pins.lo[w]
                BY <2>2, <3>2 DEF Asked
            <4> QED BY <4>1, <4>2
        <3> QED BY <3>1, <3>2
    <2>5. ASSUME NEW w \in Var, Sure(w)
          PROVE  pins'.lo[w] = asked[w].x /\ (w \in store'.left \/ pins'.hi[w] = asked[w].x)
        <3>1. CASE w = v
            BY <2>2, <2>5, <3>1 DEF Asked
        <3>2. CASE w # v
            BY <2>2, <2>5, <3>2 DEF Asked
        <3> QED BY <3>1, <3>2
    <2>6. ASSUME NEW w \in store'.left
          PROVE  /\ w \in store.left /\ store'.end = store.end /\ store'.vals = store.vals
        BY <2>2, <2>6
    <2> QED BY <1>1, <2>3, <2>4, <2>5, <2>6 DEF Asked
<1> QED BY <1>2, <1>3, StoringFacts

\* A step that leaves the ranges and what is asked of them alone.
LEMMA PinnedFrame ==
    ASSUME Pinned, UNCHANGED <<pins, store, half, asked, touched>>,
           ASSUME NEW v \in Var, Sure(v), pins.lo[v] = asked[v].x, pins.hi[v] = asked[v].x, Honoured(v)
           PROVE  Honoured(v)'
    PROVE  Pinned'
<1>1. \A v : Sure(v)' <=> Sure(v)
    BY DEF Sure
<1>2. ASSUME NEW v \in Var \ touched', Sure(v)' PROVE Honoured(v)'
    <2>1. v \notin touched /\ Sure(v)
        BY <1>1, <1>2
    <2>2. pins.lo[v] = asked[v].x /\ pins.hi[v] = asked[v].x
        BY <2>1 DEF Pinned, Asked
    <2> QED BY <2>1, <2>2 DEF Pinned
<1>3. Asked'
    BY <1>1 DEF Pinned, Asked
<1> QED BY <1>1, <1>2, <1>3 DEF Pinned

LEMMA PinnedStep ==
    ASSUME Typed, Statuses, Phases, Tabled, Pinned, [Next]_vars
    PROVE  Pinned'
<1> USE RegionKept
<1>1. CASE StartBatch
    <2>1. UNCHANGED <<call, pins, store, half, asked, drawn, cpc>> /\ touched' = {} /\ store.left = {}
        BY <1>1, StoreIdle DEF StartBatch, procs
    <2>2. \A c \in Pid : cpc[c] = "none" /\ drawn[c] = <<>>
        BY <1>1 DEF StartBatch, Phases, Statuses, Status
    <2>3. \A v \in Var : Honoured(v)'
        <3>1. DOMAIN <<>> = {}
            OBVIOUS
        <3> QED BY <1>1, <2>1, <2>2, <3>1, NothingBegun DEF Honoured
    <2>4. \A v \in Var : Sure(v)' <=> Sure(v)
        BY <2>1 DEF Sure
    <2>5. Asked'
        BY <2>1, <2>4 DEF Pinned, Asked
    <2> QED BY <2>3, <2>5 DEF Pinned
<1>2. CASE ForkChild
    <2>1. PICK c \in Pid, s \in Slot :
              /\ c = FreePid /\ s = forks \div K /\ drawn[c] = <<>>
              /\ \A t \in Slot : t * K < forks + 1 <=> Begun(t) \/ t = s
              /\ forks % K = 0 <=> ~ Begun(s)
        BY <1>2, ForkFacts DEF Statuses, Status
    <2>2. /\ UNCHANGED <<call, pins, store, half, asked, touched, drawn, lo>>
          /\ cpc' = [cpc EXCEPT ![c] = "lo"] /\ forks' = forks + 1
          /\ IF forks % K = 0 THEN tab' = [tab EXCEPT ![s] = NoTab] ELSE tab' = tab
        BY <1>2, <2>1 DEF ForkChild, shared, history
    <2>3. \A d \in Pid : cpc'[d] = "hi" => cpc[d] = "hi"
        BY <2>2 DEF Typed
    <2>4. \A t \in Slot : Begun(t)' <=> Begun(t) \/ t = s
        BY <2>1, <2>2 DEF Begun
    <2>5. ASSUME NEW v \in 1..call.draws, NEW t \in Slot, Begun(t)'
          PROVE  tab'[t][v] = Unset \/ (Begun(t) /\ tab'[t] = tab[t])
        <3>1. CASE t = s /\ ~ Begun(s)
            <4>1. tab' = [tab EXCEPT ![s] = NoTab]
                BY <2>1, <2>2, <3>1
            <4>2. tab'[t] = NoTab
                BY <3>1, <4>1 DEF Typed
            <4> QED BY <4>2 DEF NoTab
        <3>2. CASE ~ (t = s /\ ~ Begun(s))
            <4>1. Begun(t)
                BY <2>4, <2>5, <3>2
            <4>2. CASE t # s
                BY <2>2, <4>1, <4>2 DEF Typed
            <4>3. CASE t = s
                <5>1. ~ (forks % K = 0)
                    BY <2>1, <4>1, <4>3
                <5> QED BY <2>2, <4>1, <5>1
            <4> QED BY <4>2, <4>3
        <3> QED BY <3>1, <3>2
    <2>6. \A v \in Var : v <= call.draws => v \in 1..call.draws
        BY CallFacts DEF Typed, Var
    <2>7. ASSUME NEW v \in Var, Honoured(v) PROVE Honoured(v)'
        BY <2>2, <2>3, <2>5, <2>6, <2>7 DEF Honoured
    <2> QED BY <2>2, <2>7, PinnedFrame
<1>3. ASSUME NEW c \in Pid, ReadLo(c) PROVE Pinned'
    <2>1. /\ UNCHANGED <<call, pins, store, half, asked, touched, drawn, tab, forks>>
          /\ lo'[c] = Lo(pins, store, Len(drawn[c]) + 1)
          /\ \A d \in Pid : d # c => cpc'[d] = cpc[d] /\ lo'[d] = lo[d]
        BY <1>3 DEF ReadLo, tuner, shared, history, Typed
    <2>2. \A t \in Slot : Begun(t)' <=> Begun(t)
        BY <2>1 DEF Begun
    <2>3. ASSUME NEW v \in Var, Sure(v), pins.lo[v] = asked[v].x, Honoured(v) PROVE Honoured(v)'
        <3>1. v = Len(drawn[c]) + 1 => lo'[c] = asked[v].x
            BY <2>1, <2>3 DEF Lo, Sure
        <3> QED BY <2>1, <2>2, <2>3, <3>1 DEF Honoured
    <2> QED BY <2>1, <2>3, PinnedFrame
<1>4. ASSUME NEW c \in Pid, Draw(c) PROVE Pinned'
    <2>1. PICK v \in 1..call.draws : v = Len(drawn[c]) + 1
        BY <1>4, DrawFacts
    <2>2. slot[c] \in Slot /\ Begun(slot[c])
        BY <1>4, DrawFacts
    <2>3. PICK x \in Nat : /\ tab[slot[c]][v] \in {Unset, x}
                           /\ tab[slot[c]][v] = Unset => x \in Between(lo[c], Hi(pins, store, v))
                           /\ tab' = [tab EXCEPT ![slot[c]][v] = x]
                           /\ drawn' = [drawn EXCEPT ![c] = Append(@, x)]
        BY <1>4, <2>1, DrawFacts
    <2>4. /\ UNCHANGED <<call, pins, store, half, asked, touched, forks, lo>> /\ cpc[c] = "hi" /\ cpc'[c] # "hi"
          /\ \A d \in Pid : d # c => cpc'[d] = cpc[d]
        BY <1>4 DEF Draw, tuner, history, Typed
    <2>5. \A t \in Slot : Begun(t)' <=> Begun(t)
        BY <2>4 DEF Begun
    <2>6. /\ drawn[c] \in Seq(Nat) /\ drawn'[c] = Append(drawn[c], x)
          /\ \A d \in Pid : d # c => drawn'[d] = drawn[d]
        BY <2>3 DEF Typed
    <2>7. /\ DOMAIN drawn'[c] = DOMAIN drawn[c] \cup {v} /\ drawn'[c][v] = x
          /\ \A w \in DOMAIN drawn[c] : drawn'[c][w] = drawn[c][w]
        BY <2>1, <2>6
    <2>8. /\ tab'[slot[c]][v] = x
          /\ \A t \in Slot : \A w \in 1..call.draws : t # slot[c] \/ w # v => tab'[t][w] = tab[t][w]
        <3>1. \A t \in Slot : tab[t] \in [1..call.draws -> Value]
            BY DEF Typed, Table
        <3> QED BY <2>2, <2>3, <3>1 DEF Typed
    <2>9. ASSUME NEW w \in Var, Sure(w), pins.hi[w] = asked[w].x, Honoured(w) PROVE Honoured(w)'
        <3>1. ASSUME w = v PROVE x = asked[w].x
            <4>1. lo[c] = asked[w].x /\ tab[slot[c]][v] \in {Unset, asked[w].x} /\ asked[w].x # Unset
                <5>1. w <= call.draws
                    BY <2>1, <3>1, CallFacts DEF Typed
                <5> QED BY <2>1, <2>2, <2>4, <2>9, <3>1, <5>1 DEF Honoured, Sure
            <4>2. Hi(pins, store, v) = asked[w].x /\ lo[c] \in Nat
                BY <2>4, <2>9, <3>1, <4>1 DEF Hi, Statuses, Status
            <4>3. Between(lo[c], Hi(pins, store, v)) = {asked[w].x}
                BY <4>1, <4>2 DEF Between
            <4> QED BY <2>3, <4>1, <4>3
        <3>2. ASSUME NEW d \in Pid
              PROVE  /\ w \in DOMAIN drawn'[d] => drawn'[d][w] = asked[w].x
                     /\ cpc'[d] = "hi" /\ w = Len(drawn'[d]) + 1 => lo'[d] = asked[w].x
            <4>1. CASE d = c
                BY <2>4, <2>7, <2>9, <3>1, <4>1 DEF Honoured
            <4>2. CASE d # c
                BY <2>4, <2>6, <2>9, <4>2 DEF Honoured
            <4> QED BY <4>1, <4>2
        <3>3. ASSUME w <= call.draws, NEW t \in Slot, Begun(t) PROVE tab'[t][w] \in {Unset, asked[w].x}
            <4>1. w \in 1..call.draws
                BY <3>3, CallFacts DEF Typed, Var
            <4> QED BY <2>8, <2>9, <3>1, <3>3, <4>1 DEF Honoured
        <3> QED BY <2>4, <2>5, <3>2, <3>3 DEF Honoured
    <2> QED BY <2>4, <2>9, PinnedFrame
<1>5. ASSUME UNCHANGED <<call, pins, store, half, asked, touched, tab, forks>>,
             \A d \in Pid : /\ drawn'[d] \in {drawn[d], <<>>} /\ lo'[d] \in {lo[d], Unset}
                            /\ cpc'[d] = "hi" => cpc[d] = "hi" /\ drawn'[d] = drawn[d] /\ lo'[d] = lo[d]
      PROVE  Pinned'
    <2>1. \A t \in Slot : Begun(t)' <=> Begun(t)
        BY <1>5 DEF Begun
    <2>2. DOMAIN <<>> = {}
        OBVIOUS
    <2>3. ASSUME NEW v \in Var, Honoured(v) PROVE Honoured(v)'
        BY <1>5, <2>1, <2>2, <2>3 DEF Honoured
    <2> QED BY <1>5, <2>3, PinnedFrame
<1>6. CASE BatchForked \/ BatchDone \/ UNCHANGED vars
    BY <1>5, <1>6 DEF BatchForked, BatchDone, vars, tuner, shared, procs, history
<1>7. ASSUME NEW c \in Pid, CheckFail(c) \/ Validate(c) \/ Deliver(c) PROVE Pinned'
    BY <1>5, <1>7 DEF CheckFail, Validate, Deliver, Exits, tuner, shared, history, Typed
<1>8. ASSUME NEW c \in Pid, ReapOther(c) \/ ReapResult(c) PROVE Pinned'
    BY <1>5, <1>8 DEF ReapOther, ReapResult, Reap, shared, history, Typed
<1>9. CASE Accept \/ Reject
    <2>1. /\ UNCHANGED <<call, pins, store, asked, touched, tab, forks, drawn, lo, cpc>> /\ half'.named = {}
        BY <1>9 DEF Accept, Reject, Decided, NoPin, shared, procs
    <2>2. \A v : (Sure(v)' <=> Sure(v)) /\ (Honoured(v)' <=> Honoured(v))
        BY <2>1 DEF Sure, Honoured, Begun
    <2>3. Asked'
        BY <2>1, <2>2 DEF Pinned, Asked
    <2> QED BY <2>1, <2>2, <2>3 DEF Pinned
<1>10. CASE Pin
    <2>1. UNCHANGED <<call, tab, forks, drawn, lo, cpc>>
        BY <1>10, PinFrame DEF shared, procs
    <2>2. ASSUME NEW v \in Var \ touched', Sure(v)' PROVE Honoured(v)'
        <3>1. asked'[v] = asked[v] /\ v \notin touched
            BY <1>10, PinStep
        <3>2. Sure(v)
            BY <2>2, <3>1 DEF Sure
        <3>3. Honoured(v)
            BY <3>1, <3>2 DEF Pinned
        <3> QED BY <2>1, <3>1, <3>3 DEF Honoured, Begun
    <2> QED BY <1>10, <2>2, PinStep DEF Pinned
<1>11. CASE Storing
    <2>1. UNCHANGED <<call, tab, forks, drawn, lo, cpc, asked, touched>>
        BY <1>11, PinFrame, StoringFacts DEF shared, procs
    <2>2. \A v \in Var : (Sure(v)' <=> Sure(v)) /\ (Honoured(v)' <=> Honoured(v))
        BY <2>1 DEF Sure, Honoured, Begun
    <2>3. Asked'
        BY <1>11, AskedStored DEF Pinned
    <2> QED BY <2>1, <2>2, <2>3 DEF Pinned
<1> QED BY <1>1, <1>2, <1>3, <1>4, <1>6, <1>7, <1>8, <1>9, <1>10, <1>11 DEF Next

-----------------------------------------------------------------------------
\* The processes of a slot have different folds.
LEMMA FoldsFrame ==
    ASSUME Folds, UNCHANGED <<call, forks, fold>>,
           \A c \in Pid : cpc'[c] = "none" <=> cpc[c] = "none", slot' = slot
    PROVE  Folds'
BY DEF Folds, K

LEMMA FoldsStep ==
    ASSUME Typed, Statuses, Phases, Tabled, Folds, [Next]_vars
    PROVE  Folds'
<1> USE RegionKept
<1>1. CASE StartBatch
    <2>1. \A c \in Pid : cpc[c] = "none"
        BY <1>1 DEF StartBatch, Phases
    <2> QED BY <1>1, <2>1 DEF StartBatch, Folds, procs
<1>2. CASE ForkChild
    <2>1. PICK c \in Pid, s \in Slot : c = FreePid /\ s = forks \div K
        BY <1>2, ForkFacts
    <2>2. /\ cpc' = [cpc EXCEPT ![c] = "lo"] /\ slot' = [slot EXCEPT ![c] = s]
          /\ fold' = [fold EXCEPT ![c] = forks % K] /\ forks' = forks + 1
        BY <1>2, <2>1 DEF ForkChild
    <2>3. /\ K \in Nat /\ K > 0 /\ forks \in Nat /\ s \in Nat
          /\ forks % K \in 0..(K - 1) /\ forks = (s * K) + (forks % K)
        <3>1. K \in Nat /\ K > 0 /\ forks \in Nat
            BY CallFacts DEF Typed
        <3>2. s \in Nat /\ forks % K \in Nat /\ forks % K < K /\ forks = (s * K) + (forks % K)
            BY <2>1, <3>1, Quotient
        <3> QED BY <3>1, <3>2
    <2> DEFINE g == forks % K
    <2>4. /\ cpc'[c] = "lo" /\ slot'[c] = s /\ fold'[c] = g
          /\ \A d \in Pid : d # c => cpc'[d] = cpc[d] /\ slot'[d] = slot[d] /\ fold'[d] = fold[d]
        BY <2>2 DEF Typed, Folds
    <2>5. fold' \in [Pid -> (-1)..(K - 1)]
        BY <2>2, <2>3 DEF Folds
    <2> HIDE DEF g
    <2>6. ASSUME NEW d \in Pid, cpc'[d] # "none"
          PROVE  fold'[d] \in 0..(K - 1) /\ (slot'[d] * K) + fold'[d] < forks'
        <3>1. CASE d = c
            <4>1. (s * K) + g < forks + 1
                BY <2>3 DEF g
            <4> QED BY <2>2, <2>3, <2>4, <3>1, <4>1 DEF g
        <3>2. CASE d # c
            <4>1. cpc[d] # "none" /\ slot[d] \in Slot
                BY <2>4, <2>6, <3>2 DEF Statuses, Status
            <4>2. fold[d] \in 0..(K - 1) /\ (slot[d] * K) + fold[d] < forks
                BY <4>1 DEF Folds
            <4>3. slot[d] \in Nat
                BY <4>1, PidsFinite DEF Typed
            <4>4. slot[d] * K \in Nat
                BY <2>3, <4>3
            <4> QED BY <2>2, <2>3, <2>4, <3>2, <4>2, <4>4
        <3> QED BY <3>1, <3>2
    <2>7. ASSUME NEW d \in Pid, d # c PROVE ~ (slot'[d] = s /\ fold'[d] = g)
        <3> SUFFICES ASSUME slot[d] = s, fold[d] = g PROVE FALSE
            BY <2>4, <2>7
        <3>1. cpc[d] # "none"
            <4>1. s # None
                BY <2>3 DEF None
            <4> QED BY <4>1 DEF Statuses, Status
        <3>2. (s * K) + g < forks
            BY <3>1 DEF Folds
        <3> QED BY <2>3, <3>2 DEF g
    <2>8. ASSUME NEW d \in Pid, NEW e \in Pid, cpc'[d] # "none", slot'[d] = slot'[e], fold'[d] = fold'[e]
          PROVE  d = e
        <3>1. CASE d = c \/ e = c
            BY <2>4, <2>7, <2>8, <3>1
        <3>2. CASE d # c /\ e # c
            BY <2>4, <2>8, <3>2 DEF Folds
        <3> QED BY <3>1, <3>2
    <2> QED BY <2>5, <2>6, <2>8 DEF Folds
<1>3. CASE BatchForked \/ BatchDone \/ Accept \/ Reject \/ Pin \/ Storing \/ UNCHANGED vars
    <2>1. UNCHANGED <<call, forks, fold, cpc, slot>>
        BY <1>3, DecidedFrame, PinFrame DEF BatchForked, BatchDone, procs, vars, tuner
    <2> QED BY <2>1, FoldsFrame
<1>4. ASSUME NEW c \in Pid, ReadLo(c) \/ Draw(c) \/ CheckFail(c) \/ Validate(c) \/ Deliver(c)
      PROVE  Folds'
    <2>1. UNCHANGED <<call, forks, fold, slot>>
        BY <1>4 DEF ReadLo, Draw, CheckFail, Validate, Deliver, tuner
    <2>2. cpc[c] # "none" /\ cpc'[c] # "none" /\ \A d \in Pid : d # c => cpc'[d] = cpc[d]
        BY <1>4 DEF ReadLo, Draw, CheckFail, Validate, Deliver, Exits, Typed
    <2> QED BY <2>1, <2>2, FoldsFrame
<1>5. ASSUME NEW c \in Pid, ReapOther(c) \/ ReapResult(c) PROVE Folds'
    <2>1. /\ cpc'[c] = "none" /\ slot'[c] = None /\ fold' = [fold EXCEPT ![c] = None] /\ forks' = forks
          /\ \A d \in Pid : d # c => cpc'[d] = cpc[d] /\ slot'[d] = slot[d]
        BY <1>5 DEF ReapOther, ReapResult, Reap, Typed
    <2>2. fold' \in [Pid -> (-1)..(K - 1)] /\ \A d \in Pid : d # c => fold'[d] = fold[d]
        <3>1. None \in (-1)..(K - 1)
            BY CallFacts DEF Typed, None
        <3> QED BY <2>1, <3>1 DEF Folds
    <2>3. \A d \in Pid : cpc[d] # "none" => slot[d] # None
        BY PidsFinite DEF Typed, Statuses, Status, None
    <2>4. ASSUME NEW d \in Pid, NEW e \in Pid, cpc'[d] # "none", slot'[d] = slot'[e], fold'[d] = fold'[e]
          PROVE  d = e
        <3>1. d # c /\ e # c
            BY <2>1, <2>3, <2>4
        <3> QED BY <2>1, <2>2, <2>4, <3>1 DEF Folds
    <2> QED BY <2>1, <2>2, <2>4 DEF Folds
<1> QED BY <1>1, <1>2, <1>3, <1>4, <1>5 DEF Next

-----------------------------------------------------------------------------
\* Sets of folds, one more at a time.
LEMMA FoldSets ==
    ASSUME call \in Calls, NEW V \in SUBSET (0..(K - 1))
    PROVE  /\ V \subseteq Nat /\ Cardinality(V) \in 0..K
           /\ Cardinality(V) = K => V = 0..(K - 1)
           /\ \A g \in 0..(K - 1) : g \notin V => /\ Cardinality(V \cup {g}) = Cardinality(V) + 1
                                                  /\ Cardinality(V) < K
<1>1. K \in Nat /\ K > 0 /\ 0 \in Int /\ K - 1 \in Int
    BY CallFacts
<1>2. IsFiniteSet(0..(K - 1)) /\ Cardinality(0..(K - 1)) = K
    <2> HIDE DEF K
    <2>1. /\ IsFiniteSet(0..(K - 1))
          /\ Cardinality(0..(K - 1)) = IF 0 > K - 1 THEN 0 ELSE K - 1 - 0 + 1
        BY <1>1, FS_Interval
    <2> QED BY <1>1, <2>1
<1>3. ASSUME NEW W \in SUBSET (0..(K - 1))
      PROVE  /\ IsFiniteSet(W) /\ Cardinality(W) \in Nat /\ Cardinality(W) <= K
             /\ Cardinality(W) = K => W = 0..(K - 1)
    <2> HIDE DEF K
    <2>1. IsFiniteSet(W) /\ Cardinality(W) <= Cardinality(0..(K - 1))
        BY <1>2, FS_Subset
    <2>2. Cardinality(W) = Cardinality(0..(K - 1)) => W = 0..(K - 1)
        BY <1>2, FS_Subset
    <2> QED BY <1>2, <2>1, <2>2, FS_CardinalityType
<1>4. V \subseteq Nat
    BY <1>1
<1>5. ASSUME NEW g \in 0..(K - 1), g \notin V
      PROVE  Cardinality(V \cup {g}) = Cardinality(V) + 1 /\ Cardinality(V) < K
    <2>1. Cardinality(V \cup {g}) = Cardinality(V) + 1
        BY <1>3, <1>5, FS_AddElement
    <2>2. Cardinality(V) # K
        BY <1>3, <1>5
    <2>3. Cardinality(V) \in Nat /\ Cardinality(V) <= K
        BY <1>3
    <2> QED BY <1>1, <2>1, <2>2, <2>3
<1>6. Cardinality(V) \in Nat /\ Cardinality(V) <= K /\ (Cardinality(V) = K => V = 0..(K - 1))
    BY <1>3
<1>7. Cardinality(V) \in 0..K
    BY <1>1, <1>6
<1> QED BY <1>4, <1>5, <1>6, <1>7

\* Every line is validated in exactly one fold, for data of any length
\* (SamplingIO.c, sioCVInit, which rounds the size of a fold up).
LEMMA LinesDivided ==
    ASSUME call \in Calls
    PROVE  /\ \A l \in Line : \E f \in 0..(K - 1) : l \in Validates(f)
           /\ \A f, g \in Nat : \A l \in Validates(f) \cap Validates(g) : f = g
<1> DEFINE n == call.lines
           F == FoldSize
<1>1. K \in Nat /\ K > 0 /\ n \in Nat /\ \A l \in Line : l \in Nat /\ l < n
    BY CallFacts DEF Line
<1>2. F \in Nat /\ n <= F * K
    <2> DEFINE q == n \div K
               r == n % K
    <2>1. q \in Nat /\ r \in Nat /\ r < K /\ n = (q * K) + r
        BY <1>1, Quotient
    <2>2. F = IF r = 0 THEN q ELSE q + 1
        BY DEF FoldSize
    <2> HIDE DEF q, r, n, F
    <2>3. (q + 1) * K = (q * K) + K /\ q * K \in Nat
        BY <1>1, <2>1
    <2>4. CASE r = 0
        BY <1>1, <2>1, <2>2, <2>3, <2>4
    <2>5. CASE r # 0
        BY <1>1, <2>1, <2>2, <2>3, <2>5
    <2> QED BY <2>4, <2>5
<1>3. \A f, l : l \in Validates(f) <=> l \in Line /\ F * f <= l /\ l < F * (f + 1)
    BY DEF Validates
<1> HIDE DEF n, F
<1>4. \A f \in Nat : F * f \in Nat /\ F * (f + 1) = (F * f) + F /\ F * f = f * F
    BY <1>2
<1>5. ASSUME NEW f \in Nat, NEW g \in Nat, NEW l \in Validates(f) \cap Validates(g) PROVE ~ (f < g)
    <2>1. f < g => (f * F) + F <= g * F
        BY <1>2, Monotone
    <2>2. l \in Nat /\ F * g <= l /\ l < F * (f + 1)
        BY <1>1, <1>3
    <2>3. /\ F * f \in Nat /\ F * g \in Nat /\ F * f = f * F /\ F * g = g * F
          /\ F * (f + 1) = (F * f) + F
        BY <1>4
    <2> QED BY <1>2, <2>1, <2>2, <2>3
<1>6. ASSUME NEW l \in Line PROVE \E f \in 0..(K - 1) : l \in Validates(f)
    <2>1. l \in Nat /\ l < n
        BY <1>1
    <2>2. F > 0
        <3> SUFFICES ASSUME F = 0 PROVE FALSE
            BY <1>2
        <3>1. F * K = 0
            BY <1>1
        <3> QED BY <1>1, <1>2, <2>1, <3>1
    <2> DEFINE f == l \div F
    <2>3. f \in Nat /\ l % F \in Nat /\ l % F < F /\ l = (f * F) + (l % F)
        BY <1>2, <2>1, <2>2, Quotient
    <2> HIDE DEF f
    <2>4. F * f \in Nat /\ F * (f + 1) = (F * f) + F /\ F * f = f * F /\ F * K = K * F
        BY <1>1, <1>2, <1>4, <2>3
    <2>5. l \in Validates(f)
        BY <1>2, <1>3, <2>1, <2>3, <2>4
    <2>6. f < K
        <3> SUFFICES ASSUME ~ (f < K) PROVE FALSE
            OBVIOUS
        <3>1. K < f \/ K = f
            BY <1>1, <2>3
        <3>2. K * F <= f * F
            <4>1. K < f => (K * F) + F <= f * F
                BY <1>1, <1>2, <2>3, Monotone
            <4>2. K * F \in Nat
                BY <1>1, <1>2
            <4> QED BY <1>2, <2>4, <3>1, <4>1, <4>2
        <3>3. K * F \in Nat
            BY <1>1, <1>2
        <3> QED BY <1>1, <1>2, <2>1, <2>3, <2>4, <3>2, <3>3
    <2> QED BY <1>1, <2>3, <2>5, <2>6
<1>7. ASSUME NEW f \in Nat, NEW g \in Nat, NEW l \in Validates(f) \cap Validates(g) PROVE f = g
    BY <1>5
<1> QED BY <1>6, <1>7
\* The sum of a slot is not disturbed by what happens in other slots.
LEMMA AddsFrame ==
    ASSUME Typed, NEW s \in Slot, NEW V \in SUBSET Nat, Adds(s, V),
           call' = call, forks' \in Nat, forks <= forks',
           rem'[s] = rem[s], error'[s].count = error[s].count,
           \A c \in Pid : slot'[c] = s => /\ slot[c] = s /\ fold'[c] = fold[c]
                                          /\ Validated(c)' <=> Validated(c)
    PROVE  Adds(s, V)'
<1>1. K' = K /\ Line' = Line /\ \A f : Validates(f)' = Validates(f)
    BY DEF K, Line, Validates, FoldSize
<1>2. \A f \in V : (s * K) + f < forks'
    <2> TAKE f \in V
    <2>1. s \in Nat /\ K \in Nat /\ forks \in Nat /\ f \in Nat
        BY CallFacts, PidsFinite DEF Typed
    <2>2. (s * K) + f < forks /\ s * K \in Nat
        BY <2>1 DEF Adds
    <2> QED BY <2>1, <2>2
<1> QED BY <1>1, <1>2 DEF Adds

LEMMA ErrorsFrame ==
    ASSUME Typed, Errors, UNCHANGED <<call, forks, rem, error>>,
           \A c \in Pid : bin'[c] \in {NoBin, bin[c]},
           \A c \in Pid : slot'[c] \in Slot => /\ slot[c] = slot'[c] /\ fold'[c] = fold[c]
                                               /\ Validated(c)' <=> Validated(c)
                                               /\ cpc'[c] = "last" <=> cpc[c] = "last"
    PROVE  Errors'
<1>1. K' = K /\ Slot' = Slot /\ Exact' = Exact /\ NoBin' = NoBin /\ \A s \in Slot : Begun(s)' <=> Begun(s)
    BY DEF K, Slot, Exact, Line, NoBin, Begun
<1>2. ASSUME NEW s \in Slot, Begun(s) PROVE \E V \in SUBSET (0..(K - 1)) : Adds(s, V)'
    <2>1. PICK V \in SUBSET (0..(K - 1)) : Adds(s, V)
        BY <1>2 DEF Errors
    <2>2. V \subseteq Nat /\ forks \in Nat
        BY FoldSets DEF Typed
    <2>3. Adds(s, V)'
        BY <2>1, <2>2, AddsFrame
    <2> QED BY <2>3
<1>3. ASSUME NEW s \in Slot, Begun(s), rem[s] > 0 \/ \E c \in In({"last"})' : slot'[c] = s
      PROVE  error'[s].over = 1
    <2>1. (\E c \in In({"last"})' : slot'[c] = s) => \E c \in In({"last"}) : slot[c] = s
        BY DEF In
    <2> QED BY <1>3, <2>1 DEF Errors
<1> QED BY <1>1, <1>2, <1>3 DEF Errors

\* The first of a sample begins a sum, the others find theirs unchanged.
LEMMA ErrorsForked ==
    ASSUME Typed, Statuses, Phases, Tabled, Folds, Errors, ForkChild, [Next]_vars
    PROVE  Errors'
<1> USE RegionKept
<1>1. PICK c \in Pid, s \in Slot :
          /\ c = FreePid /\ s = forks \div K /\ cpc[c] = "none" /\ status[c] = None
          /\ (\A t \in Slot : t * K < forks + 1 <=> Begun(t) \/ t = s)
          /\ forks % K = 0 <=> ~ Begun(s)
    BY ForkFacts DEF Statuses, Status
<1>2. /\ cpc' = [cpc EXCEPT ![c] = "lo"] /\ slot' = [slot EXCEPT ![c] = s]
      /\ fold' = [fold EXCEPT ![c] = forks % K] /\ forks' = forks + 1
      /\ UNCHANGED <<status, bin>>
      /\ IF forks % K = 0
         THEN rem' = [rem EXCEPT ![s] = K] /\ error' = [error EXCEPT ![s] = NoError]
         ELSE UNCHANGED <<rem, error>>
    BY <1>1 DEF ForkChild, files, shared
<1>3. K \in Nat /\ K > 0 /\ forks \in Nat /\ s \in Nat /\ forks = (s * K) + (forks % K) /\ forks % K \in Nat
    <2>1. K \in Nat /\ K > 0 /\ forks \in Nat
        BY CallFacts DEF Typed
    <2> QED BY <1>1, <2>1, Quotient
<1>4. /\ cpc'[c] = "lo" /\ slot'[c] = s /\ fold'[c] = forks % K /\ status'[c] = None /\ ~ Validated(c)'
      /\ \A d \in Pid : d # c => /\ cpc'[d] = cpc[d] /\ slot'[d] = slot[d] /\ fold'[d] = fold[d]
                                 /\ status'[d] = status[d] /\ (Validated(d)' <=> Validated(d))
    BY <1>1, <1>2 DEF Typed, Folds, Validated, None
<1>5. \A t \in Slot : Begun(t)' <=> Begun(t) \/ t = s
    BY <1>1, <1>2 DEF Begun
<1>6. \A t \in Slot : t # s => rem'[t] = rem[t] /\ error'[t] = error[t]
    BY <1>2 DEF Typed
<1>7. NoError.over = 1 /\ NoError.count = [l \in Line |-> 0]
    BY DEF NoError
<1>8. CASE Begun(s)
    <2>1. rem' = rem /\ error' = error
        BY <1>1, <1>2, <1>8
    <2>2. \A t \in Slot : Begun(t)' <=> Begun(t)
        BY <1>5, <1>8
    <2>3. ASSUME NEW t \in Slot, Begun(t) PROVE \E V \in SUBSET (0..(K - 1)) : Adds(t, V)'
        <3>1. PICK V \in SUBSET (0..(K - 1)) : Adds(t, V)
            BY <2>3 DEF Errors
        <3>2. V \subseteq Nat /\ forks' \in Nat /\ forks <= forks'
            BY <1>2, <1>3, FoldSets DEF Typed
        <3>3. CASE t # s
            <4>1. Adds(t, V)'
                BY <1>4, <2>1, <3>1, <3>2, <3>3, AddsFrame
            <4> QED BY <4>1
        <3>4. CASE t = s
            <4>1. fold'[c] \notin V
                <5>1. \A f \in V : (s * K) + f < forks
                    BY <3>1, <3>4 DEF Adds
                <5>2. ~ ((s * K) + (forks % K) < forks)
                    BY <1>3
                <5> QED BY <1>4, <5>1, <5>2
            <4>2. \A d \in Pid : slot'[d] = s => (fold'[d] \in V <=> Validated(d)')
                BY <1>4, <3>1, <3>4, <4>1 DEF Adds
            <4>3. \A f \in V : (s * K) + f < forks'
                <5> TAKE f \in V
                <5>1. (s * K) + f < forks /\ s * K \in Nat /\ f \in Nat
                    BY <1>3, <3>1, <3>2, <3>4 DEF Adds
                <5> QED BY <1>2, <1>3, <5>1
            <4>4. \A f : Validates(f)' = Validates(f)
                BY DEF Validates, FoldSize, K, Line
            <4>5. Adds(s, V)'
                BY <2>1, <3>1, <3>4, <4>2, <4>3, <4>4 DEF Adds
            <4> QED BY <3>4, <4>5
        <3> QED BY <3>3, <3>4
    <2>4. \A t \in Slot : (\E d \in In({"last"})' : slot'[d] = t) => \E d \in In({"last"}) : slot[d] = t
        BY <1>4 DEF In
    <2>5. Exact' = Exact
        BY DEF Exact
    <2> QED BY <1>2, <2>1, <2>2, <2>3, <2>4, <2>5 DEF Errors
<1>9. CASE ~ Begun(s)
    <2>1. rem' = [rem EXCEPT ![s] = K] /\ error' = [error EXCEPT ![s] = NoError]
        BY <1>1, <1>2, <1>9
    <2>2. rem'[s] = K /\ error'[s].over = 1 /\ error'[s].count = [l \in Line |-> 0]
        BY <1>7, <2>1 DEF Typed
    <2>3. rem' \in [Slot -> 0..K] /\ \A t \in Slot : error'[t].over \in {1, K}
        BY <1>3, <1>6, <2>1, <2>2 DEF Errors
    <2>4. Adds(s, {})'
        <3>1. \A d \in Pid : slot'[d] = s => ~ Validated(d)'
            <4> SUFFICES ASSUME NEW d \in Pid, slot'[d] = s, d # c PROVE FALSE
                BY <1>4
            <4>1. slot[d] = s /\ s # None
                BY <1>3, <1>4 DEF None
            <4>2. Begun(s)
                BY <4>1 DEF Statuses, Status
            <4> QED BY <1>9, <4>2
        <3>2. Cardinality({}) + K = K
            BY <1>3, FS_EmptySet
        <3> QED BY <2>2, <3>1, <3>2 DEF Adds
    <2>5. ASSUME NEW t \in Slot, Begun(t)' PROVE \E V \in SUBSET (0..(K - 1)) : Adds(t, V)'
        <3>1. CASE t = s
            BY <2>4, <3>1
        <3>2. CASE t # s
            <4>1. PICK V \in SUBSET (0..(K - 1)) : Adds(t, V)
                BY <1>5, <2>5, <3>2 DEF Errors
            <4>2. V \subseteq Nat /\ forks' \in Nat /\ forks <= forks'
                BY <1>2, <1>3, FoldSets DEF Typed
            <4>3. Adds(t, V)'
                BY <1>4, <1>6, <3>2, <4>1, <4>2, AddsFrame
            <4> QED BY <4>3
        <3> QED BY <3>1, <3>2
    <2>6. ASSUME NEW t \in Slot, Begun(t)', rem'[t] > 0 \/ \E d \in In({"last"})' : slot'[d] = t
          PROVE  error'[t].over = 1
        <3>1. CASE t = s
            BY <2>2, <3>1
        <3>2. CASE t # s
            <4>1. (\E d \in In({"last"})' : slot'[d] = t) => \E d \in In({"last"}) : slot[d] = t
                BY <1>4 DEF In
            <4> QED BY <1>5, <1>6, <2>6, <3>2, <4>1 DEF Errors
        <3> QED BY <3>1, <3>2
    <2>7. Exact' = Exact
        BY DEF Exact
    <2> QED BY <1>2, <2>3, <2>5, <2>6, <2>7 DEF Errors
<1> QED BY <1>8, <1>9
\* A process that has not added its error is missing in the sum of its slot.
LEMMA NotLast ==
    ASSUME Typed, Statuses, Folds, Errors, NEW c \in Pid, cpc[c] = "aggregate"
    PROVE  /\ slot[c] \in Slot /\ Begun(slot[c]) /\ fold[c] \in 0..(K - 1)
           /\ rem[slot[c]] \in 1..K /\ error[slot[c]].over = 1
           /\ \A V \in SUBSET (0..(K - 1)) : Adds(slot[c], V) => fold[c] \notin V
<1>1. slot[c] \in Slot /\ Begun(slot[c]) /\ status[c] = None
    BY DEF Statuses, Status
<1>2. fold[c] \in 0..(K - 1)
    BY DEF Folds
<1>3. ~ Validated(c)
    BY <1>1 DEF Validated, None
<1>4. \A V \in SUBSET (0..(K - 1)) : Adds(slot[c], V) => fold[c] \notin V
    BY <1>3 DEF Adds
<1>5. PICK V \in SUBSET (0..(K - 1)) : Adds(slot[c], V)
    BY <1>1 DEF Errors
<1>6. Cardinality(V) \in Nat /\ Cardinality(V) < K
    <2>1. call \in Calls /\ K \in Nat /\ fold[c] \notin V
        BY <1>4, <1>5, CallFacts DEF Typed
    <2>2. Cardinality(V) < K /\ Cardinality(V) \in 0..K
        BY <1>2, <2>1, FoldSets
    <2> QED BY <2>1, <2>2
<1>7. K \in Nat /\ rem[slot[c]] \in 0..K /\ Cardinality(V) + rem[slot[c]] = K
    BY <1>1, <1>5, CallFacts DEF Typed, Errors, Adds
<1>8. rem[slot[c]] \in 1..K
    BY <1>6, <1>7
<1>9. rem[slot[c]] > 0
    BY <1>7, <1>8
<1>10. error[slot[c]].over = 1
    BY <1>1, <1>9 DEF Errors
<1> QED BY <1>1, <1>2, <1>4, <1>8, <1>10

\* A process adds its error and counts itself off.
LEMMA ErrorsAdded ==
    ASSUME Typed, Statuses, Folds, Errors, NEW c \in Pid, Validate(c), [Next]_vars
    PROVE  Errors'
<1> USE RegionKept
<1>1. cpc[c] = "aggregate"
    BY DEF Validate
<1>2. PICK s \in Slot : s = slot[c] /\ Begun(s) /\ rem[s] \in 1..K /\ error[s].over = 1
    BY <1>1, NotLast
<1>3. /\ rem' = [rem EXCEPT ![s] = @ - 1]
      /\ error' = [error EXCEPT ![s].count =
                       [l \in Line |-> @[l] + (IF l \in Validates(fold[c]) THEN 1 ELSE 0)]]
      /\ \/ cpc'[c] = "last"
         \/ cpc'[c] = "exited" /\ status'[c] = 3
      /\ UNCHANGED <<forks, slot, fold, bin>>
      /\ \A d \in Pid : d # c => cpc'[d] = cpc[d] /\ status'[d] = status[d]
    BY <1>2 DEF Validate, Exits, Typed, tuner, files
<1>4. K \in Nat /\ K > 0 /\ rem[s] \in Nat /\ rem'[s] = rem[s] - 1 /\ rem'[s] \in 0..K
    <2>1. K \in Nat /\ K > 0 /\ rem'[s] = rem[s] - 1
        BY <1>3, CallFacts DEF Typed
    <2> QED BY <1>2, <2>1
<1>5. /\ error'[s].over = error[s].over
      /\ error'[s].count = [l \in Line |-> error[s].count[l] + (IF l \in Validates(fold[c]) THEN 1 ELSE 0)]
    BY <1>3 DEF Typed
<1>6. \A t \in Slot : t # s => rem'[t] = rem[t] /\ error'[t] = error[t]
    BY <1>3 DEF Typed
<1>7. /\ Validated(c)'
      /\ \A d \in Pid : d # c => (Validated(d)' <=> Validated(d)) /\ (cpc'[d] = "last" <=> cpc[d] = "last")
    BY <1>3 DEF Validated
<1>8. rem' \in [Slot -> 0..K] /\ \A t \in Slot : error'[t].over \in {1, K}
    BY <1>2, <1>3, <1>4, <1>5, <1>6 DEF Errors
<1>9. \A t \in Slot : Begun(t)' <=> Begun(t)
    BY <1>3 DEF Begun
<1>10. \A f : Validates(f)' = Validates(f)
    BY DEF Validates, FoldSize, K, Line
<1>11. \E V \in SUBSET (0..(K - 1)) : Adds(s, V)'
    <2>1. PICK V \in SUBSET (0..(K - 1)) : Adds(s, V)
        BY <1>2 DEF Errors
    <2>2. PICK g \in 0..(K - 1) : g = fold[c] /\ g \notin V
        BY <1>1, <1>2, <2>1, NotLast
    <2>3. call \in Calls /\ V \subseteq Nat /\ g \in Nat /\ Cardinality(V) \in Nat
        BY <1>4, <2>2, FoldSets DEF Typed
    <2>4. PICK W \in SUBSET (0..(K - 1)) : W = V \cup {g}
        BY <2>2
    <2>5. Cardinality(W) + rem'[s] = K
        <3>1. Cardinality(W) = Cardinality(V) + 1
            BY <2>2, <2>3, <2>4, FoldSets
        <3>2. Cardinality(V) + rem[s] = K
            BY <2>1 DEF Adds
        <3> QED BY <1>4, <2>3, <3>1, <3>2
    <2>6. error'[s].count = [l \in Line |-> IF \E f \in W : l \in Validates(f) THEN 1 ELSE 0]
        <3>1. error[s].count = [l \in Line |-> IF \E f \in V : l \in Validates(f) THEN 1 ELSE 0]
            BY <2>1 DEF Adds
        <3>2. ASSUME NEW l \in Line
              PROVE  error[s].count[l] + (IF l \in Validates(g) THEN 1 ELSE 0)
                        = IF \E f \in W : l \in Validates(f) THEN 1 ELSE 0
            <4>1. error[s].count[l] = IF \E f \in V : l \in Validates(f) THEN 1 ELSE 0
                BY <3>1
            <4>2. l \in Validates(g) => ~ \E f \in V : l \in Validates(f)
                BY <2>2, <2>3, LinesDivided
            <4>3. CASE l \in Validates(g)
                BY <2>4, <4>1, <4>2, <4>3
            <4>4. CASE l \notin Validates(g)
                <5>1. (\E f \in W : l \in Validates(f)) <=> \E f \in V : l \in Validates(f)
                    BY <2>4, <4>4
                <5> QED BY <4>1, <4>4, <5>1
            <4> QED BY <4>3, <4>4
        <3>3. error'[s].count = [l \in Line |-> error[s].count[l] + (IF l \in Validates(g) THEN 1 ELSE 0)]
            BY <1>5, <2>2
        <3> QED BY <3>2, <3>3
    <2>7. \A f \in W : (s * K) + f < forks'
        <3>1. (s * K) + g < forks
            BY <1>1, <1>2, <2>2 DEF Folds
        <3> QED BY <1>3, <2>1, <2>4, <3>1 DEF Adds
    <2>8. \A d \in Pid : slot'[d] = s => (fold'[d] \in W <=> Validated(d)')
        <3> TAKE d \in Pid
        <3>1. CASE d = c
            BY <1>3, <1>7, <2>2, <2>4, <3>1
        <3>2. CASE d # c /\ slot[d] = s
            <4>1. fold[d] # g
                BY <1>1, <1>2, <2>2, <3>2 DEF Folds
            <4> QED BY <1>3, <1>7, <2>1, <2>4, <3>2, <4>1 DEF Adds
        <3> QED BY <1>3, <3>1, <3>2
    <2>9. Adds(s, W)'
        BY <1>10, <2>5, <2>6, <2>7, <2>8 DEF Adds
    <2> QED BY <2>9
<1>12. ASSUME NEW t \in Slot, Begun(t) PROVE \E V \in SUBSET (0..(K - 1)) : Adds(t, V)'
    <2>1. CASE t = s
        BY <1>11, <2>1
    <2>2. CASE t # s
        <3>1. PICK V \in SUBSET (0..(K - 1)) : Adds(t, V)
            BY <1>12 DEF Errors
        <3>2. V \subseteq Nat /\ forks' \in Nat /\ forks <= forks'
            BY <1>3, FoldSets DEF Typed
        <3>3. Adds(t, V)'
            BY <1>2, <1>3, <1>6, <1>7, <2>2, <3>1, <3>2, AddsFrame
        <3> QED BY <3>3
    <2> QED BY <2>1, <2>2
<1>13. ASSUME NEW t \in Slot, Begun(t), rem'[t] > 0 \/ \E d \in In({"last"})' : slot'[d] = t
       PROVE  error'[t].over = 1
    <2>1. CASE t = s
        BY <1>2, <1>5, <2>1
    <2>2. CASE t # s
        <3>1. (\E d \in In({"last"})' : slot'[d] = t) => \E d \in In({"last"}) : slot[d] = t
            BY <1>2, <1>3, <2>2 DEF In
        <3> QED BY <1>6, <1>13, <2>2, <3>1 DEF Errors
    <2> QED BY <2>1, <2>2
<1>14. Exact' = Exact
    BY DEF Exact
<1> QED BY <1>3, <1>8, <1>9, <1>12, <1>13, <1>14 DEF Errors

\* When the last process delivers, the sum is complete and not divided yet.
LEMMA Complete ==
    ASSUME Typed, Statuses, Samples, Errors, NEW c \in Delivered
    PROVE  /\ c \in Pid /\ slot[c] \in Slot /\ Begun(slot[c])
           /\ Adds(slot[c], 0..(K - 1))
           /\ error[slot[c]].count = [l \in Line |-> 1]
<1>1. c \in Pid /\ slot[c] \in Slot /\ Begun(slot[c]) /\ rem[slot[c]] <= 0
    BY DEF Delivered, Statuses, Status, None, Samples
<1>2. PICK V \in SUBSET (0..(K - 1)) : Adds(slot[c], V)
    BY <1>1 DEF Errors
<1>3. K \in Nat /\ rem[slot[c]] \in 0..K /\ Cardinality(V) \in 0..K /\ Cardinality(V) + rem[slot[c]] = K
    BY <1>1, <1>2, CallFacts, FoldSets DEF Typed, Errors, Adds
<1>4. Cardinality(V) = K
    BY <1>1, <1>3
<1>5. V = 0..(K - 1)
    BY <1>4, FoldSets DEF Typed
<1>6. error[slot[c]].count = [l \in Line |-> IF \E f \in 0..(K - 1) : l \in Validates(f) THEN 1 ELSE 0]
    BY <1>2, <1>5 DEF Adds
<1>7. \A l \in Line : \E f \in 0..(K - 1) : l \in Validates(f)
    BY LinesDivided DEF Typed
<1> QED BY <1>1, <1>2, <1>5, <1>6, <1>7

LEMMA ErrorsDelivered ==
    ASSUME Typed, Statuses, Samples, Errors, NEW c \in Pid, Deliver(c), [Next]_vars
    PROVE  Errors'
<1> USE RegionKept
<1>1. cpc[c] = "last" /\ c \in Delivered
    BY DEF Deliver, Delivered
<1>2. PICK s \in Slot : s = slot[c] /\ Begun(s) /\ error[s].count = [l \in Line |-> 1]
    BY <1>1, Complete
<1>3. /\ error' = [error EXCEPT ![s].over = @ * K] /\ bin' = [bin EXCEPT ![c] = error'[s]]
      /\ cpc'[c] = "exited" /\ status'[c] = 0
      /\ UNCHANGED <<forks, slot, fold, rem>>
      /\ \A d \in Pid : d # c => cpc'[d] = cpc[d] /\ status'[d] = status[d]
    BY <1>2 DEF Deliver, Exits, Typed
<1>4. K \in Nat /\ K > 0 /\ error[s].over = 1 /\ rem[s] \in 0..K /\ ~ (rem[s] > 0)
    <2>1. K \in Nat /\ K > 0 /\ rem[s] \in 0..K /\ rem[s] <= 0
        BY <1>1, <1>2, CallFacts DEF Typed, Errors, Samples
    <2>2. error[s].over = 1
        BY <1>1, <1>2 DEF Errors, In
    <2> QED BY <2>1, <2>2
<1>5. error'[s] = [error[s] EXCEPT !.over = 1 * K] /\ DOMAIN error[s] = {"count", "over"}
    BY <1>3, <1>4 DEF Typed
<1>6. error'[s].over = K /\ error'[s].count = [l \in Line |-> 1]
    BY <1>2, <1>4, <1>5
<1>7. error'[s] = Exact
    BY <1>2, <1>4, <1>5 DEF Exact
<1>8. \A t \in Slot : error'[t].count = error[t].count /\ (t # s => error'[t].over = error[t].over)
    BY <1>3 DEF Typed
<1>9. \A d \in Pid : Validated(d)' <=> Validated(d)
    BY <1>1, <1>3 DEF Validated
<1>10. \A t \in Slot : Begun(t)' <=> Begun(t)
    BY <1>3 DEF Begun
<1>11. ASSUME NEW t \in Slot, Begun(t) PROVE \E V \in SUBSET (0..(K - 1)) : Adds(t, V)'
    <2>1. PICK V \in SUBSET (0..(K - 1)) : Adds(t, V)
        BY <1>11 DEF Errors
    <2>2. V \subseteq Nat /\ forks' \in Nat /\ forks <= forks'
        BY <1>3, FoldSets DEF Typed
    <2>3. Adds(t, V)'
        BY <1>3, <1>8, <1>9, <2>1, <2>2, AddsFrame
    <2> QED BY <2>3
<1>12. ASSUME NEW t \in Slot, Begun(t), rem[t] > 0 \/ \E d \in In({"last"})' : slot'[d] = t
       PROVE  error'[t].over = 1
    <2>1. ASSUME NEW d \in In({"last"})', slot'[d] = t PROVE d \in In({"last"}) /\ d # c /\ t # s
        <3>1. d \in Pid /\ d # c /\ cpc[d] = "last"
            BY <1>3 DEF In
        <3>2. d \in Delivered
            BY <3>1 DEF Delivered
        <3>3. slot[d] # slot[c]
            BY <1>1, <3>1, <3>2 DEF Samples
        <3> QED BY <1>2, <1>3, <2>1, <3>1, <3>3 DEF In
    <2>2. t # s
        BY <1>4, <1>12, <2>1
    <2>3. rem[t] > 0 \/ \E d \in In({"last"}) : slot[d] = t
        BY <1>3, <1>12, <2>1
    <2> QED BY <1>8, <1>12, <2>2, <2>3 DEF Errors
<1>13. Exact' = Exact
    BY DEF Exact
<1>14. \A d \in Pid : bin'[d] # NoBin => bin'[d] = Exact
    BY <1>3, <1>7 DEF Errors, Typed
<1>15. \A t \in Slot : error'[t].over \in {1, K}
    BY <1>6, <1>8 DEF Errors
<1>16. rem' \in [Slot -> 0..K]
    BY <1>3 DEF Errors
<1> QED BY <1>3, <1>10, <1>11, <1>12, <1>13, <1>14, <1>15, <1>16 DEF Errors

LEMMA ErrorsStep ==
    ASSUME Typed, Statuses, Phases, Tabled, Samples, Folds, Errors, [Next]_vars
    PROVE  Errors'
<1> USE RegionKept
<1>1. CASE StartBatch
    <2>1. \A s \in Slot : ~ Begun(s)'
        BY <1>1, NothingBegun
    <2>2. UNCHANGED <<rem, error, bin>> /\ Exact' = Exact
        BY <1>1 DEF StartBatch, shared, files, Exact
    <2> QED BY <2>1, <2>2 DEF Errors
<1>2. CASE BatchForked \/ BatchDone \/ Accept \/ Reject \/ Pin \/ Storing \/ UNCHANGED vars
    <2>1. /\ UNCHANGED <<call, forks, rem, error, cpc, slot, fold, status>>
          /\ \A c \in Pid : bin'[c] \in {NoBin, bin[c]}
        BY <1>2, DecidedFrame, PinFrame
        DEF BatchForked, BatchDone, Accept, Reject, vars, tuner, shared, procs, files, Typed
    <2> QED BY <2>1, ErrorsFrame DEF Validated
<1>3. ASSUME NEW c \in Pid, ReadLo(c) \/ Draw(c) \/ CheckFail(c) \/ ReapOther(c) \/ ReapResult(c)
      PROVE  Errors'
    <2>1. UNCHANGED <<call, forks, rem, error, bin>>
        BY <1>3 DEF ReadLo, Draw, CheckFail, ReapOther, ReapResult, Reap, tuner, shared, files
    <2>2. ASSUME NEW d \in Pid, d # c
          PROVE  cpc'[d] = cpc[d] /\ slot'[d] = slot[d] /\ fold'[d] = fold[d] /\ status'[d] = status[d]
        BY <1>3, <2>2 DEF ReadLo, Draw, CheckFail, ReapOther, ReapResult, Reap, Exits, Typed, Folds
    <2>3. CASE ReapOther(c) \/ ReapResult(c)
        <3>1. slot'[c] = None /\ None \notin Slot
            BY <2>3, PidsFinite DEF ReapOther, ReapResult, Reap, Typed, None
        <3> QED BY <2>1, <2>2, <3>1, ErrorsFrame DEF Validated
    <2>4. CASE ReadLo(c) \/ Draw(c) \/ CheckFail(c)
        <3>1. /\ slot' = slot /\ fold' = fold /\ cpc[c] # "last" /\ cpc'[c] # "last"
              /\ status[c] = None /\ status'[c] \in {None, 1}
            BY <2>4 DEF ReadLo, Draw, CheckFail, Exits, Typed, Statuses, Status
        <3> QED BY <2>1, <2>2, <3>1, ErrorsFrame DEF Validated, None
    <2> QED BY <1>3, <2>3, <2>4
<1> QED BY <1>1, <1>2, <1>3, ErrorsForked, ErrorsAdded, ErrorsDelivered DEF Next

-----------------------------------------------------------------------------
\* Bounds are convex: a value between two of a variable's is one of them.
LEMMA Convex ==
    ASSUME NEW v \in Var, NEW x \in Nat, NEW y \in Nat, InBounds(v, x), InBounds(v, y),
           NEW z \in Between(x, y)
    PROVE  InBounds(v, z)
<1>1. Bounds(v) \subseteq Nat
    BY BoundsNamed
<1>2. PICK a, b, d, e \in Bounds(v) : a <= x /\ x <= b /\ d <= y /\ y <= e
    BY DEF InBounds
<1>3. (x <= z /\ z <= y) \/ (y <= z /\ z <= x)
    BY DEF Between
<1>4. z \in Nat
    BY DEF Between
<1>5. (a <= z /\ z <= e) \/ (d <= z /\ z <= b)
    BY <1>1, <1>2, <1>3, <1>4
<1> QED BY <1>2, <1>5 DEF InBounds

LEMMA Ends ==
    ASSUME Typed, NEW v \in Var, InRange(v)
    PROVE  /\ ~ TornLo(pins, store, v) => InBounds(v, Lo(pins, store, v))
           /\ ~ TornHi(pins, store, v) => InBounds(v, Hi(pins, store, v))
<1>1. StaticLo[v] \in Bounds(v) /\ StaticHi[v] \in Bounds(v)
    BY DEF Bounds
<1>2. InBounds(v, StaticLo[v]) /\ InBounds(v, StaticHi[v])
    BY <1>1, BoundsNamed
<1> QED BY <1>2 DEF InRange, Within, Lo, Hi

LEMMA RangesStep ==
    ASSUME Typed, Statuses, Phases, Tabled, Ranges, [Next]_vars
    PROVE  Ranges'
<1> SUFFICES ASSUME NEW v \in Var, v \notin torn' PROVE InRange(v)'
    BY DEF Ranges
<1> USE RegionKept
<1>1. CASE StartBatch \/ BatchForked \/ BatchDone \/ Accept \/ UNCHANGED vars
    <2>1. UNCHANGED <<pins, store, tab, parm, cpc, lo, drawn, torn>>
        BY <1>1, DecidedFrame
        DEF StartBatch, BatchForked, BatchDone, Accept, vars, tuner, shared, procs, files, history
    <2> QED BY <2>1 DEF Ranges, InRange
<1>2. CASE ForkChild
    <2>1. PICK c \in Pid, s \in Slot : c = FreePid /\ s = forks \div K
        BY <1>2, ForkFacts
    <2>2. /\ cpc' = [cpc EXCEPT ![c] = "lo"] /\ UNCHANGED <<pins, store, parm, lo, drawn, torn>>
          /\ tab' = [tab EXCEPT ![s] = NoTab] \/ tab' = tab
        BY <1>2, <2>1 DEF ForkChild, files, shared, history
    <2>3. \A t \in Slot : tab'[t] \in {tab[t], NoTab}
        BY <2>2 DEF Typed
    <2>4. v <= call.draws => Within(v, NoTab[v])
        <3>1. v <= call.draws => v \in 1..call.draws
            BY CallFacts DEF Typed, Var
        <3> QED BY <3>1 DEF NoTab, Within
    <2>5. \A d \in Pid : cpc'[d] = "hi" => cpc[d] = "hi"
        BY <2>2 DEF Typed
    <2>6. InRange(v)
        BY <2>2 DEF Ranges
    <2> QED BY <2>2, <2>3, <2>4, <2>5, <2>6 DEF InRange
<1>3. ASSUME NEW c \in Pid, ReadLo(c) PROVE InRange(v)'
    <2> DEFINE w == Len(drawn[c]) + 1
    <2>1. w \in Var
        BY <1>3, VariableOf DEF ReadLo
    <2>2. /\ UNCHANGED <<pins, store, tab, parm, drawn>> /\ lo'[c] = Lo(pins, store, w)
          /\ \A d \in Pid : d # c => cpc'[d] = cpc[d] /\ lo'[d] = lo[d]
          /\ v \notin torn /\ (w = v => ~ TornLo(pins, store, v))
        BY <1>3 DEF ReadLo, tuner, shared, files, Typed
    <2>3. InRange(v)
        BY <2>2 DEF Ranges
    <2>4. v = w => InBounds(v, lo'[c])
        BY <2>2, <2>3, Ends
    <2> HIDE DEF w
    <2>5. \A d \in Pid : cpc'[d] = "hi" /\ v = Len(drawn'[d]) + 1 => InBounds(v, lo'[d])
        BY <2>2, <2>3, <2>4 DEF InRange, w
    <2> QED BY <2>2, <2>3, <2>5 DEF InRange
<1>4. ASSUME NEW c \in Pid, Draw(c) PROVE InRange(v)'
    <2> DEFINE w == Len(drawn[c]) + 1
    <2>1. w \in 1..call.draws /\ w \in Var /\ slot[c] \in Slot
        BY <1>4, DrawFacts
    <2>2. PICK x \in Nat : /\ tab[slot[c]][w] \in {Unset, x}
                           /\ tab[slot[c]][w] = Unset => x \in Between(lo[c], Hi(pins, store, w))
                           /\ tab' = [tab EXCEPT ![slot[c]][w] = x]
                           /\ drawn' = [drawn EXCEPT ![c] = Append(@, x)]
        BY <1>4, DrawFacts
    <2>3. /\ UNCHANGED <<pins, store, parm, lo>> /\ cpc[c] = "hi" /\ cpc'[c] # "hi"
          /\ \A d \in Pid : d # c => cpc'[d] = cpc[d] /\ drawn'[d] = drawn[d]
          /\ v \notin torn /\ (w = v => ~ TornHi(pins, store, v))
        BY <1>4, <2>2 DEF Draw, tuner, files, Typed
    <2>4. InRange(v)
        BY <2>3 DEF Ranges
    <2>5. ASSUME w = v PROVE InBounds(v, x)
        <3>1. lo[c] \in Nat /\ InBounds(v, lo[c])
            BY <2>3, <2>4, <2>5 DEF InRange, Statuses, Status
        <3>2. Hi(pins, store, v) \in Nat /\ InBounds(v, Hi(pins, store, v))
            BY <2>3, <2>4, <2>5, Ends, RangeAssumption DEF Typed, Value, Hi
        <3>3. CASE tab[slot[c]][v] = Unset
            BY <2>2, <2>5, <3>1, <3>2, <3>3, Convex
        <3>4. CASE tab[slot[c]][v] # Unset
            <4>1. v <= call.draws
                BY <2>1, <2>5, CallFacts DEF Typed
            <4>2. x = tab[slot[c]][v] /\ Within(v, tab[slot[c]][v])
                BY <2>1, <2>2, <2>4, <2>5, <3>4, <4>1 DEF InRange
            <4> QED BY <3>4, <4>2 DEF Within
        <3> QED BY <3>3, <3>4
    <2> HIDE DEF w
    <2>6. \A s \in Slot : v <= call.draws => tab'[s][v] = tab[s][v] \/ (w = v /\ tab'[s][v] = x)
        <3>1. \A s \in Slot : tab[s] \in [1..call.draws -> Value]
            BY DEF Typed, Table
        <3>2. v <= call.draws => v \in 1..call.draws
            BY CallFacts DEF Typed, Var
        <3> QED BY <2>1, <2>2, <3>1, <3>2 DEF Typed
    <2>7. v <= call.draws => \A s \in Slot : Within(v, tab'[s][v])
        BY <2>4, <2>5, <2>6 DEF InRange, Within
    <2>8. \A d \in Pid : cpc'[d] = "hi" /\ v = Len(drawn'[d]) + 1 => InBounds(v, lo'[d])
        BY <2>3, <2>4 DEF InRange
    <2> QED BY <2>3, <2>4, <2>7, <2>8 DEF InRange
<1>5. ASSUME NEW c \in Pid, CheckFail(c) \/ Validate(c) PROVE InRange(v)'
    <2>1. /\ UNCHANGED <<pins, store, tab, parm, lo, drawn, torn>>
          /\ \A d \in Pid : cpc'[d] = "hi" => cpc[d] = "hi"
        BY <1>5 DEF CheckFail, Validate, Exits, tuner, shared, files, history, Typed
    <2> QED BY <2>1 DEF Ranges, InRange
<1>6. ASSUME NEW c \in Pid, Deliver(c) PROVE InRange(v)'
    <2>1. slot[c] \in Slot /\ DOMAIN tab[slot[c]] = 1..call.draws
        BY <1>6 DEF Deliver, Statuses, Status, Typed, Table
    <2>2. /\ UNCHANGED <<pins, store, tab, lo, drawn, torn>>
          /\ \A d \in Pid : cpc'[d] = "hi" => cpc[d] = "hi"
          /\ \A d \in Pid : parm'[d] \in {parm[d], tab[slot[c]]}
        BY <1>6 DEF Deliver, Exits, history, Typed
    <2>3. InRange(v)
        BY <2>2 DEF Ranges
    <2>4. v \in 1..call.draws => Within(v, tab[slot[c]][v])
        <3>1. v \in 1..call.draws => v <= call.draws
            BY CallFacts DEF Typed
        <3> QED BY <2>1, <2>3, <3>1 DEF InRange
    <2>5. \A d \in Pid : v \in DOMAIN parm'[d] => Within(v, parm'[d][v])
        BY <2>1, <2>2, <2>3, <2>4 DEF InRange
    <2> QED BY <2>2, <2>3, <2>5 DEF InRange
<1>7. ASSUME NEW c \in Pid, ReapOther(c) \/ ReapResult(c) PROVE InRange(v)'
    <2>1. /\ UNCHANGED <<pins, store, tab, parm, torn>> /\ cpc'[c] = "none"
          /\ \A d \in Pid : d # c => cpc'[d] = cpc[d] /\ lo'[d] = lo[d] /\ drawn'[d] = drawn[d]
        BY <1>7 DEF ReapOther, ReapResult, Reap, shared, files, history, Typed
    <2> QED BY <2>1 DEF Ranges, InRange
<1>8. CASE Reject
    <2>1. /\ UNCHANGED <<pins, store, tab, cpc, lo, drawn, torn>>
          /\ \A c \in Pid : parm'[c] \in {parm[c], <<>>}
        BY <1>8, DecidedFrame DEF Reject, shared, procs, Typed
    <2>2. DOMAIN <<>> = {}
        OBVIOUS
    <2> QED BY <2>1, <2>2 DEF Ranges, InRange
<1>9. CASE Pin
    <2>1. UNCHANGED <<tab, parm, cpc, lo, drawn, pins, torn>>
        BY <1>9, PinFrame, PinTables DEF shared, procs, files
    <2>2. InRange(v)
        BY <2>1 DEF Ranges
    <2>3. PICK named \in SUBSET (1..call.draws), vals \in Table :
              /\ Asks(named, vals)
              /\ \/ \E c \in Pid : vals = parm[c]
                 \/ \A w \in 1..call.draws : vals[w] # Unset => InBounds(w, vals[w])
        BY <1>9, PinTables
    <2>4. /\ store' = Call(store'.end, Affected(named), vals)
          /\ Affected(named) \in SUBSET (1..call.draws) /\ DOMAIN vals = 1..call.draws
        BY <2>3, Started
    <2>5. store'.vals = vals /\ store'.left \subseteq DOMAIN vals
        BY <2>4 DEF Call
    <2>6. v \in store'.left => Within(v, vals[v])
        BY <2>2, <2>3, <2>4, <2>5 DEF InRange, Within
    <2> QED BY <2>1, <2>2, <2>5, <2>6 DEF InRange
<1>10. CASE Storing
    <2>1. UNCHANGED <<tab, parm, cpc, lo, drawn, torn>>
        BY <1>10, PinFrame, StoringFacts DEF shared, procs, files
    <2>2. InRange(v)
        BY <2>1 DEF Ranges
    <2>3. CASE pins' = pins /\ store'.left = store.left /\ store'.vals = store.vals
        BY <2>1, <2>2, <2>3 DEF InRange
    <2>4. ASSUME NEW w \in Var, StoresOne(w) PROVE InRange(v)'
        <3>1. DOMAIN pins.lo = Var /\ DOMAIN pins.hi = Var
            BY DEF Typed
        <3>2. /\ pins'.lo[v] = pins.lo[v] \/ (v \in store.left /\ pins'.lo[v] = store.vals[v])
              /\ pins'.hi[v] = pins.hi[v] \/ (v \in store.left /\ pins'.hi[v] = store.vals[v])
              /\ v \in store'.left => v \in store.left /\ store'.vals = store.vals
            BY <2>4, <3>1 DEF StoresOne
        <3> QED BY <2>1, <2>2, <3>2 DEF InRange
    <2> QED BY <1>10, <2>3, <2>4, StoringFacts
<1> QED BY <1>1, <1>2, <1>3, <1>4, <1>5, <1>6, <1>7, <1>8, <1>9, <1>10 DEF Next

\* The rest: the calls of a callback, and who is named in the table.
LEMMA BoundedStep ==
    ASSUME Typed, Tabled, Bounded, [Next]_vars
    PROVE  Bounded'
<1> USE RegionKept
<1>1. DOMAIN result = 0..call.snum
    BY DEF Tabled
<1>2. CASE \/ StartBatch \/ ForkChild \/ BatchForked \/ BatchDone \/ UNCHANGED vars
           \/ \E c \in Pid : ReadLo(c) \/ Draw(c) \/ CheckFail(c) \/ Validate(c) \/ Deliver(c)
           \/ \E c \in Pid : ReapOther(c)
    <2>1. UNCHANGED <<pinned, result>>
        BY <1>2 DEF StartBatch, ForkChild, BatchForked, BatchDone, vars, ReadLo, Draw, CheckFail, Validate,
                    Deliver, ReapOther, Reap, history, tuner
    <2> QED BY <2>1 DEF Bounded
<1>3. ASSUME NEW c \in Pid, ReapResult(c) PROVE Bounded'
    <2>1. pinned' = pinned /\ result' = [result EXCEPT ![tail] = ReadBin([@ EXCEPT !.pid = c])]
        BY <1>3 DEF ReapResult, Reap, history
    <2>2. ASSUME NEW r \in 0..call.snum PROVE result'[r].pid \in {result[r].pid, c}
        <3>1. DOMAIN result[r] = {"pid", "parm", "bin"}
            BY DEF Tabled
        <3>2. ReadBin([result[r] EXCEPT !.pid = c]).pid = c
            BY <3>1 DEF ReadBin
        <3> QED BY <1>1, <2>1, <3>2
    <2> QED BY <2>1, <2>2 DEF Bounded
<1>4. CASE Accept \/ Reject
    <2>1. pinned' = 0 /\ (result' = result \/ result' = [result EXCEPT ![tail] = NoResult])
        BY <1>4 DEF Accept, Reject, Decided
    <2>2. ASSUME NEW r \in 0..call.snum PROVE result'[r].pid \in {result[r].pid, None}
        <3>1. NoResult.pid = None
            BY DEF NoResult
        <3>2. result'[r] \in {result[r], NoResult}
            BY <1>1, <2>1
        <3> QED BY <3>1, <3>2
    <2>3. 0 \in 0..MaxPins
        BY CallAssumption
    <2> QED BY <2>1, <2>2, <2>3 DEF Bounded
<1>5. CASE Pin
    <2>1. /\ pinned' \in {pinned, pinned + 1}
          /\ pinned' # pinned => pinned < MaxPins
        BY <1>5 DEF Pin, PinLo2Result, PinHi2Result, PinLo, PinHi, LowerEnd, UpperEnd, SetEnd
    <2>2. result' = result \/ \E r : result' = [result EXCEPT ![r] = ReadParm(@)]
        BY <1>5 DEF Pin, PinLo2Result, PinHi2Result, PinLo, PinHi
    <2>3. ASSUME NEW r \in 0..call.snum PROVE result'[r].pid = result[r].pid
        <3>1. DOMAIN result[r] = {"pid", "parm", "bin"}
            BY DEF Tabled
        <3>2. ReadParm(result[r]).pid = result[r].pid
            BY <3>1 DEF ReadParm
        <3> QED BY <1>1, <2>2, <3>2
    <2>4. pinned' \in 0..MaxPins
        BY <2>1, CallAssumption DEF Bounded
    <2> QED BY <2>3, <2>4 DEF Bounded
<1>6. CASE Storing
    BY <1>6, StoringFacts DEF Bounded
<1> QED BY <1>2, <1>3, <1>4, <1>5, <1>6 DEF Next

-----------------------------------------------------------------------------
LEMMA IInvStart == Init => IInv
<1> SUFFICES ASSUME Init PROVE IInv
    OBVIOUS
<1>f. /\ K \in Nat /\ K > 0 /\ call.snum \in Nat /\ call.snum > 0 /\ VarNum \in Nat
      /\ call.sub \in Nat /\ K * call.sub \in Nat /\ call.draws \in Nat /\ call.draws > 0
    BY CallFacts DEF Init
<1>1. Typed
    <2>1. NoPins \in [lo : [Var -> Value], hi : [Var -> Value]] /\ NoTab \in Table
        BY DEF NoPins, NoTab, Table, Value
    <2>2. DOMAIN NoError = {"count", "over"} /\ NoError.over \in Nat \ {0}
        BY DEF NoError
    <2>3. StoreTyped
        BY DEF Init, StoreTyped, NoStore, Call
    <2> QED BY <1>f, <2>1, <2>2, <2>3 DEF Init, Typed, Value
<1>2. Statuses
    BY DEF Init, Statuses, Status, None
<1>3. Agree
    <2>1. Len(<<>>) = 0
        OBVIOUS
    <2> QED BY <1>f, <2>1 DEF Init, Agree
<1>4. Phases
    <2>1. 0 % K = 0
        <3>1. K * 0 = 0
            BY <1>f
        <3> QED BY <1>f, <3>1, Multiple
    <2> QED BY <1>f, <2>1 DEF Init, Phases
<1>5. Tabled
    <2>1. Taken = {}
        BY DEF Init, Taken
    <2> QED BY <1>f, <2>1 DEF Init, Tabled, NoResult
<1>6. Samples
    <2>1. Delivered = {} /\ In({"last"}) = {}
        BY DEF Init, Delivered, In, None
    <2>2. \A s \in Slot : ~ Unfinished(s)
        BY DEF Init, Unfinished, Coming
    <2>3. Open = {} /\ Counted = {}
        BY <2>1, <2>2 DEF Open, Counted
    <2>4. Cardinality(Counted) = 0
        BY <2>3, FS_EmptySet
    <2> QED BY <2>1, <2>4 DEF Init, Samples
<1>7. Pinned
    <2>1. Free \in [x : Value, whole : BOOLEAN] /\ Free.x = Unset
        BY DEF Free, Value
    <2> QED BY <2>1 DEF Init, Pinned, Asked, Sure, NoPin, NoStore, Call
<1>8. Folds
    <2>1. None \in (-1)..(K - 1)
        BY <1>f DEF None
    <2> QED BY <2>1 DEF Init, Folds
<1>9. Errors
    <2>1. \A s \in Slot : ~ Begun(s)
        <3> TAKE s \in Slot
        <3>1. s \in Nat
            BY <1>f DEF Slot
        <3>2. s * K \in Nat
            BY <1>f, <3>1
        <3> QED BY <3>2 DEF Init, Begun
    <2>2. NoError.over = 1
        BY DEF NoError
    <2> QED BY <1>f, <2>1, <2>2 DEF Init, Errors
<1>10. Ranges
    BY CallFacts DEF Init, Ranges, InRange, Within, NoPins, NoTab, NoStore, Call, Var
<1>11. Bounded
    BY CallAssumption DEF Init, Bounded, NoResult
<1> QED BY <1>1, <1>2, <1>3, <1>4, <1>5, <1>6, <1>7, <1>8, <1>9, <1>10, <1>11 DEF IInv

LEMMA IInvStep == IInv /\ [Next]_vars => IInv'
BY TypedStep, StatusesStep, AgreeStep, PhasesStep, TabledStep, SamplesStep, PinnedStep,
   FoldsStep, ErrorsStep, RangesStep, BoundedStep DEF IInv

LEMMA IInvKept == Spec => []IInv
<1> QED BY IInvStart, IInvStep, PTL DEF Spec

-----------------------------------------------------------------------------
\* The processes of a sample compute with the same values, and its result is
\* filed under them (DpLib.c, dpRSI, dpRSF and dpRSD, under cvMtx).
THEOREM EverySampleAgrees == Spec => []SampleAgrees
<1>1. IInv => SampleAgrees
    <2> SUFFICES ASSUME IInv PROVE SampleAgrees
        OBVIOUS
    <2>1. ASSUME NEW c \in Pid, NEW d \in Pid, slot[c] = slot[d],
                 NEW v \in DOMAIN drawn[c] \cap DOMAIN drawn[d]
          PROVE  drawn[c][v] = drawn[d][v]
        <3>1. v \in 1..Len(drawn[c]) /\ v \in 1..Len(drawn[d])
            BY DEF IInv, Typed
        <3> QED BY <2>1, <3>1 DEF IInv, Agree
    <2>2. \A c \in Pid : status[c] = 0 => parm[c] = drawn[c]
        BY DEF IInv, Statuses, Status
    <2> QED BY <2>1, <2>2 DEF SampleAgrees
<1> QED BY <1>1, IInvKept, PTL

\* What a callback sets a variable to is what the processes forked later draw,
\* named variables that is (DpUserApi.c, dpuSetParm and dpuSetParm2Result).
THEOREM EveryPinHolds == Spec => []PinsHold
<1>1. IInv => PinsHold
    <2> SUFFICES ASSUME IInv, NEW c \in Pid, NEW v \in DOMAIN drawn[c] \cap Fixed, ~ asked[v].whole
                 PROVE  drawn[c][v] = asked[v].x
        BY DEF PinsHold
    <2>1. v \in Var \ touched /\ Sure(v)
        BY DEF Fixed, Sure
    <2>2. Honoured(v)
        BY <2>1 DEF IInv, Pinned
    <2> QED BY <2>2 DEF Honoured
<1> QED BY <1>1, IInvKept, PTL

\* The result table holds what the process it names wrote, also after a result
\* was turned down (DpUserApi.c, dpuReadResultBin and dpuReadResultParms).
THEOREM EveryCacheFresh == Spec => []CachesFresh
<1>1. IInv => CachesFresh
    <2> SUFFICES ASSUME IInv, NEW r \in 0..call.snum
                 PROVE  /\ result[r].bin # NoBin => result[r].bin = bin[result[r].pid]
                        /\ result[r].parm # <<>> =>
                              result[r].pid # None /\ result[r].parm = parm[result[r].pid]
        BY DEF CachesFresh
    <2>1. CASE r \in Taken
        <3>1. /\ result[r].pid \in Pid
              /\ result[r].parm \in {<<>>, parm[result[r].pid]}
              /\ result[r].bin \in {NoBin, bin[result[r].pid]}
            BY <2>1 DEF IInv, Tabled
        <3>2. result[r].pid # None
            BY <3>1, PidsFinite DEF IInv, Typed, None
        <3> QED BY <3>1, <3>2
    <2>2. CASE r \notin Taken
        BY <2>2 DEF IInv, Tabled
    <2> QED BY <2>1, <2>2
<1> QED BY <1>1, IInvKept, PTL

\* A sample delivers one result at most, no more are delivered than asked for,
\* none is in the table twice, and syActiveChildNum counts what is to come
\* (SamplingStg.c, sstgStg4).
THEOREM EverySampleCounted == Spec => []SamplesCounted
<1>1. IInv => SamplesCounted
    <2> SUFFICES ASSUME IInv PROVE SamplesCounted
        OBVIOUS
    <2>t. call \in Calls /\ todo \in Nat /\ forks \in Nat /\ tail \in Nat /\ Typed /\ Statuses /\ Samples
        BY DEF IInv, Typed
    <2>1. tail + todo = call.snum
        BY DEF IInv, Tabled
    <2>2. ASSUME ppc \in {"fork", "wait"} PROVE Cardinality(Delivered) <= todo
        <3> DEFINE f == [c \in Delivered |-> slot[c]]
        <3>1. \A c \in Delivered : slot[c] \in Open
            BY <2>t, AskedFor
        <3>2. f \in [Delivered -> Open] /\ \A a, b \in Delivered : f[a] = f[b] => a = b
            BY <2>t, <3>1 DEF Samples
        <3>3. f \in Injection(Delivered, Open)
            <4> HIDE DEF f
            <4> QED BY <3>2 DEF Injection, IsInjective
        <3>4. IsFiniteSet(Open) /\ IsFiniteSet(Pid) /\ Delivered \subseteq Pid
            BY <2>t, OpenFinite, PidsFinite DEF Delivered
        <3>5. Cardinality(Delivered) <= Cardinality(Open) /\ Cardinality(Delivered) \in Nat /\ Cardinality(Open) \in Nat
            <4> HIDE DEF f
            <4>1. Cardinality(Delivered) <= Cardinality(Open)
                BY <3>3, <3>4, FS_Injection
            <4> QED BY <3>4, <4>1, FS_Subset, FS_CardinalityType
        <3>6. Cardinality(Open) <= todo
            BY <2>t, <2>2 DEF Samples
        <3> QED BY <2>t, <3>5, <3>6
    <2>3. ASSUME NEW r \in 0..(tail - 1), NEW q \in 0..(tail - 1), r # q PROVE result[r].pid # result[q].pid
        BY <2>3 DEF IInv, Tabled, Taken
    <2>4. ASSUME NEW s \in Slot PROVE Cardinality({c \in Delivered : slot[c] = s}) <= 1
        <3> DEFINE D == {c \in Delivered : slot[c] = s}
        <3>1. CASE D = {}
            <4>1. Cardinality(D) = 0
                BY <3>1, FS_EmptySet
            <4> QED BY <4>1
        <3>2. CASE D # {}
            <4>1. PICK c \in D : TRUE
                BY <3>2
            <4>2. D = {c}
                BY <2>t, <4>1 DEF Samples
            <4>3. Cardinality(D) = 1
                <5> HIDE DEF D
                <5> QED BY <4>2, FS_Singleton
            <4> QED BY <4>3
        <3> QED BY <3>1, <3>2
    <2>5. ASSUME ppc # "fork"
          PROVE  active = Cardinality({s \in 0..(forks \div K - 1) :
                                           rem[s] > 0 \/ \E c \in In({"last"}) : slot[c] = s})
        <3> DEFINE q == forks \div K
        <3>1. K \in Nat /\ K > 0 /\ call.sub \in Nat /\ K * call.sub \in Nat
            BY <2>t, CallFacts
        <3>2. q \in Nat /\ forks = q * K
            <4>1. q \in Nat /\ forks = (q * K) + (forks % K)
                BY <2>t, <3>1, Quotient
            <4>2. forks % K = 0
                BY <2>5 DEF IInv, Phases
            <4>3. q * K \in Nat
                BY <3>1, <4>1
            <4> HIDE DEF q
            <4> QED BY <4>1, <4>2, <4>3
        <3>3. forks <= K * call.sub
            BY DEF IInv, Phases
        <3> HIDE DEF q
        <3>4. q <= call.sub
            <4> SUFFICES ASSUME ~ (q <= call.sub) PROVE FALSE
                OBVIOUS
            <4>1. call.sub * K + K <= q * K
                BY <3>1, <3>2, Monotone
            <4>2. call.sub * K = K * call.sub /\ q * K \in Nat
                BY <3>1, <3>2
            <4> QED BY <3>1, <3>2, <3>3, <4>1, <4>2
        <3>5. ASSUME NEW s \in Slot PROVE Begun(s) <=> s < q
            <4>1. s \in Nat
                BY <2>t, PidsFinite
            <4>2. s < q => s * K + K <= q * K
                BY <3>1, <3>2, <4>1, Monotone
            <4>3. q < s => q * K + K <= s * K
                BY <3>1, <3>2, <4>1, Monotone
            <4>4. s * K \in Nat /\ q * K \in Nat
                BY <3>1, <3>2, <4>1
            <4> QED BY <3>1, <3>2, <4>1, <4>2, <4>3, <4>4 DEF Begun
        <3>6. 0..(q - 1) = {s \in Slot : s < q}
            BY <3>1, <3>2, <3>4 DEF Slot
        <3>7. \A c \in In({"last"}) : slot[c] \in Slot /\ Begun(slot[c])
            BY <2>t DEF In, Statuses, Status
        <3>8. Counted = {s \in 0..(q - 1) : rem[s] > 0 \/ \E c \in In({"last"}) : slot[c] = s}
            BY <2>5, <3>5, <3>6, <3>7 DEF Counted, Unfinished, Coming
        <3> QED BY <2>t, <3>8 DEF Samples, q
    <2> QED BY <2>1, <2>2, <2>3, <2>4, <2>5 DEF SamplesCounted
<1> QED BY <1>1, IInvKept, PTL

\* The error of a result counts every line of the data once, is divided by the
\* number of folds once, and all K processes of its sample have validated, for
\* any number of folds and data of any length (sioCVInit; DpLib.c, dpAggregate).
THEOREM EveryErrorExact == Spec => []ErrorExact
<1>1. IInv => ErrorExact
    <2> SUFFICES ASSUME IInv PROVE ErrorExact
        OBVIOUS
    <2>1. \A c \in Pid : bin[c] # NoBin => bin[c] = [count |-> [l \in Line |-> 1], over |-> K]
        BY DEF IInv, Errors, Exact
    <2>2. ASSUME NEW c \in Delivered, NEW d \in Pid, slot[c] = slot[d], c # d
          PROVE  status[d] = 3
        <3>1. c \in Pid /\ slot[c] \in Slot /\ Adds(slot[c], 0..(K - 1))
            BY Complete DEF IInv
        <3>2. cpc[d] # "none"
            BY <2>2, <3>1, PidsFinite DEF IInv, Typed, Statuses, Status, None
        <3>3. fold[d] \in 0..(K - 1)
            BY <3>2 DEF IInv, Folds
        <3>4. Validated(d)
            BY <2>2, <3>1, <3>3 DEF Adds
        <3>5. d \notin Delivered
            BY <2>2 DEF IInv, Samples
        <3> QED BY <3>4, <3>5 DEF Validated, Delivered
    <2> QED BY <2>1, <2>2 DEF ErrorExact
<1> QED BY <1>1, IInvKept, PTL

\* The range of a variable and its values stay between the values the program
\* has named for it, in dpRSI (dpRSF, dpRSD) and dpuSetParmLo and dpuSetParmHi,
\* as long as no process reads an end of it between the tID and the value.
THEOREM EveryRangeKept == Spec => []RangesKept
<1>1. IInv => RangesKept
    <2> SUFFICES ASSUME IInv, NEW v \in Var \ torn
                 PROVE  /\ \A x \in {pins.lo[v], pins.hi[v]} : x # Unset => InBounds(v, x)
                        /\ \A c \in Pid : v \in DOMAIN drawn[c] => InBounds(v, drawn[c][v])
        BY DEF RangesKept
    <2>1. InRange(v)
        BY DEF IInv, Ranges
    <2>2. ASSUME NEW c \in Pid, v \in DOMAIN drawn[c] PROVE InBounds(v, drawn[c][v])
        <3>1. drawn[c] \in Seq(Nat) /\ v \in 1..Len(drawn[c]) /\ Len(drawn[c]) \in Nat
            BY <2>2 DEF IInv, Typed
        <3>2. drawn[c][v] = tab[slot[c]][v] /\ Len(drawn[c]) <= call.draws /\ call.draws \in Nat
            BY <3>1, CallFacts DEF IInv, Agree, Typed
        <3>3. drawn[c][v] \in Nat /\ v <= call.draws
            BY <3>1, <3>2
        <3>4. drawn[c] # <<>>
            BY <3>1
        <3>5. slot[c] \in Slot
            BY <3>4 DEF IInv, Statuses, Status
        <3>6. Within(v, drawn[c][v]) /\ drawn[c][v] # Unset
            BY <2>1, <3>2, <3>3, <3>5 DEF InRange, Unset
        <3> QED BY <3>6 DEF Within
    <2> QED BY <2>1, <2>2 DEF InRange, Within
<1> QED BY <1>1, IInvKept, PTL

\* Every variable has values of its type: no count leaves its range, and a
\* dpuSetParm call is one of the callback.
THEOREM EveryValueTyped == Spec => []TypeOK
<1>1. IInv => TypeOK
    <2> SUFFICES ASSUME IInv PROVE TypeOK
        OBVIOUS
    <2>f. /\ call \in Calls /\ K \in Nat /\ K > 0 /\ call.snum \in Nat /\ call.sub \in Nat /\ K * call.sub \in Nat
          /\ call.draws \in Nat /\ call.draws <= VarNum /\ VarNum \in Nat
        BY CallFacts DEF IInv, Typed
    <2>1. todo \in 0..call.snum /\ tail \in 0..call.snum /\ forks \in 0..(K * call.sub)
        BY <2>f DEF IInv, Typed, Tabled, Phases
    <2>2. active \in 0..call.sub
        <3>1. IsFiniteSet(Slot) /\ Cardinality(Slot) = call.sub
            <4>1. 0 \in Int /\ call.sub - 1 \in Int
                BY <2>f
            <4>2. /\ IsFiniteSet(0..(call.sub - 1))
                  /\ Cardinality(0..(call.sub - 1)) = IF 0 > call.sub - 1 THEN 0 ELSE call.sub - 1 - 0 + 1
                BY <4>1, FS_Interval
            <4> QED BY <2>f, <4>2 DEF Slot
        <3>2. Counted \subseteq Slot
            BY DEF Counted
        <3>3. Cardinality(Counted) \in Nat /\ Cardinality(Counted) <= call.sub
            BY <3>1, <3>2, FS_Subset, FS_CardinalityType
        <3> QED BY <2>f, <3>3 DEF IInv, Samples
    <2>3. /\ store.at \in store.left \cup {Unset} /\ (store # NoStore => ppc = "callback")
          /\ \A v \in store.left : store.vals[v] \in Nat \cup {Unset}
        <3>1. StoreTyped
            BY DEF IInv, Typed
        <3>2. ASSUME NEW v \in store.left PROVE store.vals[v] \in Nat \cup {Unset}
            <4>1. v \in DOMAIN store.vals /\ store.vals \in {<<>>} \cup Table
                BY <3>1, <3>2 DEF StoreTyped
            <4>2. DOMAIN <<>> = {}
                OBVIOUS
            <4> QED BY <4>1, <4>2 DEF Table, Value
        <3> QED BY <3>1, <3>2 DEF StoreTyped
    <2>4. ASSUME NEW v \in Var PROVE {pins.lo[v], pins.hi[v]} \subseteq Nat \cup {Unset}
        BY DEF IInv, Typed, Value
    <2>5. tab \in [Slot -> [1..call.draws -> Nat \cup {Unset}]]
        BY DEF IInv, Typed, Table, Value
    <2> QED BY <2>1, <2>2, <2>3, <2>4, <2>5 DEF TypeOK, IInv, Typed, Folds, Errors, Bounded
<1> QED BY <1>1, IInvKept, PTL
=============================================================================
