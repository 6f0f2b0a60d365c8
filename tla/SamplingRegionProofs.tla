------------------------ MODULE SamplingRegionProofs ------------------------
(***************************************************************************)
(* The safety properties of SamplingRegion, for any number of samples,     *)
(* processes and slots, as long as the exit status of a slot does not wrap *)
(* around.                                                                 *)
(***************************************************************************)
EXTENDS SamplingRegion, FiniteSetTheorems, TLAPS

\* The status of the last slot of a batch fits in a byte.
NoWrap == \A n \in SubTodos : ExitBase + n <= ExitMod

-----------------------------------------------------------------------------
\* The inductive invariant: first what is counted ...

\* Pids are handed out in order.
Born == \E n \in 0..MaxForks : \A c \in Pid : cpc[c] = "unborn" <=> c > n

\* What is left of an earlier batch or region when the next one starts.
Phases ==
    /\ ppc = "outside" => In({"unborn"}) = Pid /\ aggregate = EmptyBag
    /\ ppc = "fork" => Cardinality(Unreaped) = forks /\ forks <= todo
    /\ ppc = "sampled" => Unreaped = {}

Counts ==
    /\ Sampling => /\ Len(results) + todo + dropped = SampleNum
                   /\ Cardinality(Unreaped) <= todo
    /\ shmNum + Cardinality(In({"run"})) <= forks

Numbers == TypeOK /\ Born /\ Phases /\ Counts

\* ... then who holds what.
Held(c) == slot[c] \in 0..(shmNum - 1)

Statuses ==
    \A c \in Pid :
        /\ cpc[c] \in {"unborn", "run", "gone"} => slot[c] = None
        /\ cpc[c] = "slot" => Held(c)
        /\ cpc[c] = "exited" =>
              \/ status[c] = 0 /\ slot[c] = None /\ ~ mem /\ c \in files
              \/ status[c] = 1 /\ slot[c] = None
              \/ /\ Held(c) /\ status[c] = ExitBase + slot[c]
                 /\ slot[c] \in Slot => shm[slot[c]] = c

Slots ==
    /\ \A c, d \in Pid : slot[c] # None /\ slot[c] = slot[d] => c = d
    /\ \A c \in Pid : slot[c] \in Slot => ready[slot[c]] = None
    /\ \A s \in Slot : ready[s] # None =>
          /\ s < shmNum
          /\ ready[s] < Len(results)
          /\ results[ready[s] + 1] = Result(shm[s], s)
    /\ ppc \in {"outside", "fork", "sampled"} => ready = NoSlots

Results ==
    Sampling => \A i \in DOMAIN results :
        /\ cpc[results[i].pid] = "gone"
        /\ \A j \in DOMAIN results : results[i].pid = results[j].pid => i = j
        /\ results[i].shmIdx = None => results[i].pid \in files

Counted(p) == \E i \in DOMAIN results : results[i].pid = p
Pending(p) == \E s \in Slot : ready[s] # None /\ shm[s] = p

\* A result is in the aggregate, or its flag is up.
Aggregated ==
    mem /\ Sampling =>
        \A p \in Pid : aggregate[p] = IF Counted(p) /\ ~ Pending(p) THEN 1 ELSE 0

Who == Statuses /\ Slots /\ Results
IInv == Numbers /\ Who /\ Aggregated

-----------------------------------------------------------------------------
LEMMA PidsFinite == IsFiniteSet(Pid) /\ IsFiniteSet(Slot)
<1>1. MaxForks \in Int /\ MaxShm - 1 \in Int /\ 0 \in Int /\ 1 \in Int
    BY SizeAssumption
<1>2. IsFiniteSet(1..MaxForks) /\ IsFiniteSet(0..(MaxShm - 1))
    BY <1>1, FS_Interval
<1> QED BY <1>2 DEF Pid, Slot

LEMMA Sizes ==
    ASSUME NEW S, S \subseteq Pid
    PROVE  Cardinality(S) \in Nat /\ (Cardinality(S) = 0 <=> S = {})
<1>1. IsFiniteSet(S)
    BY PidsFinite, FS_Subset
<1> QED BY <1>1, FS_CardinalityType, FS_EmptySet

LEMMA Counting ==
    ASSUME NEW S, S \subseteq Pid, NEW c \in Pid
    PROVE  /\ c \in S => Cardinality(S \ {c}) = Cardinality(S) - 1
           /\ c \notin S => Cardinality(S \cup {c}) = Cardinality(S) + 1
<1>1. IsFiniteSet(S)
    BY PidsFinite, FS_Subset
<1> QED BY <1>1, FS_AddElement, FS_RemoveElement

\* The constants as numbers.
LEMMA Constants ==
    /\ MaxForks \in Nat /\ MaxRegions \in Nat /\ MaxFail \in Nat
    /\ SampleNum \in Nat /\ SampleNum >= 1 /\ MaxShm \in Nat /\ SubTodos \subseteq Nat \ {0}
    /\ ExitBase \in Nat /\ ExitBase > 2 /\ ExitMod \in Nat /\ ExitMod > ExitBase + MaxShm
    /\ Slot \subseteq Nat /\ Pid \subseteq Nat
BY SizeAssumption, StatusAssumption DEF Slot, Pid

LEMMA Remainder == \A m \in Nat : m > 0 => \A n \in Nat : n % m \in Nat /\ (n < m => n % m = n)
OBVIOUS

-----------------------------------------------------------------------------
\* A process that leaves: CheckFail and WriteFile from "run", WriteSlot from "slot".
LEMMA ExitStep ==
    ASSUME Numbers, NEW c \in Pid, NEW n \in Nat, cpc[c] \in {"run", "slot"}, Exits(c, n),
           UNCHANGED <<Parent, shmNum>>, slot' = slot,
           files' \subseteq Pid, shm' \in [Slot -> Pid \cup {None}]
    PROVE  Numbers'
<1> DEFINE R == In({"run"})
<1>1. TypeOK'
    <2>1. n % ExitMod \in Nat
        BY Constants, Remainder
    <2> QED BY <2>1 DEF Numbers, TypeOK, Exits, Parent, setup
<1>2. Born'
    BY DEF Numbers, TypeOK, Born, Exits
<1>3. Unreaped' = Unreaped /\ R' = R \ {c} /\ UNCHANGED <<ppc, forks, todo, dropped, results, ready, aggregate>>
    BY DEF Numbers, TypeOK, Unreaped, In, Exits, Parent
<1>4. c \notin In({"unborn"}) /\ In({"unborn"}) \subseteq Pid
    BY DEF In
<1>5. Phases'
    BY <1>3, <1>4 DEF Numbers, Phases
<1>6. R \subseteq Pid
    BY DEF In
<1>7. Cardinality(R) \in Nat /\ Cardinality(R \ {c}) \in Nat /\ Cardinality(R \ {c}) <= Cardinality(R)
    <2> HIDE DEF R
    <2>1. c \notin R => R \ {c} = R
        OBVIOUS
    <2>2. Cardinality(R) \in Nat /\ Cardinality(R \ {c}) \in Nat
        BY <1>6, Sizes
    <2> QED BY <2>1, <2>2, <1>6, Counting
<1>8. Counts'
    <2> HIDE DEF R
    <2>1. shmNum' + Cardinality(R') <= forks'
        <3>1. shmNum + Cardinality(R) <= forks
            BY DEF Numbers, Counts, R
        <3> QED BY <3>1, <1>3, <1>7 DEF Numbers, TypeOK
    <2> QED BY <1>3, <2>1 DEF Numbers, Counts, Sampling, R
<1> QED BY <1>1, <1>2, <1>5, <1>8 DEF Numbers

Entry == [pid : Pid, shmIdx : Slot \cup {None}]

\* A reaped process counts for at most one sample, and there is one to do for it.
LEMMA ReapNumbers ==
    ASSUME Numbers, NEW c \in Pid, Reap(c),
           ppc' \in {"wait", "crashed", "fatal"}, failed' \in 0..MaxFail,
           results' \in Seq(Entry), ready' \in [Slot -> Nat \cup {None}],
           todo' \in {todo, todo - 1}, dropped' \in Nat,
           Len(results') + todo' + dropped' = Len(results) + todo + dropped
    PROVE  Numbers'
<1> DEFINE R == In({"run"})
           U == Unreaped
<1>1. /\ c \in U /\ U \subseteq Pid /\ U' = U \ {c} /\ R' = R
      /\ ppc = "wait" /\ Sampling /\ UNCHANGED <<forks, shmNum>>
    BY DEF Reap, Numbers, TypeOK, Unreaped, In, Sampling
<1>2. /\ Cardinality(U) \in Nat /\ Cardinality(U) >= 1
      /\ Cardinality(U \ {c}) = Cardinality(U) - 1 /\ Cardinality(U) <= todo
    <2>1. Cardinality(U) \in Nat /\ Cardinality(U) # 0 /\ Cardinality(U \ {c}) = Cardinality(U) - 1
        BY <1>1, Sizes, Counting
    <2>2. Cardinality(U) <= todo
        BY <1>1 DEF Numbers, Counts
    <2> HIDE DEF U
    <2> QED BY <2>1, <2>2
<1>3. todo' \in Nat /\ Cardinality(U \ {c}) <= todo'
    <2> HIDE DEF U
    <2> QED BY <1>2 DEF Numbers, TypeOK
<1>4. Len(results') + todo' + dropped' = SampleNum
    BY <1>1 DEF Numbers, Counts
<1>5. Len(results') \in Nat
    OBVIOUS
<1>6. todo' \in 0..SampleNum /\ dropped' \in 0..SampleNum
    BY <1>3, <1>4, <1>5, Constants
<1>7. TypeOK'
    BY <1>6 DEF Reap, Numbers, TypeOK, setup, Entry
<1>8. Born'
    BY DEF Numbers, TypeOK, Born, Reap
<1>9. Phases'
    BY DEF Phases
<1>10. Counts'
    BY <1>1, <1>3, <1>4 DEF Numbers, Counts
<1> QED BY <1>7, <1>8, <1>9, <1>10 DEF Numbers

\* What the branches over the exit status do to the numbers.
LEMMA ReapStepNumbers ==
    ASSUME Numbers, NEW c \in Pid, ReapStep(c)
    PROVE  Numbers'
<1>t. results \in Seq(Entry) /\ ready \in [Slot -> Nat \cup {None}]
    BY DEF Numbers, TypeOK, Entry
<1>i. todo \in Int /\ dropped \in Nat /\ Len(results) \in Nat /\ failed \in 0..MaxFail
    BY <1>t DEF Numbers, TypeOK
<1>r. Reap(c)
    BY DEF ReapStep, ReapFile, ReapFailed, ReapShm, ReapShmPastEnd, ReapOther
<1>w. ppc = "wait"
    BY <1>r DEF Reap
<1> USE <1>t, <1>i, <1>r, <1>w
<1>1. ASSUME NEW s \in Slot \cup {None}, Accept(c, s), ready' \in [Slot -> Nat \cup {None}]
      PROVE  Numbers'
    <2>1. Result(c, s) \in Entry
        BY DEF Result, Entry
    <2>2. results' \in Seq(Entry) /\ Len(results') = Len(results) + 1
        BY <1>1, <2>1 DEF Accept
    <2> QED BY <1>1, <2>2, ReapNumbers DEF Accept
<1>2. ASSUME Reject, ready' \in [Slot -> Nat \cup {None}] PROVE Numbers'
    BY <1>2, ReapNumbers DEF Reject
<1>3. CASE ReapFile(c)
    BY <1>1, <1>2, <1>3 DEF ReapFile
<1>4. CASE ReapFailed(c)
    <2>1. CASE failed' = 0 /\ todo' = todo - 1 /\ dropped' = dropped + 1
        <3>1. failed' \in 0..MaxFail
            BY <2>1, Constants
        <3>2. UNCHANGED <<ppc, results, ready>>
            BY <1>4 DEF ReapFailed
        <3> QED BY <2>1, <3>1, <3>2, ReapNumbers
    <2>2. CASE ~ (failed' = 0 /\ todo' = todo - 1 /\ dropped' = dropped + 1)
        <3>1. failed' \in 0..MaxFail
            BY <1>4, <2>2, Constants DEF ReapFailed
        <3>2. UNCHANGED <<ppc, results, ready, todo, dropped>>
            BY <1>4, <2>2 DEF ReapFailed
        <3> QED BY <3>1, <3>2, ReapNumbers
    <2> QED BY <2>1, <2>2
<1>5. CASE ReapShm(c)
    <2> DEFINE s == status[c] - ExitBase
    <2>1. s \in Slot
        BY <1>5 DEF ReapShm
    <2>2. ASSUME ready' = [ready EXCEPT ![s] = Len(results)] \/ ready' = [ready EXCEPT ![s] = None]
          PROVE  ready' \in [Slot -> Nat \cup {None}]
        BY <2>1, <2>2
    <2> QED BY <1>1, <1>2, <1>5, <2>1, <2>2 DEF ReapShm
<1>6. CASE ReapShmPastEnd(c) \/ ReapOther(c)
    <2>1. ppc' \in {"wait", "crashed", "fatal"} /\ UNCHANGED <<todo, failed, results, dropped, ready>>
        BY <1>6 DEF ReapShmPastEnd, ReapOther
    <2> QED BY <2>1, ReapNumbers
<1> QED BY <1>3, <1>4, <1>5, <1>6 DEF ReapStep

-----------------------------------------------------------------------------
\* The pid of a new process is the next one, which nobody has had.
LEMMA NextPid ==
    ASSUME Numbers, NEW c \in Pid, c = Cardinality(Pid \ In({"unborn"})) + 1
    PROVE  \A d \in Pid : cpc[d] = "unborn" <=> d >= c
<1>1. PICK n \in 0..MaxForks : \A d \in Pid : cpc[d] = "unborn" <=> d > n
    BY DEF Numbers, Born
<1>2. Pid \ In({"unborn"}) = 1..n
    BY <1>1, Constants DEF In, Pid
<1>3. Cardinality(1..n) = n
    <2>1. n \in Nat /\ 1 \in Int /\ n \in Int
        BY Constants
    <2>2. Cardinality(1..n) = IF 1 > n THEN 0 ELSE n - 1 + 1
        BY <2>1, FS_Interval
    <2> QED BY <2>1, <2>2
<1>4. n \in Nat /\ c = n + 1
    <2>1. Cardinality(Pid \ In({"unborn"})) = n
        BY <1>2, <1>3
    <2> QED BY <2>1
<1> QED BY <1>1, <1>4 DEF Pid

\* Without anybody in the batch, nobody runs.
LEMMA NobodyLeft ==
    ASSUME Unreaped = {}
    PROVE  In({"run"}) = {} /\ Cardinality(In({"run"})) = 0 /\ Cardinality(Unreaped) = 0
<1>1. In({"run"}) = {}
    BY DEF Unreaped, In
<1> QED BY <1>1, FS_EmptySet

LEMMA TakenInType == ASSUME Numbers PROVE TakenIn \in [Pid -> Nat]
<1>1. ASSUME NEW p \in Pid PROVE Cardinality({s \in ReadySlots : shm[s] = p}) \in Nat
    <2>1. {s \in ReadySlots : shm[s] = p} \subseteq Slot
        BY DEF ReadySlots
    <2> QED BY <2>1, PidsFinite, FS_Subset, FS_CardinalityType
<1> QED BY <1>1 DEF TakenIn, Numbers, TypeOK

LEMMA NumbersStep ==
    ASSUME NoWrap, Numbers, [Next]_vars
    PROVE  Numbers'
<1>1. CASE DpSampling
    <2>1. Unreaped = {} /\ Unreaped' = Unreaped /\ In({"run"})' = In({"run"})
        BY <1>1 DEF DpSampling, Numbers, Phases, Unreaped, In
    <2>2. TypeOK'
        BY <1>1, Constants DEF DpSampling, Numbers, TypeOK, NoSlots
    <2>3. Born'
        BY <1>1 DEF DpSampling, Numbers, Born
    <2>4. Phases' /\ Counts'
        <3>1. Len(<<>>) = 0 /\ Cardinality(Unreaped) = 0 /\ Cardinality(In({"run"})) = 0
            BY <2>1, NobodyLeft
        <3> QED BY <1>1, <2>1, <3>1, Constants DEF DpSampling, Phases, Counts, Sampling
    <2> QED BY <2>2, <2>3, <2>4 DEF Numbers
<1>2. CASE ForkChild
    <2>1. PICK c \in Pid : /\ c = Cardinality(Pid \ In({"unborn"})) + 1
                           /\ cpc' = [cpc EXCEPT ![c] = "run"]
        BY <1>2 DEF ForkChild
    <2>2. \A d \in Pid : cpc[d] = "unborn" <=> d >= c
        BY <2>1, NextPid
    <2>3. forks < todo /\ forks < sub /\ forks' = forks + 1
        <3>1. forks \in Nat /\ todo \in Nat /\ sub \in Nat
            BY Constants DEF Numbers, TypeOK
        <3> QED BY <1>2, <3>1 DEF ForkChild, Batch
    <2>4. TypeOK'
        BY <1>2, <2>1, <2>3, Constants DEF ForkChild, Numbers, TypeOK, setup
    <2>5. Born'
        <3>1. \A d \in Pid : cpc'[d] = "unborn" <=> d > c
            <4> TAKE d \in Pid
            <4>1. c \in Nat /\ d \in Nat
                BY Constants
            <4>2. CASE d = c
                BY <2>1, <4>1, <4>2 DEF Numbers, TypeOK
            <4>3. CASE d # c
                <5>1. cpc'[d] = cpc[d]
                    BY <2>1, <4>3 DEF Numbers, TypeOK
                <5> QED BY <2>2, <4>1, <4>3, <5>1
            <4> QED BY <4>2, <4>3
        <3> QED BY <3>1, Constants DEF Born, Pid
    <2>6. /\ c \notin Unreaped /\ Unreaped' = Unreaped \cup {c}
          /\ c \notin In({"run"}) /\ In({"run"})' = In({"run"}) \cup {c}
          /\ Unreaped \subseteq Pid /\ In({"run"}) \subseteq Pid
        BY <2>1, <2>2, Constants DEF Unreaped, In, Numbers, TypeOK
    <2>7. /\ Cardinality(Unreaped') = Cardinality(Unreaped) + 1
          /\ Cardinality(In({"run"})') = Cardinality(In({"run"})) + 1
          /\ Cardinality(In({"run"})) \in Nat
        BY <2>6, Counting, Sizes
    <2>8. Phases'
        BY <1>2, <2>3, <2>7 DEF ForkChild, Numbers, TypeOK, Phases
    <2>9. Counts'
        <3>1. Cardinality(Unreaped') <= todo
            BY <1>2, <2>3, <2>7 DEF ForkChild, Numbers, TypeOK, Phases
        <3>2. shmNum + Cardinality(In({"run"})') <= forks + 1
            BY <2>7 DEF Numbers, TypeOK, Counts
        <3> QED BY <1>2, <2>3, <3>1, <3>2 DEF ForkChild, Numbers, Counts, Sampling
    <2> QED BY <2>4, <2>5, <2>8, <2>9 DEF Numbers
<1>3. CASE BatchForked
    <2>1. TypeOK' /\ Born'
        BY <1>3 DEF BatchForked, Numbers, TypeOK, Born, setup, children
    <2>2. UNCHANGED <<Unreaped, In({"run"})>>
        BY <1>3 DEF BatchForked, children, Unreaped, In
    <2>3. Phases' /\ Counts'
        BY <1>3, <2>2 DEF BatchForked, Numbers, Phases, Counts, Sampling, children
    <2> QED BY <2>1, <2>3 DEF Numbers
<1>4. ASSUME NEW c \in Pid, CheckFail(c) PROVE Numbers'
    BY <1>4, ExitStep DEF CheckFail, Numbers, TypeOK
<1>5. ASSUME NEW c \in Pid, WriteFile(c) PROVE Numbers'
    <2>1. files' \subseteq Pid
        BY <1>5 DEF WriteFile, Numbers, TypeOK
    <2> QED BY <1>5, <2>1, ExitStep DEF WriteFile, Numbers, TypeOK
<1>6. ASSUME NEW c \in Pid, TakeSlot(c) PROVE Numbers'
    <2>1. TypeOK' /\ Born'
        BY <1>6 DEF TakeSlot, Numbers, TypeOK, Born, Parent, setup
    <2>2. /\ Unreaped' = Unreaped /\ In({"run"})' = In({"run"}) \ {c} /\ c \in In({"run"})
          /\ UNCHANGED <<ppc, forks, todo, dropped, results, ready, aggregate>>
          /\ In({"run"}) \subseteq Pid /\ c \notin In({"unborn"}) /\ shmNum' = shmNum + 1
        BY <1>6 DEF TakeSlot, Numbers, TypeOK, Unreaped, In, Parent
    <2>3. Cardinality(In({"run"})') = Cardinality(In({"run"})) - 1 /\ Cardinality(In({"run"})) \in Nat
        BY <2>2, Counting, Sizes
    <2>4. Phases'
        BY <2>2 DEF Numbers, Phases
    <2>5. Counts'
        <3>1. shmNum + 1 + (Cardinality(In({"run"})) - 1) <= forks
            BY <2>3 DEF Numbers, TypeOK, Counts
        <3> QED BY <2>2, <2>3, <3>1 DEF Numbers, Counts, Sampling
    <2> QED BY <2>1, <2>4, <2>5 DEF Numbers
<1>7. ASSUME NEW c \in Pid, WriteSlot(c) PROVE Numbers'
    <2>1. slot[c] \in Nat \cup {None} /\ ExitBase + slot[c] \in Nat
        BY Constants DEF Numbers, TypeOK, None
    <2>2. shm' \in [Slot -> Pid \cup {None}]
        BY <1>7 DEF WriteSlot, Numbers, TypeOK
    <2> QED BY <1>7, <2>1, <2>2, ExitStep DEF WriteSlot, Numbers, TypeOK
<1>8. CASE TuningExit
    <2>1. TypeOK' /\ Born'
        BY <1>8 DEF TuningExit, Numbers, TypeOK, Born, setup, children
    <2>2. UNCHANGED <<Unreaped, In({"run"}), ppc>> /\ ppc = "wait"
        BY <1>8 DEF TuningExit, children, Unreaped, In
    <2>3. Phases' /\ Counts'
        BY <1>8, <2>2 DEF TuningExit, Numbers, Phases, Counts, Sampling, children
    <2> QED BY <2>1, <2>3 DEF Numbers
<1>9. ASSUME NEW c \in Pid, ReapStep(c) PROVE Numbers'
    BY <1>9, ReapStepNumbers
<1>10. CASE BatchDone
    <2>1. Unreaped = {} /\ Unreaped' = Unreaped /\ In({"run"})' = In({"run"}) /\ Sampling
        BY <1>10 DEF BatchDone, Unreaped, In, Sampling
    <2>2. TypeOK'
        BY <1>10, TakenInType, Constants DEF BatchDone, Numbers, TypeOK, setup, NoSlots
    <2>3. Born'
        BY <1>10 DEF BatchDone, Numbers, Born
    <2>4. Phases' /\ Counts'
        BY <1>10, <2>1, NobodyLeft DEF BatchDone, Numbers, TypeOK, Phases, Counts, Sampling
    <2> QED BY <2>2, <2>3, <2>4 DEF Numbers
<1>11. CASE DpAggregate
    <2>1. /\ Unreaped = {} /\ Unreaped' = {} /\ In({"run"})' = {}
          /\ In({"unborn"})' = Pid
        BY <1>11 DEF DpAggregate, Numbers, Phases, Unreaped, In
    <2>2. TypeOK'
        BY <1>11 DEF DpAggregate, Numbers, TypeOK, setup, EmptyBag
    <2>3. Born'
        <3>1. \A c \in Pid : cpc'[c] = "unborn" <=> c > 0
            BY <1>11 DEF DpAggregate, Pid
        <3> QED BY <3>1, Constants DEF Born
    <2>4. Phases'
        BY <1>11, <2>1 DEF DpAggregate, Numbers, Phases
    <2>5. Counts'
        BY <1>11, <2>1, NobodyLeft, FS_EmptySet DEF DpAggregate, Numbers, Counts, Sampling
    <2> QED BY <2>2, <2>3, <2>4, <2>5 DEF Numbers
<1>12. CASE UNCHANGED vars
    BY <1>12 DEF vars, Numbers, TypeOK, Born, Phases, Counts, Unreaped, Sampling, In
<1> QED BY <1>1, <1>2, <1>3, <1>4, <1>5, <1>6, <1>7, <1>8, <1>9, <1>10, <1>11, <1>12
        DEF Next, TuningStep, SamplingStep

-----------------------------------------------------------------------------
LEMMA SlotHeld == ASSUME Numbers, Statuses, NEW c \in Pid PROVE slot[c] = None \/ Held(c)
BY DEF Statuses, Held, Numbers, TypeOK

\* What a process leaves behind: a new status of its own, and its slot if it has one.
LEMMA ExitWho ==
    ASSUME Numbers, Who, NEW c \in Pid, NEW n \in Nat, cpc[c] \in {"run", "slot"}, Exits(c, n),
           UNCHANGED <<Parent, shmNum>>, slot' = slot, files \subseteq files',
           \/ n % ExitMod = 0 /\ slot[c] = None /\ ~ mem /\ c \in files' /\ shm' = shm
           \/ n % ExitMod = 1 /\ slot[c] = None /\ shm' = shm
           \/ /\ Held(c) /\ n % ExitMod = ExitBase + slot[c]
              /\ shm' = [s \in Slot |-> IF s = slot[c] THEN c ELSE shm[s]]
    PROVE  Who'
<1> USE DEF Numbers, Who, Parent, setup
<1>1. /\ cpc' = [cpc EXCEPT ![c] = "exited"] /\ status' = [status EXCEPT ![c] = n % ExitMod]
      /\ UNCHANGED <<ppc, mem, results, ready, slot, shmNum>>
    BY DEF Exits
<1>2. ASSUME NEW d \in Pid, d # c PROVE slot[d] # None => slot[d] # slot[c]
    BY <1>2 DEF Slots
<1>3. Statuses'
    <2> SUFFICES ASSUME NEW d \in Pid
                 PROVE  /\ cpc'[d] \in {"unborn", "run", "gone"} => slot[d] = None
                        /\ cpc'[d] = "slot" => Held(d)
                        /\ cpc'[d] = "exited" =>
                              \/ status'[d] = 0 /\ slot[d] = None /\ ~ mem /\ d \in files'
                              \/ status'[d] = 1 /\ slot[d] = None
                              \/ /\ Held(d) /\ status'[d] = ExitBase + slot[d]
                                 /\ slot[d] \in Slot => shm'[slot[d]] = d
        BY <1>1 DEF Statuses, Held
    <2>1. CASE d = c
        BY <1>1, <2>1 DEF TypeOK
    <2>2. CASE d # c
        <3>1. cpc'[d] = cpc[d] /\ status'[d] = status[d]
            BY <1>1, <2>2 DEF TypeOK
        <3>2. slot[d] \in Slot => shm'[slot[d]] = shm[slot[d]]
            <4> SUFFICES ASSUME slot[d] \in Slot PROVE shm'[slot[d]] = shm[slot[d]]
                OBVIOUS
            <4>1. slot[d] # None
                BY Constants DEF None
            <4>2. slot[d] # slot[c]
                BY <1>2, <2>2, <4>1
            <4> QED BY <4>2
        <3> QED BY <3>1, <3>2 DEF Statuses
    <2> QED BY <2>1, <2>2
<1>4. Slots'
    <2>1. \A s \in Slot : ready[s] # None => shm'[s] = shm[s]
        BY DEF Slots
    <2> QED BY <1>1, <2>1 DEF Slots, Result
<1>5. Results'
    <2>1. \A d \in Pid : cpc[d] = "gone" => cpc'[d] = "gone"
        BY <1>1 DEF TypeOK
    <2> QED BY <1>1, <2>1 DEF Results, Sampling, TypeOK
<1> QED BY <1>3, <1>4, <1>5

\* wait() takes one process off, whatever its status.
LEMMA ReapStatuses ==
    ASSUME Numbers, Who, NEW c \in Pid, Reap(c)
    PROVE  /\ Statuses'
           /\ \A d, e \in Pid : slot'[d] # None /\ slot'[d] = slot'[e] => d = e
           /\ \A d \in Pid : slot'[d] \in Slot => d # c /\ slot'[d] = slot[d]
           /\ \A d \in Pid : cpc[d] = "gone" => cpc'[d] = "gone"
           /\ cpc'[c] = "gone" /\ cpc[c] # "gone"
           /\ UNCHANGED <<mem, shmNum, shm, files>>
<1>1. /\ cpc[c] = "exited" /\ cpc' = [cpc EXCEPT ![c] = "gone"]
      /\ slot' = [slot EXCEPT ![c] = None] /\ status' = [status EXCEPT ![c] = None]
      /\ UNCHANGED <<mem, shmNum, shm, files>>
    BY DEF Reap, setup
<1>2. \A d \in Pid : d # c => cpc'[d] = cpc[d] /\ slot'[d] = slot[d] /\ status'[d] = status[d]
    BY <1>1 DEF Numbers, TypeOK
<1>3. cpc'[c] = "gone" /\ slot'[c] = None
    BY <1>1 DEF Numbers, TypeOK
<1>4. Statuses'
    BY <1>1, <1>2, <1>3 DEF Who, Statuses, Held
<1>5. None \notin Slot
    BY Constants DEF None
<1> QED BY <1>1, <1>2, <1>3, <1>4, <1>5 DEF Who, Slots

LEMMA ReapWho ==
    ASSUME Numbers, Who, NEW c \in Pid, ReapStep(c)
    PROVE  Who'
<1> USE DEF Numbers, Who
<1>r. Reap(c) /\ ppc = "wait" /\ Sampling /\ cpc[c] = "exited"
    BY DEF ReapStep, ReapFile, ReapFailed, ReapShm, ReapShmPastEnd, ReapOther, Reap, Sampling
<1>s. /\ Statuses'
      /\ \A d, e \in Pid : slot'[d] # None /\ slot'[d] = slot'[e] => d = e
      /\ \A d \in Pid : slot'[d] \in Slot => d # c /\ slot'[d] = slot[d]
      /\ \A d \in Pid : cpc[d] = "gone" => cpc'[d] = "gone"
      /\ cpc'[c] = "gone" /\ cpc[c] # "gone"
      /\ UNCHANGED <<mem, shmNum, shm, files>>
    BY <1>r, ReapStatuses
<1>e. \/ status[c] = 0 /\ slot[c] = None /\ ~ mem /\ c \in files
      \/ status[c] = 1 /\ slot[c] = None
      \/ /\ Held(c) /\ status[c] = ExitBase + slot[c]
         /\ slot[c] \in Slot => shm[slot[c]] = c
    BY <1>r DEF Statuses
<1>l. results \in Seq(Entry) /\ Len(results) \in Nat /\ DOMAIN results = 1..Len(results)
    BY DEF TypeOK, Entry
<1>p. \A i \in DOMAIN results : results[i].pid \in Pid /\ results[i].pid # c
    <2> TAKE i \in DOMAIN results
    <2>1. results[i] \in Entry
        BY <1>l
    <2>2. cpc[results[i].pid] = "gone"
        BY <1>r DEF Results
    <2> QED BY <2>1, <2>2, <1>s DEF Entry
\* A branch that leaves the table alone.
<1>1. ASSUME results' = results, ppc' \in {"wait", "crashed", "fatal"},
             ready' = ready \/ \E s \in Slot : s = slot[c] /\ ready' = [ready EXCEPT ![s] = None]
      PROVE  Who'
    <2>1. \A s \in Slot : ready'[s] = ready[s] \/ ready'[s] = None
        BY <1>1 DEF TypeOK
    <2>2. Slots'
        BY <1>1, <1>s, <2>1 DEF Slots, Result
    <2>3. Results'
        <3>1. \A i \in DOMAIN results : cpc'[results[i].pid] = "gone"
            BY <1>p, <1>r, <1>s DEF Results
        <3> QED BY <1>1, <1>s, <1>r, <3>1 DEF Results
    <2> QED BY <1>s, <2>2, <2>3
\* A branch that adds the result of c.
<1>2. ASSUME NEW k \in Slot \cup {None}, Accept(c, k),
             \/ k = None /\ c \in files /\ ready' = ready
             \/ k \in Slot /\ k = slot[c] /\ ready' = [ready EXCEPT ![k] = Len(results)]
      PROVE  Who'
    <2>1. /\ DOMAIN results' = 1..(Len(results) + 1) /\ Len(results') = Len(results) + 1
          /\ \A i \in 1..Len(results) : results'[i] = results[i]
          /\ results'[Len(results) + 1] = Result(c, k)
          /\ ppc' = "wait"
        BY <1>2, <1>l, <1>r DEF Accept, Result, Entry
    <2>2. Results'
        <3> SUFFICES ASSUME NEW i \in 1..(Len(results) + 1)
                     PROVE  /\ cpc'[results'[i].pid] = "gone"
                            /\ \A j \in 1..(Len(results) + 1) :
                                  results'[i].pid = results'[j].pid => i = j
                            /\ results'[i].shmIdx = None => results'[i].pid \in files
            BY <1>s, <2>1 DEF Results
        <3>1. \A j \in 1..(Len(results) + 1) : j \in 1..Len(results) \/ j = Len(results) + 1
            BY <1>l
        <3>2. results'[Len(results) + 1].pid = c /\ results'[Len(results) + 1].shmIdx = k
            BY <2>1 DEF Result
        <3>3. \A j \in 1..Len(results) : /\ results'[j].pid # c
                                          /\ results'[j].pid \in Pid /\ cpc[results'[j].pid] = "gone"
            BY <1>p, <1>l, <1>r, <2>1 DEF Results
        <3>4. k = None => c \in files
            BY <1>2, Constants DEF None
        <3>5. CASE i = Len(results) + 1
            BY <3>1, <3>2, <3>3, <3>4, <3>5, <1>s
        <3>6. CASE i \in 1..Len(results)
            BY <3>1, <3>2, <3>3, <3>6, <1>s, <1>l, <1>r, <2>1 DEF Results
        <3> QED BY <3>1, <3>5, <3>6
    <2>3. Slots'
        <3>1. ASSUME NEW d \in Pid, slot'[d] \in Slot PROVE ready'[slot'[d]] = None
            <4>1. d # c /\ slot'[d] = slot[d] /\ slot[d] # None
                BY <3>1, <1>s, Constants DEF None
            <4>2. slot[d] # slot[c]
                BY <4>1 DEF Slots
            <4> QED BY <1>2, <3>1, <4>1, <4>2 DEF Slots, TypeOK
        <3>2. ASSUME NEW s \in Slot, ready'[s] # None
              PROVE  /\ s < shmNum
                     /\ ready'[s] < Len(results) + 1
                     /\ results'[ready'[s] + 1] = Result(shm[s], s)
            <4>1. CASE ready'[s] = ready[s]
                <5>1. s < shmNum /\ ready[s] < Len(results) /\ results[ready[s] + 1] = Result(shm[s], s)
                    BY <3>2, <4>1 DEF Slots
                <5>2. ready[s] \in Nat
                    BY <3>2, <4>1 DEF TypeOK
                <5>3. ready[s] + 1 \in 1..Len(results)
                    BY <5>1, <5>2, <1>l
                <5> QED BY <4>1, <5>1, <5>2, <5>3, <2>1, <1>l
            <4>2. CASE ready'[s] # ready[s]
                <5>1. k \in Slot /\ s = k /\ ready'[s] = Len(results) /\ slot[c] = s
                    BY <1>2, <4>2 DEF TypeOK
                <5>2. Held(c) /\ shm[s] = c
                    BY <5>1, <1>e, Constants DEF None
                <5>3. s < shmNum
                    BY <5>1, <5>2, Constants DEF Held, TypeOK
                <5> QED BY <5>1, <5>2, <5>3, <2>1, <1>l
            <4> QED BY <4>1, <4>2
        <3> QED BY <1>s, <2>1, <3>1, <3>2 DEF Slots, Result
    <2> QED BY <1>s, <2>2, <2>3
<1>3. CASE ReapFile(c)
    <2>1. c \in files
        BY <1>3, <1>e, Constants DEF ReapFile, Held
    <2>2. Accept(c, None) \/ Reject
        BY <1>3 DEF ReapFile
    <2> QED BY <1>1, <1>2, <1>3, <1>r, <2>1, <2>2 DEF ReapFile, Reject
<1>4. CASE ReapFailed(c) \/ ReapShmPastEnd(c) \/ ReapOther(c)
    BY <1>1, <1>4, <1>r DEF ReapFailed, ReapShmPastEnd, ReapOther
<1>5. CASE ReapShm(c)
    <2> DEFINE s == status[c] - ExitBase
    <2>1. s \in Slot /\ s = slot[c]
        <3>1. s \in Slot
            BY <1>5 DEF ReapShm
        <3>2. status[c] >= ExitBase
            BY <3>1, Constants DEF TypeOK, None
        <3>3. Held(c) /\ status[c] = ExitBase + slot[c]
            BY <3>2, <1>e, Constants
        <3> QED BY <3>1, <3>3, Constants DEF Held, TypeOK
    <2>2. \/ Accept(c, s) /\ ready' = [ready EXCEPT ![s] = Len(results)]
          \/ Reject /\ ready' = [ready EXCEPT ![s] = None]
        BY <1>5 DEF ReapShm
    <2> HIDE DEF s
    <2> QED BY <1>1, <1>2, <1>r, <2>1, <2>2 DEF Reject
<1> QED BY <1>3, <1>4, <1>5 DEF ReapStep

LEMMA TablePids == ASSUME Numbers PROVE \A i \in DOMAIN results : results[i].pid \in Pid
<1> TAKE i \in DOMAIN results
<1>0. results \in Seq(Entry)
    BY DEF Numbers, TypeOK, Entry
<1>1. results[i] \in Entry
    BY <1>0
<1> QED BY <1>1 DEF Entry

\* An action that keeps the table, the flags and the slots of shared memory
\* keeps who is gone.
LEMMA QuietWho ==
    ASSUME Numbers, Who, Numbers', UNCHANGED <<mem, results, slot, status, shm, ready>>,
           shmNum' >= shmNum, files \subseteq files', Sampling' => Sampling,
           ready = NoSlots \/ ppc' \notin {"outside", "fork", "sampled"},
           \A d \in Pid : \/ cpc'[d] = cpc[d]
                          \/ cpc[d] = "unborn" /\ cpc'[d] = "run"
    PROVE  Who'
<1> USE DEF Numbers, Who
<1>1. Statuses'
    <2>1. shmNum \in Nat /\ shmNum' \in Nat
        BY DEF TypeOK
    <2>2. \A x : x \in 0..(shmNum - 1) => x \in 0..(shmNum' - 1)
        <3>1. \A m, n \in Nat : n >= m => \A x \in 0..(m - 1) : x \in 0..(n - 1)
            OBVIOUS
        <3> QED BY <2>1, <3>1
    <2> QED BY <2>2 DEF Statuses, Held
<1>2. Slots'
    <2>1. \A s \in Slot : s < shmNum => s < shmNum'
        BY Constants DEF TypeOK
    <2> QED BY <2>1 DEF Slots, Result
<1>3. Results'
    <2>1. \A i \in DOMAIN results : results[i].pid \in Pid
        BY TablePids
    <2> QED BY <2>1 DEF Results
<1> QED BY <1>1, <1>2, <1>3

LEMMA WhoStep ==
    ASSUME NoWrap, Numbers, Numbers', Who, [Next]_vars
    PROVE  Who'
<1>1. CASE DpSampling
    <2>1. \A d \in Pid : cpc'[d] = "unborn" /\ slot'[d] = None
        BY <1>1 DEF DpSampling, Numbers, Phases, In, Who, Statuses
    <2>2. None \notin Slot
        BY Constants DEF None
    <2>3. ready' = NoSlots /\ \A s \in Slot : ready'[s] = None
        BY <1>1 DEF DpSampling, NoSlots
    <2>4. Len(results') = 0 /\ DOMAIN results' = {}
        BY <1>1 DEF DpSampling
    <2> QED BY <2>1, <2>2, <2>3, <2>4 DEF Who, Statuses, Slots, Results
<1>2. CASE ForkChild
    <2>1. PICK c \in Pid : /\ c = Cardinality(Pid \ In({"unborn"})) + 1
                           /\ cpc' = [cpc EXCEPT ![c] = "run"]
        BY <1>2 DEF ForkChild
    <2>2. cpc[c] = "unborn"
        BY <2>1, NextPid, Constants
    <2>3. ready = NoSlots /\ UNCHANGED <<ppc, mem, results, slot, status, shm, ready, shmNum, files>>
        BY <1>2 DEF ForkChild, Who, Slots, setup
    <2>4. shmNum' >= shmNum
        BY <2>3 DEF Numbers, TypeOK
    <2>5. \A d \in Pid : \/ cpc'[d] = cpc[d]
                         \/ cpc[d] = "unborn" /\ cpc'[d] = "run"
        BY <2>1, <2>2 DEF Numbers, TypeOK
    <2> QED BY <2>3, <2>4, <2>5, QuietWho DEF Sampling
<1>3. CASE BatchForked \/ TuningExit \/ UNCHANGED vars
    <2>1. /\ UNCHANGED <<mem, results, cpc, slot, status, shm, ready, shmNum, files>>
          /\ ppc' = ppc \/ (ppc = "fork" /\ ppc' = "wait")
        BY <1>3 DEF BatchForked, TuningExit, vars, setup, children
    <2>2. shmNum' >= shmNum
        BY <2>1 DEF Numbers, TypeOK
    <2>3. (Sampling' => Sampling) /\ (ready = NoSlots \/ ppc' \notin {"outside", "fork", "sampled"})
        BY <2>1 DEF Sampling, Who, Slots
    <2> QED BY <2>1, <2>2, <2>3, QuietWho
<1>4. ASSUME NEW c \in Pid, CheckFail(c) PROVE Who'
    <2>1. 1 % ExitMod = 1 /\ slot[c] = None
        BY <1>4, Constants, Remainder DEF CheckFail, Who, Statuses
    <2> QED BY <1>4, <2>1, ExitWho DEF CheckFail
<1>5. ASSUME NEW c \in Pid, WriteFile(c) PROVE Who'
    <2>1. 0 % ExitMod = 0 /\ slot[c] = None
        BY <1>5, Constants, Remainder DEF WriteFile, Who, Statuses
    <2>2. files \subseteq files' /\ c \in files' /\ ~ mem
        BY <1>5 DEF WriteFile
    <2> QED BY <1>5, <2>1, <2>2, ExitWho DEF WriteFile
<1>6. ASSUME NEW c \in Pid, TakeSlot(c) PROVE Who'
    <2>1. /\ cpc' = [cpc EXCEPT ![c] = "slot"] /\ slot' = [slot EXCEPT ![c] = shmNum]
          /\ shmNum' = shmNum + 1 /\ UNCHANGED <<ppc, mem, results, status, shm, ready, files>>
          /\ cpc[c] = "run"
        BY <1>6 DEF TakeSlot, Parent, setup
    <2>2. cpc'[c] = "slot" /\ slot'[c] = shmNum /\ shmNum \in Nat
        BY <2>1 DEF Numbers, TypeOK
    <2>3. \A d \in Pid : d # c => cpc'[d] = cpc[d] /\ slot'[d] = slot[d]
        BY <2>1 DEF Numbers, TypeOK
    <2>4. Statuses'
        <3>1. \A x \in 0..(shmNum - 1) : x \in 0..(shmNum + 1 - 1)
            BY <2>2
        <3>2. shmNum \in 0..(shmNum + 1 - 1)
            BY <2>2
        <3> QED BY <2>1, <2>2, <2>3, <3>1, <3>2 DEF Who, Statuses, Held
    <2>5. \A d \in Pid : slot[d] # shmNum
        <3> TAKE d \in Pid
        <3>1. slot[d] = None \/ slot[d] \in 0..(shmNum - 1)
            BY SlotHeld DEF Who, Held
        <3> QED BY <2>2, <3>1 DEF None
    <2>6. Slots'
        <3>1. shmNum \in Slot => ready[shmNum] = None
            BY <2>2 DEF Who, Slots
        <3>2. \A s \in Slot : s < shmNum => s < shmNum + 1
            BY <2>2, Constants
        <3> QED BY <2>1, <2>2, <2>3, <2>5, <3>1, <3>2 DEF Who, Slots, Result
    <2>7. Results'
        <3>1. \A i \in DOMAIN results : results[i].pid \in Pid
            BY TablePids
        <3> QED BY <2>1, <2>3, <3>1 DEF Who, Results, Sampling
    <2> QED BY <2>4, <2>6, <2>7 DEF Who
<1>7. ASSUME NEW c \in Pid, WriteSlot(c) PROVE Who'
    <2>1. Held(c)
        BY <1>7 DEF WriteSlot, Who, Statuses
    <2>2. ExitBase + slot[c] \in Nat /\ ExitBase + slot[c] < ExitMod
        <3>1. shmNum \in Nat /\ sub \in Nat /\ forks <= sub /\ forks \in Nat
            BY Constants DEF Numbers, TypeOK
        <3>2. Cardinality(In({"run"})) \in Nat
            BY Sizes DEF In
        <3>3. shmNum <= sub
            BY <3>1, <3>2 DEF Numbers, Counts
        <3>4. ExitBase + sub <= ExitMod
            BY DEF NoWrap, Numbers, TypeOK
        <3> QED BY <2>1, <3>1, <3>3, <3>4, Constants DEF Held
    <2>3. (ExitBase + slot[c]) % ExitMod = ExitBase + slot[c]
        BY <2>2, Constants, Remainder
    <2> QED BY <1>7, <2>1, <2>2, <2>3, ExitWho DEF WriteSlot
<1>8. ASSUME NEW c \in Pid, ReapStep(c) PROVE Who'
    BY <1>8, ReapWho
<1>9. CASE BatchDone
    <2>1. \A d \in Pid : cpc[d] \in {"unborn", "gone"} /\ slot[d] = None
        BY <1>9 DEF BatchDone, In, Numbers, TypeOK, Who, Statuses
    <2>2. ready' = NoSlots
        BY <1>9 DEF BatchDone, NoSlots, Who, Slots
    <2>3. None \notin Slot /\ \A s \in Slot : ready'[s] = None
        BY <2>2, Constants DEF None, NoSlots
    <2>4. UNCHANGED <<mem, cpc, slot, status, results, files>> /\ Sampling
        BY <1>9 DEF BatchDone, setup, Sampling
    <2> QED BY <2>1, <2>2, <2>3, <2>4 DEF Who, Statuses, Slots, Results
<1>10. CASE DpAggregate
    <2>1. \A d \in Pid : cpc'[d] = "unborn" /\ slot'[d] = None
        BY <1>10 DEF DpAggregate, Numbers, TypeOK, Phases, Unreaped, In, Who, Statuses
    <2>2. ready = NoSlots /\ UNCHANGED <<ready, results, shm, shmNum>> /\ ~ Sampling'
        BY <1>10 DEF DpAggregate, Sampling, Who, Slots
    <2>3. None \notin Slot /\ \A s \in Slot : ready[s] = None
        BY <2>2, Constants DEF None, NoSlots
    <2> QED BY <2>1, <2>2, <2>3 DEF Who, Statuses, Slots, Results
<1> QED BY <1>1, <1>2, <1>3, <1>4, <1>5, <1>6, <1>7, <1>8, <1>9, <1>10
        DEF Next, TuningStep, SamplingStep

-----------------------------------------------------------------------------
\* A result is in the table once, and a flag is up for it at most once.
LEMMA CountedOnce ==
    ASSUME Numbers, Who, Sampling, NEW p \in Pid
    PROVE  Cardinality({i \in DOMAIN results : results[i].pid = p}) = IF Counted(p) THEN 1 ELSE 0
<1> DEFINE I == {i \in DOMAIN results : results[i].pid = p}
<1>1. CASE Counted(p)
    <2>1. PICK i \in DOMAIN results : results[i].pid = p
        BY <1>1 DEF Counted
    <2>2. I = {i}
        BY <2>1 DEF Who, Results
    <2> QED BY <2>2, <1>1, FS_Singleton
<1>2. CASE ~ Counted(p)
    <2>1. I = {}
        BY <1>2 DEF Counted
    <2> QED BY <2>1, <1>2, FS_EmptySet
<1> QED BY <1>1, <1>2

LEMMA PendingOnce ==
    ASSUME Numbers, Who, Sampling, NEW p \in Pid
    PROVE  /\ Cardinality({s \in ReadySlots : shm[s] = p}) = IF Pending(p) THEN 1 ELSE 0
           /\ Pending(p) => Counted(p)
<1> DEFINE S == {s \in ReadySlots : shm[s] = p}
<1>r. ASSUME NEW s \in Slot, ready[s] # None
      PROVE  /\ s < shmNum /\ ready[s] + 1 \in DOMAIN results
             /\ results[ready[s] + 1].pid = shm[s] /\ results[ready[s] + 1].shmIdx = s
    <2>1. /\ s < shmNum /\ ready[s] < Len(results)
          /\ results[ready[s] + 1] = Result(shm[s], s) /\ ready[s] \in Nat
        BY <1>r DEF Numbers, TypeOK, Who, Slots
    <2>2. results \in Seq(Entry)
        BY DEF Numbers, TypeOK, Entry
    <2>3. Len(results) \in Nat /\ DOMAIN results = 1..Len(results)
        BY <2>2
    <2>4. ready[s] + 1 \in 1..Len(results)
        BY <2>1, <2>3
    <2> QED BY <2>1, <2>3, <2>4 DEF Result
<1>1. CASE Pending(p)
    <2>1. PICK s \in Slot : ready[s] # None /\ shm[s] = p
        BY <1>1 DEF Pending
    <2>2. s \in S
        BY <2>1, <1>r DEF ReadySlots
    <2>3. \A t \in S : t = s
        <3> TAKE t \in S
        <3>1. t \in Slot /\ ready[t] # None /\ shm[t] = p
            BY DEF ReadySlots
        <3> DEFINE i == ready[s] + 1
                   j == ready[t] + 1
        <3>2. /\ i \in DOMAIN results /\ results[i].pid = p /\ results[i].shmIdx = s
              /\ j \in DOMAIN results /\ results[j].pid = p /\ results[j].shmIdx = t
            BY <2>1, <3>1, <1>r
        <3> HIDE DEF i, j
        <3>3. i = j
            BY <3>2 DEF Who, Results
        <3> QED BY <3>2, <3>3
    <2>4. S = {s}
        BY <2>2, <2>3
    <2>5. Counted(p)
        BY <2>1, <1>r DEF Counted
    <2> QED BY <2>4, <2>5, <1>1, FS_Singleton
<1>2. CASE ~ Pending(p)
    <2>1. S = {}
        BY <1>2 DEF Pending, ReadySlots
    <2> QED BY <2>1, <1>2, FS_EmptySet
<1> QED BY <1>1, <1>2

LEMMA AggregatedStep ==
    ASSUME NoWrap, Numbers, Numbers', Who, Who', Aggregated, [Next]_vars
    PROVE  Aggregated'
<1>1. CASE DpSampling
    <2>1. aggregate' = EmptyBag /\ results' = <<>>
        BY <1>1 DEF DpSampling, Numbers, Phases
    <2> QED BY <2>1 DEF Aggregated, Counted, EmptyBag
<1>2. ASSUME UNCHANGED <<mem, aggregate, results, ready>>, Sampling' => Sampling,
             \A s \in Slot : ready[s] # None => shm'[s] = shm[s]
      PROVE  Aggregated'
    <2>1. \A p \in Pid : (Counted(p)' <=> Counted(p)) /\ (Pending(p)' <=> Pending(p))
        BY <1>2 DEF Counted, Pending
    <2> QED BY <1>2, <2>1 DEF Aggregated
<1>3. CASE ForkChild \/ BatchForked \/ TuningExit \/ UNCHANGED vars
    BY <1>2, <1>3 DEF ForkChild, BatchForked, TuningExit, vars, setup, children, Sampling
<1>4. ASSUME NEW c \in Pid, CheckFail(c) \/ WriteFile(c) \/ TakeSlot(c) PROVE Aggregated'
    BY <1>2, <1>4 DEF CheckFail, WriteFile, TakeSlot, Parent, setup, Sampling
<1>5. ASSUME NEW c \in Pid, WriteSlot(c) PROVE Aggregated'
    <2>1. \A s \in Slot : ready[s] # None => shm'[s] = shm[s]
        BY <1>5 DEF WriteSlot, Who, Slots
    <2> QED BY <1>2, <1>5, <2>1 DEF WriteSlot, Parent, setup, Sampling
<1>6. ASSUME NEW c \in Pid, ReapStep(c) PROVE Aggregated'
    <2>r. /\ Reap(c) /\ ppc = "wait" /\ Sampling /\ cpc[c] = "exited"
          /\ UNCHANGED <<mem, aggregate, shm>>
        BY <1>6 DEF ReapStep, ReapFile, ReapFailed, ReapShm, ReapShmPastEnd, ReapOther, Reap,
                    Sampling, setup
    <2>e. \/ status[c] = 0 /\ slot[c] = None /\ ~ mem /\ c \in files
          \/ status[c] = 1 /\ slot[c] = None
          \/ /\ Held(c) /\ status[c] = ExitBase + slot[c]
             /\ slot[c] \in Slot => shm[slot[c]] = c
        BY <2>r DEF Who, Statuses
    <2>1. CASE ReapFile(c)
        <3>1. ~ mem'
            BY <2>1, <2>r, <2>e, Constants DEF ReapFile, Held
        <3> QED BY <3>1 DEF Aggregated
    <2>2. CASE ReapFailed(c) \/ ReapShmPastEnd(c) \/ ReapOther(c)
        BY <1>2, <2>2, <2>r DEF ReapFailed, ReapShmPastEnd, ReapOther
    <2>3. CASE ReapShm(c)
        <3> DEFINE s == status[c] - ExitBase
        <3>1. s \in Slot /\ s = slot[c]
            <4>1. s \in Slot
                BY <2>3 DEF ReapShm
            <4>2. status[c] >= ExitBase
                <5>1. status[c] \in Int
                    BY DEF Numbers, TypeOK, None
                <5>2. s \in Nat
                    BY <4>1, Constants
                <5> QED BY <5>1, <5>2, Constants
            <4>3. Held(c) /\ status[c] = ExitBase + slot[c]
                BY <4>2, <2>e, Constants
            <4> QED BY <4>1, <4>3, Constants DEF Held, Numbers, TypeOK
        <3>2. \/ Accept(c, s) /\ ready' = [ready EXCEPT ![s] = Len(results)]
              \/ Reject /\ ready' = [ready EXCEPT ![s] = None]
            BY <2>3 DEF ReapShm
        <3>3. s \in Slot /\ shm[s] = c /\ ready[s] = None /\ ready \in [Slot -> Nat \cup {None}]
            <4>1. slot[c] # None
                BY <3>1, Constants DEF None
            <4>2. shm[s] = c
                BY <3>1, <2>e, <4>1
            <4>3. ready[s] = None
                BY <3>1 DEF Who, Slots
            <4>4. ready \in [Slot -> Nat \cup {None}]
                BY DEF Numbers, TypeOK
            <4> QED BY <3>1, <4>2, <4>3, <4>4
        <3> HIDE DEF s
        <3>4. CASE Reject /\ ready' = [ready EXCEPT ![s] = None]
            <4>1. ready' = ready
                BY <3>3, <3>4
            <4> QED BY <1>2, <2>r, <3>4, <4>1 DEF Reject
        <3>5. CASE Accept(c, s) /\ ready' = [ready EXCEPT ![s] = Len(results)]
            <4>l. results \in Seq(Entry) /\ Len(results) \in Nat /\ Len(results) # None
                BY DEF Numbers, TypeOK, Entry, None
            <4>1. /\ DOMAIN results = 1..Len(results)
                  /\ DOMAIN results' = 1..(Len(results) + 1)
                  /\ \A i \in 1..Len(results) : results'[i] = results[i]
                  /\ results'[Len(results) + 1].pid = c
                <5>1. Result(c, s) \in Entry /\ Result(c, s).pid = c
                    BY <3>3 DEF Result, Entry
                <5> QED BY <3>5, <4>l, <5>1 DEF Accept
            <4>2. ~ Counted(c) /\ Counted(c)' /\ Pending(c)'
                <5>1. ~ Counted(c)
                    BY <2>r DEF Who, Results, Counted
                <5>2. Counted(c)'
                    BY <4>1, <4>l DEF Counted
                <5>3. ready'[s] # None /\ shm'[s] = c
                    BY <2>r, <3>3, <3>5, <4>l
                <5> QED BY <3>3, <5>1, <5>2, <5>3 DEF Pending
            <4>3. ASSUME NEW p \in Pid, p # c
                  PROVE  (Counted(p)' <=> Counted(p)) /\ (Pending(p)' <=> Pending(p))
                <5>1. \A i \in 1..(Len(results) + 1) : i \in 1..Len(results) \/ i = Len(results) + 1
                    BY <4>l
                <5>2. \A i \in 1..Len(results) : i \in 1..(Len(results) + 1)
                    BY <4>l
                <5>3. \A t \in Slot : t # s => ready'[t] = ready[t]
                    BY <3>3, <3>5
                <5>4. Counted(p)' <=> Counted(p)
                    BY <4>1, <4>3, <5>1, <5>2 DEF Counted
                <5>5. Pending(p)' <=> Pending(p)
                    BY <2>r, <3>3, <4>3, <5>3 DEF Pending
                <5> QED BY <5>4, <5>5
            <4> QED BY <2>r, <4>2, <4>3 DEF Aggregated
        <3> QED BY <3>2, <3>4, <3>5
    <2> QED BY <1>6, <2>1, <2>2, <2>3 DEF ReapStep
<1>7. CASE BatchDone
    <2>1. Sampling /\ ready' = NoSlots /\ UNCHANGED <<mem, results>> /\ aggregate' = TakenIn
        BY <1>7 DEF BatchDone, NoSlots, Sampling, setup, Who, Slots
    <2>2. ASSUME NEW p \in Pid, mem
          PROVE  aggregate'[p] = IF Counted(p)' /\ ~ Pending(p)' THEN 1 ELSE 0
        <3>1. ~ Pending(p)' /\ (Counted(p)' <=> Counted(p))
            BY <2>1 DEF Pending, Counted, NoSlots
        <3>2. aggregate'[p] = aggregate[p] + Cardinality({s \in ReadySlots : shm[s] = p})
            BY <2>1 DEF TakenIn
        <3>3. aggregate[p] = IF Counted(p) /\ ~ Pending(p) THEN 1 ELSE 0
            BY <2>1, <2>2 DEF Aggregated
        <3>4. /\ Cardinality({s \in ReadySlots : shm[s] = p}) = IF Pending(p) THEN 1 ELSE 0
              /\ Pending(p) => Counted(p)
            BY <2>1, PendingOnce
        <3> QED BY <3>1, <3>2, <3>3, <3>4
    <2> QED BY <2>1, <2>2 DEF Aggregated
<1>8. CASE DpAggregate
    BY <1>8 DEF DpAggregate, Aggregated, Sampling
<1> QED BY <1>1, <1>3, <1>4, <1>5, <1>6, <1>7, <1>8 DEF Next, TuningStep, SamplingStep

-----------------------------------------------------------------------------
LEMMA Invariance == ASSUME NoWrap PROVE Spec => []IInv
<1>1. Init => IInv
    <2> SUFFICES ASSUME Init PROVE IInv
        OBVIOUS
    <2>1. In({"unborn"}) = Pid /\ Unreaped = {} /\ In({"run"}) = {}
        BY DEF Init, In, Unreaped
    <2>2. TypeOK
        <3>1. /\ 0 \in 0..MaxRegions /\ 0 \in 0..SampleNum /\ 0 \in 0..MaxFail
              /\ \A n \in SubTodos : 0 <= n
            BY Constants
        <3>2. <<>> \in Seq(Entry)
            OBVIOUS
        <3> QED BY <3>1, <3>2 DEF Init, TypeOK, NoSlots, EmptyBag, Entry
    <2>3. Born
        <3>1. \A c \in Pid : cpc[c] = "unborn" <=> c > 0
            BY DEF Init, Pid
        <3> QED BY <3>1, Constants DEF Born
    <2>4. Phases /\ Counts
        <3>1. Cardinality(In({"run"})) = 0
            BY <2>1, FS_EmptySet
        <3>2. ppc = "outside" /\ ~ Sampling /\ aggregate = EmptyBag /\ shmNum = 0 /\ forks = 0
            BY DEF Init, Sampling
        <3> QED BY <2>1, <3>1, <3>2 DEF Phases, Counts
    <2>5. Who
        <3>1. None \notin Slot
            BY Constants DEF None
        <3> QED BY <3>1 DEF Init, Who, Statuses, Slots, Results, Sampling, NoSlots
    <2> QED BY <2>2, <2>3, <2>4, <2>5 DEF IInv, Numbers, Aggregated, Sampling, Init
<1>2. IInv /\ [Next]_vars => IInv'
    BY NumbersStep, WhoStep, AggregatedStep DEF IInv
<1> QED BY <1>1, <1>2, PTL DEF Spec

\* Every state of a region is well-typed, todoNum and the table within their bounds.
THEOREM TypeCorrect == ASSUME NoWrap PROVE Spec => []TypeOK
<1>1. IInv => TypeOK
    BY DEF IInv, Numbers
<1> QED BY <1>1, Invariance, PTL

\* For any number of samples and processes in a batch, every sample is a result,
\* to do or given up, and the results are those of different processes that
\* delivered them (SamplingStg.c:163-247).
THEOREM EverySampleAccounted == ASSUME NoWrap PROVE Spec => []SamplesAccounted
<1>1. IInv => SamplesAccounted
    BY DEF IInv, Numbers, Counts, Who, Results, SamplesAccounted
<1> QED BY <1>1, Invariance, PTL

\* For any number of slots and processes, no two of a batch share a slot, and a
\* flag that is up belongs to the result whose data the slot holds
\* (DpLib.c:541-545, SamplingStg.c:213-222).
THEOREM SlotsNeverShared == ASSUME NoWrap PROVE Spec => []SlotsExact
<1>1. IInv => SlotsExact
    BY DEF IInv, Who, Slots, SlotsExact, In
<1> QED BY <1>1, Invariance, PTL

\* However the processes of the batches end, the aggregation in shared memory
\* takes in every accepted result once (AggregateStg.c:626-652).
THEOREM EveryResultTakenIn == ASSUME NoWrap PROVE Spec => []AggregateExact
<1>1. IInv => AggregateExact
    <2> SUFFICES ASSUME IInv, mem, ppc = "sampled" \/ (ppc = "fork" /\ forks = 0), NEW p \in Pid
                 PROVE  aggregate[p] = Cardinality({i \in DOMAIN results : results[i].pid = p})
        BY DEF AggregateExact
    <2>1. Sampling /\ ready = NoSlots
        BY DEF Sampling, IInv, Who, Slots
    <2>2. ~ Pending(p)
        BY <2>1 DEF Pending, NoSlots
    <2>3. aggregate[p] = IF Counted(p) THEN 1 ELSE 0
        BY <2>1, <2>2 DEF IInv, Aggregated
    <2> QED BY <2>1, <2>3, CountedOnce DEF IInv
<1> QED BY <1>1, Invariance, PTL

\* As long as a batch has no more processes than slots, no exit status stops the
\* program, for any number of slots (SamplingStg.c:208-229).
THEOREM SmallBatchesNeverStop == ASSUME NoWrap PROVE Spec => []SmallBatchesCollected
<1>1. Init => SmallBatchesCollected
    BY DEF Init, SmallBatchesCollected, NeverFatal
<1>2. ASSUME IInv, SmallBatchesCollected, [Next]_vars PROVE SmallBatchesCollected'
    <2>1. ASSUME NEW c \in Pid, Reap(c), status[c] \notin {0, 1}, sub <= MaxShm
          PROVE  status[c] \in ExitBase..(ExitBase + MaxShm - 1)
        <3>1. Held(c) /\ status[c] = ExitBase + slot[c]
            BY <1>2, <2>1 DEF Reap, IInv, Who, Statuses
        <3>2. shmNum \in Nat /\ sub \in Nat /\ forks <= sub /\ forks \in Nat
            BY <1>2, Constants DEF IInv, Numbers, TypeOK
        <3>3. Cardinality(In({"run"})) \in Nat
            BY Sizes DEF In
        <3>4. shmNum <= sub
            BY <1>2, <3>2, <3>3 DEF IInv, Numbers, Counts
        <3> QED BY <2>1, <3>1, <3>2, <3>4, Constants DEF Held
    <2>2. ASSUME NEW c \in Pid, ReapShmPastEnd(c) PROVE SmallBatchesCollected'
        <3>1. Reap(c) /\ status[c] = ExitBase + MaxShm /\ sub' = sub
            BY <2>2 DEF ReapShmPastEnd, Reap, setup
        <3>2. ~ (sub <= MaxShm)
            BY <2>1, <3>1, Constants
        <3> QED BY <3>1, <3>2 DEF SmallBatchesCollected
    <2>3. ASSUME NEW c \in Pid, ReapOther(c) PROVE SmallBatchesCollected'
        <3>1. /\ Reap(c) /\ sub' = sub
              /\ status[c] \notin {0, 1} /\ status[c] \notin ExitBase..(ExitBase + MaxShm)
            BY <2>3 DEF ReapOther, Reap, setup
        <3>2. ~ (sub <= MaxShm)
            BY <2>1, <3>1, Constants
        <3> QED BY <3>1, <3>2 DEF SmallBatchesCollected
    <2>4. ASSUME sub' = sub, ppc' = ppc \/ ppc' \notin {"fatal", "crashed"} PROVE SmallBatchesCollected'
        BY <1>2, <2>4 DEF SmallBatchesCollected, NeverFatal
    <2>5. CASE DpSampling
        BY <2>5 DEF DpSampling, SmallBatchesCollected, NeverFatal
    <2>6. CASE ForkChild \/ BatchForked \/ BatchDone \/ DpAggregate \/ TuningExit \/ UNCHANGED vars
        BY <2>4, <2>6 DEF ForkChild, BatchForked, BatchDone, DpAggregate, TuningExit, vars, setup
    <2>7. ASSUME NEW c \in Pid, ReapFile(c) \/ ReapFailed(c) \/ ReapShm(c) PROVE SmallBatchesCollected'
        BY <2>4, <2>7 DEF ReapFile, ReapFailed, ReapShm, Reap, Accept, Reject, setup
    <2>8. ASSUME NEW c \in Pid, SamplingStep(c) PROVE SmallBatchesCollected'
        BY <2>4, <2>8 DEF SamplingStep, CheckFail, WriteFile, TakeSlot, WriteSlot, Parent, setup
    <2> QED BY <1>2, <2>2, <2>3, <2>5, <2>6, <2>7, <2>8 DEF Next, TuningStep, ReapStep
<1> QED BY <1>1, <1>2, Invariance, PTL DEF Spec
=============================================================================
