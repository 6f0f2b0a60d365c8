---------------------------- MODULE DpSyncProofs ----------------------------
(***************************************************************************)
(* The barrier keeps its promise, for any set of processes and any number  *)
(* of rounds: its counters are exact, the callback is called when all wait *)
(* and with all their data, and DpSync implements Barrier.                 *)
(***************************************************************************)
EXTENDS DpSyncRefinement, FiniteSetTheorems, TLAPS

\* The types that need no counting.
Typed ==
    /\ pc \in [Child -> Status]
    /\ sync \in Int /\ doneNum \in Int /\ active \in Int
    /\ local \in [Child -> Int]
    /\ round \in [Child -> Nat]

\* Each mutex has one owner, and there is one master, counted from the moment it
\* is chosen.
Single(S) == \A c, d \in In(S) : c = d
Exclusive ==
    /\ Single(Mutex1)
    /\ Single({"becomeMaster"} \cup Master)

\* Somebody has seen that all processes of the batch are there, and the callback
\* has not been called: nobody is anywhere else, the slaves have a master.
Gathering == {"enter", "becomeMaster", "write"} \cup BeforeCallback
GatheredAll ==
    In(Gathering) # {} =>
        \A c \in Child :
            /\ pc[c] \in {"gone", "slave"} \cup AtCheckpoint1 \cup Gathering
            /\ pc[c] \in {"slave", "write"} => In(BeforeCallback) # {}

\* A master that has not got mutex 3 has no slave yet.
NoSlaveYet == In({"becomeMaster"}) # {} => In({"slave"}) = {}

\* From the callback to the unlock of mutex 3 all the others are slaves.
Served == {"callback", "clearSync", "clearDone", "release"}
ServedAll ==
    \A m \in In(Served) : \A c \in Child \ {m} : pc[c] \in {"slave", "gone"}

\* A count that was read is not larger than the counter is now.
LocalsBehind ==
    \A c \in Child :
        /\ pc[c] \in {"spinLock", "spinCompare"} => local[c] <= sync
        /\ pc[c] \in {"masterLock", "masterCompare"} => local[c] <= doneNum
        /\ pc[c] = "callback" => local[c] = doneNum

\* The .sync files are those of the slaves of the present master.
MasterOn == {"becomeMaster"} \cup (Master \ {"release"})
FilesExact ==
    files = IF In(MasterOn) = {} THEN {} ELSE {<<c, round[c]>> : c \in In({"slave"})}

\* The .forked files are those of the processes that have split.
SplitsExact ==
    /\ fork \subseteq Child /\ forked \subseteq Child
    /\ splits = [c \in Child |-> IF c \in forked THEN 1 ELSE 0]

BarrierInv ==
    /\ Typed /\ Exclusive
    /\ GatheredAll /\ NoSlaveYet /\ ServedAll /\ LocalsBehind
    /\ FilesExact /\ SplitsExact
    /\ SyncCounted /\ DoneCounted /\ ActiveCounted

-----------------------------------------------------------------------------
\* Sets of processes are finite, and one process more or less counts for one.
LEMMA Counting ==
    ASSUME NEW S, S \subseteq Child
    PROVE  /\ IsFiniteSet(S) /\ Cardinality(S) \in Nat
           /\ \A c \in Child :
                 /\ c \in S => Cardinality(S \ {c}) = Cardinality(S) - 1
                 /\ c \notin S => Cardinality(S \cup {c}) = Cardinality(S) + 1
           /\ \A T : T \subseteq S =>
                 /\ Cardinality(T) \in Nat /\ Cardinality(T) <= Cardinality(S)
                 /\ Cardinality(S) <= Cardinality(T) => T = S
<1>1. IsFiniteSet(S)
  BY ChildAssumption, FS_Subset
<1>2. ASSUME NEW c \in Child
      PROVE  /\ c \in S => Cardinality(S \ {c}) = Cardinality(S) - 1
             /\ c \notin S => Cardinality(S \cup {c}) = Cardinality(S) + 1
  BY <1>1, FS_AddElement, FS_RemoveElement
<1>3. ASSUME NEW T, T \subseteq S
      PROVE  /\ Cardinality(T) \in Nat /\ Cardinality(T) <= Cardinality(S)
             /\ Cardinality(S) <= Cardinality(T) => T = S
  <2>1. IsFiniteSet(T) /\ Cardinality(T) <= Cardinality(S)
        /\ (Cardinality(S) = Cardinality(T) => S = T)
    BY <1>1, <1>3, FS_Subset
  <2>2. Cardinality(T) \in Nat /\ Cardinality(S) \in Nat
    BY <2>1, <1>1, FS_CardinalityType
  <2> QED BY <2>1, <2>2
<1> QED BY <1>1, <1>2, <1>3, FS_CardinalityType

\* A process that finds its count equal to syActiveChildNum has counted all of
\* them, and all of them wait: the comparison with a count read earlier is safe.
LEMMA AllThere ==
    ASSUME BarrierInv, NEW c \in Child, pc[c] = "spinCompare", local[c] = active
    PROVE  /\ \A d \in Child : pc[d] \in {"gone", "slave"} \cup AtCheckpoint1 \cup Gathering
           /\ In({"slave", "write"}) # {} => In(BeforeCallback) # {}
<1>1. Synced \subseteq Present /\ Synced \subseteq Child /\ Present \subseteq Child
  BY DEF Synced, Present, In, AtCheckpoint1, Master
<1>2. active <= sync /\ active = Cardinality(Present) /\ sync = Cardinality(Synced)
  BY DEF BarrierInv, LocalsBehind, SyncCounted, ActiveCounted
<1>3. Synced = Present
  BY <1>1, <1>2, Counting
<1>4. In({"callback", "clearSync", "clearDone", "release"}) = {}
  BY DEF BarrierInv, ServedAll, Served, In
<1>5. doneNum # 0 => In(MasterOn) # {}
  BY DEF BarrierInv, DoneCounted, MasterOn
<1>6. doneNum # 0 => In(BeforeCallback) # {}
  BY <1>4, <1>5 DEF MasterOn, Master, BeforeCallback, In
<1> QED
  BY <1>3, <1>4, <1>6
  DEF Synced, Present, In, AtCheckpoint1, Master, Gathering, BeforeCallback

\* A master that finds its count equal to syActiveChildNum has all the others as
\* slaves.
LEMMA AllSlaves ==
    ASSUME BarrierInv, NEW m \in Child, pc[m] = "masterCompare", local[m] = active
    PROVE  /\ \A d \in Child \ {m} : pc[d] \in {"slave", "gone"}
           /\ local[m] = doneNum
<1> DEFINE S == In({"slave"}) \cup {m}
<1>1. S \subseteq Present /\ S \subseteq Child /\ Present \subseteq Child
  BY DEF Present, In
<1>2. In({"slave"}) \subseteq Child /\ m \notin In({"slave"})
  BY DEF In
<1>3. Cardinality(S) = Cardinality(In({"slave"})) + 1 /\ Cardinality(In({"slave"})) \in Nat
  BY <1>2, Counting
<1>4. doneNum = 1 + Cardinality(In({"slave"}))
  BY DEF BarrierInv, DoneCounted, Master, In
<1>5. active <= doneNum /\ active = Cardinality(Present)
  BY DEF BarrierInv, LocalsBehind, ActiveCounted
<1>6. Cardinality(S) \in Nat /\ Cardinality(Present) \in Nat
  BY <1>1, Counting
<1>7. S = Present
  BY <1>1, <1>3, <1>4, <1>5, <1>6, Counting
<1> HIDE DEF S
<1>8. active = doneNum
  BY <1>3, <1>4, <1>5, <1>7
<1> QED BY <1>7, <1>8 DEF S, Present, In
-----------------------------------------------------------------------------
\* A process that goes to a label joins the sets it belongs to, leaves the others.
LEMMA Moving ==
    ASSUME Typed, NEW c \in Child, NEW label, Goto(c, label), NEW L
    PROVE  In(L)' = IF label \in L THEN In(L) \cup {c} ELSE In(L) \ {c}
BY DEF Typed, Goto, In

LEMMA TypedStep == Typed /\ [Next]_vars => Typed'
<1> SUFFICES ASSUME Typed, [Next]_vars PROVE Typed'
  OBVIOUS
<1> USE DEF Typed, Status, AtCheckpoint1, Mutex1, Mutex2, Master, Goto
<1>1. ASSUME NEW c \in Child, Arrive(c) PROVE Typed'
  BY <1>1 DEF Arrive
<1>2. ASSUME NEW c \in Child, ReadSync(c) \/ MasterRead(c) PROVE Typed'
  BY <1>2 DEF ReadSync, MasterRead
<1>3. ASSUME NEW c \in Child, Enter(c) PROVE Typed'
  BY <1>3 DEF Enter
<1>4. ASSUME NEW c \in Child, ClearSync(c) \/ ClearDone(c) \/ Write(c) \/ Leave(c) PROVE Typed'
  BY <1>4 DEF ClearSync, ClearDone, Write, Leave
<1>5. ASSUME NEW c \in Child, LockActive(c) \/ SpinCompare(c) \/ MasterCompare(c) PROVE Typed'
  BY <1>5 DEF LockActive, SpinCompare, MasterCompare
<1>6. ASSUME NEW c \in Child, NEW chosen \in SUBSET Child, Callback(c, chosen) PROVE Typed'
  BY <1>6 DEF Callback
<1>7. ASSUME NEW c \in Child, SplitCheck(c) PROVE Typed'
  BY <1>7 DEF SplitCheck
<1>8. ASSUME NEW c \in Child,
             \/ ForkChild(c) \/ BecomeMaster(c) \/ Release(c) \/ SlaveLeave(c)
             \/ Aggregate(c) \/ CheckFail(c)
      PROVE Typed'
  BY <1>8 DEF ForkChild, BecomeMaster, Release, SlaveLeave, Aggregate, CheckFail
<1>9. CASE UNCHANGED vars
  BY <1>9 DEF vars
<1> QED
  BY <1>1, <1>2, <1>3, <1>4, <1>5, <1>6, <1>7, <1>8, <1>9 DEF Next, Step

\* The rules of who may be where, without the counters.
Control == Exclusive /\ GatheredAll /\ NoSlaveYet /\ ServedAll

LEMMA ControlStep == BarrierInv /\ [Next]_vars => Control'
<1> SUFFICES ASSUME BarrierInv, [Next]_vars PROVE Control'
  OBVIOUS
<1>t. Typed /\ Typed'
  BY TypedStep DEF BarrierInv
<1>c. Exclusive /\ GatheredAll /\ NoSlaveYet /\ ServedAll
  BY DEF BarrierInv
<1> USE <1>t, <1>c DEF Typed, Control, Exclusive, Single, GatheredAll, NoSlaveYet, ServedAll,
    In, Gathering, BeforeCallback, Served, AtCheckpoint1, Mutex1, Master, Goto
<1>1. ASSUME NEW c \in Child, ForkChild(c) PROVE Control'
  BY <1>1 DEF ForkChild
<1>2. ASSUME NEW c \in Child, Arrive(c) PROVE Control'
  BY <1>2 DEF Arrive
<1>3. ASSUME NEW c \in Child, ReadSync(c) PROVE Control'
  BY <1>3 DEF ReadSync
<1>4. ASSUME NEW c \in Child, LockActive(c) PROVE Control'
  BY <1>4 DEF LockActive
<1>5. ASSUME NEW c \in Child, SpinCompare(c) PROVE Control'
  <2>1. CASE local[c] = active
    BY <1>5, <2>1, AllThere DEF SpinCompare
  <2>2. CASE local[c] # active
    BY <1>5, <2>2 DEF SpinCompare
  <2> QED BY <2>1, <2>2
<1>6. ASSUME NEW c \in Child, Enter(c) PROVE Control'
  <2>1. CASE doneNum = 0
    <3>1. In(MasterOn) = {}
      BY <2>1, Counting DEF BarrierInv, DoneCounted, MasterOn
    <3> QED BY <1>6, <2>1, <3>1 DEF Enter, MasterOn
  <2>2. CASE doneNum # 0
    BY <1>6, <2>2 DEF Enter, BarrierInv, DoneCounted
  <2> QED BY <2>1, <2>2
<1>7. ASSUME NEW c \in Child, BecomeMaster(c) PROVE Control'
  BY <1>7 DEF BecomeMaster
<1>8. ASSUME NEW c \in Child, MasterRead(c) PROVE Control'
  BY <1>8 DEF MasterRead
<1>9. ASSUME NEW c \in Child, MasterCompare(c) PROVE Control'
  <2>1. CASE local[c] = active
    BY <1>9, <2>1, AllSlaves DEF MasterCompare
  <2>2. CASE local[c] # active
    BY <1>9, <2>2 DEF MasterCompare
  <2> QED BY <2>1, <2>2
<1>10. ASSUME NEW c \in Child, NEW chosen \in SUBSET Child, Callback(c, chosen) PROVE Control'
  BY <1>10 DEF Callback
<1>11. ASSUME NEW c \in Child, ClearSync(c) PROVE Control'
  BY <1>11 DEF ClearSync
<1>12. ASSUME NEW c \in Child, ClearDone(c) PROVE Control'
  BY <1>12 DEF ClearDone
<1>13. ASSUME NEW c \in Child, Release(c) PROVE Control'
  BY <1>13 DEF Release
<1>14. ASSUME NEW c \in Child, Write(c) PROVE Control'
  BY <1>14 DEF Write
<1>15. ASSUME NEW c \in Child, SlaveLeave(c) PROVE Control'
  BY <1>15 DEF SlaveLeave
<1>16. ASSUME NEW c \in Child, SplitCheck(c) PROVE Control'
  BY <1>16 DEF SplitCheck
<1>17. ASSUME NEW c \in Child, Aggregate(c) PROVE Control'
  BY <1>17 DEF Aggregate
<1>18. ASSUME NEW c \in Child, Leave(c) PROVE Control'
  BY <1>18 DEF Leave
<1>19. ASSUME NEW c \in Child, CheckFail(c) PROVE Control'
  BY <1>19 DEF CheckFail
<1>20. CASE UNCHANGED vars
  BY <1>20 DEF vars
<1> QED
  BY <1>1, <1>2, <1>3, <1>4, <1>5, <1>6, <1>7, <1>8, <1>9, <1>10, <1>11, <1>12,
     <1>13, <1>14, <1>15, <1>16, <1>17, <1>18, <1>19, <1>20
  DEF Next, Step
-----------------------------------------------------------------------------
\* sySyncChildDoneNum is 0 when and only when there is no master.
LEMMA DoneZero == BarrierInv => (doneNum = 0 <=> In(MasterOn) = {})
<1>1. In({"slave"}) \subseteq Child
  BY DEF In
<1>2. Cardinality(In({"slave"})) \in Nat
  BY <1>1, Counting
<1>3. BarrierInv => doneNum = IF In(MasterOn) = {} THEN 0 ELSE 1 + Cardinality(In({"slave"}))
  BY DEF BarrierInv, DoneCounted, MasterOn
<1> QED BY <1>2, <1>3

Counts == SyncCounted /\ DoneCounted /\ ActiveCounted

LEMMA CountStep == BarrierInv /\ [Next]_vars => Counts'
<1> SUFFICES ASSUME BarrierInv, [Next]_vars PROVE Counts'
  OBVIOUS
<1>t. Typed /\ Typed'
  BY TypedStep DEF BarrierInv
<1>c. Exclusive /\ GatheredAll /\ NoSlaveYet /\ ServedAll
  BY DEF BarrierInv
<1>z. doneNum = 0 <=> In(MasterOn) = {}
  BY DoneZero
<1>s. /\ Synced \subseteq Child /\ In({"slave"}) \subseteq Child /\ Present \subseteq Child
      /\ Cardinality(Synced) \in Nat /\ Cardinality(In({"slave"})) \in Nat
      /\ Cardinality(Present) \in Nat
  <2>1. Synced \subseteq Child /\ In({"slave"}) \subseteq Child /\ Present \subseteq Child
    BY DEF Synced, Present, In
  <2> QED BY <2>1, Counting
<1>n. /\ sync = Cardinality(Synced) /\ active = Cardinality(Present)
      /\ doneNum = IF In(MasterOn) = {} THEN 0 ELSE 1 + Cardinality(In({"slave"}))
  BY DEF BarrierInv, SyncCounted, ActiveCounted, DoneCounted, MasterOn
<1>k. ASSUME Synced' = Synced, sync' = sync,
             In({"slave"})' = In({"slave"}), In(MasterOn)' = {} <=> In(MasterOn) = {},
             doneNum' = doneNum, Present' = Present, active' = active
      PROVE  Counts'
  BY <1>k, <1>n DEF Counts, SyncCounted, DoneCounted, ActiveCounted, MasterOn
<1> USE <1>t DEF Typed, Goto
<1>1. ASSUME NEW c \in Child,
             \/ ForkChild(c) \/ ReadSync(c) \/ LockActive(c) \/ SpinCompare(c)
             \/ MasterRead(c) \/ MasterCompare(c) \/ SplitCheck(c) \/ Aggregate(c)
      PROVE  Counts'
  <2> USE DEF In, AtCheckpoint1, Master, MasterOn
  <2>1. Synced' = Synced /\ sync' = sync /\ doneNum' = doneNum /\ active' = active
    BY <1>1 DEF ForkChild, ReadSync, LockActive, SpinCompare, MasterRead, MasterCompare,
                SplitCheck, Aggregate, Synced
  <2>2. In({"slave"})' = In({"slave"}) /\ Present' = Present
    BY <1>1 DEF ForkChild, ReadSync, LockActive, SpinCompare, MasterRead, MasterCompare,
                SplitCheck, Aggregate, Present
  <2>3. In(MasterOn)' = {} <=> In(MasterOn) = {}
    BY <1>1 DEF ForkChild, ReadSync, LockActive, SpinCompare, MasterRead, MasterCompare,
                SplitCheck, Aggregate
  <2> QED BY <1>k, <2>1, <2>2, <2>3
<1> USE DEF In, AtCheckpoint1, Master
<1>2. ASSUME NEW c \in Child, Arrive(c) PROVE Counts'
  <2>1. Synced' = Synced \cup {c} /\ c \notin Synced
    BY <1>2 DEF Arrive, Synced
  <2>2. In({"slave"})' = In({"slave"}) /\ In(MasterOn)' = In(MasterOn) /\ Present' = Present
    BY <1>2 DEF Arrive, MasterOn, Present
  <2>3. Cardinality(Synced') = Cardinality(Synced) + 1
    BY <2>1, <1>s, Counting
  <2> QED BY <1>2, <2>1, <2>2, <2>3, <1>n
          DEF Arrive, Counts, SyncCounted, DoneCounted, ActiveCounted, MasterOn
<1>3. ASSUME NEW c \in Child, Enter(c) PROVE Counts'
  <2>g. \A d \in Child : pc[d] \in {"gone", "slave"} \cup AtCheckpoint1 \cup Gathering
    BY <1>3, <1>c DEF Enter, GatheredAll, Gathering
  <2>p. Present' = Present /\ sync' = sync /\ active' = active
    BY <1>3 DEF Enter, Present
  <2>1. CASE doneNum = 0
    <3>1. In({"slave", "write"}) = {}
      BY <1>3, <1>c, <1>z, <2>1 DEF Enter, GatheredAll, Gathering, BeforeCallback, MasterOn
    <3>2. Synced' = Synced
      BY <1>3, <1>z, <2>1, <2>g, <3>1 DEF Enter, Synced, Gathering, BeforeCallback, MasterOn
    <3>3. In({"slave"})' = {} /\ In(MasterOn)' # {} /\ doneNum' = 1
      BY <1>3, <2>1, <3>1 DEF Enter, MasterOn
    <3>4. Cardinality({}) = 0
      BY FS_EmptySet
    <3>5. DoneCounted'
      <4>1. Cardinality(In({"slave"})') = 0
        BY <3>3, <3>4
      <4> QED BY <3>3, <4>1 DEF DoneCounted, MasterOn
    <3> QED BY <2>p, <3>2, <3>5, <1>n DEF Counts, SyncCounted, ActiveCounted
  <2>2. CASE doneNum # 0
    <3>1. Synced' = Synced /\ doneNum' = doneNum
      BY <1>3, <2>2, <2>g DEF Enter, Synced, Gathering, BeforeCallback
    <3>2. In({"slave"})' = In({"slave"}) /\ In(MasterOn)' = In(MasterOn)
      BY <1>3, <2>2 DEF Enter, MasterOn
    <3> QED BY <1>k, <2>p, <3>1, <3>2
  <2> QED BY <2>1, <2>2
<1>4. ASSUME NEW c \in Child, BecomeMaster(c) PROVE Counts'
  <2>1. Synced' = Synced
    BY <1>4, <1>z DEF BecomeMaster, Synced, MasterOn
  <2>2. In({"slave"})' = In({"slave"}) /\ Present' = Present
    BY <1>4 DEF BecomeMaster, Present
  <2>3. In(MasterOn)' = {} <=> In(MasterOn) = {}
    BY <1>4 DEF BecomeMaster, MasterOn
  <2> QED BY <1>k, <1>4, <2>1, <2>2, <2>3 DEF BecomeMaster
<1>5. ASSUME NEW c \in Child, NEW chosen \in SUBSET Child, Callback(c, chosen) PROVE Counts'
  <2>1. Synced' = Synced
    BY <1>5 DEF Callback, Synced
  <2>2. In({"slave"})' = In({"slave"}) /\ Present' = Present
    BY <1>5 DEF Callback, Present
  <2>3. In(MasterOn)' = {} <=> In(MasterOn) = {}
    BY <1>5 DEF Callback, MasterOn
  <2> QED BY <1>k, <1>5, <2>1, <2>2, <2>3 DEF Callback
<1>6. ASSUME NEW c \in Child, ClearSync(c) PROVE Counts'
  <2>1. Synced' = {} /\ sync' = 0
    BY <1>6, <1>c DEF ClearSync, Synced, ServedAll, Served
  <2>2. In({"slave"})' = In({"slave"}) /\ Present' = Present
    BY <1>6 DEF ClearSync, Present
  <2>3. In(MasterOn)' = {} <=> In(MasterOn) = {}
    BY <1>6 DEF ClearSync, MasterOn
  <2> QED BY <1>6, <2>1, <2>2, <2>3, <1>n, FS_EmptySet
          DEF ClearSync, Counts, SyncCounted, DoneCounted, ActiveCounted, MasterOn
<1>7. ASSUME NEW c \in Child, ClearDone(c) PROVE Counts'
  <2>1. Synced' = Synced
    BY <1>7, <1>c DEF ClearDone, Synced, ServedAll, Served
  <2>2. In(MasterOn)' = {} /\ Present' = Present
    BY <1>7, <1>c DEF ClearDone, MasterOn, ServedAll, Served, Present
  <2> QED BY <1>7, <2>1, <2>2, <1>n
          DEF ClearDone, Counts, SyncCounted, DoneCounted, ActiveCounted, MasterOn
<1>8. ASSUME NEW c \in Child, Release(c) PROVE Counts'
  <2>1. In(MasterOn) = {}
    BY <1>8, <1>c DEF Release, ServedAll, Served, MasterOn
  <2>2. Synced' = Synced
    BY <1>8, <1>z, <2>1 DEF Release, Synced
  <2>3. In({"slave"})' = In({"slave"}) /\ In(MasterOn)' = {} /\ Present' = Present
    BY <1>8, <2>1 DEF Release, Present, MasterOn
  <2> QED BY <1>k, <1>8, <2>1, <2>2, <2>3 DEF Release
<1>9. ASSUME NEW c \in Child, Write(c) PROVE Counts'
  <2>1. In(MasterOn) # {} /\ In({"clearDone"}) = {}
    BY <1>9, <1>c DEF Write, GatheredAll, Gathering, BeforeCallback, MasterOn
  <2>2. doneNum # 0 /\ doneNum' # 0
    BY <1>9, <1>z, <1>n, <1>s, <2>1 DEF Write
  <2>3. Synced' = Synced
    BY <1>9, <2>1, <2>2 DEF Write, Synced
  <2>4. In({"slave"})' = In({"slave"}) \cup {c} /\ c \notin In({"slave"})
    BY <1>9 DEF Write
  <2>5. Cardinality(In({"slave"})') = Cardinality(In({"slave"})) + 1
    BY <2>4, <1>s, Counting
  <2>6. In(MasterOn)' # {} /\ Present' = Present
    BY <1>9, <2>1 DEF Write, MasterOn, Present
  <2> QED BY <1>9, <2>1, <2>3, <2>5, <2>6, <1>n, <1>s
          DEF Write, Counts, SyncCounted, DoneCounted, ActiveCounted, MasterOn
<1>10. ASSUME NEW c \in Child, SlaveLeave(c) PROVE Counts'
  <2>1. In(MasterOn) = {}
    BY <1>10, <1>c DEF SlaveLeave, NoSlaveYet, MasterOn
  <2>2. Synced' = Synced
    BY <1>10, <1>z, <2>1 DEF SlaveLeave, Synced
  <2>3. In(MasterOn)' = {} /\ Present' = Present
    BY <1>10, <2>1 DEF SlaveLeave, Present, MasterOn
  <2> QED BY <1>10, <2>1, <2>2, <2>3, <1>n
          DEF SlaveLeave, Counts, SyncCounted, DoneCounted, ActiveCounted, MasterOn
<1>11. ASSUME NEW c \in Child, Leave(c) PROVE Counts'
  <2>1. Present' = Present \ {c} /\ c \in Present
    BY <1>11 DEF Leave, Present
  <2>2. Cardinality(Present') = Cardinality(Present) - 1
    BY <2>1, <1>s, Counting
  <2>3. Synced' = Synced /\ In({"slave"})' = In({"slave"}) /\ In(MasterOn)' = In(MasterOn)
    BY <1>11 DEF Leave, Synced, MasterOn
  <2> QED BY <1>11, <2>2, <2>3, <1>n
          DEF Leave, Counts, SyncCounted, DoneCounted, ActiveCounted, MasterOn
<1>12. ASSUME NEW c \in Child, CheckFail(c) PROVE Counts'
  <2>1. Synced' = Synced /\ In(MasterOn)' = In(MasterOn)
    BY <1>12 DEF CheckFail, Synced, MasterOn
  <2>2. In({"slave"})' = In({"slave"}) /\ Present' = Present
    BY <1>12 DEF CheckFail, Present
  <2> QED BY <1>k, <1>12, <2>1, <2>2 DEF CheckFail
<1>13. CASE UNCHANGED vars
  <2>1. Synced' = Synced /\ In({"slave"})' = In({"slave"}) /\ Present' = Present
        /\ In(MasterOn)' = In(MasterOn)
    BY <1>13 DEF vars, Synced, Present, MasterOn
  <2> QED BY <1>k, <1>13, <2>1 DEF vars
<1> QED
  BY <1>1, <1>2, <1>3, <1>4, <1>5, <1>6, <1>7, <1>8, <1>9, <1>10, <1>11, <1>12, <1>13
  DEF Next, Step
-----------------------------------------------------------------------------
\* What the processes have read, and what they have on file.
Data == LocalsBehind /\ FilesExact /\ SplitsExact

LEMMA DataStep == BarrierInv /\ [Next]_vars => Data'
<1> SUFFICES ASSUME BarrierInv, [Next]_vars PROVE Data'
  OBVIOUS
<1>t. Typed /\ Typed'
  BY TypedStep DEF BarrierInv
<1>c. Exclusive /\ GatheredAll /\ NoSlaveYet /\ ServedAll
  BY DEF BarrierInv
<1>d. LocalsBehind /\ FilesExact /\ SplitsExact
  BY DEF BarrierInv
<1>z. doneNum = 0 <=> In(MasterOn) = {}
  BY DoneZero
<1>k. ASSUME files' = files, In({"slave"})' = In({"slave"}),
             \A d \in In({"slave"}) : round'[d] = round[d],
             In(MasterOn)' = {} <=> In(MasterOn) = {}
      PROVE  FilesExact'
  BY <1>k, <1>d DEF FilesExact
<1> USE <1>t DEF Typed, Goto, In, Master, MasterOn
<1>1. ASSUME NEW c \in Child,
             \/ ForkChild(c) \/ LockActive(c) \/ SpinCompare(c) \/ BecomeMaster(c)
             \/ Release(c) \/ Aggregate(c) \/ Leave(c) \/ CheckFail(c)
      PROVE  Data'
  <2> USE DEF ForkChild, LockActive, SpinCompare, BecomeMaster, Release, Aggregate,
              Leave, CheckFail
  <2>1. LocalsBehind' /\ SplitsExact'
    BY <1>1, <1>d DEF LocalsBehind, SplitsExact
  <2>2. files' = files /\ round' = round /\ In({"slave"})' = In({"slave"})
    BY <1>1
  <2>3. In(MasterOn)' = {} <=> In(MasterOn) = {}
    BY <1>1
  <2> QED BY <2>1, <2>2, <2>3, <1>k DEF Data
<1>2. ASSUME NEW c \in Child, Arrive(c) \/ ReadSync(c) \/ MasterRead(c) PROVE Data'
  <2> USE DEF Arrive, ReadSync, MasterRead
  <2>1. LocalsBehind' /\ SplitsExact'
    BY <1>2, <1>d DEF LocalsBehind, SplitsExact
  <2>2. files' = files /\ In({"slave"})' = In({"slave"})
        /\ \A d \in In({"slave"}) : round'[d] = round[d]
    BY <1>2
  <2>3. In(MasterOn)' = {} <=> In(MasterOn) = {}
    BY <1>2
  <2> QED BY <2>1, <2>2, <2>3, <1>k DEF Data
<1>3. ASSUME NEW c \in Child, Enter(c) PROVE Data'
  <2>1. In({"callback"}) = {}
    BY <1>3, <1>c DEF Enter, ServedAll, Served
  <2>2. LocalsBehind' /\ SplitsExact'
    BY <1>3, <1>d, <2>1 DEF Enter, LocalsBehind, SplitsExact
  <2>3. FilesExact'
    <3>1. CASE doneNum = 0
      <4>1. In({"slave"}) = {}
        BY <1>3, <1>c, <1>z, <3>1 DEF Enter, GatheredAll, Gathering, BeforeCallback
      <4>2. files' = {} /\ In({"slave"})' = {}
        BY <1>3, <1>d, <1>z, <3>1, <4>1 DEF Enter, FilesExact
      <4> QED BY <4>2 DEF FilesExact
    <3>2. CASE doneNum # 0
      <4>1. files' = files /\ round' = round /\ In({"slave"})' = In({"slave"})
        BY <1>3, <3>2 DEF Enter
      <4>2. In(MasterOn)' = In(MasterOn)
        BY <1>3, <3>2 DEF Enter
      <4> QED BY <4>1, <4>2, <1>k
    <3> QED BY <3>1, <3>2
  <2> QED BY <2>2, <2>3 DEF Data
<1>4. ASSUME NEW c \in Child, MasterCompare(c) PROVE Data'
  <2>1. local[c] = active => local[c] = doneNum
    BY <1>4, AllSlaves DEF MasterCompare
  <2>2. LocalsBehind' /\ SplitsExact'
    BY <1>4, <1>d, <2>1 DEF MasterCompare, LocalsBehind, SplitsExact
  <2>3. files' = files /\ round' = round /\ In({"slave"})' = In({"slave"})
    BY <1>4 DEF MasterCompare
  <2>4. In(MasterOn)' = {} <=> In(MasterOn) = {}
    BY <1>4 DEF MasterCompare
  <2> QED BY <2>2, <2>3, <2>4, <1>k DEF Data
<1>5. ASSUME NEW c \in Child, NEW chosen \in SUBSET Child, Callback(c, chosen) PROVE Data'
  <2>1. LocalsBehind' /\ SplitsExact'
    BY <1>5, <1>d DEF Callback, LocalsBehind, SplitsExact
  <2>2. files' = files /\ round' = round /\ In({"slave"})' = In({"slave"})
    BY <1>5 DEF Callback
  <2>3. In(MasterOn)' = {} <=> In(MasterOn) = {}
    BY <1>5 DEF Callback
  <2> QED BY <2>1, <2>2, <2>3, <1>k DEF Data
<1>6. ASSUME NEW c \in Child, ClearSync(c) PROVE Data'
  <2>1. LocalsBehind' /\ SplitsExact'
    BY <1>6, <1>c, <1>d DEF ClearSync, ServedAll, Served, LocalsBehind, SplitsExact
  <2>2. files' = files /\ round' = round /\ In({"slave"})' = In({"slave"})
    BY <1>6 DEF ClearSync
  <2>3. In(MasterOn)' = {} <=> In(MasterOn) = {}
    BY <1>6 DEF ClearSync
  <2> QED BY <2>1, <2>2, <2>3, <1>k DEF Data
<1>7. ASSUME NEW c \in Child, ClearDone(c) PROVE Data'
  <2>1. LocalsBehind' /\ SplitsExact'
    BY <1>7, <1>c, <1>d DEF ClearDone, ServedAll, Served, LocalsBehind, SplitsExact
  <2>2. files' = {} /\ In(MasterOn)' = {}
    BY <1>7, <1>c DEF ClearDone, ServedAll, Served
  <2> QED BY <2>1, <2>2 DEF Data, FilesExact
<1>8. ASSUME NEW c \in Child, Write(c) PROVE Data'
  <2>1. In(MasterOn) # {} /\ In({"callback"}) = {}
    BY <1>8, <1>c DEF Write, GatheredAll, Gathering, BeforeCallback, ServedAll, Served
  <2>2. LocalsBehind' /\ SplitsExact'
    BY <1>8, <1>d, <2>1 DEF Write, LocalsBehind, SplitsExact
  <2>3. In({"slave"})' = In({"slave"}) \cup {c} /\ In(MasterOn)' # {}
    BY <1>8, <2>1 DEF Write
  <2>4. files = {<<d, round[d]>> : d \in In({"slave"})}
    BY <2>1, <1>d DEF FilesExact
  <2>5. files' = {<<d, round[d]>> : d \in In({"slave"}) \cup {c}}
    BY <1>8, <2>4 DEF Write
  <2>6. round' = round
    BY <1>8 DEF Write
  <2> HIDE DEF In, MasterOn
  <2>7. FilesExact'
    BY <2>3, <2>5, <2>6 DEF FilesExact
  <2> QED BY <2>2, <2>7 DEF Data
<1>9. ASSUME NEW c \in Child, SlaveLeave(c) PROVE Data'
  <2>1. In(MasterOn) = {} /\ In(MasterOn)' = {}
    BY <1>9, <1>c DEF SlaveLeave, NoSlaveYet
  <2>2. LocalsBehind' /\ SplitsExact'
    BY <1>9, <1>d DEF SlaveLeave, LocalsBehind, SplitsExact
  <2>3. FilesExact'
    BY <1>9, <1>d, <2>1 DEF SlaveLeave, FilesExact
  <2> QED BY <2>2, <2>3 DEF Data
<1>10. ASSUME NEW c \in Child, SplitCheck(c) PROVE Data'
  <2>1. LocalsBehind'
    BY <1>10, <1>d DEF SplitCheck, LocalsBehind
  <2>2. SplitsExact'
    BY <1>10, <1>d DEF SplitCheck, SplitsExact
  <2>3. files' = files /\ round' = round /\ In({"slave"})' = In({"slave"})
    BY <1>10 DEF SplitCheck
  <2>4. In(MasterOn)' = {} <=> In(MasterOn) = {}
    BY <1>10 DEF SplitCheck
  <2> QED BY <2>1, <2>2, <2>3, <2>4, <1>k DEF Data
<1>11. CASE UNCHANGED vars
  BY <1>11, <1>d DEF vars, Data, LocalsBehind, FilesExact, SplitsExact
<1> QED
  BY <1>1, <1>2, <1>3, <1>4, <1>5, <1>6, <1>7, <1>8, <1>9, <1>10, <1>11 DEF Next, Step

\* The inductive invariant of the barrier.
LEMMA BarrierStep == BarrierInv /\ [Next]_vars => BarrierInv'
BY TypedStep, ControlStep, CountStep, DataStep DEF BarrierInv, Control, Counts, Data

LEMMA BarrierStart == Init => BarrierInv
<1> SUFFICES ASSUME Init PROVE BarrierInv
  OBVIOUS
<1> USE DEF Init, In
<1>1. Cardinality(Child) \in Nat
  BY Counting
<1>2. Typed
  BY <1>1 DEF Typed, Status
<1>3. Exclusive /\ GatheredAll /\ NoSlaveYet /\ ServedAll /\ LocalsBehind
  BY DEF Exclusive, Single, GatheredAll, Gathering, BeforeCallback, NoSlaveYet, ServedAll,
         Served, LocalsBehind, Mutex1, Master
<1>4. FilesExact /\ SplitsExact
  BY DEF FilesExact, SplitsExact, MasterOn, Master
<1>5. Synced = {} /\ Present = Child
  BY DEF Synced, Present, AtCheckpoint1
<1>6. SyncCounted /\ DoneCounted /\ ActiveCounted
  BY <1>5, FS_EmptySet DEF SyncCounted, DoneCounted, ActiveCounted, Master
<1> QED BY <1>2, <1>3, <1>4, <1>6 DEF BarrierInv

LEMMA BarrierKept == Spec => []BarrierInv
BY BarrierStart, BarrierStep, PTL DEF Spec

\* The three counters of dpSync are exact at every step.
THEOREM CountersCorrect == Spec => []CountersExact
<1>1. BarrierInv => CountersExact
  BY DEF BarrierInv, CountersExact
<1> QED BY <1>1, BarrierKept, PTL

\* No process is split twice (SamplingIO.c:433-494).
THEOREM SplitAtMostOnce == Spec => []SplitOnce
<1>1. BarrierInv => SplitOnce
  BY DEF BarrierInv, SplitsExact, SplitOnce
<1> QED BY <1>1, BarrierKept, PTL
-----------------------------------------------------------------------------
\* No counter exceeds the size of the batch.
Bounded == {sync, doneNum, active} \subseteq 0..Cardinality(Child)

LEMMA CountersBounded == BarrierInv => Bounded
<1> SUFFICES ASSUME BarrierInv PROVE Bounded
  OBVIOUS
<1> DEFINE slaves == In({"slave"})
<1>1. Synced \subseteq Child /\ Present \subseteq Child
  BY DEF Synced, Present, In
<1>2. sync \in 0..Cardinality(Child) /\ active \in 0..Cardinality(Child)
  BY <1>1, Counting DEF BarrierInv, SyncCounted, ActiveCounted
<1>3. doneNum \in 0..Cardinality(Child)
  <2>1. CASE In(MasterOn) = {}
    BY <2>1, Counting, DoneZero
  <2>2. CASE In(MasterOn) # {}
    <3>1. PICK m \in Child : m \in In(MasterOn)
      BY <2>2 DEF In
    <3>2. slaves \subseteq Child /\ m \notin slaves /\ slaves \cup {m} \subseteq Child
      BY <3>1 DEF In, MasterOn, Master
    <3>3. Cardinality(slaves \cup {m}) = Cardinality(slaves) + 1
          /\ Cardinality(slaves) \in Nat
      BY <3>2, Counting
    <3>4. Cardinality(slaves \cup {m}) <= Cardinality(Child) /\ Cardinality(Child) \in Nat
      BY <3>2, Counting
    <3>5. doneNum = 1 + Cardinality(slaves)
      BY <2>2 DEF BarrierInv, DoneCounted, MasterOn
    <3> HIDE DEF slaves
    <3> QED BY <3>3, <3>4, <3>5
  <2> QED BY <2>1, <2>2
<1> QED BY <1>2, <1>3 DEF Bounded

\* What is left of the type invariant: a process in dpSync has begun a round.
Begun ==
    \A c \in Child : pc[c] \notin {"unborn", "run", "leave", "gone", "failed"} => round[c] >= 1
Within ==
    /\ local \in [Child -> 0..Cardinality(Child)]
    /\ round \in [Child -> 0..MaxRounds]
    /\ files \subseteq Child \X (1..MaxRounds)
    /\ Begun

LEMMA WithinStart == Init => Within
<1>1. Cardinality(Child) \in Nat
  BY Counting
<1> QED BY <1>1, BoundAssumption DEF Init, Within, Begun

LEMMA WithinStep == Within /\ Typed /\ Bounded /\ [Next]_vars => Within'
<1> SUFFICES ASSUME Within, Typed, Bounded, [Next]_vars PROVE Within'
  OBVIOUS
<1> USE BoundAssumption DEF Within, Begun, Typed, Bounded, Goto
<1>1. ASSUME NEW c \in Child, Arrive(c) PROVE Within'
  BY <1>1 DEF Arrive
<1>2. ASSUME NEW c \in Child, ReadSync(c) \/ MasterRead(c) PROVE Within'
  BY <1>2 DEF ReadSync, MasterRead
<1>3. ASSUME NEW c \in Child, Enter(c) PROVE Within'
  BY <1>3 DEF Enter
<1>4. ASSUME NEW c \in Child, ClearSync(c) \/ ClearDone(c) \/ Leave(c) PROVE Within'
  BY <1>4 DEF ClearSync, ClearDone, Leave
<1>5. ASSUME NEW c \in Child, Write(c) PROVE Within'
  <2>1. round[c] \in 1..MaxRounds
    BY <1>5 DEF Write
  <2> QED BY <1>5, <2>1 DEF Write
<1>6. ASSUME NEW c \in Child, LockActive(c) \/ SpinCompare(c) \/ MasterCompare(c) PROVE Within'
  BY <1>6 DEF LockActive, SpinCompare, MasterCompare
<1>7. ASSUME NEW c \in Child, NEW chosen \in SUBSET Child, Callback(c, chosen) PROVE Within'
  BY <1>7 DEF Callback
<1>8. ASSUME NEW c \in Child, SplitCheck(c) PROVE Within'
  BY <1>8 DEF SplitCheck
<1>9. ASSUME NEW c \in Child,
             \/ ForkChild(c) \/ BecomeMaster(c) \/ Release(c) \/ SlaveLeave(c)
             \/ Aggregate(c) \/ CheckFail(c)
      PROVE Within'
  BY <1>9 DEF ForkChild, BecomeMaster, Release, SlaveLeave, Aggregate, CheckFail
<1>10. CASE UNCHANGED vars
  BY <1>10 DEF vars
<1> QED
  BY <1>1, <1>2, <1>3, <1>4, <1>5, <1>6, <1>7, <1>8, <1>9, <1>10 DEF Next, Step

\* Every state of the barrier is well-typed; no counter exceeds the batch.
THEOREM TypeCorrect == Spec => []TypeOK
<1>1. BarrierInv => Typed /\ Bounded
  BY CountersBounded DEF BarrierInv
<1>2. BarrierInv /\ Within => TypeOK
  BY CountersBounded DEF BarrierInv, Typed, Bounded, Within, SplitsExact, TypeOK
<1> QED BY <1>1, <1>2, WithinStart, WithinStep, BarrierKept, PTL DEF Spec

-----------------------------------------------------------------------------
\* Where a process is, by its label and whether a master gathers the slaves.
PlaceAt(label, gathering) ==
    IF label \in {"unborn", "run", "leave"} THEN "outside"
    ELSE IF label \in AtCheckpoint1 \cup {"write"} \cup BeforeCallback THEN "waiting"
    ELSE IF label = "slave" /\ gathering THEN "waiting"
    ELSE IF label = "gone" THEN "left"
    ELSE IF label = "failed" THEN "lost"
    ELSE "released"

LEMMA PlaceByLabel ==
    ASSUME NEW c \in Child
    PROVE  /\ PlaceOf(c) = PlaceAt(pc[c], In(BeforeCallback) # {})
           /\ PlaceOf(c)' = PlaceAt(pc'[c], In(BeforeCallback)' # {})
BY DEF PlaceOf, PlaceAt, Waiting, In, AtCheckpoint1, BeforeCallback

\* A step that leaves nobody waiting for another master moves one process only.
LEMMA OneMoves ==
    ASSUME Typed, NEW c \in Child, NEW label, Goto(c, label),
           \/ In(BeforeCallback)' = {} <=> In(BeforeCallback) = {}
           \/ In({"slave"}) = {}
    PROVE  /\ Places[c] = PlaceAt(pc[c], In(BeforeCallback) # {})
           /\ Places' = [Places EXCEPT ![c] = PlaceAt(label, In(BeforeCallback)' # {})]
<1>1. \A d \in Child : /\ PlaceOf(d) = PlaceAt(pc[d], In(BeforeCallback) # {})
                       /\ PlaceOf(d)' = PlaceAt(pc'[d], In(BeforeCallback)' # {})
  BY PlaceByLabel
<1>2. pc'[c] = label /\ \A d \in Child \ {c} : pc'[d] = pc[d]
  BY DEF Typed, Goto
<1>3. \A d \in Child \ {c} : PlaceOf(d)' = PlaceOf(d)
  BY <1>1, <1>2 DEF PlaceAt, In
<1>4. Places' = [d \in Child |-> PlaceOf(d)'] /\ Places = [d \in Child |-> PlaceOf(d)]
  BY DEF Places
<1> QED BY <1>1, <1>2, <1>3, <1>4

\* The same when the process stays where it is: a step the barrier does not see.
LEMMA Unseen ==
    ASSUME Typed, NEW c \in Child, NEW label, Goto(c, label),
           \/ In(BeforeCallback)' = {} <=> In(BeforeCallback) = {}
           \/ In({"slave"}) = {},
           PlaceAt(pc[c], In(BeforeCallback) # {}) = PlaceAt(label, In(BeforeCallback)' # {}),
           UNCHANGED <<round, fork, splits>>
    PROVE  UNCHANGED Promise!barrier
<1>1. Places' = Places
  BY OneMoves DEF Places
<1> QED BY <1>1 DEF Promise!barrier, Splitted

LEMMA RefinementStart == Init => Promise!BarrierInit
<1> SUFFICES ASSUME Init PROVE Promise!BarrierInit
  OBVIOUS
<1>1. \A c \in Child : PlaceOf(c) = "outside"
  BY PlaceByLabel DEF Init, PlaceAt
<1>2. Splitted = {}
  BY DEF Init, Splitted
<1> QED BY <1>1, <1>2 DEF Init, Promise!BarrierInit, Places

LEMMA RefinementStep ==
    BarrierInv /\ [Next]_vars => [Promise!BarrierNext]_(Promise!barrier)
<1> SUFFICES ASSUME BarrierInv, [Next]_vars
             PROVE  [Promise!BarrierNext]_(Promise!barrier)
  OBVIOUS
<1> DEFINE Refined == [Promise!BarrierNext]_(Promise!barrier)
<1>t. Typed
  BY DEF BarrierInv
<1>c. GatheredAll /\ NoSlaveYet /\ ServedAll
  BY DEF BarrierInv
<1>s. Splitted = forked
  BY DEF BarrierInv, SplitsExact, Splitted
<1> USE <1>t DEF Typed, BeforeCallback, AtCheckpoint1
<1>1. ASSUME NEW c \in Child,
             \/ ForkChild(c) \/ ReadSync(c) \/ LockActive(c) \/ SpinCompare(c)
             \/ BecomeMaster(c) \/ MasterRead(c) \/ MasterCompare(c) \/ ClearSync(c)
             \/ ClearDone(c) \/ Release(c) \/ Aggregate(c)
      PROVE  Refined
  <2> USE DEF ForkChild, ReadSync, LockActive, SpinCompare, BecomeMaster, MasterRead,
              MasterCompare, ClearSync, ClearDone, Release, Aggregate
  <2>1. UNCHANGED <<round, fork, splits>>
    BY <1>1
  <2>2. PICK label : Goto(c, label)
    BY <1>1
  <2>3. In(BeforeCallback)' = {} <=> In(BeforeCallback) = {}
    BY <1>1 DEF In, Goto
  <2>4. PlaceAt(pc[c], In(BeforeCallback) # {}) = PlaceAt(label, In(BeforeCallback)' # {})
    BY <1>1, <2>2 DEF PlaceAt, Goto
  <2> QED BY <2>1, <2>2, <2>3, <2>4, Unseen
<1>2. ASSUME NEW c \in Child, Arrive(c) PROVE Refined
  <2>1. In(BeforeCallback)' = {} <=> In(BeforeCallback) = {}
    BY <1>2 DEF Arrive, Goto, In
  <2>2. Places[c] = "outside" /\ Places' = [Places EXCEPT ![c] = "waiting"]
    BY <1>2, <2>1, OneMoves DEF Arrive, PlaceAt
  <2>3. Splitted' = Splitted
    BY <1>2 DEF Arrive, Splitted
  <2>4. Promise!Come(c)
    BY <1>2, <2>2, <2>3 DEF Arrive, Promise!Come
  <2> QED BY <2>4 DEF Promise!BarrierNext
<1>3. ASSUME NEW c \in Child, Enter(c) PROVE Refined
  <2>1. UNCHANGED <<round, fork, splits>>
    BY <1>3 DEF Enter
  <2>2. PICK label \in {"becomeMaster", "write"} :
          Goto(c, label) /\ (label = "becomeMaster" <=> doneNum = 0)
    BY <1>3 DEF Enter
  <2>3. PlaceAt(pc[c], In(BeforeCallback) # {}) = PlaceAt(label, In(BeforeCallback)' # {})
    BY <1>3, <2>2 DEF Enter, PlaceAt
  <2>4. \/ In(BeforeCallback)' = {} <=> In(BeforeCallback) = {}
        \/ In({"slave"}) = {}
    <3>1. CASE doneNum = 0
      <4>1. In(BeforeCallback) = {}
        BY <3>1, DoneZero DEF MasterOn, Master, In
      <4> QED BY <1>3, <1>c, <4>1 DEF Enter, GatheredAll, Gathering, In
    <3>2. CASE doneNum # 0
      BY <1>3, <3>2 DEF Enter, Goto, In
    <3> QED BY <3>1, <3>2
  <2> QED BY <2>1, <2>2, <2>3, <2>4, Unseen
<1>4. ASSUME NEW c \in Child, NEW chosen \in SUBSET Child, Callback(c, chosen) PROVE Refined
  <2>1. In(BeforeCallback) # {} /\ In(BeforeCallback)' = {}
    BY <1>4, <1>c DEF Callback, Goto, In, ServedAll, Served
  <2>2. \A d \in Child : PlaceOf(d) = IF pc[d] = "gone" THEN "left" ELSE "waiting"
    BY <1>4, <1>c, <2>1, PlaceByLabel DEF Callback, In, ServedAll, Served, PlaceAt
  <2>3. \A d \in Child : PlaceOf(d)' = IF pc[d] = "gone" THEN "left" ELSE "released"
    BY <1>4, <1>c, <2>1, PlaceByLabel DEF Callback, Goto, In, ServedAll, Served, PlaceAt
  <2>4. /\ \E d \in Child : Places[d] = "waiting"
        /\ \A d \in Child : Places[d] \in {"waiting", "left"}
    BY <1>4, <2>2 DEF Callback, Places
  <2>5. Places' = [d \in Child |-> IF Places[d] = "waiting" THEN "released" ELSE Places[d]]
    BY <2>2, <2>3 DEF Places
  <2>6. Splitted' = Splitted /\ fork' = fork \cup (chosen \ Splitted) /\ round' = round
    BY <1>4, <1>s DEF Callback, Splitted
  <2>7. Promise!Open(chosen)
    BY <2>4, <2>5, <2>6 DEF Promise!Open
  <2> QED BY <2>7 DEF Promise!BarrierNext
<1>5. ASSUME NEW c \in Child, Write(c) PROVE Refined
  <2>1. UNCHANGED <<round, fork, splits>> /\ Goto(c, "slave")
    BY <1>5 DEF Write
  <2>2. In(BeforeCallback) # {} /\ In(BeforeCallback)' # {}
    BY <1>5, <1>c DEF Write, Goto, In, GatheredAll, Gathering
  <2>3. PlaceAt(pc[c], In(BeforeCallback) # {}) = PlaceAt("slave", In(BeforeCallback)' # {})
    BY <1>5, <2>2 DEF Write, PlaceAt
  <2> QED BY <2>1, <2>2, <2>3, Unseen
<1>6. ASSUME NEW c \in Child, SlaveLeave(c) PROVE Refined
  <2>1. UNCHANGED <<round, fork, splits>> /\ Goto(c, "splitCheck")
    BY <1>6 DEF SlaveLeave
  <2>2. In(BeforeCallback) = {} /\ In(BeforeCallback)' = {}
    BY <1>6, <1>c DEF SlaveLeave, Goto, In, NoSlaveYet, Master
  <2>3. PlaceAt(pc[c], In(BeforeCallback) # {}) = PlaceAt("splitCheck", In(BeforeCallback)' # {})
    BY <1>6, <2>2 DEF SlaveLeave, PlaceAt
  <2> QED BY <2>1, <2>2, <2>3, Unseen
<1>7. ASSUME NEW c \in Child, SplitCheck(c) PROVE Refined
  <2>1. In(BeforeCallback)' = {} <=> In(BeforeCallback) = {}
    BY <1>7 DEF SplitCheck, Goto, In
  <2>2. Places[c] = "released" /\ Places' = [Places EXCEPT ![c] = "outside"]
    BY <1>7, <2>1, OneMoves DEF SplitCheck, PlaceAt
  <2>3. Splitted' = IF c \in fork THEN Splitted \cup {c} ELSE Splitted
    BY <1>7, <1>s DEF SplitCheck, Splitted, BarrierInv, SplitsExact
  <2>4. Promise!GoOn(c)
    BY <1>7, <2>2, <2>3 DEF SplitCheck, Promise!GoOn
  <2> QED BY <2>4 DEF Promise!BarrierNext
<1>8. ASSUME NEW c \in Child, Leave(c) \/ CheckFail(c) PROVE Refined
  <2>1. In(BeforeCallback)' = {} <=> In(BeforeCallback) = {}
    BY <1>8 DEF Leave, CheckFail, Goto, In
  <2>2. /\ Places[c] = "outside"
        /\ \/ Places' = [Places EXCEPT ![c] = "left"]
           \/ Places' = [Places EXCEPT ![c] = "lost"]
    BY <1>8, <2>1, OneMoves DEF Leave, CheckFail, PlaceAt
  <2>3. Splitted' = Splitted
    BY <1>8 DEF Leave, CheckFail, Splitted
  <2>4. Promise!Withdraw(c, "left") \/ Promise!Withdraw(c, "lost")
    BY <1>8, <2>2, <2>3 DEF Leave, CheckFail, Promise!Withdraw
  <2> QED BY <2>4 DEF Promise!BarrierNext
<1>9. CASE UNCHANGED vars
  <2>1. \A d \in Child : PlaceOf(d)' = PlaceOf(d)
    BY <1>9 DEF vars, PlaceOf, Waiting, In
  <2> QED BY <1>9, <2>1 DEF vars, Promise!barrier, Places, Splitted
<1> QED
  BY <1>1, <1>2, <1>3, <1>4, <1>5, <1>6, <1>7, <1>8, <1>9 DEF Next, Step

\* Every step of dpSync (DpLib.c:665-788) is a step of the barrier, or one it does
\* not see.
THEOREM SyncIsABarrier == Spec => ImplementsBarrier
BY RefinementStart, RefinementStep, BarrierKept, PTL
DEF Spec, ImplementsBarrier, Promise!BarrierSpec
-----------------------------------------------------------------------------
\* What BarrierProofs shows of every barrier holds of this one.
Abstract == INSTANCE BarrierProofs WITH
    Member <- Child,
    Rounds <- MaxRounds,
    place <- Places,
    calls <- round,
    asked <- fork,
    split <- Splitted

LEMMA RoundsEven == Spec => []Abstract!Even
<1>1. Promise!BarrierInit => Abstract!BarrierInit
  BY DEF Promise!BarrierInit, Abstract!BarrierInit
<1>2. [Promise!BarrierNext]_(Promise!barrier) => [Abstract!BarrierNext]_(Abstract!barrier)
  BY DEF Promise!BarrierNext, Promise!Come, Promise!Open, Promise!GoOn, Promise!Withdraw,
         Promise!barrier, Abstract!BarrierNext, Abstract!Come, Abstract!Open,
         Abstract!GoOn, Abstract!Withdraw, Abstract!barrier
<1>3. Abstract!EvenInv => Abstract!Even
  BY DEF Abstract!EvenInv
<1> QED
  BY <1>1, <1>2, <1>3, SyncIsABarrier, Abstract!EvenStart, Abstract!EvenStep, PTL
  DEF ImplementsBarrier, Promise!BarrierSpec
\* Pairing with one datum keeps the number.
LEMMA PairsCounted ==
    ASSUME NEW S, IsFiniteSet(S), NEW datum
    PROVE  Cardinality({<<c, datum>> : c \in S}) = Cardinality(S)
<1> DEFINE T == {<<c, datum>> : c \in S}
           f == [c \in S |-> <<c, datum>>]
<1>1. f \in Bijection(S, T)
  BY DEF Bijection, Injection, IsInjective, Surjection
<1>2. ExistsBijection(S, T)
  BY <1>1 DEF ExistsBijection
<1> QED BY <1>2, FS_Bijection

\* At the callback the data of all the others are on file, of this round, and fit
\* the master's buffers (DpLib.c:723-755).
THEOREM CallbackHasAll == Spec => []CallbackComplete
<1>1. ASSUME BarrierInv, Abstract!Even PROVE CallbackComplete
  <2> SUFFICES ASSUME NEW m \in In({"callback"})
               PROVE  /\ In({"slave"}) = Live \ {m}
                      /\ files = {<<c, round[m]>> : c \in Live \ {m}}
                      /\ local[m] = Cardinality(files) + 1
    BY DEF CallbackComplete
  <2>1. m \in Child /\ pc[m] = "callback" /\ \A c \in Child \ {m} : pc[c] \in {"slave", "gone"}
    BY <1>1 DEF BarrierInv, ServedAll, Served, In
  <2>2. In({"slave"}) = Live \ {m}
    BY <2>1 DEF Live, In
  <2>3. m \in In(BeforeCallback) /\ m \in In(MasterOn)
    BY <2>1 DEF In, BeforeCallback, MasterOn, Master
  <2>4. \A c \in In({"slave"}) \cup {m} : c \in Child /\ Places[c] = "waiting"
    BY <2>1, <2>3, PlaceByLabel DEF Places, PlaceAt, In, BeforeCallback
  <2>5. PICK n \in Nat : \A c \in Abstract!Present :
          round[c] = IF Places[c] = "waiting" THEN n + 1 ELSE n
    BY <1>1 DEF Abstract!Even
  <2>6. \A c \in In({"slave"}) \cup {m} : round[c] = n + 1
    BY <2>4, <2>5 DEF Abstract!Present
  <2>7. files = {<<c, round[c]>> : c \in In({"slave"})}
    BY <1>1, <2>3 DEF BarrierInv, FilesExact
  <2>8. files = {<<c, round[m]>> : c \in In({"slave"})}
    BY <2>6, <2>7
  <2>9. IsFiniteSet(In({"slave"})) /\ Cardinality(In({"slave"})) \in Nat
    BY Counting DEF In
  <2>10. Cardinality(files) = Cardinality(In({"slave"}))
    BY <2>8, <2>9, PairsCounted
  <2>11. local[m] = doneNum
    BY <1>1, <2>1 DEF BarrierInv, LocalsBehind
  <2>12. doneNum = 1 + Cardinality(In({"slave"}))
    BY <1>1, <2>3 DEF BarrierInv, DoneCounted, MasterOn
  <2> QED BY <2>2, <2>8, <2>9, <2>10, <2>11, <2>12
<1> QED BY <1>1, BarrierKept, RoundsEven, PTL
=============================================================================
