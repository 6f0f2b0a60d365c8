------------------------------- MODULE DpSync -------------------------------
(***************************************************************************)
(* dpSync, the barrier of the sampling processes of one batch (DpLib.c),   *)
(* with what moves the counters it compares: the parent's loop of forks,   *)
(* dpCheck and the end of dpAggregate in a sampling process.               *)
(*                                                                         *)
(* pc is between two accesses to shared state.  A mutex is owned by the    *)
(* processes whose pc lies between its lock and its unlock.  The sections  *)
(* of mutex 0 and the master's read of sySyncChildDoneNum under mutex 1    *)
(* are one access long, so they are one step; the wait for a lock is the   *)
(* step's guard.  A datum is the number of the call of dpSync it is given  *)
(* to.  The file operations succeed.                                       *)
(***************************************************************************)
EXTENDS Integers, FiniteSets

CONSTANTS
    Child,      \* the sampling processes of the batch
    Slots,      \* how many of them the scheduler lets live at the same time
    MaxRounds,  \* bound: the calls of dpSync a process makes at most
    CheckFails  \* may dpCheck fail?

ASSUME ChildAssumption == IsFiniteSet(Child)
ASSUME BoundAssumption == Slots \in Nat \ {0} /\ MaxRounds \in Nat
ASSUME CheckAssumption == CheckFails \in BOOLEAN

VARIABLES
    pc,         \* where each process is
    sync,       \* sySyncChildNum
    doneNum,    \* sySyncChildDoneNum
    active,     \* syActiveChildNum
    local,      \* the count each process read last (syncChildNum, syncChildDoneNum)
    round,      \* the calls of dpSync each process has begun
    files,      \* the .sync files: <<process, datum>>
    fork,       \* the .fork files, written for dpuSplitSync
    forked,     \* the .forked files
    splits      \* history: how often each process has called dpuSplit

vars == <<pc, sync, doneNum, active, local, round, files, fork, forked, splits>>

In(states) == {c \in Child : pc[c] \in states}

\* Between the lock and the unlock of sypMtx[1], [2] and [3].
Mutex1 == {"becomeMaster", "write", "leave"}
Mutex2 == {"spinCompare", "masterCompare"}
Master == {"masterRead", "masterLock", "masterCompare", "callback",
           "clearSync", "clearDone", "release"}

AtCheckpoint1 == {"spin", "spinLock", "spinCompare", "enter"}
Status == {"unborn", "run", "slave", "splitCheck", "gone", "failed"}
          \cup AtCheckpoint1 \cup Mutex1 \cup Mutex2 \cup Master

Goto(c, label) == pc' = [pc EXCEPT ![c] = label]

-----------------------------------------------------------------------------
\* The parent sets syActiveChildNum to the size of the batch, then forks.
Init ==
    /\ pc = [c \in Child |-> "unborn"]
    /\ sync = 0
    /\ doneNum = 0
    /\ active = Cardinality(Child)
    /\ local = [c \in Child |-> 0]
    /\ round = [c \in Child |-> 0]
    /\ files = {}
    /\ fork = {}
    /\ forked = {}
    /\ splits = [c \in Child |-> 0]

\* schSched(S_SPAWN_SAMPLING) lets the parent fork while a slot is free.
ForkChild(c) ==
    /\ pc[c] = "unborn"
    /\ Cardinality(Child \ In({"unborn", "gone", "failed"})) < Slots
    /\ Goto(c, "run")
    /\ UNCHANGED <<sync, doneNum, active, local, round, files, fork, forked, splits>>

\* sySyncChildNum++ under mutex 0
Arrive(c) ==
    /\ pc[c] = "run"
    /\ round[c] < MaxRounds
    /\ round' = [round EXCEPT ![c] = @ + 1]
    /\ sync' = sync + 1
    /\ Goto(c, "spin")
    /\ UNCHANGED <<doneNum, active, local, files, fork, forked, splits>>

ReadSync(c) ==
    /\ pc[c] = "spin"
    /\ local' = [local EXCEPT ![c] = sync]
    /\ Goto(c, "spinLock")
    /\ UNCHANGED <<sync, doneNum, active, round, files, fork, forked, splits>>

\* Lock mutex 2 to read syActiveChildNum, in checkpoint 1 or as the master.
LockActive(c) ==
    /\ pc[c] \in {"spinLock", "masterLock"}
    /\ In(Mutex2) = {}
    /\ Goto(c, IF pc[c] = "spinLock" THEN "spinCompare" ELSE "masterCompare")
    /\ UNCHANGED <<sync, doneNum, active, local, round, files, fork, forked, splits>>

SpinCompare(c) ==
    /\ pc[c] = "spinCompare"
    /\ Goto(c, IF local[c] = active THEN "enter" ELSE "spin")
    /\ UNCHANGED <<sync, doneNum, active, local, round, files, fork, forked, splits>>

\* Checkpoint 2: the first process to own mutex 1 becomes the master.
Enter(c) ==
    /\ pc[c] = "enter"
    /\ In(Mutex1) = {}
    /\ IF doneNum = 0
       THEN doneNum' = 1 /\ Goto(c, "becomeMaster")
       ELSE doneNum' = doneNum /\ Goto(c, "write")
    /\ UNCHANGED <<sync, active, local, round, files, fork, forked, splits>>

\* Lock mutex 3, unlock mutex 1.
BecomeMaster(c) ==
    /\ pc[c] = "becomeMaster"
    /\ In(Master) = {}
    /\ Goto(c, "masterRead")
    /\ UNCHANGED <<sync, doneNum, active, local, round, files, fork, forked, splits>>

MasterRead(c) ==
    /\ pc[c] = "masterRead"
    /\ In(Mutex1) = {}
    /\ local' = [local EXCEPT ![c] = doneNum]
    /\ Goto(c, "masterLock")
    /\ UNCHANGED <<sync, doneNum, active, round, files, fork, forked, splits>>

MasterCompare(c) ==
    /\ pc[c] = "masterCompare"
    /\ Goto(c, IF local[c] = active THEN "callback" ELSE "masterRead")
    /\ UNCHANGED <<sync, doneNum, active, local, round, files, fork, forked, splits>>

\* What sioReadSyncDataAll finds, and the pids it takes from the file names.
SyncPIDs(c) == {f[1] : f \in files} \cup {c}

\* syncFunc asks some of the processes to split (dpuSplitSync).
WrongCallback(c, chosen) ==
    /\ pc[c] = "callback"
    /\ chosen \subseteq SyncPIDs(c)
    /\ fork' = fork \cup chosen
    /\ forked' = forked \cup chosen
    /\ Goto(c, "clearSync")
    /\ UNCHANGED <<sync, doneNum, active, local, round, files, splits>>

Callback(c, chosen) ==
    /\ pc[c] = "callback"
    /\ chosen \subseteq SyncPIDs(c)
    /\ fork' = fork \cup (chosen \ forked)
    /\ Goto(c, "clearSync")
    /\ UNCHANGED <<sync, doneNum, active, local, round, files, forked, splits>>

WrongClearSync(c) ==
    /\ pc[c] = "clearSync"
    /\ Goto(c, "clearDone")
    /\ UNCHANGED <<sync, doneNum, active, local, round, files, fork, forked, splits>>

\* sySyncChildNum = 0, with no mutex but 3
ClearSync(c) ==
    /\ pc[c] = "clearSync"
    /\ sync' = 0
    /\ Goto(c, "clearDone")
    /\ UNCHANGED <<doneNum, active, local, round, files, fork, forked, splits>>

WrongClearDone(c) ==
    /\ pc[c] = "clearDone"
    /\ files' = {}
    /\ Goto(c, "release")
    /\ UNCHANGED <<sync, doneNum, active, local, round, fork, forked, splits>>

\* sySyncChildDoneNum = 0, likewise, and rm *.sync (sioSyncFini)
ClearDone(c) ==
    /\ pc[c] = "clearDone"
    /\ doneNum' = 0
    /\ files' = {}
    /\ Goto(c, "release")
    /\ UNCHANGED <<sync, active, local, round, fork, forked, splits>>

Release(c) ==
    /\ pc[c] = "release"
    /\ Goto(c, "splitCheck")
    /\ UNCHANGED <<sync, doneNum, active, local, round, files, fork, forked, splits>>

\* The slave announces itself before its data is on file.
WrongWrite(c) ==
    /\ pc[c] = "write"
    /\ doneNum' = doneNum + 1
    /\ Goto(c, "slave")
    /\ UNCHANGED <<sync, active, local, round, files, fork, forked, splits>>

\* sioWriteSyncData, sySyncChildDoneNum++, unlock mutex 1
Write(c) ==
    /\ pc[c] = "write"
    /\ files' = files \cup {<<c, round[c]>>}
    /\ doneNum' = doneNum + 1
    /\ Goto(c, "slave")
    /\ UNCHANGED <<sync, active, local, round, fork, forked, splits>>

\* A slave that does not wait for the master.
WrongSlaveLeave(c) ==
    /\ pc[c] = "slave"
    /\ Goto(c, "splitCheck")
    /\ UNCHANGED <<sync, doneNum, active, local, round, files, fork, forked, splits>>

\* Lock and unlock mutex 3.
SlaveLeave(c) ==
    /\ pc[c] = "slave"
    /\ In(Master) = {}
    /\ Goto(c, "splitCheck")
    /\ UNCHANGED <<sync, doneNum, active, local, round, files, fork, forked, splits>>

WrongSplitCheck(c) ==
    /\ pc[c] = "splitCheck"
    /\ splits' = [splits EXCEPT ![c] = IF c \in fork THEN @ + 1 ELSE @]
    /\ Goto(c, "run")
    /\ UNCHANGED <<sync, doneNum, active, local, round, files, fork, forked>>

\* sioSplitSyncCheck, then dpuSplit
SplitCheck(c) ==
    /\ pc[c] = "splitCheck"
    /\ IF c \in fork \ forked
       THEN /\ forked' = forked \cup {c}
            /\ splits' = [splits EXCEPT ![c] = @ + 1]
       ELSE UNCHANGED <<forked, splits>>
    /\ Goto(c, "run")
    /\ UNCHANGED <<sync, doneNum, active, local, round, files, fork>>

\* dpAggregate writes the result and locks mutex 1 ...
Aggregate(c) ==
    /\ pc[c] = "run"
    /\ In(Mutex1) = {}
    /\ Goto(c, "leave")
    /\ UNCHANGED <<sync, doneNum, active, local, round, files, fork, forked, splits>>

WrongLeave(c) ==
    /\ pc[c] = "leave"
    /\ Goto(c, "gone")
    /\ UNCHANGED <<sync, doneNum, active, local, round, files, fork, forked, splits>>

\* ... to take itself off syActiveChildNum before it exits.
Leave(c) ==
    /\ pc[c] = "leave"
    /\ active' = active - 1
    /\ Goto(c, "gone")
    /\ UNCHANGED <<sync, doneNum, local, round, files, fork, forked, splits>>

\* dpCheck: the process exits with status 1, and that is all.
CheckFail(c) ==
    /\ CheckFails
    /\ pc[c] = "run"
    /\ Goto(c, "failed")
    /\ UNCHANGED <<sync, doneNum, active, local, round, files, fork, forked, splits>>

Step(c) ==
    \/ Arrive(c) \/ ReadSync(c) \/ LockActive(c) \/ SpinCompare(c) \/ Enter(c)
    \/ BecomeMaster(c) \/ MasterRead(c) \/ MasterCompare(c)
    \/ \E chosen \in SUBSET Child : Callback(c, chosen)
    \/ ClearSync(c) \/ ClearDone(c) \/ Release(c)
    \/ Write(c) \/ SlaveLeave(c) \/ SplitCheck(c)
    \/ Aggregate(c) \/ Leave(c) \/ CheckFail(c)

Next == \E c \in Child : ForkChild(c) \/ Step(c)

Spec == Init /\ [][Next]_vars

\* The parent forks when it may; a process that can lock a mutex again and
\* again gets it (the spinning processes unlock what they lock).
FairSpec ==
    /\ Spec
    /\ \A c \in Child : WF_vars(ForkChild(c)) /\ SF_vars(Step(c))
-----------------------------------------------------------------------------
\* Type invariant.
TypeOK ==
    /\ pc \in [Child -> Status]
    /\ {sync, doneNum, active} \subseteq 0..Cardinality(Child)
    /\ local \in [Child -> 0..Cardinality(Child)]
    /\ round \in [Child -> 0..MaxRounds]
    /\ files \subseteq Child \X (1..MaxRounds)
    /\ fork \subseteq Child /\ forked \subseteq Child
    /\ splits \in [Child -> Nat]

Live == Child \ In({"gone", "failed"})

\* The processes at checkpoint 1 count, and while there is a master, until it has
\* reset the counter, those that are past it.
Synced ==
    IF doneNum # 0 /\ In({"clearDone"}) = {}
    THEN In(AtCheckpoint1 \cup {"becomeMaster", "write", "slave"} \cup Master)
    ELSE In(AtCheckpoint1)
SyncCounted == sync = Cardinality(Synced)

DoneCounted ==
    doneNum = IF In({"becomeMaster"} \cup (Master \ {"release"})) = {}
              THEN 0 ELSE 1 + Cardinality(In({"slave"}))

\* A process whose dpCheck failed is counted for ever.
Present == Child \ In({"gone"})
ActiveCounted == active = Cardinality(Present)

\* The three counters of the barrier are exact at every step, though each is
\* changed and read under locks that do not exclude each other: counted up
\* under mutex 0 or 1, reset by the master with neither (DpLib.c:676-678, 705,
\* 769-770, 777), syActiveChildNum with neither of mutex 2 (499-501, 570-572).
CountersExact == SyncCounted /\ DoneCounted /\ ActiveCounted

\* When the master calls syncFunc, every other process of the batch that has not
\* exited waits for it, and the .sync files hold exactly their data of this
\* round: none is missing, none is left over, and they are as many as the
\* buffers the master has allocated (DpLib.c:723-755).
CallbackComplete ==
    \A m \in In({"callback"}) :
        /\ In({"slave"}) = Live \ {m}
        /\ files = {<<c, round[m]>> : c \in Live \ {m}}
        /\ local[m] = Cardinality(files) + 1

\* However often the callbacks ask for it, a process is split at most once in a
\* region: the .forked file outlives the round (SamplingIO.c:433-494).
SplitOnce == \A c \in Child : splits[c] <= 1

\* A split the callback asked for takes place before the process exits.
SplitHappens == \A c \in Child : c \in fork ~> splits[c] = 1

\* The whole batch exits, so that the parent's wait() loop ends.
BatchEnds == <>(Live = {})
=============================================================================
