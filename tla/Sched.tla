------------------------------- MODULE Sched -------------------------------
(***************************************************************************)
(* The process scheduler of dplib (Sched.c), with the fork, wait and exit  *)
(* calls around it (DpLib.c, DpUserApi.h, SamplingStg.c).                  *)
(*                                                                         *)
(* schMtx is the variable mtx.  A critical section of schMtx that neither  *)
(* sleeps nor touches schMtx2 is one action, enabled when mtx is free; the *)
(* signalling loop of an exiting process keeps mtx over several steps.     *)
(* Each section of schMtx2 is one action.  kill() acts at once: it ends    *)
(* the pause() of a process that is in it and is lost on any other one.    *)
(* Pids are used once.  No signal but the scheduler's reaches a waiter,    *)
(* fork() succeeds, and no process dies other than through dpExit.         *)
(*                                                                         *)
(* A definition named Wrong... is the next one with a bug: no run uses it, *)
(* it shows which properties would notice the bug.                         *)
(***************************************************************************)
EXTENDS Integers, FiniteSets, SchedPrio

CONSTANTS
    Proc,         \* the pids of a run: a bound on the forks
    Root,         \* the process the user started
    NoProc,       \* -1, the value of schWakePID nobody matches
    MaxPool,      \* MAX_POOL_SIZE
    TuningShare,  \* MAX_POOL_SIZE >> 4
    MaxQueue,     \* MAX_PARENT_NUM
    Todos,        \* the values of todoNum a strategy passes to schSched
    UnschedFork   \* do strategies that fork without schSched occur?

ASSUME ProcAssumption == IsFiniteSet(Proc) /\ Root \in Proc /\ NoProc \notin Proc
ASSUME PoolAssumption == MaxPool \in Nat /\ TuningShare \in 1..MaxPool
ASSUME QueueAssumption == MaxQueue \in Nat /\ Todos \subseteq Nat
ASSUME ForkAssumption == UnschedFork \in BOOLEAN

VARIABLES
    pc,        \* where each process is
    kind,      \* "tuning" (DP_PARENT) or "sampling" (execStatus 0)
    parent,    \* who forked it
    req,       \* the arguments of its last schSched(S_SPAWN_...) call
    pool,      \* *schPoolSize
    queue,     \* the nodes of schPQ, see SchedHeap for the array
    mtx,       \* the owner of schMtx over several steps, or NoProc
    head,      \* the node pPQHead points to while mtx is owned
    wake,      \* *schWakePID
    slotless   \* history: the processes forked without a schSched call

vars == <<pc, kind, parent, req, pool, queue, mtx, head, wake, slotless>>

Node == [pid : Proc \cup {NoProc}, event : Event, todo : Todos \cup {0}]
NoNode == [pid |-> NoProc, event |-> "tuning", todo |-> 0]

\* The calls schSched(event, todo) process p can make.
Requests(p) ==
    {[pid |-> p, event |-> "tuning", todo |-> 0]} \cup
    {[pid |-> p, event |-> "sampling", todo |-> t] : t \in Todos}

Asking == {"fork", "pausing", "paused", "woken", "rewait"}
Status == {"absent", "run", "wait", "reset", "sig", "gone"} \cup Asking

In(states) == {p \in Proc : pc[p] \in states}
Children(p) == {c \in Proc : parent[c] = p /\ pc[c] # "gone"}
SamplingChildren(p) == {c \in Children(p) : kind[c] = "sampling"}

Threshold(event) == IF event = "sampling" THEN 0 ELSE MaxPool - TuningShare

Push(n) == IF Cardinality(queue) = MaxQueue THEN queue ELSE queue \cup {n}

-----------------------------------------------------------------------------
WrongInit ==
    /\ pc = [p \in Proc |-> IF p = Root THEN "run" ELSE "absent"]
    /\ kind = [p \in Proc |-> "tuning"]
    /\ parent = [p \in Proc |-> NoProc]
    /\ req = [p \in Proc |-> NoNode]
    /\ pool = MaxPool - 1
    /\ queue = {}
    /\ mtx = NoProc
    /\ head = NoNode
    /\ wake = 0              \* the zero page of mmap
    /\ slotless = {}

Init ==
    /\ pc = [p \in Proc |-> IF p = Root THEN "run" ELSE "absent"]
    /\ kind = [p \in Proc |-> "tuning"]
    /\ parent = [p \in Proc |-> NoProc]
    /\ req = [p \in Proc |-> NoNode]
    /\ pool = MaxPool - 1
    /\ queue = {}
    /\ mtx = NoProc
    /\ head = NoNode
    /\ wake = NoProc
    /\ slotless = {}

\* Bound: every fork asked for finds a pid that was not used yet.
PidLeft == Cardinality(In(Asking)) < Cardinality(In({"absent"}))

\* A sampling process forks tuning processes only (dpSync).
MaySpawn(p, n) ==
    /\ pc[p] = "run"
    /\ mtx = NoProc
    /\ n.event = "sampling" => kind[p] = "tuning"
    /\ PidLeft

WrongSpawnGrant(p, n) ==
    /\ MaySpawn(p, n)
    /\ pool >= Threshold(n.event)
    /\ pool' = pool - 1
    /\ pc' = [pc EXCEPT ![p] = "fork"]
    /\ req' = [req EXCEPT ![p] = n]
    /\ UNCHANGED <<kind, parent, queue, mtx, head, wake, slotless>>

SpawnGrant(p, n) ==
    /\ MaySpawn(p, n)
    /\ pool > Threshold(n.event)
    /\ pool' = pool - 1
    /\ pc' = [pc EXCEPT ![p] = "fork"]
    /\ req' = [req EXCEPT ![p] = n]
    /\ UNCHANGED <<kind, parent, queue, mtx, head, wake, slotless>>

SpawnWait(p, n) ==
    /\ MaySpawn(p, n)
    /\ pool <= Threshold(n.event)
    /\ queue' = Push(n)
    /\ pool' = pool + 1
    /\ pc' = [pc EXCEPT ![p] = "pausing"]
    /\ req' = [req EXCEPT ![p] = n]
    /\ UNCHANGED <<kind, parent, mtx, head, wake, slotless>>

Pause(p) ==
    /\ pc[p] = "pausing"
    /\ pc' = [pc EXCEPT ![p] = "paused"]
    /\ UNCHANGED <<kind, parent, req, pool, queue, mtx, head, wake, slotless>>

WrongWakeNote(p) ==
    /\ pc[p] = "woken"
    /\ pc' = [pc EXCEPT ![p] = "rewait"]
    /\ UNCHANGED <<kind, parent, req, pool, queue, mtx, head, wake, slotless>>

WakeNote(p) ==
    /\ pc[p] = "woken"
    /\ wake' = p
    /\ pc' = [pc EXCEPT ![p] = "rewait"]
    /\ UNCHANGED <<kind, parent, req, pool, queue, mtx, head, slotless>>

WrongRecheckGrant(p) ==
    /\ pc[p] = "rewait"
    /\ mtx = NoProc
    /\ pool - 1 > Threshold(req[p].event)
    /\ pool' = pool - 1
    /\ pc' = [pc EXCEPT ![p] = "fork"]
    /\ UNCHANGED <<kind, parent, req, queue, mtx, head, wake, slotless>>

\* schMtx again: take back the own slot, then one for the child ...
RecheckGrant(p) ==
    /\ pc[p] = "rewait"
    /\ mtx = NoProc
    /\ pool - 1 > Threshold(req[p].event)
    /\ pool' = pool - 2
    /\ pc' = [pc EXCEPT ![p] = "fork"]
    /\ UNCHANGED <<kind, parent, req, queue, mtx, head, wake, slotless>>

\* ... or return the own slot and queue once more.
RecheckWait(p) ==
    /\ pc[p] = "rewait"
    /\ mtx = NoProc
    /\ pool - 1 <= Threshold(req[p].event)
    /\ queue' = Push(req[p])
    /\ pc' = [pc EXCEPT ![p] = "pausing"]
    /\ UNCHANGED <<kind, parent, req, pool, mtx, head, wake, slotless>>

Fork(p, c) ==
    /\ pc[p] = "fork"
    /\ pc[c] = "absent"
    /\ pc' = [pc EXCEPT ![p] = "run", ![c] = "run"]
    /\ kind' = [kind EXCEPT ![c] = req[p].event]
    /\ parent' = [parent EXCEPT ![c] = p]
    /\ UNCHANGED <<req, pool, queue, mtx, head, wake, slotless>>

\* The strategies S_USER_CB and S_MCMC_MIN fork without asking the scheduler.
ForkUnsched(p, c) ==
    /\ UnschedFork
    /\ pc[p] = "run"
    /\ kind[p] = "tuning"
    /\ PidLeft
    /\ pc[c] = "absent"
    /\ pc' = [pc EXCEPT ![c] = "run"]
    /\ kind' = [kind EXCEPT ![c] = "sampling"]
    /\ parent' = [parent EXCEPT ![c] = p]
    /\ slotless' = slotless \cup {c}
    /\ UNCHANGED <<req, pool, queue, mtx, head, wake>>

\* wait() until ECHILD: every child, sampling or tuning, must be gone.
WaitChildren(p) ==
    /\ pc[p] = "run"
    /\ kind[p] = "tuning"
    /\ Children(p) # {}
    /\ pc' = [pc EXCEPT ![p] = "wait"]
    /\ UNCHANGED <<kind, parent, req, pool, queue, mtx, head, wake, slotless>>

WaitDone(p) ==
    /\ pc[p] = "wait"
    /\ Children(p) = {}
    /\ pc' = [pc EXCEPT ![p] = "run"]
    /\ UNCHANGED <<kind, parent, req, pool, queue, mtx, head, wake, slotless>>

\* The root leaves through dpFini without returning its slot.
RootEnd(p) ==
    /\ p = Root
    /\ pc[p] = "run"
    /\ Children(p) = {}
    /\ pc' = [pc EXCEPT ![p] = "gone"]
    /\ UNCHANGED <<kind, parent, req, pool, queue, mtx, head, wake, slotless>>

\* Every other process leaves through dpExit; a tuning process has waited for
\* its sampling children by then, not for its tuning children.
MayExit(p) ==
    /\ pc[p] = "run"
    /\ p # Root
    /\ mtx = NoProc
    /\ SamplingChildren(p) = {}

WrongExitNoWake(p) ==
    /\ MayExit(p)
    /\ pool' = pool + 1
    /\ pc' = [pc EXCEPT ![p] = "gone"]
    /\ UNCHANGED <<kind, parent, req, queue, mtx, head, wake, slotless>>

ExitNoWake(p) ==
    /\ MayExit(p)
    /\ \A h \in Heads(queue) : pool + 1 <= Threshold(h.event)
    /\ pool' = pool + 1
    /\ pc' = [pc EXCEPT ![p] = "gone"]
    /\ UNCHANGED <<kind, parent, req, queue, mtx, head, wake, slotless>>

WrongExitWake(p, h) ==
    /\ MayExit(p)
    /\ h \in Heads(queue)
    /\ pool + 1 > Threshold(h.event)
    /\ pool' = pool + 1
    /\ head' = h
    /\ pc' = [pc EXCEPT ![p] = "reset"]
    /\ UNCHANGED <<kind, parent, req, queue, mtx, wake, slotless>>

ExitWake(p, h) ==
    /\ MayExit(p)
    /\ h \in Heads(queue)
    /\ pool + 1 > Threshold(h.event)
    /\ pool' = pool + 1
    /\ mtx' = p
    /\ head' = h
    /\ pc' = [pc EXCEPT ![p] = "reset"]
    /\ UNCHANGED <<kind, parent, req, queue, wake, slotless>>

WrongResetWake(p) ==
    /\ pc[p] = "reset"
    /\ pc' = [pc EXCEPT ![p] = "sig"]
    /\ UNCHANGED <<kind, parent, req, pool, queue, mtx, head, wake, slotless>>

ResetWake(p) ==
    /\ pc[p] = "reset"
    /\ wake' = NoProc
    /\ pc' = [pc EXCEPT ![p] = "sig"]
    /\ UNCHANGED <<kind, parent, req, pool, queue, mtx, head, slotless>>

\* One signal, no loop.
WrongSignal(p) ==
    /\ pc[p] = "sig"
    /\ pc' = [pc EXCEPT ![head.pid] = IF @ = "paused" THEN "woken" ELSE @,
                       ![p] = "gone"]
    /\ queue' = queue \ {head}
    /\ mtx' = NoProc
    /\ head' = NoNode
    /\ UNCHANGED <<kind, parent, req, pool, wake, slotless>>

\* kill(SIGCONT).  The loop sends it again until the waiter has noted its pid;
\* a signal to a process that is not in pause() changes nothing.
Signal(p) ==
    /\ pc[p] = "sig"
    /\ wake # head.pid
    /\ pc[head.pid] = "paused"
    /\ pc' = [pc EXCEPT ![head.pid] = "woken"]
    /\ UNCHANGED <<kind, parent, req, pool, queue, mtx, head, wake, slotless>>

WrongPopHead(p) ==
    /\ pc[p] = "sig"
    /\ wake = head.pid
    /\ mtx' = NoProc
    /\ head' = NoNode
    /\ pc' = [pc EXCEPT ![p] = "gone"]
    /\ UNCHANGED <<kind, parent, req, pool, queue, wake, slotless>>

PopHead(p) ==
    /\ pc[p] = "sig"
    /\ wake = head.pid
    /\ queue' = queue \ {head}
    /\ mtx' = NoProc
    /\ head' = NoNode
    /\ pc' = [pc EXCEPT ![p] = "gone"]
    /\ UNCHANGED <<kind, parent, req, pool, wake, slotless>>

Spawning(p) ==
    \/ \E n \in Requests(p) : SpawnGrant(p, n) \/ SpawnWait(p, n)
    \/ Pause(p) \/ WakeNote(p) \/ RecheckGrant(p) \/ RecheckWait(p)
    \/ \E c \in Proc : Fork(p, c) \/ ForkUnsched(p, c)

Waiting(p) == WaitChildren(p) \/ WaitDone(p)

Exiting(p) ==
    \/ RootEnd(p) \/ ExitNoWake(p)
    \/ \E h \in queue : ExitWake(p, h)
    \/ ResetWake(p) \/ Signal(p) \/ PopHead(p)

Step(p) == Spawning(p) \/ Waiting(p) \/ Exiting(p)

Next == \E p \in Proc : Step(p)

Spec == Init /\ [][Next]_vars

\* Every process is given the processor, and its own code ends.
FairSpec == Spec /\ \A p \in Proc : WF_vars(Step(p))
-----------------------------------------------------------------------------
\* Type invariant.
TypeOK ==
    /\ pc \in [Proc -> Status]
    /\ kind \in [Proc -> Event]
    /\ parent \in [Proc -> Proc \cup {NoProc}]
    /\ req \in [Proc -> Node]
    /\ pool \in Int
    /\ queue \subseteq Node
    /\ mtx \in Proc \cup {NoProc}
    /\ head \in Node
    /\ wake \in Proc \cup {NoProc}
    /\ slotless \subseteq Proc

\* The processes that own a slot; the root takes its own to the grave.
Held == In({"run", "wait", "fork"}) \cup (In({"gone"}) \cap {Root})

\* The processes that took a slot for a child not forked yet.
Reserving == In({"fork"})

\* No slot is lost or invented over the release, re-take and retry of
\* schSched (Sched.c:242-262): schPoolSize counts exactly the slots that no
\* process owns, plus one for each process that was forked without asking.
PoolConservation ==
    pool = MaxPool - Cardinality(Held) - Cardinality(Reserving)
                   + Cardinality(slotless)

\* At most MAX_POOL_SIZE (Sched.h:6) processes are active, children about to be
\* forked included, whatever waiters and exits interleave.  (Only the forks of
\* a program that uses neither S_USER_CB nor S_MCMC_MIN keep to it.)
PoolBound == Cardinality(Held) + Cardinality(Reserving) <= MaxPool

\* The processes whose node is in schPQ: those that wait for a signal, and the
\* one that is being woken until the exiting process has seen its answer.
Queued ==
    In({"pausing", "paused"}) \cup
    {p \in In({"woken", "rewait"}) : mtx # NoProc /\ head.pid = p}

\* schPQ (Sched.c:95-169) holds one node per waiting process, with the
\* arguments of its call, and none of a process that went on: no waiter is
\* forgotten in pause(), no process is signalled outside of it.
QueueExact == queue = {req[p] : p \in Queued}

\* One process is woken at a time, by an owner of schMtx, and it is the head of
\* the queue, which cannot change under the signalling loop (Sched.c:265-289).
WakeOrder ==
    /\ In({"reset", "sig"}) = {mtx} \ {NoProc}
    /\ In({"woken"}) \subseteq {head.pid}
    /\ mtx # NoProc => head \in Heads(queue)

\* An exiting process that reads the pid it signals in schWakePID reads the
\* answer to its own signal, never one left from an earlier wake-up, so that
\* it takes the node of an awake process out of the queue (Sched.c:273-282).
WakeSound ==
    \A e \in In({"sig"}) : wake = head.pid => pc[head.pid] = "rewait"

\* The waiters that were taken out of the queue and have not re-checked yet.
Resumed == In({"rewait"}) \ Queued
ResumedFor(event) == {p \in Resumed : req[p].event = event}

\* No wake-up is lost: as long as anybody waits, every free slot beyond the
\* threshold is one a waiter lends (its own, Sched.c:247) or one that a wake-up
\* under way will use (Sched.c:265-289).  A sampling waiter, whose threshold is
\* 0, is not starved by the threshold of the tuning waiters nor by their re-takes.
SlotsClaimed ==
    /\ queue # {} =>
           pool <= Threshold("tuning") + Cardinality(queue)
                   + Cardinality(In({"reset", "sig"})) + 2 * Cardinality(Resumed)
    /\ (\E n \in queue : n.event = "sampling") =>
           pool <= Cardinality(queue) + Cardinality(In({"reset", "sig"}))
                   + 2 * Cardinality(ResumedFor("sampling"))
                   + Cardinality(ResumedFor("tuning"))

\* Everybody waits for somebody: in pause(), or in wait() with a live child.
Stuck ==
    /\ In({"paused"}) # {}
    /\ \A p \in Proc :
          \/ pc[p] \in {"absent", "gone", "paused"}
          \/ pc[p] = "wait" /\ Children(p) # {}

\* Enough processes wait to hold every slot a waiter needs.
Overcommitted ==
    LET waiting == Cardinality(In({"paused", "wait"}) \cup {Root})
    IN  /\ waiting >= TuningShare
        /\ (\E p \in In({"paused"}) : req[p].event = "sampling") => waiting >= MaxPool

\* Only exits wake a waiter, and a waiter that lends its slot wakes nobody, so
\* the processes can all wait for each other (Sched.c:242-289).  It takes
\* MAX_POOL_SIZE >> 4 waiting processes, or MAX_POOL_SIZE if one of them waits
\* to fork a sampling process.
StuckNeedsMany == Stuck => Overcommitted

\* A waiter leaves schPQ in order of priority, even one that came while the
\* exiting process was signalling (schPrioCmp, Sched.c:75-84).
PriorityKept ==
    [][\A m \in queue \ queue' : \A n \in queue : ~ Outranks(n, m)]_vars

\* A process that waits for a slot gets it (Sched.c:242-289), unless too many
\* wait for each other: fewer than TuningShare processes never block.
WaiterServed ==
    \A p \in Proc : pc[p] = "paused" ~> (pc[p] = "fork" \/ (Stuck /\ Overcommitted))

\* The signalling loop of an exiting process ends (Sched.c:275-289): the waiter
\* answers, whatever state the signals find it in.
ExiterLeaves == \A p \in Proc : pc[p] = "reset" ~> pc[p] = "gone"
=============================================================================
