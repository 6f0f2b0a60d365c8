---------------------------- MODULE SchedProofs ----------------------------
(***************************************************************************)
(* The safety properties of Sched, for any set of processes and any pool.  *)
(***************************************************************************)
EXTENDS Sched, FiniteSetTheorems, TLAPS

\* The variables keep their types under every action of the scheduler.
LEMMA TypeStep == TypeOK /\ [Next]_vars => TypeOK'
<1> SUFFICES ASSUME TypeOK, [Next]_vars PROVE TypeOK'
  OBVIOUS
<1> USE DEF TypeOK, Status, Asking, Event
<1>1. ASSUME NEW p \in Proc, NEW n \in Requests(p), SpawnGrant(p, n) PROVE TypeOK'
  <2>1. n \in Node
    BY DEF Requests, Node
  <2> QED BY <1>1, <2>1 DEF SpawnGrant
<1>2. ASSUME NEW p \in Proc, NEW n \in Requests(p), SpawnWait(p, n) PROVE TypeOK'
  <2>1. n \in Node
    BY DEF Requests, Node
  <2> QED BY <1>2, <2>1 DEF SpawnWait, Push
<1>3. ASSUME NEW p \in Proc, Pause(p) PROVE TypeOK'
  BY <1>3 DEF Pause
<1>4. ASSUME NEW p \in Proc, WakeNote(p) PROVE TypeOK'
  BY <1>4 DEF WakeNote
<1>5. ASSUME NEW p \in Proc, RecheckGrant(p) PROVE TypeOK'
  BY <1>5 DEF RecheckGrant
<1>6. ASSUME NEW p \in Proc, RecheckWait(p) PROVE TypeOK'
  BY <1>6 DEF RecheckWait, Push
<1>7. ASSUME NEW p \in Proc, NEW c \in Proc, Fork(p, c) PROVE TypeOK'
  <2>1. req[p].event \in Event
    BY DEF Node
  <2> QED BY <1>7, <2>1 DEF Fork
<1>8. ASSUME NEW p \in Proc, NEW c \in Proc, ForkUnsched(p, c) PROVE TypeOK'
  BY <1>8 DEF ForkUnsched
<1>9. ASSUME NEW p \in Proc, Waiting(p) PROVE TypeOK'
  BY <1>9 DEF Waiting, WaitChildren, WaitDone
<1>10. ASSUME NEW p \in Proc, RootEnd(p) PROVE TypeOK'
  BY <1>10 DEF RootEnd
<1>11. ASSUME NEW p \in Proc, ExitNoWake(p) PROVE TypeOK'
  BY <1>11 DEF ExitNoWake
<1>12. ASSUME NEW p \in Proc, NEW h \in queue, ExitWake(p, h) PROVE TypeOK'
  BY <1>12 DEF ExitWake
<1>13. ASSUME NEW p \in Proc, ResetWake(p) PROVE TypeOK'
  BY <1>13 DEF ResetWake
<1>14. ASSUME NEW p \in Proc, Signal(p) PROVE TypeOK'
  BY <1>14 DEF Signal
<1>15. ASSUME NEW p \in Proc, PopHead(p) PROVE TypeOK'
  <2>1. NoNode \in Node
    BY QueueAssumption DEF NoNode, Node
  <2> QED BY <1>15, <2>1 DEF PopHead
<1>16. CASE UNCHANGED vars
  BY <1>16 DEF vars
<1> QED
  BY <1>1, <1>2, <1>3, <1>4, <1>5, <1>6, <1>7, <1>8, <1>9, <1>10, <1>11, <1>12,
     <1>13, <1>14, <1>15, <1>16
  DEF Next, Step, Spawning, Exiting

\* Every state of the scheduler is well-typed.
THEOREM TypeCorrect == Spec => []TypeOK
<1>1. Init => TypeOK
  BY ProcAssumption, PoolAssumption
  DEF Init, TypeOK, Status, Event, NoNode, Node
<1> QED BY <1>1, TypeStep, PTL DEF Spec
-----------------------------------------------------------------------------
\* Sets of processes are finite, and one process more or less counts for one.
LEMMA Counting ==
    ASSUME NEW S, S \subseteq Proc, NEW p \in Proc
    PROVE  /\ Cardinality(S) \in Nat
           /\ p \in S => Cardinality(S \ {p}) = Cardinality(S) - 1
           /\ p \notin S => Cardinality(S \cup {p}) = Cardinality(S) + 1
<1>1. IsFiniteSet(S)
  BY ProcAssumption, FS_Subset
<1> QED BY <1>1, FS_CardinalityType, FS_AddElement, FS_RemoveElement

\* A process forked without asking has been forked; the root, which never calls
\* schSched(S_EXIT), is never at the exit's loop.
SlotlessBorn == slotless \cap In({"absent"}) = {}
RootStays == pc[Root] \notin {"reset", "sig"}

\* The inductive strengthening of PoolConservation.
PoolInv == TypeOK /\ SlotlessBorn /\ RootStays /\ PoolConservation

\* Every action keeps the count of the slots: it changes pool by as much as it
\* changes the owners and the reservations.
LEMMA PoolStep == PoolInv /\ [Next]_vars => PoolInv'
<1> SUFFICES ASSUME PoolInv, [Next]_vars PROVE PoolInv'
  OBVIOUS
<1> DEFINE H == Held
           R == Reserving
<1>t. TypeOK /\ TypeOK' /\ pool \in Int /\ MaxPool \in Nat /\ Root \in Proc
  BY TypeStep, PoolAssumption, ProcAssumption DEF PoolInv, TypeOK
<1>s. H \subseteq Proc /\ R \subseteq Proc /\ slotless \subseteq Proc
  BY <1>t DEF TypeOK, Held, Reserving, In
<1>c. pool = MaxPool - Cardinality(H) - Cardinality(R) + Cardinality(slotless)
  BY DEF PoolInv, PoolConservation
<1>n. Cardinality(H) \in Nat /\ Cardinality(R) \in Nat /\ Cardinality(slotless) \in Nat
  BY <1>s, <1>t, Counting
<1> USE <1>t
<1>1. ASSUME NEW p \in Proc, NEW n \in Requests(p), SpawnGrant(p, n) PROVE PoolInv'
  <2>1. H' = H /\ R' = R \cup {p} /\ p \notin R
    BY <1>1 DEF SpawnGrant, MaySpawn, TypeOK, Held, Reserving, In
  <2>2. (SlotlessBorn /\ RootStays)'
    BY <1>1 DEF SpawnGrant, MaySpawn, PoolInv, TypeOK, SlotlessBorn, RootStays, In
  <2>3. pool' = pool - 1 /\ slotless' = slotless
    BY <1>1 DEF SpawnGrant
  <2>4. Cardinality(R') = Cardinality(R) + 1
    BY <2>1, <1>s, Counting
  <2> QED BY <2>1, <2>2, <2>3, <2>4, <1>c, <1>n DEF PoolInv, PoolConservation
<1>2. ASSUME NEW p \in Proc, NEW n \in Requests(p), SpawnWait(p, n) PROVE PoolInv'
  <2>1. H' = H \ {p} /\ R' = R /\ p \in H
    BY <1>2 DEF SpawnWait, MaySpawn, TypeOK, Held, Reserving, In
  <2>2. (SlotlessBorn /\ RootStays)'
    BY <1>2 DEF SpawnWait, MaySpawn, PoolInv, TypeOK, SlotlessBorn, RootStays, In
  <2>3. pool' = pool + 1 /\ slotless' = slotless
    BY <1>2 DEF SpawnWait
  <2>4. Cardinality(H') = Cardinality(H) - 1
    BY <2>1, <1>s, Counting
  <2> QED BY <2>1, <2>2, <2>3, <2>4, <1>c, <1>n DEF PoolInv, PoolConservation
<1>3. ASSUME NEW p \in Proc, RecheckGrant(p) PROVE PoolInv'
  <2>1. H' = H \cup {p} /\ R' = R \cup {p} /\ p \notin H /\ p \notin R
    BY <1>3 DEF RecheckGrant, TypeOK, Held, Reserving, In
  <2>2. (SlotlessBorn /\ RootStays)'
    BY <1>3 DEF RecheckGrant, PoolInv, TypeOK, SlotlessBorn, RootStays, In
  <2>3. pool' = pool - 2 /\ slotless' = slotless
    BY <1>3 DEF RecheckGrant
  <2>4. Cardinality(H') = Cardinality(H) + 1 /\ Cardinality(R') = Cardinality(R) + 1
    BY <2>1, <1>s, Counting
  <2> QED BY <2>1, <2>2, <2>3, <2>4, <1>c, <1>n DEF PoolInv, PoolConservation
<1>4. ASSUME NEW p \in Proc, NEW c \in Proc, Fork(p, c) PROVE PoolInv'
  <2>1. H' = H \cup {c} /\ R' = R \ {p} /\ c \notin H /\ p \in R
    BY <1>4 DEF Fork, TypeOK, Held, Reserving, In
  <2>2. (SlotlessBorn /\ RootStays)'
    BY <1>4 DEF Fork, PoolInv, TypeOK, SlotlessBorn, RootStays, In
  <2>3. pool' = pool /\ slotless' = slotless
    BY <1>4 DEF Fork
  <2>4. Cardinality(H') = Cardinality(H) + 1 /\ Cardinality(R') = Cardinality(R) - 1
    BY <2>1, <1>s, Counting
  <2> QED BY <2>1, <2>2, <2>3, <2>4, <1>c, <1>n DEF PoolInv, PoolConservation
<1>5. ASSUME NEW p \in Proc, NEW c \in Proc, ForkUnsched(p, c) PROVE PoolInv'
  <2>1. H' = H \cup {c} /\ R' = R /\ c \notin H
    BY <1>5 DEF ForkUnsched, TypeOK, Held, Reserving, In
  <2>2. (SlotlessBorn /\ RootStays)' /\ c \notin slotless
    BY <1>5 DEF ForkUnsched, PoolInv, TypeOK, SlotlessBorn, RootStays, In
  <2>3. pool' = pool /\ slotless' = slotless \cup {c}
    BY <1>5 DEF ForkUnsched
  <2>4. /\ Cardinality(H') = Cardinality(H) + 1
        /\ Cardinality(slotless') = Cardinality(slotless) + 1
    BY <2>1, <2>2, <2>3, <1>s, Counting
  <2> QED BY <2>1, <2>2, <2>3, <2>4, <1>c, <1>n DEF PoolInv, PoolConservation
<1>6. ASSUME NEW p \in Proc,
             ExitNoWake(p) \/ \E h \in queue : ExitWake(p, h)
      PROVE  PoolInv'
  <2>1. H' = H \ {p} /\ R' = R /\ p \in H
    BY <1>6 DEF ExitNoWake, ExitWake, MayExit, TypeOK, Held, Reserving, In
  <2>2. (SlotlessBorn /\ RootStays)'
    BY <1>6
    DEF ExitNoWake, ExitWake, MayExit, PoolInv, TypeOK, SlotlessBorn, RootStays, In
  <2>3. pool' = pool + 1 /\ slotless' = slotless
    BY <1>6 DEF ExitNoWake, ExitWake
  <2>4. Cardinality(H') = Cardinality(H) - 1
    BY <2>1, <1>s, Counting
  <2> QED BY <2>1, <2>2, <2>3, <2>4, <1>c, <1>n DEF PoolInv, PoolConservation
<1>7. ASSUME NEW p \in Proc,
             \/ Pause(p) \/ WakeNote(p) \/ RecheckWait(p) \/ Waiting(p)
             \/ RootEnd(p) \/ ResetWake(p) \/ Signal(p) \/ PopHead(p)
      PROVE  PoolInv'
  <2>1. H' = H /\ R' = R
    BY <1>7
    DEF Pause, WakeNote, RecheckWait, Waiting, WaitChildren, WaitDone, RootEnd,
        ResetWake, Signal, PopHead, PoolInv, RootStays, TypeOK, Held, Reserving, In
  <2>2. (SlotlessBorn /\ RootStays)'
    BY <1>7
    DEF Pause, WakeNote, RecheckWait, Waiting, WaitChildren, WaitDone, RootEnd,
        ResetWake, Signal, PopHead, PoolInv, RootStays, TypeOK, SlotlessBorn, In
  <2>3. pool' = pool /\ slotless' = slotless
    BY <1>7
    DEF Pause, WakeNote, RecheckWait, Waiting, WaitChildren, WaitDone, RootEnd,
        ResetWake, Signal, PopHead
  <2> QED BY <2>1, <2>2, <2>3, <1>c DEF PoolInv, PoolConservation
<1>8. CASE UNCHANGED vars
  BY <1>8
  DEF vars, PoolInv, PoolConservation, SlotlessBorn, RootStays, Held, Reserving, In
<1> QED
  BY <1>1, <1>2, <1>3, <1>4, <1>5, <1>6, <1>7, <1>8
  DEF Next, Step, Spawning, Exiting

LEMMA PoolInit == Init => PoolInv
<1> SUFFICES ASSUME Init PROVE PoolInv
  OBVIOUS
<1>1. TypeOK
  BY ProcAssumption, PoolAssumption
  DEF Init, TypeOK, Status, Event, NoNode, Node
<1>2. Held = {Root} /\ Reserving = {} /\ slotless = {}
  BY ProcAssumption DEF Init, Held, Reserving, In
<1>3. Cardinality(Held) = 1 /\ Cardinality(Reserving) = 0 /\ Cardinality(slotless) = 0
  BY <1>2, FS_Singleton, FS_EmptySet
<1>4. SlotlessBorn /\ RootStays
  BY ProcAssumption DEF Init, SlotlessBorn, RootStays
<1> QED BY <1>1, <1>3, <1>4, PoolAssumption DEF Init, PoolInv, PoolConservation

\* No slot is lost or invented, whatever the strategies and the pool.
THEOREM PoolConserved == Spec => []PoolConservation
<1>1. PoolInv => PoolConservation
  BY DEF PoolInv
<1> QED BY <1>1, PoolInit, PoolStep, PTL DEF Spec

-----------------------------------------------------------------------------
\* With scheduled forks only, the pool never runs below zero: every path that
\* takes a slot compares with a threshold that is not negative first.
BoundInv == PoolInv /\ slotless = {} /\ pool >= 0

LEMMA BoundStep ==
    ASSUME ~ UnschedFork PROVE BoundInv /\ [Next]_vars => BoundInv'
<1> SUFFICES ASSUME BoundInv, [Next]_vars PROVE slotless' = {} /\ pool' >= 0
  BY PoolStep DEF BoundInv
<1>1. TypeOK /\ pool \in Nat /\ slotless = {}
  BY DEF BoundInv, PoolInv, TypeOK
<1>2. \A e : Threshold(e) \in Nat
  BY PoolAssumption DEF Threshold
<1> QED
  BY <1>1, <1>2
  DEF Next, Step, Spawning, Waiting, Exiting, SpawnGrant, SpawnWait, Pause, WakeNote,
      RecheckGrant, RecheckWait, Fork, ForkUnsched, WaitChildren, WaitDone, RootEnd,
      ExitNoWake, ExitWake, ResetWake, Signal, PopHead, vars

\* At most MaxPool active processes, for every pool and every interleaving, as
\* long as no strategy forks without asking.
THEOREM PoolBounded == ASSUME ~ UnschedFork PROVE Spec => []PoolBound
<1>1. Init => BoundInv
  BY PoolInit, PoolAssumption DEF Init, BoundInv
<1>2. BoundInv => PoolBound
  <2> SUFFICES ASSUME BoundInv PROVE PoolBound
    OBVIOUS
  <2>1. Held \subseteq Proc /\ Reserving \subseteq Proc /\ Root \in Proc
    BY ProcAssumption DEF Held, Reserving, In
  <2>2. Cardinality(Held) \in Nat /\ Cardinality(Reserving) \in Nat
    BY <2>1, Counting
  <2> QED BY <2>2, PoolAssumption, FS_EmptySet
      DEF BoundInv, PoolInv, PoolConservation, PoolBound
<1> QED BY <1>1, <1>2, BoundStep, PTL DEF Spec
-----------------------------------------------------------------------------
\* While nobody owns schMtx there is no head; a request carries its owner's pid.
HeadOwned == mtx = NoProc => head = NoNode
ReqOwned == \A p \in In(Asking) : req[p].pid = p

\* The inductive strengthening of the queue's and the wake-up's properties.
WakeInv == TypeOK /\ HeadOwned /\ ReqOwned /\ WakeOrder /\ QueueExact /\ WakeSound

\* A process that is not in the queue finds room in it.
LEMMA Room ==
    ASSUME QueueExact, NEW p \in Proc \ Queued, Cardinality(Proc) <= MaxQueue
    PROVE  Cardinality(queue) # MaxQueue
<1> DEFINE f == [q \in Queued |-> req[q]]
<1>1. Queued \subseteq Proc
  BY DEF Queued, In
<1>2. IsFiniteSet(Queued) /\ Cardinality(Queued) \in Nat /\ Cardinality(Proc) \in Nat
  BY <1>1, ProcAssumption, FS_Subset, FS_CardinalityType
<1>3. Cardinality(Queued) < Cardinality(Proc)
  <2>1. Cardinality(Queued) <= Cardinality(Proc)
    BY <1>1, ProcAssumption, FS_Subset
  <2>2. Cardinality(Proc) = Cardinality(Queued) => Proc = Queued
    BY <1>1, ProcAssumption, FS_Subset
  <2> QED BY <2>1, <2>2, <1>2
<1>4. f \in Surjection(Queued, queue)
  BY DEF QueueExact, Surjection
<1>5. IsFiniteSet(queue) /\ Cardinality(queue) <= Cardinality(Queued)
  BY <1>2, <1>4, FS_Surjection
<1>6. Cardinality(queue) \in Nat
  BY <1>5, FS_CardinalityType
<1> QED BY <1>2, <1>3, <1>5, <1>6, QueueAssumption

\* While nobody owns schMtx nobody signals and only pausing processes queue.
LEMMA Unowned ==
    ASSUME WakeInv, mtx = NoProc
    PROVE  /\ In({"reset", "sig"}) = {}
           /\ In({"woken"}) = {}
           /\ Queued = In({"pausing", "paused"})
<1>1. In({"woken"}) \subseteq {NoProc}
  BY DEF WakeInv, HeadOwned, WakeOrder, NoNode
<1> QED BY <1>1, ProcAssumption DEF WakeInv, WakeOrder, Queued, In

\* While a process owns schMtx the head is the node of a waiting process.
LEMMA Owned ==
    ASSUME WakeInv, mtx # NoProc
    PROVE  /\ head \in queue
           /\ head.pid \in Queued
           /\ head = req[head.pid]
<1>1. head \in queue
  BY DEF WakeInv, WakeOrder, Heads
<1>2. PICK q \in Queued : head = req[q]
  BY <1>1 DEF WakeInv, QueueExact
<1>3. req[q].pid = q
  BY DEF WakeInv, ReqOwned, Queued, In, Asking
<1> QED BY <1>1, <1>2, <1>3

\* A refused process adds its node, and nothing else changes for the waiters.
LEMMA RefusedStep ==
    ASSUME WakeInv, TypeOK', NEW p \in Proc, NEW n \in Requests(p),
           Cardinality(Proc) <= MaxQueue, mtx = NoProc,
           pc[p] \in {"run", "rewait"}, pc' = [pc EXCEPT ![p] = "pausing"],
           req' = [req EXCEPT ![p] = n], queue' = Push(n),
           UNCHANGED <<mtx, head, wake>>
    PROVE  WakeInv'
<1>1. /\ In({"reset", "sig"}) = {} /\ In({"woken"}) = {}
      /\ Queued = In({"pausing", "paused"})
  BY Unowned
<1>2. p \notin Queued
  BY <1>1 DEF In
<1>3. queue' = queue \cup {n}
  BY <1>2, Room DEF Push, WakeInv
<1>4. (HeadOwned /\ ReqOwned)'
  BY DEF WakeInv, TypeOK, HeadOwned, ReqOwned, In, Requests, Asking
<1>5. In({"reset", "sig"})' = {} /\ In({"woken"})' = {}
  BY <1>1 DEF WakeInv, TypeOK, In
<1>6. WakeOrder' /\ WakeSound'
  BY <1>5 DEF WakeOrder, WakeSound, In
<1>7. Queued' = Queued \cup {p}
  BY <1>1 DEF WakeInv, TypeOK, Queued, In
<1>8. QueueExact'
  <2>1. \A q \in Queued : req'[q] = req[q]
    BY <1>2 DEF WakeInv, TypeOK, Queued, In
  <2>2. req'[p] = n
    BY DEF WakeInv, TypeOK
  <2>3. {req'[q] : q \in Queued \cup {p}} = {req[q] : q \in Queued} \cup {n}
    BY <2>1, <2>2
  <2> QED BY <2>3, <1>3, <1>7 DEF WakeInv, QueueExact
<1> QED BY <1>4, <1>6, <1>8 DEF WakeInv

\* A process that is not waiting and does not signal moves on: the waiters,
\* their nodes and the wake-up under way stay as they are.
LEMMA BystanderStep ==
    ASSUME WakeInv, TypeOK', In({"reset", "sig"})' = In({"reset", "sig"}),
           \A q \in Proc : /\ pc'[q] \in {"woken", "rewait"} => pc'[q] = pc[q]
                           /\ pc[q] \in {"woken"} => pc'[q] = pc[q]
                           /\ pc[q] = "rewait" /\ mtx # NoProc => pc'[q] = pc[q],
           In({"pausing", "paused"})' = In({"pausing", "paused"}),
           \A q \in Queued : req'[q] = req[q],
           ReqOwned', UNCHANGED <<queue, mtx, head, wake>>,
           \A e \in Proc : pc[e] = "sig" <=> pc'[e] = "sig"
    PROVE  WakeInv'
<1>1. In({"woken"})' = In({"woken"})
  BY DEF In
<1>2. Queued' = Queued
  BY DEF Queued, In
<1>3. {req'[q] : q \in Queued} = {req[q] : q \in Queued}
  OBVIOUS
<1>4. QueueExact'
  BY <1>2, <1>3 DEF WakeInv, QueueExact
<1>5. WakeOrder'
  BY <1>1 DEF WakeInv, WakeOrder
<1>6. WakeSound'
  <2> SUFFICES ASSUME NEW e \in Proc, pc'[e] = "sig", wake' = head'.pid
      PROVE  pc'[head.pid] = "rewait"
    BY DEF WakeSound, In
  <2>1. pc[e] = "sig" /\ pc[head.pid] = "rewait"
    BY DEF WakeInv, WakeSound, In
  <2>2. mtx # NoProc
    BY <2>1, ProcAssumption DEF WakeInv, WakeOrder, In
  <2>3. head.pid \in Proc
    BY <2>2, Owned DEF Queued, In
  <2> QED BY <2>1, <2>2, <2>3
<1> QED BY <1>4, <1>5, <1>6 DEF WakeInv, HeadOwned
\* Every action keeps the queue and the wake-up under way in order.
LEMMA WakeStep ==
    ASSUME Cardinality(Proc) <= MaxQueue
    PROVE  WakeInv /\ [Next]_vars => WakeInv'
<1> SUFFICES ASSUME WakeInv, [Next]_vars PROVE WakeInv'
  OBVIOUS
<1>t. TypeOK /\ TypeOK'
  BY TypeStep DEF WakeInv
<1>p. NoProc \notin Proc
  BY ProcAssumption
<1>1. ASSUME NEW p \in Proc, NEW n \in Requests(p), SpawnGrant(p, n) PROVE WakeInv'
  <2>1. p \notin Queued
    BY <1>1 DEF SpawnGrant, MaySpawn, Queued, In
  <2>2. ReqOwned'
    BY <1>1, <1>t
    DEF SpawnGrant, MaySpawn, WakeInv, TypeOK, ReqOwned, In, Requests, Asking
  <2> QED
    BY <1>1, <1>t, <2>1, <2>2, BystanderStep DEF SpawnGrant, MaySpawn, TypeOK, In
<1>2. ASSUME NEW p \in Proc, NEW n \in Requests(p), SpawnWait(p, n) PROVE WakeInv'
  BY <1>2, <1>t, RefusedStep DEF SpawnWait, MaySpawn
<1>3. ASSUME NEW p \in Proc, Pause(p) PROVE WakeInv'
  <2>1. Queued' = Queued
    BY <1>3, <1>t DEF Pause, TypeOK, Queued, In
  <2>2. QueueExact'
    BY <1>3, <2>1 DEF Pause, WakeInv, QueueExact
  <2>3. (HeadOwned /\ ReqOwned)'
    BY <1>3, <1>t DEF Pause, WakeInv, TypeOK, HeadOwned, ReqOwned, In, Asking
  <2>4. (WakeOrder /\ WakeSound)'
    BY <1>3, <1>t DEF Pause, WakeInv, TypeOK, WakeOrder, WakeSound, In
  <2> QED BY <1>t, <2>2, <2>3, <2>4 DEF WakeInv
<1>4. ASSUME NEW p \in Proc, WakeNote(p) PROVE WakeInv'
  <2>1. p = head.pid /\ mtx # NoProc
    BY <1>4, <1>p DEF WakeNote, WakeInv, WakeOrder, HeadOwned, NoNode, In
  <2>2. Queued' = Queued
    BY <1>4, <1>t, <2>1 DEF WakeNote, TypeOK, Queued, In
  <2>3. QueueExact'
    BY <1>4, <2>2 DEF WakeNote, WakeInv, QueueExact
  <2>4. (HeadOwned /\ ReqOwned)'
    BY <1>4, <1>t DEF WakeNote, WakeInv, TypeOK, HeadOwned, ReqOwned, In, Asking
  <2>5. WakeOrder'
    BY <1>4, <1>t DEF WakeNote, WakeInv, TypeOK, WakeOrder, In
  <2>6. WakeSound'
    BY <1>4, <1>t, <2>1 DEF WakeNote, TypeOK, WakeSound, In
  <2> QED BY <1>t, <2>3, <2>4, <2>5, <2>6 DEF WakeInv
<1>5. ASSUME NEW p \in Proc, RecheckGrant(p) PROVE WakeInv'
  <2>1. p \notin Queued
    BY <1>5 DEF RecheckGrant, Queued, In
  <2>2. ReqOwned'
    BY <1>5, <1>t DEF RecheckGrant, WakeInv, TypeOK, ReqOwned, In, Asking
  <2> QED BY <1>5, <1>t, <2>1, <2>2, BystanderStep DEF RecheckGrant, TypeOK, In
<1>6. ASSUME NEW p \in Proc, RecheckWait(p) PROVE WakeInv'
  <2>1. req[p].pid = p /\ req[p] \in Node
    BY <1>6, <1>t DEF RecheckWait, WakeInv, TypeOK, ReqOwned, In, Asking
  <2>2. req' = [req EXCEPT ![p] = req[p]]
    BY <1>6, <1>t DEF RecheckWait, TypeOK
  <2>3. p \notin Queued
    BY <1>6 DEF RecheckWait, Queued, In
  <2>4. queue' = queue \cup {req[p]}
    BY <1>6, <2>3, Room DEF RecheckWait, Push, WakeInv
  <2>5. /\ In({"reset", "sig"}) = {} /\ In({"woken"}) = {}
        /\ Queued = In({"pausing", "paused"})
    BY <1>6, Unowned DEF RecheckWait
  <2>6. Queued' = Queued \cup {p}
    BY <1>6, <1>t, <2>5 DEF RecheckWait, TypeOK, Queued, In
  <2>7. QueueExact'
    BY <1>6, <2>4, <2>6 DEF RecheckWait, WakeInv, QueueExact
  <2>8. (HeadOwned /\ ReqOwned)'
    BY <1>6, <1>t DEF RecheckWait, WakeInv, TypeOK, HeadOwned, ReqOwned, In, Asking
  <2>9. (WakeOrder /\ WakeSound)'
    BY <1>6, <1>t, <2>5 DEF RecheckWait, WakeInv, TypeOK, WakeOrder, WakeSound, In
  <2> QED BY <1>t, <2>7, <2>8, <2>9 DEF WakeInv
<1>7. ASSUME NEW p \in Proc, NEW c \in Proc,
             Fork(p, c) \/ ForkUnsched(p, c) \/ Waiting(p) \/ RootEnd(p)
      PROVE  WakeInv'
  <2>1. ReqOwned'
    BY <1>7, <1>t
    DEF Fork, ForkUnsched, Waiting, WaitChildren, WaitDone, RootEnd,
        WakeInv, TypeOK, ReqOwned, In, Asking
  <2> QED
    BY <1>7, <1>t, <2>1, BystanderStep
    DEF Fork, ForkUnsched, Waiting, WaitChildren, WaitDone, RootEnd, TypeOK, In
<1>8. ASSUME NEW p \in Proc, ExitNoWake(p) PROVE WakeInv'
  <2>1. ReqOwned'
    BY <1>8, <1>t DEF ExitNoWake, MayExit, WakeInv, TypeOK, ReqOwned, In, Asking
  <2> QED BY <1>8, <1>t, <2>1, BystanderStep DEF ExitNoWake, MayExit, TypeOK, In
<1>9. ASSUME NEW p \in Proc, NEW h \in queue, ExitWake(p, h) PROVE WakeInv'
  <2>1. /\ In({"reset", "sig"}) = {} /\ In({"woken"}) = {}
        /\ Queued = In({"pausing", "paused"})
    BY <1>9, Unowned DEF ExitWake, MayExit
  <2>2. h.pid \in Queued
    <3>1. PICK q \in Queued : h = req[q]
      BY DEF WakeInv, QueueExact
    <3>2. req[q].pid = q
      BY DEF WakeInv, ReqOwned, Queued, In, Asking
    <3> QED BY <3>1, <3>2
  <2>3. Queued' = Queued
    BY <1>9, <1>t, <2>1, <2>2 DEF ExitWake, MayExit, TypeOK, Queued, In
  <2>4. QueueExact'
    BY <1>9, <2>3 DEF ExitWake, WakeInv, QueueExact
  <2>5. (HeadOwned /\ ReqOwned)'
    BY <1>9, <1>t, <1>p
    DEF ExitWake, MayExit, WakeInv, TypeOK, HeadOwned, ReqOwned, In, Asking
  <2>6. WakeOrder'
    BY <1>9, <1>t, <1>p, <2>1 DEF ExitWake, MayExit, TypeOK, WakeOrder, Heads, In
  <2>7. WakeSound'
    BY <1>9, <1>t, <2>1 DEF ExitWake, TypeOK, WakeSound, In
  <2> QED BY <1>t, <2>4, <2>5, <2>6, <2>7 DEF WakeInv
<1>10. ASSUME NEW p \in Proc, ResetWake(p) PROVE WakeInv'
  <2>1. p = mtx /\ mtx # NoProc /\ In({"reset", "sig"}) = {p}
    BY <1>10, <1>p DEF ResetWake, WakeInv, WakeOrder, In
  <2>2. head.pid \in Proc
    BY <2>1, Owned DEF Queued, In
  <2>3. Queued' = Queued
    BY <1>10, <1>t DEF ResetWake, TypeOK, Queued, In
  <2>4. QueueExact'
    BY <1>10, <2>3 DEF ResetWake, WakeInv, QueueExact
  <2>5. (HeadOwned /\ ReqOwned)'
    BY <1>10, <1>t DEF ResetWake, WakeInv, TypeOK, HeadOwned, ReqOwned, In, Asking
  <2>6. WakeOrder'
    BY <1>10, <1>t DEF ResetWake, WakeInv, TypeOK, WakeOrder, In
  <2>7. WakeSound'
    BY <1>10, <1>t, <1>p, <2>2 DEF ResetWake, TypeOK, WakeSound, In
  <2> QED BY <1>t, <2>4, <2>5, <2>6, <2>7 DEF WakeInv
<1>11. ASSUME NEW p \in Proc, Signal(p) PROVE WakeInv'
  <2>1. p = mtx /\ mtx # NoProc
    BY <1>11, <1>p DEF Signal, WakeInv, WakeOrder, In
  <2>2. head.pid \in Proc
    BY <2>1, Owned DEF Queued, In
  <2>3. Queued' = Queued
    BY <1>11, <1>t, <2>1, <2>2 DEF Signal, TypeOK, Queued, In
  <2>4. QueueExact'
    BY <1>11, <2>3 DEF Signal, WakeInv, QueueExact
  <2>5. (HeadOwned /\ ReqOwned)'
    BY <1>11, <1>t DEF Signal, WakeInv, TypeOK, HeadOwned, ReqOwned, In, Asking
  <2>6. WakeOrder'
    BY <1>11, <1>t DEF Signal, WakeInv, TypeOK, WakeOrder, In
  <2>7. WakeSound'
    BY <1>11, <1>t, <2>2 DEF Signal, TypeOK, WakeSound, In
  <2> QED BY <1>t, <2>4, <2>5, <2>6, <2>7 DEF WakeInv
<1>12. ASSUME NEW p \in Proc, PopHead(p) PROVE WakeInv'
  <2>1. p = mtx /\ mtx # NoProc /\ In({"reset", "sig"}) = {p}
    BY <1>12, <1>p DEF PopHead, WakeInv, WakeOrder, In
  <2>2. head.pid \in Queued /\ head = req[head.pid] /\ pc[head.pid] = "rewait"
    BY <1>12, <2>1, Owned DEF PopHead, WakeInv, WakeSound, In
  <2>3. In({"woken"}) = {}
    BY <2>2 DEF WakeInv, WakeOrder, In
  <2>4. Queued' = Queued \ {head.pid}
    BY <1>12, <1>t, <2>2, <2>3 DEF PopHead, TypeOK, Queued, In
  <2>5. QueueExact'
    <3>1. \A q \in Queued : req[q].pid = q
      BY DEF WakeInv, ReqOwned, Queued, In, Asking
    <3>2. {req[q] : q \in Queued \ {head.pid}} = {req[q] : q \in Queued} \ {head}
      BY <2>2, <3>1
    <3> QED BY <1>12, <2>4, <3>2 DEF PopHead, WakeInv, QueueExact
  <2>6. (HeadOwned /\ ReqOwned)'
    BY <1>12, <1>t DEF PopHead, WakeInv, TypeOK, HeadOwned, ReqOwned, In, Asking
  <2>7. (WakeOrder /\ WakeSound)'
    BY <1>12, <1>t, <2>1, <2>3 DEF PopHead, TypeOK, WakeOrder, WakeSound, In
  <2> QED BY <1>t, <2>5, <2>6, <2>7 DEF WakeInv
<1>13. CASE UNCHANGED vars
  BY <1>13, <1>t
  DEF vars, WakeInv, HeadOwned, ReqOwned, WakeOrder, QueueExact, WakeSound, Queued, In
<1> QED
  BY <1>1, <1>2, <1>3, <1>4, <1>5, <1>6, <1>7, <1>8, <1>9, <1>10, <1>11, <1>12, <1>13
  DEF Next, Step, Spawning, Exiting

LEMMA WakeInit == Init => WakeInv
<1> SUFFICES ASSUME Init PROVE WakeInv
  OBVIOUS
<1>1. TypeOK
  BY PoolInit DEF PoolInv
<1>2. Queued = {} /\ In(Asking) = {} /\ In({"reset", "sig"}) = {} /\ In({"woken"}) = {}
  BY DEF Init, Queued, In, Asking
<1> QED
  BY <1>1, <1>2
  DEF Init, WakeInv, HeadOwned, ReqOwned, WakeOrder, QueueExact, WakeSound, In

\* The priority queue holds exactly the waiters, one process is woken at a time,
\* and what the exiting process reads in schWakePID is the answer to its own
\* signal, for any number of processes the queue has room for.
THEOREM WakeUpsInOrder ==
    ASSUME Cardinality(Proc) <= MaxQueue
    PROVE  Spec => [](QueueExact /\ WakeOrder /\ WakeSound)
<1>1. WakeInv => QueueExact /\ WakeOrder /\ WakeSound
  BY DEF WakeInv
<1> QED BY <1>1, WakeInit, WakeStep, PTL DEF Spec

\* Only the owner of schMtx signals, at most one process is woken at any time,
\* and it is the head of the queue for as long as it is being signalled.
THEOREM OneWakeUpAtATime ==
    ASSUME Cardinality(Proc) <= MaxQueue
    PROVE  Spec => []WakeOrder
BY WakeUpsInOrder, PTL

\* An exiting process that finds in schWakePID the pid it signals has the answer
\* to its own signal: the process is awake and its node can leave the queue.
THEOREM WakeUpAnswered ==
    ASSUME Cardinality(Proc) <= MaxQueue
    PROVE  Spec => []WakeSound
BY WakeUpsInOrder, PTL
=============================================================================
