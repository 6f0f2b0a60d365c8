-------------------------- MODULE SchedClaimProofs --------------------------
(***************************************************************************)
(* No wake-up is lost, and how many processes a deadlock takes, for any    *)
(* set of processes the queue has room for and any pool; and the scheduler *)
(* implements SlotPool, as long as no strategy forks without asking.       *)
(***************************************************************************)
EXTENDS SchedRefinement, SchedProofs

\* A set of naturals has a least element.
LEMMA Least ==
    ASSUME NEW S, S \subseteq Nat, S # {}
    PROVE  \E k \in S : \A l \in S : k <= l
<1>1. PICK k \in S : \A l \in S : ~ (<<l, k>> \in OpToRel(<, Nat))
  BY NatLessThanWellFounded, WFMin
<1>2. \A l \in S : ~ (l < k)
  BY <1>1 DEF OpToRel
<1> QED BY <1>2

LEMMA NodeFields ==
    ASSUME NEW k \in Node
    PROVE  k.pid \in Proc \cup {NoProc} /\ k.event \in Event /\ k.todo \in Nat
<1>1. k.pid \in Proc \cup {NoProc} /\ k.event \in Event /\ k.todo \in Todos \cup {0}
  BY DEF Node
<1>2. Todos \cup {0} \subseteq Nat
  BY QueueAssumption
<1>3. k.todo \in Nat
  BY <1>1, <1>2
<1> QED BY <1>1, <1>3

\* A queue that is not empty has a head: the node that the fewest outrank.
LEMMA HeadExists ==
    ASSUME NEW q, q \subseteq Node, IsFiniteSet(q), q # {}
    PROVE  Heads(q) # {}
<1> DEFINE Above(n) == {m \in q : Outranks(m, n)}
           counts == {Cardinality(Above(n)) : n \in q}
<1>1. \A n \in q : IsFiniteSet(Above(n)) /\ Cardinality(Above(n)) \in Nat
  <2> SUFFICES ASSUME NEW n \in q PROVE IsFiniteSet(Above(n)) /\ Cardinality(Above(n)) \in Nat
    OBVIOUS
  <2>1. IsFiniteSet(Above(n))
    BY FS_Subset
  <2> QED BY <2>1, FS_CardinalityType
<1>2. counts \subseteq Nat /\ counts # {}
  BY <1>1
<1>3. PICK n \in q : \A m \in q : Cardinality(Above(n)) <= Cardinality(Above(m))
  <2> HIDE DEF Above
  <2>1. PICK least \in counts : \A k \in counts : least <= k
    BY <1>2, Least
  <2> QED BY <2>1
<1>4. ASSUME NEW m \in q, Outranks(m, n) PROVE FALSE
  <2>1. Above(m) \subseteq Above(n) /\ m \in Above(n) /\ m \notin Above(m)
    <3>1. /\ n.event \in Event /\ n.todo \in Nat /\ m.event \in Event /\ m.todo \in Nat
          /\ \A k \in q : k.event \in Event /\ k.todo \in Nat
      BY NodeFields
    <3> QED BY <1>4, <3>1 DEF Outranks, Event
  <2>2. IsFiniteSet(Above(n)) /\ Cardinality(Above(m)) \in Nat /\ Cardinality(Above(n)) \in Nat
    BY <1>1
  <2> HIDE DEF Above
  <2>3. /\ Cardinality(Above(m)) <= Cardinality(Above(n))
        /\ Cardinality(Above(n)) = Cardinality(Above(m)) => Above(n) = Above(m)
    BY <2>1, <2>2, FS_Subset
  <2>4. Cardinality(Above(n)) <= Cardinality(Above(m))
    BY <1>3
  <2> QED BY <2>1, <2>2, <2>3, <2>4
<1> QED BY <1>4 DEF Heads
-----------------------------------------------------------------------------
\* Who is counted when a free slot has to be accounted for.
Wakers == In({"reset", "sig"})
Claimants == <<queue, Wakers, Resumed, ResumedFor("sampling"), ResumedFor("tuning")>>
Sizes ==
    /\ IsFiniteSet(queue) /\ Cardinality(queue) \in Nat
    /\ Cardinality(Wakers) \in Nat /\ Cardinality(Resumed) \in Nat
    /\ \A e \in Event : Cardinality(ResumedFor(e)) \in Nat

LEMMA Subsets ==
    /\ Wakers \subseteq Proc /\ Resumed \subseteq Proc
    /\ \A e \in Event : ResumedFor(e) \subseteq Proc
    /\ Resumed = {p \in In({"rewait"}) : mtx = NoProc \/ head.pid # p}
BY DEF Wakers, Resumed, ResumedFor, Queued, In

LEMMA SizesKnown == WakeInv => Sizes
<1> SUFFICES ASSUME WakeInv PROVE Sizes
  OBVIOUS
<1> DEFINE f == [q \in Queued |-> req[q]]
<1>1. Queued \subseteq Proc
  BY DEF Queued, In
<1>2. IsFiniteSet(Queued)
  BY <1>1, ProcAssumption, FS_Subset
<1>3. f \in Surjection(Queued, queue)
  BY DEF WakeInv, QueueExact, Surjection
<1>4. IsFiniteSet(queue) /\ Cardinality(queue) \in Nat
  BY <1>2, <1>3, FS_Surjection, FS_CardinalityType
<1>5. Root \in Proc
  BY ProcAssumption
<1>6. /\ Cardinality(Wakers) \in Nat /\ Cardinality(Resumed) \in Nat
      /\ \A e \in Event : Cardinality(ResumedFor(e)) \in Nat
  BY <1>5, Subsets, Counting
<1> QED BY <1>4, <1>6 DEF Sizes

\* The head outranks none of the others only if it is a sampling node, or there
\* is no sampling node.
LEMMA SamplingFirst ==
    ASSUME WakeInv, NEW h \in Heads(queue), NEW n \in queue, n.event = "sampling"
    PROVE  h.event = "sampling"
<1>1. h \in queue /\ ~ Outranks(n, h)
  BY DEF Heads
<1>2. h.event \in Event
  BY <1>1, NodeFields DEF WakeInv, TypeOK
<1> QED BY <1>1, <1>2 DEF Outranks, Event

LEMMA Thresholds ==
    /\ Threshold("sampling") = 0 /\ Threshold("tuning") \in Nat
    /\ Threshold("tuning") = MaxPool - TuningShare
BY PoolAssumption DEF Threshold

\* A process whose node is not queued queues a node of its own.
LEMMA NewNode ==
    ASSUME WakeInv, NEW p \in Proc \ Queued, NEW n, n.pid = p
    PROVE  n \notin queue
<1> SUFFICES ASSUME n \in queue PROVE FALSE
  OBVIOUS
<1>1. PICK q \in Queued : n = req[q]
  BY DEF WakeInv, QueueExact
<1>2. req[q].pid = q
  BY DEF WakeInv, ReqOwned, Queued, In, Asking
<1> QED BY <1>1, <1>2

\* Every step that leaves a slot free while somebody waits adds somebody who will
\* use it, and every step that takes one of those away takes the slot, too.
LEMMA ClaimStep ==
    ASSUME Cardinality(Proc) <= MaxQueue
    PROVE  WakeInv /\ SlotsClaimed /\ [Next]_vars => SlotsClaimed'
<1> SUFFICES ASSUME WakeInv, SlotsClaimed, [Next]_vars PROVE SlotsClaimed'
  OBVIOUS
<1> DEFINE Q == Cardinality(queue)
           W == Cardinality(Wakers)
           R == Cardinality(Resumed)
           RS == Cardinality(ResumedFor("sampling"))
           RT == Cardinality(ResumedFor("tuning"))
           T == Threshold("tuning")
           Sampling == \E n \in queue : n.event = "sampling"
<1>t. TypeOK /\ TypeOK' /\ NoProc \notin Proc
  BY TypeStep, ProcAssumption DEF WakeInv
<1>n. /\ Q \in Nat /\ W \in Nat /\ R \in Nat /\ RS \in Nat /\ RT \in Nat /\ T \in Nat
      /\ pool \in Int /\ IsFiniteSet(queue)
  BY <1>t, SizesKnown, Thresholds DEF Sizes, Event, TypeOK
<1>c. /\ queue # {} => pool <= T + Q + W + 2 * R
      /\ Sampling => pool <= Q + W + 2 * RS + RT
  BY DEF SlotsClaimed, Wakers
<1>g. ASSUME /\ queue' # {} => pool' <= T + Q' + W' + 2 * R'
             /\ Sampling' => pool' <= Q' + W' + 2 * RS' + RT'
      PROVE  SlotsClaimed'
  BY <1>g DEF SlotsClaimed, Wakers, Threshold
<1>k. ASSUME UNCHANGED Claimants, pool' <= pool, pool' \in Int PROVE SlotsClaimed'
  <2>1. queue' = queue /\ Q' = Q /\ W' = W /\ R' = R /\ RS' = RS /\ RT' = RT
    BY <1>k DEF Claimants
  <2> HIDE DEF Q, W, R, RS, RT, T
  <2> QED BY <1>c, <1>g, <1>k, <1>n, <2>1
<1>1. ASSUME NEW p \in Proc, NEW n \in Requests(p), SpawnGrant(p, n) PROVE SlotsClaimed'
  <2>1. UNCHANGED Claimants
    BY <1>1, <1>t DEF SpawnGrant, MaySpawn, TypeOK, Claimants, Wakers, Resumed, ResumedFor,
                      Queued, In
  <2> QED BY <1>1, <1>k, <1>n, <2>1 DEF SpawnGrant
<1>2. ASSUME NEW p \in Proc,
             \/ Pause(p) \/ WakeNote(p) \/ Waiting(p) \/ RootEnd(p) \/ ResetWake(p)
             \/ \E c \in Proc : Fork(p, c) \/ ForkUnsched(p, c)
             \/ Signal(p)
      PROVE  SlotsClaimed'
  <2>1. CASE WakeNote(p)
    <3>1. mtx # NoProc /\ head.pid = p
      BY <1>t, <2>1 DEF WakeNote, WakeInv, WakeOrder, HeadOwned, NoNode, In
    <3>2. UNCHANGED Claimants
      BY <1>t, <2>1, <3>1 DEF WakeNote, TypeOK, Claimants, Wakers, Resumed, ResumedFor, Queued, In
    <3> QED BY <1>k, <1>n, <2>1, <3>2 DEF WakeNote
  <2>2. CASE ~ WakeNote(p)
    <3>1. UNCHANGED Claimants
      BY <1>2, <1>t, <2>2
      DEF Pause, Waiting, WaitChildren, WaitDone, RootEnd, ResetWake, Fork, ForkUnsched,
          Signal, TypeOK, Claimants, Wakers, Resumed, ResumedFor, Queued, In
    <3>2. pool' = pool
      BY <1>2
      DEF Pause, WakeNote, Waiting, WaitChildren, WaitDone, RootEnd, ResetWake, Fork,
          ForkUnsched, Signal
    <3> QED BY <1>k, <1>n, <3>1, <3>2
  <2> QED BY <2>1, <2>2
<1>3. ASSUME NEW p \in Proc, NEW n \in Requests(p), SpawnWait(p, n) PROVE SlotsClaimed'
  <2>1. p \notin Queued /\ n.pid = p /\ n.event \in Event
    BY <1>3 DEF SpawnWait, MaySpawn, Queued, In, Requests, Event
  <2>2. queue' = queue \cup {n} /\ n \notin queue
    BY <1>3, <2>1, Room, NewNode DEF SpawnWait, Push, WakeInv
  <2>3. Q' = Q + 1
    BY <1>n, <2>2, FS_AddElement
  <2>4. Wakers' = Wakers /\ Resumed' = Resumed
        /\ \A e \in Event : ResumedFor(e)' = ResumedFor(e)
    BY <1>3, <1>t DEF SpawnWait, MaySpawn, TypeOK, Wakers, Resumed, ResumedFor, Queued, In
  <2>5. W' = W /\ R' = R /\ RS' = RS /\ RT' = RT
    BY <2>4 DEF Event
  <2>6. pool' = pool + 1 /\ pool <= Threshold(n.event)
    BY <1>3 DEF SpawnWait
  <2>7. \/ n.event = "sampling" /\ pool <= 0
        \/ n.event = "tuning" /\ pool <= T
    BY <2>1, <2>6, Thresholds DEF Event
  <2>8. Sampling' => Sampling \/ n.event = "sampling"
    BY <2>2
  <2> HIDE DEF Q, W, R, RS, RT, T, Sampling
  <2>9. /\ pool' <= T + Q' + W' + 2 * R'
        /\ Sampling' => pool' <= Q' + W' + 2 * RS' + RT'
    BY <1>n, <1>c, <2>3, <2>5, <2>6, <2>7, <2>8
  <2> QED BY <1>g, <2>9
<1>4. ASSUME NEW p \in Proc, RecheckGrant(p) PROVE SlotsClaimed'
  <2>1. p \in Resumed /\ req[p].event \in Event
    BY <1>4, <1>t, NodeFields, Subsets DEF RecheckGrant, TypeOK, In
  <2>2. /\ Wakers' = Wakers /\ queue' = queue /\ Resumed' = Resumed \ {p}
        /\ \A e \in Event : ResumedFor(e)' = ResumedFor(e) \ {p}
    BY <1>4, <1>t DEF RecheckGrant, TypeOK, Wakers, Resumed, ResumedFor, Queued, In
  <2>3. R' = R - 1
    BY <2>1, <2>2, Subsets, Counting
  <2>4. \/ p \in ResumedFor("sampling") /\ p \notin ResumedFor("tuning")
        \/ p \notin ResumedFor("sampling") /\ p \in ResumedFor("tuning")
    BY <2>1 DEF ResumedFor, Event
  <2>5. \/ RS' = RS - 1 /\ RT' = RT
        \/ RS' = RS /\ RT' = RT - 1
    <3>1. /\ ResumedFor("sampling")' = ResumedFor("sampling") \ {p}
          /\ ResumedFor("tuning")' = ResumedFor("tuning") \ {p}
      BY <2>2 DEF Event
    <3>2. ResumedFor("sampling") \subseteq Proc /\ ResumedFor("tuning") \subseteq Proc
      BY Subsets DEF Event
    <3>3. p \in ResumedFor("sampling") => RS' = RS - 1
      BY <3>1, <3>2, Counting
    <3>4. p \in ResumedFor("tuning") => RT' = RT - 1
      BY <3>1, <3>2, Counting
    <3>5. p \notin ResumedFor("sampling") => RS' = RS
      BY <3>1
    <3>6. p \notin ResumedFor("tuning") => RT' = RT
      BY <3>1
    <3> QED BY <2>4, <3>3, <3>4, <3>5, <3>6
  <2>6. Q' = Q /\ W' = W /\ pool' = pool - 2 /\ queue' = queue
    BY <1>4, <2>2 DEF RecheckGrant
  <2> HIDE DEF Q, W, R, RS, RT, T
  <2> QED BY <1>c, <1>g, <1>n, <2>3, <2>5, <2>6
<1>5. ASSUME NEW p \in Proc, RecheckWait(p) PROVE SlotsClaimed'
  <2>1. p \in Resumed /\ p \notin Queued /\ req[p].event \in Event /\ req[p].pid = p
    BY <1>5, <1>t, NodeFields, Subsets
    DEF RecheckWait, WakeInv, ReqOwned, TypeOK, Resumed, In, Asking
  <2>2. queue' = queue \cup {req[p]} /\ req[p] \notin queue
    BY <1>5, <2>1, Room, NewNode DEF RecheckWait, Push, WakeInv
  <2>3. Q' = Q + 1
    BY <1>n, <2>2, FS_AddElement
  <2>4. /\ Wakers' = Wakers /\ Resumed' = Resumed \ {p}
        /\ \A e \in Event : ResumedFor(e)' = ResumedFor(e) \ {p}
    BY <1>5, <1>t DEF RecheckWait, TypeOK, Wakers, Resumed, ResumedFor, Queued, In
  <2>5. W' = W /\ R' = R - 1 /\ pool' = pool /\ pool - 1 <= Threshold(req[p].event)
    BY <1>5, <2>1, <2>4, Subsets, Counting DEF RecheckWait
  <2>6. \/ req[p].event = "sampling" /\ pool <= 1
        \/ req[p].event = "tuning" /\ pool <= T + 1
    BY <1>n, <2>1, <2>5, Thresholds DEF Event
  <2>7. R' \in Nat /\ RS' \in Nat /\ RT' \in Nat
    <3>1. WakeInv'
      BY WakeStep
    <3> QED BY <3>1, <1>t, <2>4, Subsets, Counting DEF Event
  <2>8. req[p].event = "tuning" => RS' = RS /\ RT' = RT - 1
    <3> SUFFICES ASSUME req[p].event = "tuning" PROVE RS' = RS /\ RT' = RT - 1
      OBVIOUS
    <3>1. /\ ResumedFor("sampling")' = ResumedFor("sampling")
          /\ ResumedFor("tuning")' = ResumedFor("tuning") \ {p}
      BY <2>4 DEF Event, ResumedFor
    <3>2. p \in ResumedFor("tuning") /\ ResumedFor("tuning") \subseteq Proc
      BY <2>1, Subsets DEF ResumedFor, Event
    <3> QED BY <3>1, <3>2, Counting
  <2>9. Sampling' => Sampling \/ req[p].event = "sampling"
    BY <2>2
  <2> HIDE DEF Q, W, R, RS, RT, T, Sampling
  <2>10. pool' <= T + Q' + W' + 2 * R'
    BY <1>n, <2>3, <2>5, <2>6, <2>7
  <2>11. ASSUME Sampling' PROVE pool' <= Q' + W' + 2 * RS' + RT'
    <3>1. CASE req[p].event = "sampling"
      <4>1. pool' <= 1 /\ pool' \in Int
        BY <1>n, <2>5, <2>6, <3>1
      <4>2. Q' \in Nat /\ Q' >= 1 /\ W' \in Nat
        BY <1>n, <2>3, <2>5
      <4>3. RS' \in Nat /\ RT' \in Nat
        BY <2>7
      <4>4. \A k \in Int : \A i, w, s, t \in Nat : k <= 1 /\ i >= 1 => k <= i + w + 2 * s + t
        OBVIOUS
      <4> QED BY <4>1, <4>2, <4>3, <4>4
    <3>2. CASE req[p].event = "tuning"
      BY <1>n, <1>c, <2>3, <2>5, <2>8, <2>9, <2>11, <3>2
    <3> QED BY <2>6, <3>1, <3>2
  <2> QED BY <1>g, <2>10, <2>11
<1>6. ASSUME NEW p \in Proc, ExitNoWake(p) PROVE SlotsClaimed'
  <2>1. UNCHANGED Claimants /\ pool' = pool + 1
    BY <1>6, <1>t DEF ExitNoWake, MayExit, TypeOK, Claimants, Wakers, Resumed, ResumedFor,
                      Queued, In
  <2>2. Q' = Q /\ W' = W /\ R' = R /\ RS' = RS /\ RT' = RT /\ queue' = queue
    BY <2>1 DEF Claimants
  <2>3. CASE queue = {}
    BY <1>g, <2>2, <2>3
  <2>4. CASE queue # {}
    <3>1. PICK h \in Heads(queue) : TRUE
      BY <1>n, <1>t, <2>4, HeadExists DEF TypeOK
    <3>2. pool + 1 <= Threshold(h.event)
      BY <1>6 DEF ExitNoWake
    <3>3. h.event \in Event
      BY <1>t, NodeFields DEF Heads, TypeOK
    <3>4. Sampling => h.event = "sampling"
      BY SamplingFirst
    <3>5. \/ h.event = "sampling" /\ pool + 1 <= 0
          \/ h.event = "tuning" /\ pool + 1 <= T
      BY <3>2, <3>3, Thresholds DEF Event
    <3>6. Sampling' <=> Sampling
      BY <2>2
    <3> HIDE DEF Q, W, R, RS, RT, T, Sampling
    <3>7. /\ pool' <= T + Q' + W' + 2 * R'
          /\ Sampling' => pool' <= Q' + W' + 2 * RS' + RT'
      BY <1>n, <2>1, <2>2, <3>4, <3>5, <3>6
    <3> QED BY <1>g, <3>7
  <2> QED BY <2>3, <2>4
<1>7. ASSUME NEW p \in Proc, NEW h \in queue, ExitWake(p, h) PROVE SlotsClaimed'
  <2>1. h.pid \in Queued /\ mtx = NoProc
    <3>1. PICK q \in Queued : h = req[q]
      BY DEF WakeInv, QueueExact
    <3>2. req[q].pid = q
      BY DEF WakeInv, ReqOwned, Queued, In, Asking
    <3> QED BY <1>7, <3>1, <3>2 DEF ExitWake, MayExit
  <2>2. pc[h.pid] \in {"pausing", "paused"}
    BY <2>1, Unowned DEF In
  <2>3. /\ Wakers' = Wakers \cup {p} /\ p \notin Wakers /\ Resumed' = Resumed
        /\ \A e \in Event : ResumedFor(e)' = ResumedFor(e)
    BY <1>7, <1>t, <2>1, <2>2
    DEF ExitWake, MayExit, TypeOK, Wakers, Resumed, ResumedFor, Queued, In
  <2>4. W' = W + 1
    BY <2>3, Subsets, Counting
  <2>5. R' = R /\ RS' = RS /\ RT' = RT /\ Q' = Q /\ queue' = queue /\ pool' = pool + 1
    BY <1>7, <2>3 DEF ExitWake, Event
  <2> HIDE DEF Q, W, R, RS, RT, T
  <2> QED BY <1>c, <1>g, <1>n, <2>4, <2>5
<1>8. ASSUME NEW p \in Proc, PopHead(p) PROVE SlotsClaimed'
  <2>1. p = mtx /\ mtx # NoProc /\ Wakers = {p}
    BY <1>8, <1>t DEF PopHead, WakeInv, WakeOrder, Wakers, In
  <2>2. /\ head \in queue /\ head.pid \in Queued /\ head = req[head.pid]
        /\ pc[head.pid] = "rewait" /\ head.pid \in Proc
    BY <1>8, <2>1, Owned DEF PopHead, WakeInv, WakeSound, Queued, In
  <2>3. queue' = queue \ {head} /\ Q' = Q - 1 /\ pool' = pool
    BY <1>8, <1>n, <2>2, FS_RemoveElement DEF PopHead
  <2>4. /\ Wakers' = Wakers \ {p} /\ Resumed' = Resumed \cup {head.pid}
        /\ head.pid \notin Resumed /\ req' = req
    BY <1>8, <1>t, <2>1, <2>2, Subsets DEF PopHead, TypeOK, Wakers, Resumed, Queued, In
  <2>5. \A e \in Event :
          ResumedFor(e)' = IF e = head.event THEN ResumedFor(e) \cup {head.pid} ELSE ResumedFor(e)
    BY <2>2, <2>4 DEF ResumedFor
  <2>6. W' = W - 1 /\ R' = R + 1
    BY <2>1, <2>2, <2>4, Subsets, Counting
  <2>7. head.event = "sampling" => RS' = RS + 1 /\ RT' = RT
    <3> SUFFICES ASSUME head.event = "sampling" PROVE RS' = RS + 1 /\ RT' = RT
      OBVIOUS
    <3>1. /\ ResumedFor("sampling")' = ResumedFor("sampling") \cup {head.pid}
          /\ ResumedFor("tuning")' = ResumedFor("tuning")
          /\ head.pid \notin ResumedFor("sampling")
      BY <2>4, <2>5 DEF Event, ResumedFor, Resumed
    <3>2. ResumedFor("sampling") \subseteq Proc
      BY Subsets DEF Event
    <3> QED BY <2>2, <3>1, <3>2, Counting
  <2>8. Sampling' => Sampling /\ head.event = "sampling"
    <3>1. head \in Heads(queue)
      BY <2>1 DEF WakeInv, WakeOrder
    <3> QED BY <2>3, <3>1, SamplingFirst
  <2>9. queue' # {} => queue # {}
    BY <2>3
  <2> HIDE DEF Q, W, R, RS, RT, T, Sampling
  <2>10. /\ queue' # {} => pool' <= T + Q' + W' + 2 * R'
         /\ Sampling' => pool' <= Q' + W' + 2 * RS' + RT'
    BY <1>n, <1>c, <2>3, <2>6, <2>7, <2>8, <2>9
  <2> QED BY <1>g, <2>10
<1>9. CASE UNCHANGED vars
  <2>1. UNCHANGED Claimants /\ pool' = pool
    BY <1>9 DEF vars, Claimants, Wakers, Resumed, ResumedFor, Queued, In
  <2> QED BY <1>k, <1>n, <2>1
<1> QED
  BY <1>1, <1>2, <1>3, <1>4, <1>5, <1>6, <1>7, <1>8, <1>9 DEF Next, Step, Spawning, Exiting

LEMMA ClaimInit == Init => SlotsClaimed
BY DEF Init, SlotsClaimed

\* A free slot always has somebody who will use it while anybody waits (Sched.c:
\* 242-289): no wake-up is lost, whatever exits, waits and retries interleave.
THEOREM SlotsAlwaysClaimed ==
    ASSUME Cardinality(Proc) <= MaxQueue PROVE Spec => []SlotsClaimed
BY ClaimInit, ClaimStep, WakeInit, WakeStep, PTL DEF Spec
-----------------------------------------------------------------------------
\* When all wait for each other the claimants are all in pause(), the slots all
\* with processes in wait(): there are as many of them as the thresholds ask for.
LEMMA StuckCounts ==
    ASSUME PoolInv, WakeInv, SlotsClaimed PROVE StuckNeedsMany
<1> SUFFICES ASSUME Stuck PROVE Overcommitted
  BY DEF StuckNeedsMany
<1> DEFINE P == In({"paused"})
           H == Held
           W == In({"paused", "wait"}) \cup {Root}
<1>t. TypeOK /\ Root \in Proc /\ MaxPool \in Nat /\ TuningShare \in 1..MaxPool
  BY ProcAssumption, PoolAssumption DEF WakeInv
<1>1. \A p \in Proc : pc[p] \in {"absent", "gone", "paused", "wait"}
  BY DEF Stuck
<1>2. /\ Wakers = {} /\ Resumed = {} /\ Reserving = {}
      /\ ResumedFor("sampling") = {} /\ ResumedFor("tuning") = {}
      /\ Queued = P
  BY <1>1 DEF Wakers, Resumed, ResumedFor, Reserving, Queued, In
<1>3. P \subseteq Proc /\ H \subseteq Proc /\ P \cap H = {} /\ P \cup H \subseteq W /\ W \subseteq Proc
  BY <1>1, <1>t DEF Held, In
<1>4. /\ IsFiniteSet(P) /\ IsFiniteSet(H) /\ IsFiniteSet(W)
      /\ Cardinality(P) \in Nat /\ Cardinality(H) \in Nat /\ Cardinality(W) \in Nat
  BY <1>3, ProcAssumption, FS_Subset, FS_CardinalityType
<1>5. Cardinality(P) + Cardinality(H) <= Cardinality(W)
  <2> HIDE DEF P, H, W
  <2>1. Cardinality(P \cup H) = Cardinality(P) + Cardinality(H)
    <3>1. Cardinality(P \cup H) = Cardinality(P) + Cardinality(H) - Cardinality(P \cap H)
      BY <1>4, FS_Union
    <3>2. Cardinality(P \cap H) = 0
      BY <1>3, FS_EmptySet
    <3> QED BY <1>4, <3>1, <3>2
  <2>2. Cardinality(P \cup H) <= Cardinality(W)
    BY <1>3, <1>4, FS_Subset
  <2> QED BY <2>1, <2>2
<1>6. Cardinality(queue) <= Cardinality(P) /\ Cardinality(queue) \in Nat
  <2> DEFINE f == [p \in P |-> req[p]]
  <2>1. f \in Surjection(P, queue)
    BY <1>2 DEF WakeInv, QueueExact, Surjection
  <2> QED BY <1>4, <2>1, FS_Surjection, FS_CardinalityType
<1>7. pool = MaxPool - Cardinality(H) + Cardinality(slotless) /\ Cardinality(slotless) \in Nat
  <2>1. Cardinality(slotless) \in Nat
    BY <1>t, Counting DEF TypeOK
  <2>2. Cardinality(Reserving) = 0
    BY <1>2, FS_EmptySet
  <2>3. pool = MaxPool - Cardinality(H) - Cardinality(Reserving) + Cardinality(slotless)
    BY DEF PoolInv, PoolConservation
  <2> HIDE DEF H
  <2> QED BY <1>4, <1>t, <2>1, <2>2, <2>3
<1>8. Cardinality(Wakers) = 0 /\ Cardinality(Resumed) = 0
      /\ Cardinality(ResumedFor("sampling")) = 0 /\ Cardinality(ResumedFor("tuning")) = 0
  BY <1>2, FS_EmptySet
<1>9. queue # {}
  BY <1>2 DEF Stuck, WakeInv, QueueExact
<1>10. pool <= MaxPool - TuningShare + Cardinality(queue)
  <2>1. pool <= Threshold("tuning") + Cardinality(queue) + Cardinality(Wakers)
                + 2 * Cardinality(Resumed)
    BY <1>9 DEF SlotsClaimed, Wakers
  <2> QED BY <1>6, <1>8, <1>t, <2>1, Thresholds
<1>11. ASSUME NEW p \in P, req[p].event = "sampling" PROVE pool <= Cardinality(queue)
  <2>1. \E n \in queue : n.event = "sampling"
    BY <1>2, <1>11 DEF WakeInv, QueueExact
  <2>2. pool <= Cardinality(queue) + Cardinality(Wakers)
                + 2 * Cardinality(ResumedFor("sampling")) + Cardinality(ResumedFor("tuning"))
    BY <2>1 DEF SlotsClaimed, Wakers
  <2> QED BY <1>6, <1>8, <2>2
<1>12. Cardinality(W) >= TuningShare
  <2> HIDE DEF P, H, W
  <2> QED BY <1>t, <1>4, <1>5, <1>6, <1>7, <1>10
<1>13. ASSUME NEW p \in P, req[p].event = "sampling" PROVE Cardinality(W) >= MaxPool
  <2>1. pool <= Cardinality(queue)
    BY <1>11, <1>13
  <2> HIDE DEF P, H, W
  <2> QED BY <1>t, <1>4, <1>5, <1>6, <1>7, <2>1
<1> QED BY <1>12, <1>13 DEF Overcommitted

\* Waiting processes deadlock only when MAX_POOL_SIZE >> 4 of them wait, or
\* MAX_POOL_SIZE if one waits to fork a sampling process (Sched.c:242-289).
THEOREM DeadlockTakesMany ==
    ASSUME Cardinality(Proc) <= MaxQueue PROVE Spec => []StuckNeedsMany
BY StuckCounts, ClaimInit, ClaimStep, WakeInit, WakeStep, PoolInit, PoolStep, PTL DEF Spec

\* Waiters leave the queue in order of priority (Sched.c:75-84, 265-289).
THEOREM PriorityRespected ==
    ASSUME Cardinality(Proc) <= MaxQueue PROVE Spec => PriorityKept
<1>1. ASSUME WakeInv, [Next]_vars
      PROVE  [\A m \in queue \ queue' : \A n \in queue : ~ Outranks(n, m)]_vars
  <2>1. CASE \E p \in Proc : PopHead(p)
    <3>1. PICK p \in Proc : PopHead(p)
      BY <2>1
    <3>2. mtx # NoProc
      BY <1>1, <3>1, ProcAssumption DEF PopHead, WakeInv, WakeOrder, In
    <3>3. head \in Heads(queue) /\ queue \ queue' \subseteq {head}
      BY <1>1, <3>1, <3>2 DEF PopHead, WakeInv, WakeOrder
    <3> QED BY <3>3 DEF Heads
  <2>2. CASE ~ \E p \in Proc : PopHead(p)
    <3>1. queue \subseteq queue'
      BY <1>1, <2>2
      DEF Next, Step, Spawning, Waiting, Exiting, SpawnGrant, SpawnWait, Pause, WakeNote,
          RecheckGrant, RecheckWait, Fork, ForkUnsched, WaitChildren, WaitDone, RootEnd,
          ExitNoWake, ExitWake, ResetWake, Signal, Push, vars
    <3> QED BY <3>1
  <2> QED BY <2>1, <2>2
<1> QED BY <1>1, WakeInit, WakeStep, PTL DEF Spec, PriorityKept

-----------------------------------------------------------------------------
\* What the slot pool sees of a state.
Mapped ==
    /\ Pool!Forking = Reserving
    /\ Pool!Busy = MaxPool - pool
    /\ \A e \in Event : pool > Threshold(e) <=> Pool!Busy < Pool!Limit(e)
    /\ \A e \in Event : pool - 1 > Threshold(e) <=> Pool!Busy + 1 < Pool!Limit(e)

\* The slot pool counts with an operator of its own, defined as ours is.
LEMMA SameCount == \A S : Pool!Cardinality(S) = Cardinality(S)
BY DEF Pool!Cardinality, Cardinality

LEMMA Mapping == BoundInv => Mapped
<1> SUFFICES ASSUME BoundInv PROVE Mapped
  OBVIOUS
<1>1. TypeOK /\ pool \in Int /\ MaxPool \in Nat /\ TuningShare \in 1..MaxPool
  BY PoolAssumption DEF BoundInv, PoolInv, TypeOK
<1>2. Pool!Forking = Reserving
  <2>1. \A p \in Proc : req[p].event \in Event
    BY <1>1 DEF TypeOK, Node
  <2> QED BY <2>1 DEF Pool!Forking, Admitted, Reserving, In, Event
<1>3. Pool!Busy = MaxPool - pool
  <2>1. Held \subseteq Proc /\ Reserving \subseteq Proc /\ Root \in Proc
    BY ProcAssumption DEF Held, Reserving, In
  <2>2. Cardinality(Held) \in Nat /\ Cardinality(Reserving) \in Nat
    BY <2>1, Counting
  <2>3. pool = MaxPool - Cardinality(Held) - Cardinality(Reserving)
    <3>1. Cardinality(slotless) = 0
      BY FS_EmptySet DEF BoundInv
    <3>2. pool = MaxPool - Cardinality(Held) - Cardinality(Reserving) + Cardinality(slotless)
      BY DEF BoundInv, PoolInv, PoolConservation
    <3> QED BY <1>1, <2>2, <3>1, <3>2
  <2>4. Pool!Busy = Cardinality(Held) + Cardinality(Reserving)
    BY <1>2, SameCount DEF Pool!Busy
  <2> QED BY <1>1, <2>2, <2>3, <2>4
<1>4. \A e \in Event : /\ pool > Threshold(e) <=> Pool!Busy < Pool!Limit(e)
                       /\ pool - 1 > Threshold(e) <=> Pool!Busy + 1 < Pool!Limit(e)
  <2>1. pool > Threshold("sampling") <=> Pool!Busy < Pool!Limit("sampling")
    BY <1>1, <1>3 DEF Threshold, Pool!Limit
  <2>2. pool > Threshold("tuning") <=> Pool!Busy < Pool!Limit("tuning")
    BY <1>1, <1>3 DEF Threshold, Pool!Limit
  <2>3. pool - 1 > Threshold("sampling") <=> Pool!Busy + 1 < Pool!Limit("sampling")
    BY <1>1, <1>3 DEF Threshold, Pool!Limit
  <2>4. pool - 1 > Threshold("tuning") <=> Pool!Busy + 1 < Pool!Limit("tuning")
    BY <1>1, <1>3 DEF Threshold, Pool!Limit
  <2> QED BY <2>1, <2>2, <2>3, <2>4 DEF Event
<1> QED BY <1>2, <1>3, <1>4 DEF Mapped

LEMMA SlotStart == Init => Pool!SlotInit
<1> SUFFICES ASSUME Init PROVE Pool!SlotInit
  OBVIOUS
<1>1. Held = {Root} /\ Suspended = {} /\ Reserving = {}
  BY ProcAssumption DEF Init, Held, Suspended, Reserving, In
<1>2. Admitted = [k \in Pool!Class |-> {}]
  BY <1>1 DEF Admitted, Pool!Class, Event
<1> QED BY <1>1, <1>2 DEF Pool!SlotInit

LEMMA SlotStep ==
    ASSUME ~ UnschedFork PROVE BoundInv /\ [Next]_vars => [Pool!SlotNext]_(Pool!slots)
<1> SUFFICES ASSUME BoundInv, [Next]_vars PROVE [Pool!SlotNext]_(Pool!slots)
  OBVIOUS
<1> DEFINE Refined == [Pool!SlotNext]_(Pool!slots)
<1>t. TypeOK /\ RootStays /\ Event = Pool!Class
  BY DEF BoundInv, PoolInv, Event, Pool!Class
<1>e. \A p \in Proc : req[p].event \in Event
  BY <1>t DEF TypeOK, Node
<1>m. Mapped
  BY Mapping
<1>b. \A p \in In({"run"}) : p \in Held /\ p \notin Reserving
  BY DEF Held, Reserving, In
<1> USE <1>t DEF TypeOK
<1>1. ASSUME NEW p \in Proc, NEW n \in Requests(p), SpawnGrant(p, n) PROVE Refined
  <2>1. n.event \in Event
    BY DEF Requests, Event
  <2>2. Held' = Held /\ Suspended' = Suspended
    BY <1>1 DEF SpawnGrant, MaySpawn, Held, Suspended, In
  <2>3. Admitted' = [Admitted EXCEPT ![n.event] = @ \cup {p}]
    <3>1. Reserving' = Reserving \cup {p} /\ p \notin Reserving
      BY <1>1 DEF SpawnGrant, MaySpawn, Reserving, In
    <3>2. req'[p] = n /\ \A q \in Reserving : q \in Proc /\ req'[q] = req[q]
      BY <1>1, <3>1 DEF SpawnGrant, Reserving, In
    <3> HIDE DEF TypeOK
    <3>3. \A k \in Event : {q \in Reserving' : req'[q].event = k} =
              IF k = n.event THEN {q \in Reserving : req[q].event = k} \cup {p}
              ELSE {q \in Reserving : req[q].event = k}
      BY <3>1, <3>2
    <3> QED BY <2>1, <3>3 DEF Admitted
  <2>4. Pool!Admit(p, n.event)
    BY <1>1, <1>b, <1>m, <2>1, <2>2, <2>3 DEF SpawnGrant, MaySpawn, Mapped, Pool!Admit, In
  <2> QED BY <2>1, <2>4 DEF Pool!SlotNext
<1>2. ASSUME NEW p \in Proc, NEW n \in Requests(p), SpawnWait(p, n) PROVE Refined
  <2>1. n.event \in Event
    BY DEF Requests, Event
  <2>2. Held' = Held \ {p} /\ Suspended' = Suspended \cup {p}
    BY <1>2 DEF SpawnWait, MaySpawn, Held, Suspended, In
  <2>3. Admitted' = Admitted
    BY <1>2 DEF SpawnWait, MaySpawn, Admitted, Reserving, In
  <2>4. Pool!Busy >= Pool!Limit(n.event)
    <3>1. ~ (Pool!Busy < Pool!Limit(n.event))
      BY <1>2, <1>m, <2>1, PoolAssumption DEF SpawnWait, Mapped, Threshold
    <3>2. Pool!Busy \in Int /\ Pool!Limit(n.event) \in Int
      BY <1>m, PoolAssumption DEF Mapped, Pool!Limit
    <3> QED BY <3>1, <3>2
  <2>5. Pool!Suspend(p, n.event)
    BY <1>2, <1>b, <1>m, <2>2, <2>3, <2>4 DEF SpawnWait, MaySpawn, Mapped, Pool!Suspend, In
  <2> QED BY <2>1, <2>5 DEF Pool!SlotNext
<1>3. ASSUME NEW p \in Proc, RecheckGrant(p) PROVE Refined
  <2>1. Held' = Held \cup {p} /\ p \in Suspended
    BY <1>3 DEF RecheckGrant, Held, Suspended, In
  <2>s. Suspended' = Suspended \ {p}
    BY <1>3 DEF RecheckGrant, Suspended, In
  <2>2. Admitted' = [Admitted EXCEPT ![req[p].event] = @ \cup {p}]
    <3>1. Reserving' = Reserving \cup {p} /\ req' = req
      BY <1>3 DEF RecheckGrant, Reserving, In
    <3> HIDE DEF TypeOK
    <3> QED BY <1>e, <3>1 DEF Admitted
  <2>b. Pool!Busy + 1 < Pool!Limit(req[p].event)
    BY <1>3, <1>e, <1>m DEF RecheckGrant, Mapped
  <2>3. Pool!Resume(p, req[p].event)
    BY <2>1, <2>s, <2>b, <2>2 DEF Pool!Resume
  <2> QED BY <1>e, <2>3 DEF Pool!SlotNext
<1>4. ASSUME NEW p \in Proc, NEW c \in Proc, Fork(p, c) PROVE Refined
  <2>1. /\ Held' = Held \cup {c} /\ Suspended' = Suspended
        /\ c \notin Held /\ c \notin Suspended
    BY <1>4 DEF Fork, Held, Suspended, In
  <2>2. Admitted' = [Admitted EXCEPT ![req[p].event] = @ \ {p}]
    BY <1>4, <1>e DEF Fork, Admitted, Reserving, In
  <2>3. p \in Admitted[req[p].event]
    BY <1>4, <1>e DEF Fork, Admitted, Reserving, In
  <2>4. Pool!Beget(p, c, req[p].event)
    BY <2>1, <2>2, <2>3 DEF Pool!Beget
  <2> QED BY <1>e, <2>4 DEF Pool!SlotNext
<1>5. ASSUME NEW p \in Proc,
             ExitNoWake(p) \/ \E h \in queue : ExitWake(p, h)
      PROVE  Refined
  <2>1. Held' = Held \ {p} /\ Suspended' = Suspended /\ p \in Held /\ p \notin Reserving
    BY <1>5 DEF ExitNoWake, ExitWake, MayExit, Held, Suspended, Reserving, In
  <2>2. Admitted' = Admitted
    BY <1>5 DEF ExitNoWake, ExitWake, MayExit, Admitted, Reserving, In
  <2>3. Pool!Release(p)
    BY <1>m, <2>1, <2>2 DEF Pool!Release, Mapped
  <2> QED BY <2>3 DEF Pool!SlotNext
<1>6. ASSUME NEW p \in Proc,
             \/ Pause(p) \/ WakeNote(p) \/ RecheckWait(p) \/ Waiting(p) \/ RootEnd(p)
             \/ ResetWake(p) \/ Signal(p) \/ PopHead(p)
      PROVE  Refined
  <2>1. Held' = Held
    BY <1>6
    DEF Pause, WakeNote, RecheckWait, Waiting, WaitChildren, WaitDone, RootEnd, ResetWake,
        Signal, PopHead, RootStays, Held, In
  <2>2. Suspended' = Suspended
    BY <1>6
    DEF Pause, WakeNote, RecheckWait, Waiting, WaitChildren, WaitDone, RootEnd, ResetWake,
        Signal, PopHead, Suspended, In
  <2>3. Admitted' = Admitted
    BY <1>6
    DEF Pause, WakeNote, RecheckWait, Waiting, WaitChildren, WaitDone, RootEnd, ResetWake,
        Signal, PopHead, Admitted, Reserving, In
  <2> QED BY <2>1, <2>2, <2>3 DEF Pool!slots
<1>7. CASE UNCHANGED vars
  BY <1>7 DEF vars, Held, Suspended, Admitted, Reserving, In, Pool!slots
<1> QED
  BY <1>1, <1>2, <1>3, <1>4, <1>5, <1>6, <1>7
  DEF Next, Step, Spawning, Exiting, ForkUnsched

\* Every step of schSched, fork, wait and exit keeps to what SlotPool promises of
\* the slots (Sched.c:205-298).
THEOREM SchedIsASlotPool ==
    ASSUME ~ UnschedFork PROVE Spec => ImplementsSlotPool
<1>1. Init => BoundInv
  BY PoolInit, PoolAssumption DEF Init, BoundInv
<1> QED BY <1>1, BoundStep, SlotStart, SlotStep, PTL DEF Spec, ImplementsSlotPool, Pool!SlotSpec
=============================================================================
