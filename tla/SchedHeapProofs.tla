-------------------------- MODULE SchedHeapProofs --------------------------
(***************************************************************************)
(* The heap of SchedHeap is ordered, for any number of processes and any   *)
(* size of the queue.                                                      *)
(*                                                                         *)
(* The order is not inductive alone: while a node sifts, the order fails   *)
(* between it and its parent (up) or its children (down), and what         *)
(* restores it is that the children of the node do not outrank the node's  *)
(* parent.                                                                 *)
(***************************************************************************)
EXTENDS SchedHeap, WellFoundedInduction, TLAPS

\* The heap is ordered but for the pair above, or the pairs below, the item.
Ordered ==
    \A i \in 2..Len(heap) :
        \/ op = "up" /\ i = item
        \/ op = "down" /\ i \div 2 = item
        \/ ~ Outranks(heap[i], heap[i \div 2])

\* The children of the item do not outrank the parent of the item.
Bridged ==
    op # "idle" /\ item > 1 =>
        \A i \in 2..Len(heap) :
            i \div 2 = item => ~ Outranks(heap[i], heap[item \div 2])

ItemInHeap == op # "idle" => item \in 1..Len(heap) \/ item = 1

IInv == TypeOK /\ ItemInHeap /\ Ordered /\ Bridged

-----------------------------------------------------------------------------
\* "Does not outrank" is a total preorder, and the test of schPrioCmp decides it.
LEMMA Order ==
    ASSUME NEW l \in Node, NEW m \in Node, NEW n \in Node
    PROVE  /\ Outranks(m, n) <=> Cmp(m, n) > 0
           /\ ~ Outranks(m, n) <=> Cmp(m, n) <= 0
           /\ Outranks(m, n) => ~ Outranks(n, m)
           /\ Outranks(l, m) /\ Outranks(m, n) => Outranks(l, n)
           /\ ~ Outranks(l, m) /\ ~ Outranks(m, n) => ~ Outranks(l, n)
<1>1. \A x \in Node : x.event \in Event /\ x.todo \in Todos
    BY DEF Node
<1>2. \A x \in Node : x.event \in {"sampling", "tuning"} /\ x.todo \in Int
    <2>1. Event = {"sampling", "tuning"} /\ \A t \in Todos : t \in Int
        BY SizeAssumption DEF Event
    <2> QED BY <1>1, <2>1
<1>3. /\ l.event \in {"sampling", "tuning"} /\ l.todo \in Int
      /\ m.event \in {"sampling", "tuning"} /\ m.todo \in Int
      /\ n.event \in {"sampling", "tuning"} /\ n.todo \in Int
    BY <1>2
<1> QED BY <1>3 DEF Outranks, Cmp

\* The parent of a node of the tree.
LEMMA Parent ==
    ASSUME NEW i \in Int, i >= 2
    PROVE  /\ i \div 2 \in Int /\ 1 <= i \div 2 /\ i \div 2 < i
           /\ \A k \in Int : i \div 2 = k <=> i = 2 * k \/ i = 2 * k + 1
OBVIOUS

\* What a swap does.
LEMMA Swapped ==
    ASSUME TypeOK, NEW i \in 1..Len(heap), NEW j \in 1..Len(heap)
    PROVE  /\ Swap(i, j) \in Seq(Node)
           /\ Len(Swap(i, j)) = Len(heap)
           /\ Swap(i, j)[j] = heap[i]
           /\ i # j => Swap(i, j)[i] = heap[j]
           /\ \A k \in 1..Len(heap) : k # i /\ k # j => Swap(i, j)[k] = heap[k]
BY DEF TypeOK, Swap

-----------------------------------------------------------------------------
LEMMA PushStep ==
    ASSUME IInv, NEW n \in Node, Push(n)
    PROVE  IInv'
<1> USE DEF IInv, TypeOK, Push
<1>1. /\ heap' \in Seq(Node) /\ Len(heap') = Len(heap) + 1
      /\ \A k \in 1..Len(heap) : heap'[k] = heap[k]
    OBVIOUS
<1>2. TypeOK'
    BY <1>1, SizeAssumption
<1>3. ItemInHeap'
    BY <1>1 DEF ItemInHeap
<1>4. Ordered'
    BY <1>1, Parent DEF Ordered
<1>5. Bridged'
    BY <1>1, Parent DEF Bridged
<1> QED BY <1>2, <1>3, <1>4, <1>5

LEMMA PopStep ==
    ASSUME IInv, Pop
    PROVE  IInv'
<1> USE DEF IInv, TypeOK, Pop
<1>1. /\ heap' \in Seq(Node) /\ Len(heap') = Len(heap) - 1
      /\ \A k \in 2..Len(heap') : heap'[k] = heap[k]
    OBVIOUS
<1>2. TypeOK'
    BY <1>1, SizeAssumption
<1>3. ItemInHeap'
    BY DEF ItemInHeap
<1>4. Ordered'
    <2> SUFFICES ASSUME NEW i \in 2..Len(heap'), i \div 2 # 1
                 PROVE  ~ Outranks(heap'[i], heap'[i \div 2])
        BY DEF Ordered
    <2>1. i \div 2 \in 2..Len(heap')
        BY Parent
    <2>2. i \in 2..Len(heap) /\ heap'[i] = heap[i] /\ heap'[i \div 2] = heap[i \div 2]
        BY <2>1, <1>1
    <2> QED BY <2>2 DEF Ordered
<1>5. Bridged'
    BY DEF Bridged
<1> QED BY <1>2, <1>3, <1>4, <1>5

LEMMA PushDoneStep ==
    ASSUME IInv, PushDone
    PROVE  IInv'
<1> USE DEF IInv, TypeOK, PushDone
<1>1. TypeOK' /\ ItemInHeap' /\ Bridged'
    BY DEF ItemInHeap, Bridged
<1>2. Ordered'
    <2> SUFFICES ASSUME NEW i \in 2..Len(heap)
                 PROVE  ~ Outranks(heap[i], heap[i \div 2])
        BY DEF Ordered
    <2> heap[i] \in Node /\ heap[i \div 2] \in Node
        BY Parent
    <2>1. CASE i # item
        BY <2>1 DEF Ordered
    <2>2. CASE i = item
        BY <2>2, Order DEF Rises
    <2> QED BY <2>1, <2>2
<1> QED BY <1>1, <1>2

LEMMA PopDoneStep ==
    ASSUME IInv, PopDone
    PROVE  IInv'
<1> USE DEF IInv, TypeOK, PopDone
<1>1. TypeOK' /\ ItemInHeap' /\ Bridged'
    BY DEF ItemInHeap, Bridged
<1>2. Ordered'
    <2> SUFFICES ASSUME NEW i \in 2..Len(heap)
                 PROVE  ~ Outranks(heap[i], heap[i \div 2])
        BY DEF Ordered
    <2> heap[i] \in Node /\ heap[i \div 2] \in Node
        BY Parent
    <2>1. CASE i \div 2 # item
        BY <2>1 DEF Ordered
    <2>2. CASE i \div 2 = item
        <3>1. i \in {Left, Right}
            BY <2>2, Parent DEF Left, Right
        <3>2. ~ Cmp(heap[item], heap[i]) <= 0
            BY <3>1 DEF Below
        <3> QED BY <2>2, <3>2, Order
    <2> QED BY <2>1, <2>2
<1> QED BY <1>1, <1>2

\* The item rises above its parent p.
LEMMA SiftUpStep ==
    ASSUME IInv, SiftUp
    PROVE  IInv'
<1> USE DEF IInv, TypeOK, SiftUp
<1> DEFINE p == item \div 2
<1>1. /\ item \in 2..Len(heap) /\ p \in 1..Len(heap) /\ p < item
      /\ heap' = Swap(item, p) /\ item' = p
    BY Parent DEF Rises, ItemInHeap
<1>2. /\ heap' \in Seq(Node) /\ Len(heap') = Len(heap)
      /\ heap'[p] = heap[item] /\ heap'[item] = heap[p]
      /\ \A k \in 1..Len(heap) : k # item /\ k # p => heap'[k] = heap[k]
    BY <1>1, Swapped
<1>3. Outranks(heap[item], heap[p])
    BY <1>1, Order DEF Rises
<1> HIDE DEF p
<1>4. TypeOK' /\ ItemInHeap'
    BY <1>1, <1>2, SizeAssumption DEF ItemInHeap
<1>5. \A k \in 1..Len(heap) : heap[k] \in Node
    OBVIOUS
<1>6. \A i \in 2..Len(heap) : i # item /\ i \div 2 = p => ~ Outranks(heap[i], heap[p])
    BY DEF Ordered
<1>7. Ordered'
    <2> SUFFICES ASSUME NEW i \in 2..Len(heap), i # p
                 PROVE  ~ Outranks(heap'[i], heap'[i \div 2])
        BY <1>1, <1>2 DEF Ordered
    <2>1. i \div 2 \in 1..Len(heap) /\ i \div 2 # i
        BY Parent
    <2>2. CASE i = item
        BY <2>2, <1>1, <1>2, <1>3, <1>5, Order DEF p
    <2>3. CASE i # item /\ i \div 2 = p
        <3>1. ~ Outranks(heap[i], heap[p])
            BY <2>3, <1>6
        <3>2. ~ Outranks(heap[i], heap[item])
            BY <3>1, <1>1, <1>3, <1>5, Order
        <3> QED BY <2>3, <3>2, <1>2
    <2>4. CASE i # item /\ i \div 2 = item
        <3>1. ~ Outranks(heap[i], heap[p])
            BY <2>4, <1>1 DEF Bridged, p
        <3> QED BY <2>4, <3>1, <1>2
    <2>5. CASE i # item /\ i \div 2 # item /\ i \div 2 # p
        BY <2>5, <2>1, <1>2 DEF Ordered
    <2> QED BY <2>2, <2>3, <2>4, <2>5
<1>8. Bridged'
    <2> SUFFICES ASSUME p > 1, NEW i \in 2..Len(heap), i \div 2 = p
                 PROVE  ~ Outranks(heap'[i], heap'[p \div 2])
        BY <1>1, <1>2 DEF Bridged
    <2> DEFINE g == p \div 2
    <2>1. g \in 1..Len(heap) /\ g # item /\ g # p /\ i # p
        BY <1>1, Parent
    <2>2. ~ Outranks(heap[p], heap[g])
        BY <1>1 DEF Ordered
    <2>3. heap'[g] = heap[g]
        BY <2>1, <1>2
    <2> HIDE DEF g
    <2>4. CASE i = item
        BY <2>4, <2>2, <2>3, <1>2 DEF g
    <2>5. CASE i # item
        <3>1. ~ Outranks(heap[i], heap[p])
            BY <2>5, <1>6
        <3>2. ~ Outranks(heap[i], heap[g])
            BY <3>1, <2>1, <2>2, <1>1, <1>5, Order
        <3> QED BY <2>1, <2>3, <2>5, <3>2, <1>2 DEF g
    <2> QED BY <2>4, <2>5
<1> QED BY <1>4, <1>7, <1>8

\* The item sinks below its child c.
LEMMA SiftDownStep ==
    ASSUME IInv, SiftDown
    PROVE  IInv'
<1> USE DEF IInv, TypeOK, SiftDown
<1>1. PICK c \in Below :
          /\ Below = {Left, Right} =>
                c = IF Cmp(heap[Left], heap[Right]) > 0 THEN Left ELSE Right
          /\ heap' = Swap(item, c)
          /\ item' = c
    OBVIOUS
<1>2. /\ c \in 2..Len(heap) /\ c \div 2 = item /\ item \in 1..Len(heap) /\ item < c
      /\ Cmp(heap[item], heap[c]) <= 0
    BY Parent DEF Below, Left, Right, ItemInHeap
<1>3. /\ heap' \in Seq(Node) /\ Len(heap') = Len(heap)
      /\ heap'[c] = heap[item] /\ heap'[item] = heap[c]
      /\ \A k \in 1..Len(heap) : k # item /\ k # c => heap'[k] = heap[k]
    BY <1>1, <1>2, Swapped
<1>4. TypeOK' /\ ItemInHeap'
    BY <1>1, <1>2, <1>3, SizeAssumption DEF ItemInHeap
<1>5. \A k \in 1..Len(heap) : heap[k] \in Node
    OBVIOUS
<1>6. ~ Outranks(heap[item], heap[c])
    BY <1>2, <1>5, Order
<1>7. Ordered'
    <2> SUFFICES ASSUME NEW i \in 2..Len(heap), i \div 2 # c
                 PROVE  ~ Outranks(heap'[i], heap'[i \div 2])
        BY <1>1, <1>3 DEF Ordered
    <2>1. i \div 2 \in 1..Len(heap) /\ i \div 2 # i
        BY Parent
    <2>2. CASE i = c
        BY <2>2, <1>2, <1>3, <1>6
    <2>3. CASE i # c /\ i \div 2 = item
        <3>1. i \in {Left, Right} /\ c \in {Left, Right}
            BY <2>3, <1>2, Parent DEF Left, Right
        <3>2. CASE i \in Below
            <4>1. Below = {Left, Right}
                BY <3>1, <3>2, <2>3 DEF Below
            <4>2. c = IF Cmp(heap[Left], heap[Right]) > 0 THEN Left ELSE Right
                BY <4>1, <1>1
            <4>3. ~ Outranks(heap[i], heap[c])
                <5>1. CASE c = Left
                    BY <5>1, <4>2, <3>1, <2>3, <1>2, <1>5, Order DEF Left, Right
                <5>2. CASE c = Right
                    BY <5>2, <4>2, <3>1, <2>3, <1>2, <1>5, Order DEF Left, Right
                <5> QED BY <5>1, <5>2, <3>1
            <4> QED BY <2>3, <4>3, <2>1, <1>3
        <3>3. CASE i \notin Below
            <4>1. ~ Cmp(heap[item], heap[i]) <= 0
                BY <3>1, <3>3 DEF Below
            <4>2. Outranks(heap[item], heap[i])
                BY <4>1, <1>2, <1>5, Order
            <4>3. ~ Outranks(heap[i], heap[c])
                BY <4>2, <1>2, <1>5, <1>6, Order
            <4> QED BY <2>3, <4>3, <2>1, <1>3
        <3> QED BY <3>2, <3>3
    <2>4. CASE i = item
        BY <2>4, <2>1, <1>2, <1>3 DEF Bridged
    <2>5. CASE i # c /\ i # item /\ i \div 2 # item
        BY <2>5, <2>1, <1>3 DEF Ordered
    <2> QED BY <2>2, <2>3, <2>4, <2>5
<1>8. Bridged'
    <2> SUFFICES ASSUME NEW i \in 2..Len(heap), i \div 2 = c
                 PROVE  ~ Outranks(heap'[i], heap'[c \div 2])
        BY <1>1, <1>3 DEF Bridged
    <2>1. i # c /\ i # item
        BY <1>2, Parent
    <2> QED BY <2>1, <1>2, <1>3 DEF Ordered
<1> QED BY <1>4, <1>7, <1>8

-----------------------------------------------------------------------------
LEMMA Invariance == Spec => []IInv
<1>1. Init => IInv
    BY SizeAssumption DEF Init, IInv, TypeOK, ItemInHeap, Ordered, Bridged
<1>2. IInv /\ [Next]_vars => IInv'
    <2> SUFFICES ASSUME IInv, [Next]_vars PROVE IInv'
        OBVIOUS
    <2>1. CASE UNCHANGED vars
        BY <2>1 DEF vars, IInv, TypeOK, ItemInHeap, Ordered, Bridged
    <2>2. CASE Next
        BY <2>2, PushStep, PopStep, PushDoneStep, PopDoneStep, SiftUpStep,
           SiftDownStep DEF Next
    <2> QED BY <2>1, <2>2
<1> QED BY <1>1, <1>2, PTL DEF Spec

\* The array keeps its type, whatever is pushed and popped (Sched.c:95-169).
THEOREM TypeCorrect == Spec => []TypeOK
BY Invariance, PTL DEF IInv

\* Between two calls no node outranks its parent, for a heap of any size
\* (Sched.c:95-169).
THEOREM HeapOrdered == Spec => []HeapOrder
<1>1. IInv => HeapOrder
    BY DEF IInv, Ordered, HeapOrder
<1> QED BY Invariance, <1>1, PTL

-----------------------------------------------------------------------------
LEMMA Least ==
    ASSUME NEW T, T \subseteq Nat, T # {}
    PROVE  \E x \in T : \A y \in T : x <= y
<1>1. PICK x \in T : \A y \in T : ~ (<<y, x>> \in OpToRel(<, Nat))
    BY NatLessThanWellFounded, WFMin
<1>2. \A y \in T : ~ (y < x)
    BY <1>1 DEF OpToRel
<1> QED BY <1>2

\* The least place of a node that outranks the root would have a parent that
\* outranks it, too.
LEMMA RootOnTop == IInv => RootIsHead
<1> SUFFICES ASSUME IInv, op = "idle", heap # <<>>
             PROVE  heap[1] \in Heads(Queue)
    BY DEF RootIsHead
<1> USE DEF IInv, TypeOK
<1>1. 1 \in 1..Len(heap) /\ \A i \in 1..Len(heap) : heap[i] \in Node
    OBVIOUS
<1> DEFINE Above == {i \in 1..Len(heap) : Outranks(heap[i], heap[1])}
<1>2. ASSUME Above # {} PROVE FALSE
    <2>. Above \subseteq Nat
        OBVIOUS
    <2>. HIDE DEF Above
    <2>1. PICK k \in Above : \A y \in Above : k <= y
        BY <1>2, Least
    <2>2. k \in 1..Len(heap) /\ Outranks(heap[k], heap[1])
        BY DEF Above
    <2>3. k # 1
        BY <2>2, <1>1, Order
    <2>4. k \div 2 \in 1..Len(heap) /\ k \div 2 < k
        BY <2>2, <2>3, Parent
    <2>5. ~ Outranks(heap[k \div 2], heap[1])
        BY <2>1, <2>2, <2>4 DEF Above
    <2>6. ~ Outranks(heap[k], heap[k \div 2])
        BY <2>2, <2>3 DEF Ordered
    <2> QED BY <2>2, <2>4, <2>5, <2>6, <1>1, Order
<1> QED BY <1>1, <1>2 DEF Heads, Queue

\* schPQ[0] is a node that no waiter outranks, for a heap of any size (Sched.c:265).
THEOREM RootOutrankedByNone == Spec => []RootIsHead
BY Invariance, RootOnTop, PTL

-----------------------------------------------------------------------------
\* No node is in the heap twice.
Distinct == \A i, j \in 1..Len(heap) : heap[i] = heap[j] => i = j

LEMMA SameHeads == \A q : PQ!Heads(q) = Heads(q)
BY DEF PQ!Heads, PQ!Outranks, Heads, Outranks

\* A swap permutes.
LEMMA Permuted ==
    ASSUME TypeOK, Distinct, NEW i \in 1..Len(heap), NEW j \in 1..Len(heap), i # j,
           heap' = Swap(i, j)
    PROVE  Distinct' /\ Queue' = Queue
<1>1. /\ heap' \in Seq(Node) /\ Len(heap') = Len(heap)
      /\ heap'[i] = heap[j] /\ heap'[j] = heap[i]
      /\ \A k \in 1..Len(heap) : k # i /\ k # j => heap'[k] = heap[k]
    BY Swapped
<1>2. DOMAIN heap = 1..Len(heap) /\ DOMAIN heap' = 1..Len(heap)
    BY <1>1 DEF TypeOK
<1>3. Distinct'
    BY <1>1 DEF Distinct
<1>4. Queue' = Queue
    <2> DEFINE to(k) == IF k = i THEN j ELSE IF k = j THEN i ELSE k
    <2>1. \A k \in 1..Len(heap) : to(k) \in 1..Len(heap) /\ heap'[k] = heap[to(k)]
                                   /\ heap[k] = heap'[to(k)]
        BY <1>1
    <2>2. \A n : n \in Queue' <=> n \in Queue
        <3> HIDE DEF to
        <3> QED BY <1>2, <2>1 DEF Queue
    <2> QED BY <2>2
<1> QED BY <1>3, <1>4

LEMMA QueueStep ==
    ASSUME IInv, Distinct, [Next]_vars
    PROVE  Distinct' /\ [PQ!Next]_Queue
<1>t. heap \in Seq(Node) /\ DOMAIN heap = 1..Len(heap) /\ Len(heap) \in Nat
    BY DEF IInv, TypeOK
<1>1. ASSUME NEW n \in Node, Push(n) PROVE Distinct' /\ [PQ!Next]_Queue
    <2>1. n \notin Queue
        BY <1>1 DEF Push
    <2>2. /\ heap' \in Seq(Node) /\ Len(heap') = Len(heap) + 1
          /\ DOMAIN heap' = 1..(Len(heap) + 1) /\ heap'[Len(heap) + 1] = n
          /\ \A k \in 1..Len(heap) : heap'[k] = heap[k]
        BY <1>1, <1>t DEF Push
    <2>3. \A k \in 1..Len(heap) : heap[k] # n
        BY <2>1, <1>t DEF Queue
    <2>4. Distinct'
        BY <1>t, <2>2, <2>3 DEF Distinct
    <2>5. Queue' = Queue \cup {n}
        <3>1. \A k \in 1..(Len(heap) + 1) : k \in 1..Len(heap) \/ k = Len(heap) + 1
            BY <1>t
        <3> QED BY <1>t, <2>2, <3>1 DEF Queue
    <2> QED BY <2>1, <2>4, <2>5 DEF PQ!Next, PQ!Push
<1>2. ASSUME Pop PROVE Distinct' /\ [PQ!Next]_Queue
    <2> DEFINE last == Len(heap)
    <2>1. /\ last >= 1 /\ heap' = [i \in 1..(last - 1) |-> heap[IF i = 1 THEN last ELSE i]]
          /\ op = "idle" /\ heap # <<>>
        BY <1>2, <1>t DEF Pop
    <2>2. /\ heap' \in Seq(Node) /\ Len(heap') = last - 1 /\ DOMAIN heap' = 1..(last - 1)
          /\ \A k \in 1..(last - 1) : heap'[k] = heap[IF k = 1 THEN last ELSE k]
        BY <2>1, <1>t
    <2>3. heap[1] \in Heads(Queue) /\ heap[1] \in Node
        BY <2>1, <1>t, RootOnTop DEF RootIsHead
    <2>4. Distinct'
        BY <1>t, <2>1, <2>2 DEF Distinct
    <2>5. Queue' = Queue \ {heap[1]}
        <3>1. ASSUME NEW k \in 1..(last - 1)
              PROVE  heap'[k] \in Queue /\ heap'[k] # heap[1]
            <4>1. (IF k = 1 THEN last ELSE k) \in 2..last
                BY <1>t, <3>1
            <4> QED BY <1>t, <2>2, <3>1, <4>1 DEF Distinct, Queue
        <3>2. ASSUME NEW k \in 1..last, heap[k] # heap[1] PROVE heap[k] \in Queue'
            <4>1. k # 1
                BY <3>2
            <4>2. CASE k = last
                BY <1>t, <2>2, <4>1, <4>2 DEF Queue
            <4>3. CASE k # last
                <5>0. \A m \in Nat : \A x \in 1..m : x # m => x \in 1..(m - 1)
                    OBVIOUS
                <5>1. k \in 1..(last - 1)
                    <6> last \in Nat
                        BY <1>t
                    <6> HIDE DEF last
                    <6> QED BY <4>3, <5>0
                <5>2. k \in DOMAIN heap' /\ heap'[k] = heap[k]
                    BY <2>2, <4>1, <5>1
                <5> QED BY <5>2 DEF Queue
            <4> QED BY <4>2, <4>3
        <3> QED BY <1>t, <2>2, <3>1, <3>2 DEF Queue
    <2>6. PQ!Pop(heap[1])
        BY <2>3, <2>5, SameHeads DEF PQ!Pop
    <2> QED BY <2>3, <2>4, <2>6 DEF PQ!Next
<1>3. ASSUME SiftUp PROVE Distinct' /\ [PQ!Next]_Queue
    <2>1. item \in 2..Len(heap) /\ item \div 2 \in 1..Len(heap) /\ item \div 2 # item
        BY <1>3, Parent DEF SiftUp, Rises, IInv, ItemInHeap, TypeOK
    <2> QED BY <1>3, <2>1, Permuted DEF SiftUp, IInv
<1>4. ASSUME SiftDown PROVE Distinct' /\ [PQ!Next]_Queue
    <2>1. PICK c \in Below : heap' = Swap(item, c)
        BY <1>4 DEF SiftDown
    <2>2. c \in 1..Len(heap) /\ item \in 1..Len(heap) /\ item # c
        BY <1>4, <1>t DEF SiftDown, Below, Left, Right, IInv, ItemInHeap, TypeOK
    <2> QED BY <2>1, <2>2, Permuted DEF IInv
<1>5. CASE PushDone \/ PopDone \/ UNCHANGED vars
    BY <1>5 DEF PushDone, PopDone, vars, Distinct, Queue
<1> QED BY <1>1, <1>2, <1>3, <1>4, <1>5 DEF Next

\* schPushPQ and schPopPQ are a priority queue, for a queue of any size: sifting
\* neither loses nor copies a node (Sched.c:95-169).
THEOREM HeapIsAQueue == Spec => ImplementsPQ
<1>1. Init => Distinct /\ Queue = {}
    BY DEF Init, Distinct, Queue
<1> QED BY <1>1, QueueStep, Invariance, PTL DEF Spec, ImplementsPQ, PQ!PQSpec
=============================================================================
